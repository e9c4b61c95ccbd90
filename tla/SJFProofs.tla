----------------------------- MODULE SJFProofs -----------------------------
(***************************************************************************)
(* Under SJF no process and no memory is ever lost, the scheduler does not *)
(* stop before all are through, what it reports is so, and it keeps the    *)
(* promise of Processor: for every workload, every size of the memory,     *)
(* late messages, missed ticks.                                            *)
(***************************************************************************)
EXTENDS SJF, SchedulerProofs

\* Who runs or ran last was received.
CurrentReceived == curr_Proc # None => curr_Proc <= received

\* The own count of SJF_Algo, which becomes the common one in the next pass.
OwnCountIsOfDone == process_count <= Cardinality(Done)

IInv ==
  SharedInv /\ TypeOK /\ NoneLost /\ CurrentReceived /\ WorkLeft /\ OwnCountIsOfDone

-----------------------------------------------------------------------------
LEMMA InitIInv == Init => IInv
<1> SUFFICES ASSUME Init PROVE IInv
  OBVIOUS
<1>1. SharedInv /\ Holders = {} /\ Done = {}
  BY SharedInitInv DEF Init
<1>2. Range(<<>>) = {} /\ IsInjective(<<>>) /\ <<>> \in Seq(Procs)
  BY EmptyQueue
<1>3. WorkLeft
  BY <1>1, UnbornType DEF Init, SharedInit, WorkLeft
<1>4. TypeOK
  BY <1>1, <1>2, <1>3 DEF Init, TypeOK, SharedInv, WorkLeft
<1>5. NoneLost
  BY <1>1, <1>2 DEF Init, NoneLost, NoDuplicates, NothingRuns
<1>6. CurrentReceived /\ OwnCountIsOfDone
  BY <1>1, FS_EmptySet DEF Init, CurrentReceived, OwnCountIsOfDone
<1> QED BY <1>1, <1>3, <1>4, <1>5, <1>6 DEF IInv

LEMMA PositionIsInList ==
  ASSUME NEW list \in Seq(Procs), NEW priority
  PROVE  PushPosition(list, priority) \in 1 .. Len(list) + 1
<1> DEFINE S == {i \in 2 .. Len(list) : proc[list[i]].Priority >= priority} \cup {Len(list) + 1}
<1>1. Len(list) \in Nat
  BY LenProperties
<1>2. S \subseteq 1 .. Len(list) + 1 /\ S \subseteq Nat /\ S # {}
  BY <1>1
<1>3. Min(S) \in S
  BY <1>2, MinIsLeast
<1> QED BY <1>1, <1>2, <1>3 DEF PushPosition

LEMMA TickIInv ==
  ASSUME IInv, Tick, UNCHANGED <<listVars, process_count, last_up>>
  PROVE  IInv'
<1>1. SharedInv' /\ Holders' = Holders /\ Done' = Done /\ proc' = proc /\ received' = received
  BY TickInv DEF IInv, Tick
<1>2. UNCHANGED <<Priority_List_HPF_SJF, curr_Proc, process_count, last_up>>
  BY DEF listVars
<1>3. WorkLeft' /\ CurrentReceived' /\ OwnCountIsOfDone'
  BY <1>1, <1>2 DEF IInv, WorkLeft, CurrentReceived, OwnCountIsOfDone
<1>4. NoneLost'
  BY <1>1, <1>2 DEF IInv, NoneLost, NoDuplicates, NothingRuns
<1>5. TypeOK'
  BY <1>1, <1>2, <1>3 DEF IInv, TypeOK, SharedInv, WorkLeft
<1> QED BY <1>1, <1>3, <1>4, <1>5 DEF IInv

LEMMA RefuseIInv ==
  ASSUME IInv, RefuseProcess
  PROVE  IInv'
<1>1. PICK r : r = received'
  OBVIOUS
<1>2. /\ SharedInv' /\ Holders' = Holders /\ Cardinality(Done') = Cardinality(Done) + 1
      /\ received' = received + 1 /\ r \in Procs
      /\ proc'[r].memindex = NoPlace /\ proc'[r].Remaining_time \in Nat \ {0}
      /\ \A p \in Procs \ {r} : proc'[p] = proc[p]
  BY <1>1, RefuseInv DEF IInv, RefuseProcess
<1>3. UNCHANGED <<Priority_List_HPF_SJF, curr_Proc, process_count, last_up>>
  BY DEF RefuseProcess, listVars
<1>4. received \in Nat /\ Cardinality(Done) \in Nat
  BY SetsOfReceived, ConstantTypes DEF IInv, SharedInv, SharedTypeOK, Done
<1>5. r \notin Holders /\ (curr_Proc # None => curr_Proc # r)
  <2>1. r > received
    BY <1>1, <1>2, <1>4
  <2>2. r \notin Holders
    BY <1>2, <2>1 DEF IInv, SharedInv, RecordsFilled, Holders, Holds
  <2>3. curr_Proc # None => curr_Proc <= received
    BY DEF IInv, CurrentReceived
  <2> QED BY <1>1, <1>2, <1>4, <2>2, <2>3
<1>6. WorkLeft'
  BY RefuseLeavesWork DEF IInv, RefuseProcess
<1>7. CurrentReceived' /\ OwnCountIsOfDone'
  <2>1. curr_Proc # None => curr_Proc <= received /\ curr_Proc \in Nat
    BY DEF IInv, TypeOK, CurrentReceived, Procs
  <2>2. process_count \in Nat /\ process_count <= Cardinality(Done)
    BY DEF IInv, TypeOK, OwnCountIsOfDone
  <2>3. CurrentReceived'
    BY <1>2, <1>3, <1>4, <2>1 DEF CurrentReceived
  <2>4. OwnCountIsOfDone'
    BY <1>2, <1>3, <1>4, <2>2 DEF OwnCountIsOfDone
  <2> QED BY <2>3, <2>4
<1>8. NothingRuns' = NothingRuns
  BY <1>2, <1>3, <1>5 DEF IInv, TypeOK, NothingRuns
<1>9. NoneLost'
  BY <1>2, <1>3, <1>8 DEF IInv, NoneLost, NoDuplicates
<1>10. TypeOK'
  BY <1>2, <1>3, <1>6 DEF IInv, TypeOK, SharedInv, WorkLeft
<1> QED BY <1>2, <1>6, <1>7, <1>9, <1>10 DEF IInv

\* What a received process changes in the records: its own, and the state of
\* the front, which is not finished.
LEMMA PushedRecords ==
  ASSUME IInv, NEW n \in Messages, Accept(n), PushIntoPriorityQueue(n),
         NEW r, r = received + 1
  PROVE  /\ r \in Procs
         /\ proc' \in [Procs -> ProcessRecords] /\ proc'[r] = n
         /\ \A p \in Procs \ {r} : SameMemory(p)
         /\ \A p \in Procs \ {r} : proc'[p].Remaining_time = proc[p].Remaining_time
         /\ \A p \in Procs \ {r} : /\ proc'[p].Priority = proc[p].Priority
                                   /\ proc'[p].Running_time = proc[p].Running_time
         /\ \A p \in Procs \ {r} : SameTimes(p)
<1> DEFINE pushed == IF Displaces(Priority_List_HPF_SJF, n.Priority)
                     THEN SetState(proc, front, "STOPPED") ELSE proc
<1>1. r \in Procs
  <2>1. received \in 0 .. Count_OF_Processes /\ received < Count_OF_Processes
    BY DEF IInv, SharedInv, SharedTypeOK, Accept, Receive
  <2> QED BY <2>1, ConstantTypes DEF Procs
<1>2. proc \in [Procs -> ProcessRecords] /\ n \in ProcessRecords /\ SameWork(proc)
  BY MessageTypes, NothingSet DEF IInv, SharedInv, SharedTypeOK, ProcessRecords
<1>3. Displaces(Priority_List_HPF_SJF, n.Priority) => front \in Holders
  <2>1. Priority_List_HPF_SJF # <<>> => Head(Priority_List_HPF_SJF) \in Range(Priority_List_HPF_SJF)
    BY PoppedQueue DEF IInv, TypeOK
  <2> QED BY <2>1 DEF IInv, NoneLost, Displaces, front
<1>4. SameWork(pushed) /\ KeptTimes(pushed, {}, follow)
  <2>1. "STOPPED" \in States /\ KeptTimes(proc, {}, follow)
    BY NothingKept DEF States
  <2>2. SameWork(pushed)
    BY <1>2, <1>3, <2>1, SetStateIsSameWork
  <2>3. KeptTimes(pushed, {}, follow)
    BY <1>2, <1>3, <2>1, SetStateKeepsTimes DEF Holders
  <2> QED BY <2>2, <2>3
<1>5. proc' = [pushed EXCEPT ![r] = n]
  BY DEF PushIntoPriorityQueue
<1> HIDE DEF pushed
<1>6. pushed \in [Procs -> ProcessRecords]
  BY <1>4 DEF SameWork
<1>7. proc' \in [Procs -> ProcessRecords] /\ proc'[r] = n /\ \A p \in Procs \ {r} : proc'[p] = pushed[p]
  BY <1>1, <1>2, <1>5, <1>6
<1>8. \A p \in Procs \ {r} : SameTimes(p)
  BY <1>4, <1>7 DEF SameWork, KeptTimes, SameTimes
<1> QED BY <1>1, <1>4, <1>7, <1>8 DEF SameMemory, SameWork

LEMMA ReceiveIInv ==
  ASSUME IInv, ReceiveProcess
  PROVE  IInv'
<1> DEFINE list == Priority_List_HPF_SJF
<1>1. PICK n \in Messages :
        Accept(n) /\ PushIntoPriorityQueue(n) /\ UNCHANGED <<curr_Proc, process_count, last_up>>
  BY DEF ReceiveProcess
<1>2. PICK r : r = received + 1
  OBVIOUS
<1>3. /\ r \in Procs
      /\ proc' \in [Procs -> ProcessRecords] /\ proc'[r] = n
      /\ \A p \in Procs \ {r} : SameMemory(p) /\ proc'[p].Remaining_time = proc[p].Remaining_time
  BY <1>1, <1>2, PushedRecords
<1>4. /\ SharedInv' /\ r \notin Holders /\ Holders' = Holders \cup {r} /\ Done' = Done
  BY <1>1, <1>2, <1>3, AcceptInv DEF IInv
<1>5. received \in Nat /\ received' = r
  BY <1>1, <1>2, ConstantTypes DEF Accept, Receive, IInv, SharedInv, SharedTypeOK
<1>6. curr_Proc # None => curr_Proc # r
  <2>1. curr_Proc # None => curr_Proc <= received
    BY DEF IInv, CurrentReceived
  <2> QED BY <1>2, <1>5, <2>1
<1>7. /\ list' \in Seq(Procs) /\ Range(list') = Range(list) \cup {r} /\ IsInjective(list')
  <2>1. list \in Seq(Procs) /\ IsInjective(list) /\ r \notin Range(list)
    BY <1>4 DEF IInv, TypeOK, NoneLost, NoDuplicates
  <2>2. list' = InsertAt(list, PushPosition(list, n.Priority), r)
    BY <1>1, <1>2 DEF PushIntoPriorityQueue
  <2> QED BY <1>3, <2>1, <2>2, PositionIsInList, InsertedInQueue
<1>8. WorkLeft'
  BY <1>3, <1>4, AcceptLeavesWork DEF IInv
<1>9. CurrentReceived' /\ OwnCountIsOfDone'
  BY <1>1, <1>2, <1>4, <1>5 DEF IInv, TypeOK, CurrentReceived, OwnCountIsOfDone, Procs
<1>10. NothingRuns' = NothingRuns
  BY <1>1, <1>3, <1>6 DEF IInv, TypeOK, NothingRuns, SameMemory
<1>11. NoneLost'
  BY <1>1, <1>4, <1>6, <1>7, <1>10 DEF IInv, NoneLost, NoDuplicates, NothingRuns
<1>12. TypeOK'
  BY <1>1, <1>4, <1>7, <1>8 DEF IInv, TypeOK, SharedInv, WorkLeft
<1> QED BY <1>4, <1>8, <1>9, <1>11, <1>12 DEF IInv

\* The records in which r may run: those of this state, but for the state of r.
ReadyToRun(r, list, procs) ==
  /\ r \in Holders
  /\ list \in Seq(Procs) /\ IsInjective(list) /\ r \notin Range(list)
  /\ Holders = Range(list) \cup {r}
  /\ SameWork(procs)

LEMMA RunRecords ==
  ASSUME IInv, NEW r, NEW list, NEW procs, NEW counts, NEW lines,
         ReadyToRun(r, list, procs), RunCurrProcess(r, list, procs, counts, lines)
  PROVE  /\ Ran(r) /\ r \in Procs /\ proc[r].Remaining_time \in Nat \ {0}
         /\ \A p \in Procs : /\ proc'[p].Priority = proc[p].Priority
                             /\ proc'[p].Running_time = proc[p].Running_time
<1> DEFINE charged == Charge(procs, r, Range(list))
<1>1. r \in Procs
  BY DEF ReadyToRun, Holders
<1>2. proc[r].Remaining_time \in Nat \ {0}
  BY <1>1 DEF IInv, SharedInv, SharedTypeOK, WorkLeft, ReadyToRun
<1>3. \A p \in Procs : /\ procs[p].memindex = proc[p].memindex
                       /\ procs[p].no_of_blocks = proc[p].no_of_blocks
                       /\ procs[p].Remaining_time = proc[p].Remaining_time
                       /\ procs[p].Priority = proc[p].Priority
                       /\ procs[p].Running_time = proc[p].Running_time
                       /\ procs[p].State = "FINISHED" <=> proc[p].State = "FINISHED"
  BY DEF ReadyToRun, SameWork
<1>4. /\ charged \in [Procs -> ProcessRecords]
      /\ \A p \in Procs :
           /\ charged[p].memindex = procs[p].memindex
           /\ charged[p].no_of_blocks = procs[p].no_of_blocks
           /\ charged[p].State = procs[p].State
           /\ charged[p].Priority = procs[p].Priority
           /\ charged[p].Running_time = procs[p].Running_time
           /\ charged[p].Remaining_time = procs[p].Remaining_time - IF p = r THEN 1 ELSE 0
  BY <1>1, ChargeRecords DEF ReadyToRun, SameWork
<1>5. /\ proc' = IF charged[r].Remaining_time = 0 THEN Finish(charged, r, follow + 1) ELSE charged
      /\ mem' = IF charged[r].Remaining_time = 0 THEN FreeMemoryOf(charged[r]) ELSE mem
  BY DEF RunCurrProcess
<1> HIDE DEF charged
<1>6. /\ charged[r].Remaining_time = 0 <=> proc[r].Remaining_time = 1
      /\ charged[r].Remaining_time = proc[r].Remaining_time - 1
      /\ charged[r].State # "FINISHED"
  BY <1>1, <1>2, <1>3, <1>4 DEF ReadyToRun, Holders, Holds
<1>7. \A p \in Procs : /\ charged[p].memindex = proc[p].memindex
                       /\ charged[p].no_of_blocks = proc[p].no_of_blocks
                       /\ charged[p].Priority = proc[p].Priority
                       /\ charged[p].Running_time = proc[p].Running_time
                       /\ charged[p].State = "FINISHED" <=> proc[p].State = "FINISHED"
  BY <1>3, <1>4
<1>8. ASSUME NEW p \in Procs \ {r} PROVE charged[p].Remaining_time = proc[p].Remaining_time
  <2>1. proc[p].Remaining_time \in Int
    BY DEF IInv, SharedInv, SharedTypeOK
  <2> QED BY <1>3, <1>4, <2>1
<1>9. CASE charged[r].Remaining_time = 0
  <2>1. PICK time \in Int : time = follow + 1
    BY DEF IInv, SharedInv, SharedTypeOK
  <2>2. proc' = Finish(charged, r, time)
    BY <1>5, <1>9, <2>1
  <2>3. /\ proc' \in [Procs -> ProcessRecords]
        /\ \A p \in Procs : /\ proc'[p].memindex = charged[p].memindex
                            /\ proc'[p].no_of_blocks = charged[p].no_of_blocks
                            /\ proc'[p].Remaining_time = charged[p].Remaining_time
                            /\ proc'[p].Priority = charged[p].Priority
                            /\ proc'[p].Running_time = charged[p].Running_time
                            /\ proc'[p].State = IF p = r THEN "FINISHED" ELSE charged[p].State
    BY <1>1, <1>4, <2>2, FinishRecords
  <2>4. mem' = FreeMemoryOf(proc[r])
    BY <1>1, <1>5, <1>7, <1>9 DEF FreeMemoryOf
  <2> QED BY <1>1, <1>2, <1>6, <1>7, <1>8, <1>9, <2>3, <2>4 DEF Ran
<1>10. CASE charged[r].Remaining_time # 0
  <2>1. proc' = charged /\ mem' = mem
    BY <1>5, <1>10
  <2> QED BY <1>1, <1>2, <1>4, <1>6, <1>7, <1>8, <1>10, <2>1 DEF Ran
<1> QED BY <1>9, <1>10

LEMMA RunIInv ==
  ASSUME IInv, NEW r, NEW list, NEW procs,
         NEW counts \in [Procs -> Nat], NEW lines \in [Procs -> Seq(States)],
         ReadyToRun(r, list, procs), RunCurrProcess(r, list, procs, counts, lines),
         Begin, EndOfPass, last_up' \in BOOLEAN
  PROVE  IInv'
<1>1. Ran(r) /\ r \in Procs /\ proc[r].Remaining_time \in Nat \ {0}
  BY RunRecords
<1>2. r \in Holders
  BY DEF ReadyToRun, SameWork
<1>3. /\ RecordsFilled' /\ MemoryIsOwned' /\ mem' \subseteq Blocks
      /\ Holders' = IF proc[r].Remaining_time = 1 THEN Holders \ {r} ELSE Holders
      /\ Cardinality(Done') = Cardinality(Done) + IF proc[r].Remaining_time = 1 THEN 1 ELSE 0
  BY <1>1, <1>2, RanHolders DEF IInv
<1> DEFINE charged == Charge(procs, r, Range(list))
<1>4. /\ charged \in [Procs -> ProcessRecords]
      /\ charged[r].Remaining_time = proc[r].Remaining_time - 1
  <2>1. procs \in [Procs -> ProcessRecords] /\ procs[r].Remaining_time = proc[r].Remaining_time
    BY <1>1 DEF ReadyToRun, SameWork
  <2>2. /\ charged \in [Procs -> ProcessRecords]
        /\ charged[r].Remaining_time = procs[r].Remaining_time - IF r = r THEN 1 ELSE 0
    <3>1. \A x \in Procs : charged[x].Remaining_time =
                               procs[x].Remaining_time - IF x = r THEN 1 ELSE 0
      BY <1>1, <2>1, ChargeRecords
    <3>2. charged \in [Procs -> ProcessRecords]
      BY <1>1, <2>1, ChargeRecords
    <3> HIDE DEF charged
    <3> QED BY <1>1, <3>1, <3>2
  <2> HIDE DEF charged
  <2> QED BY <2>1, <2>2
<1>5. /\ Priority_List_HPF_SJF' = list /\ curr_Proc' = r
      /\ ups' = Up(counts, r)
      /\ log' = IF charged[r].Remaining_time = 0 THEN PrintLine(lines, r, "FINISHED") ELSE lines
      /\ process_count' = IF charged[r].Remaining_time = 0 THEN process_count + 1 ELSE process_count
      /\ total_waiting_time' = IF charged[r].Remaining_time = 0
                               THEN total_waiting_time + charged[r].Waiting_time
                               ELSE total_waiting_time
      /\ cpu_waiting_time' = cpu_waiting_time
  BY DEF RunCurrProcess
<1> HIDE DEF charged
<1>6. charged[r].Waiting_time \in Nat
  BY <1>1, <1>4 DEF ProcessRecords
<1>7. /\ ups' \in [Procs -> Nat] /\ log' \in [Procs -> Seq(States)]
      /\ total_waiting_time' \in Nat /\ cpu_waiting_time' \in Nat
  <2>1. Up(counts, r) \in [Procs -> Nat] /\ PrintLine(lines, r, "FINISHED") \in [Procs -> Seq(States)]
    BY <1>1, UpTypes, PrintTypes DEF States
  <2>2. total_waiting_time \in Nat /\ cpu_waiting_time \in Nat
    BY DEF IInv, SharedInv, SharedTypeOK
  <2> QED BY <1>5, <1>6, <2>1, <2>2
<1>8. process_count \in Nat /\ process_count <= Cardinality(Done) /\ Cardinality(Done) \in Nat
  BY SetsOfReceived, ConstantTypes
     DEF IInv, TypeOK, OwnCountIsOfDone, SharedInv, SharedTypeOK, Done
<1>9. OwnCountIsOfDone' /\ process_count' \in Nat
  BY <1>1, <1>3, <1>4, <1>5, <1>8 DEF OwnCountIsOfDone
<1>10. finished_process_count' \in Nat /\ finished_process_count' <= Cardinality(Done')
  BY <1>3, <1>8 DEF Begin
<1>11. SharedInv'
  BY <1>1, <1>3, <1>7, <1>10, TurnInv DEF IInv, Ran
<1>12. WorkLeft'
  BY <1>1, <1>2, RanLeavesWork DEF IInv
<1>13. CurrentReceived'
  <2>1. ~(r > received)
    BY <1>1, <1>2 DEF IInv, SharedInv, RecordsFilled, Holders, Holds
  <2>2. received \in Nat /\ r \in Nat /\ received' = received
    BY <1>1, ConstantTypes DEF IInv, SharedInv, SharedTypeOK, EndOfPass, Procs
  <2> QED BY <1>5, <2>1, <2>2 DEF CurrentReceived
<1>14. NothingRuns' <=> proc[r].Remaining_time = 1
  BY <1>1, <1>5, ConstantTypes DEF NothingRuns, Ran, None, Procs
<1>15. NoneLost'
  BY <1>3, <1>5, <1>14 DEF ReadyToRun, NoneLost, NoDuplicates
<1>16. TypeOK'
  BY <1>1, <1>5, <1>9, <1>11, <1>12 DEF ReadyToRun, TypeOK, SharedInv, WorkLeft
<1> QED BY <1>9, <1>11, <1>12, <1>13, <1>15, <1>16 DEF IInv

LEMMA IdleIInv ==
  ASSUME IInv, Idle
  PROVE  IInv'
<1>1. /\ EndOfPass /\ proc' = proc /\ mem' = mem /\ received' = received
      /\ finished_process_count' = process_count
      /\ UNCHANGED <<log, total_waiting_time, Priority_List_HPF_SJF, curr_Proc, process_count>>
      /\ cpu_waiting_time' = cpu_waiting_time + 1
  BY DEF Idle, Begin, EndOfPass, listVars
<1>2. RecordsFilled' /\ MemoryIsOwned' /\ Holders' = Holders /\ Done' = Done
  BY <1>1, MemoryUnchanged DEF IInv, SameMemory
<1>3. ups' \in [Procs -> Nat] /\ last_up' \in BOOLEAN
  <2>1. ups \in [Procs -> Nat] /\ curr_Proc \in Procs \cup {None} /\ last_up \in BOOLEAN
    BY DEF IInv, TypeOK, SharedInv, SharedTypeOK
  <2>2. CASE curr_Proc # None /\ last_up
    <3>1. ups' = Up(ups, curr_Proc) /\ last_up' = FALSE
      BY <2>2 DEF Idle
    <3>2. curr_Proc \in Procs /\ log \in [Procs -> Seq(States)] /\ "STARTED" \in States
      BY <2>1, <2>2 DEF IInv, SharedInv, SharedTypeOK, States
    <3> QED BY <2>1, <3>1, <3>2, UpTypes, PrintTypes
  <2>3. CASE ~(curr_Proc # None /\ last_up)
    BY <2>1, <2>3 DEF Idle
  <2> QED BY <2>2, <2>3
<1>4. SharedInv'
  <2>1. /\ proc' \in [Procs -> ProcessRecords] /\ mem' \subseteq Blocks
        /\ cpu_waiting_time' \in Nat /\ total_waiting_time' \in Nat
        /\ log' \in [Procs -> Seq(States)]
    BY <1>1 DEF IInv, SharedInv, SharedTypeOK, ProcessRecords
  <2>2. finished_process_count' \in Nat /\ finished_process_count' <= Cardinality(Done')
    BY <1>1, <1>2 DEF IInv, TypeOK, OwnCountIsOfDone
  <2> QED BY <1>1, <1>2, <1>3, <2>1, <2>2, TurnInv DEF IInv
<1>5. WorkLeft' /\ CurrentReceived' /\ OwnCountIsOfDone'
  BY <1>1, <1>2 DEF IInv, WorkLeft, CurrentReceived, OwnCountIsOfDone
<1>6. NoneLost'
  BY <1>1, <1>2 DEF IInv, NoneLost, NoDuplicates, NothingRuns
<1>7. TypeOK'
  BY <1>1, <1>3, <1>4, <1>5 DEF IInv, TypeOK, SharedInv, WorkLeft
<1> QED BY <1>4, <1>5, <1>6, <1>7 DEF IInv

\* The process taken off the list may run.
LEMMA FrontIsReady ==
  ASSUME IInv, Priority_List_HPF_SJF # <<>>, NothingRuns
  PROVE  ReadyToRun(front, Tail(Priority_List_HPF_SJF), SetState(proc, front, "STARTED"))
<1> DEFINE list == Priority_List_HPF_SJF
<1>1. /\ list \in Seq(Procs) /\ IsInjective(list) /\ Holders = Range(list)
  BY DEF IInv, TypeOK, NoneLost, NoDuplicates
<1>2. front = Head(list)
  BY DEF front
<1>3. /\ front \in Range(list) /\ Tail(list) \in Seq(Procs) /\ IsInjective(Tail(list))
      /\ Range(list) = Range(Tail(list)) \cup {front} /\ front \notin Range(Tail(list))
  BY <1>1, <1>2, PoppedQueue
<1>4. front \in Procs /\ proc[front].State # "FINISHED"
  BY <1>1, <1>3 DEF Holders, Holds
<1>5. SameWork(SetState(proc, front, "STARTED"))
  BY <1>1, <1>3, NothingSet, SetStateIsSameWork DEF IInv, States
<1> QED BY <1>1, <1>3, <1>5 DEF ReadyToRun

LEMMA DispatchIInv ==
  ASSUME IInv, Dispatch
  PROVE  IInv'
<1> DEFINE counts == IF curr_Proc = None THEN ups ELSE Up(ups, curr_Proc)
           lines == PrintLine(log, front, "STARTED")
           started == SetState(proc, front, "STARTED")
           rest == Tail(Priority_List_HPF_SJF)
<1>1. /\ Begin /\ EndOfPass /\ Priority_List_HPF_SJF # <<>> /\ NothingRuns
      /\ RunCurrProcess(front, rest, started, counts, lines)
      /\ last_up' \in BOOLEAN
  BY DEF Dispatch
<1>2. ReadyToRun(front, rest, started)
  BY <1>1, FrontIsReady
<1>3. /\ ups \in [Procs -> Nat] /\ log \in [Procs -> Seq(States)]
      /\ curr_Proc \in Procs \cup {None} /\ front \in Procs /\ "STARTED" \in States
  BY <1>2 DEF IInv, TypeOK, SharedInv, SharedTypeOK, ReadyToRun, Holders, States
<1>4. counts \in [Procs -> Nat] /\ lines \in [Procs -> Seq(States)]
  BY <1>3, UpTypes, PrintTypes
<1> HIDE DEF counts, lines, started, rest
<1> QED BY <1>1, <1>2, <1>4, RunIInv

\* The process that is running may go on.
LEMMA CurrentIsReady ==
  ASSUME IInv, ~NothingRuns
  PROVE  ReadyToRun(curr_Proc, Priority_List_HPF_SJF, proc)
<1>1. /\ Priority_List_HPF_SJF \in Seq(Procs) /\ IsInjective(Priority_List_HPF_SJF)
      /\ Holders = Range(Priority_List_HPF_SJF) \cup {curr_Proc}
      /\ curr_Proc \notin Range(Priority_List_HPF_SJF)
  BY DEF IInv, TypeOK, NoneLost, NoDuplicates
<1>2. proc \in [Procs -> ProcessRecords] /\ proc[curr_Proc].State # "FINISHED"
  BY DEF IInv, SharedInv, SharedTypeOK, ProcessRecords, NothingRuns
<1> QED BY <1>1, <1>2 DEF ReadyToRun, SameWork

LEMMA ContinueIInv ==
  ASSUME IInv, Continue
  PROVE  IInv'
<1>1. /\ Begin /\ EndOfPass /\ ~NothingRuns /\ last_up' = last_up
      /\ RunCurrProcess(curr_Proc, Priority_List_HPF_SJF, proc, ups, log)
  BY DEF Continue
<1>2. ReadyToRun(curr_Proc, Priority_List_HPF_SJF, proc)
  BY <1>1, CurrentIsReady
<1>3. /\ ups \in [Procs -> Nat] /\ log \in [Procs -> Seq(States)] /\ last_up \in BOOLEAN
  BY DEF IInv, TypeOK, SharedInv, SharedTypeOK
<1> QED BY <1>1, <1>2, <1>3, RunIInv

LEMMA StutterIInv ==
  ASSUME IInv, UNCHANGED vars
  PROVE  IInv'
<1>1. /\ UNCHANGED sharedVars
      /\ UNCHANGED <<Priority_List_HPF_SJF, curr_Proc, process_count, last_up>>
  BY DEF vars, listVars
<1>2. SharedInv' /\ Holders' = Holders /\ Done' = Done /\ proc' = proc /\ received' = received
  BY <1>1, StutterInv DEF IInv
<1>3. WorkLeft' /\ CurrentReceived' /\ OwnCountIsOfDone'
  BY <1>1, <1>2 DEF IInv, WorkLeft, CurrentReceived, OwnCountIsOfDone
<1>4. NoneLost'
  BY <1>1, <1>2 DEF IInv, NoneLost, NoDuplicates, NothingRuns
<1>5. TypeOK'
  BY <1>1, <1>2, <1>3 DEF IInv, TypeOK, SharedInv, WorkLeft
<1> QED BY <1>2, <1>3, <1>4, <1>5 DEF IInv

LEMMA NextIInv == IInv /\ [Next]_vars => IInv'
<1> SUFFICES ASSUME IInv, [Next]_vars PROVE IInv'
  OBVIOUS
<1>1. CASE Tick /\ UNCHANGED <<listVars, process_count, last_up>>
  BY <1>1, TickIInv
<1>2. CASE ReceiveProcess
  BY <1>2, ReceiveIInv
<1>3. CASE RefuseProcess
  BY <1>3, RefuseIInv
<1>4. CASE Idle
  BY <1>4, IdleIInv
<1>5. CASE Dispatch
  BY <1>5, DispatchIInv
<1>6. CASE Continue
  BY <1>6, ContinueIInv
<1>7. CASE UNCHANGED vars
  BY <1>7, StutterIInv
<1> QED BY <1>1, <1>2, <1>3, <1>4, <1>5, <1>6, <1>7 DEF Next, Algorithm

LEMMA InvariantHolds == Spec => []IInv
BY InitIInv, NextIInv, PTL DEF Spec

-----------------------------------------------------------------------------
\* The lists, the records and the counters keep their types and their ranges:
\* above all RUN_CURR_PROCESS never takes a process below zero ticks.
THEOREM TypeCorrect == Spec => []TypeOK
<1>1. IInv => TypeOK
  BY DEF IInv
<1> QED BY <1>1, InvariantHolds, PTL

\* The copies SJF_Algo makes of the nodes lose no process and no memory: who
\* holds blocks is on the list once or running, the blocks that are taken are
\* exactly theirs, and the scheduler does not stop before all are through.
THEOREM NothingIsLost == Spec => []NothingLost
<1>1. IInv => NothingLost
  BY DEF IInv, SharedInv, NothingLost
<1> QED BY <1>1, InvariantHolds, PTL

-----------------------------------------------------------------------------
\* Every step of SJF is one of Processor, or none.

LEMMA RunServes ==
  ASSUME IInv, NEW r, NEW list, NEW procs, NEW counts, NEW lines,
         ReadyToRun(r, list, procs), RunCurrProcess(r, list, procs, counts, lines),
         Begin, EndOfPass
  PROVE  Served!Serve(r)
<1>1. Ran(r) /\ r \in Holders
  BY RunRecords DEF ReadyToRun
<1>2. phase = "receive"
  BY DEF Begin, Turn
<1> QED BY <1>1, <1>2, RanServes DEF IInv

LEMMA ReceiveServes ==
  ASSUME IInv, ReceiveProcess
  PROVE  \E r \in Procs : Served!Arrive(r)
<1>1. PICK n \in Messages : Accept(n) /\ PushIntoPriorityQueue(n)
  BY DEF ReceiveProcess
<1>2. PICK r : r = received + 1
  OBVIOUS
<1>3. /\ r \in Procs /\ proc' \in [Procs -> ProcessRecords] /\ proc'[r] = n
      /\ \A p \in Procs \ {r} : SameMemory(p) /\ proc'[p].Remaining_time = proc[p].Remaining_time
  BY <1>1, <1>2, PushedRecords
<1>4. Served!Arrive(r)
  BY <1>1, <1>2, <1>3, AcceptServes DEF IInv
<1> QED BY <1>3, <1>4

LEMMA IdleRests ==
  ASSUME IInv, Idle
  PROVE  Served!Rest
<1>1. /\ phase = "receive" /\ phase' # "receive" /\ proc' = proc
  BY DEF Idle, Begin, Turn, EndOfPass
<1>2. Holders = {}
  <2>1. Holders = Range(<<>>)
    BY DEF Idle, IInv, NoneLost
  <2> QED BY <2>1, EmptyQueue
<1> QED BY <1>1, <1>2, IdleServes

LEMMA NextServes ==
  ASSUME IInv, [Next]_vars
  PROVE  [Served!ProcessorNext]_(Served!processorVars)
<1>1. CASE Tick /\ UNCHANGED <<listVars, process_count, last_up>>
  <2>1. Served!Begin
    BY <1>1, TickServes
  <2> QED BY <2>1 DEF Served!ProcessorNext
<1>2. CASE ReceiveProcess
  BY <1>2, ReceiveServes DEF Served!ProcessorNext
<1>3. CASE RefuseProcess
  BY <1>3, RefuseStutters DEF IInv, RefuseProcess
<1>4. CASE Idle
  BY <1>4, IdleRests DEF Served!ProcessorNext
<1>5. CASE Dispatch
  <2>1. ReadyToRun(front, Tail(Priority_List_HPF_SJF), SetState(proc, front, "STARTED"))
    BY <1>5, FrontIsReady DEF Dispatch
  <2>2. PICK r \in Procs : r = front
    BY <2>1 DEF ReadyToRun, Holders
  <2>3. Served!Serve(r)
    BY <1>5, <2>1, <2>2, RunServes DEF Dispatch
  <2>4. Served!ProcessorNext
    BY <2>3 DEF Served!ProcessorNext
  <2> QED BY <2>4
<1>6. CASE Continue
  <2>1. ReadyToRun(curr_Proc, Priority_List_HPF_SJF, proc)
    BY <1>6, CurrentIsReady DEF Continue
  <2>2. PICK r \in Procs : r = curr_Proc
    BY <2>1 DEF ReadyToRun, Holders
  <2>3. Served!Serve(r)
    BY <1>6, <2>1, <2>2, RunServes DEF Continue
  <2>4. Served!ProcessorNext
    BY <2>3 DEF Served!ProcessorNext
  <2> QED BY <2>4
<1>7. CASE UNCHANGED vars
  BY <1>7, StutterServes DEF vars, sharedVars
<1> QED BY <1>1, <1>2, <1>3, <1>4, <1>5, <1>6, <1>7 DEF Next, Algorithm

\* SJF_Algo serves the processes that hold memory as Processor promises: one
\* tick of one of them in every pass while there is any, none beyond its
\* running time, and each leaves in the pass that runs its last tick.
THEOREM Refinement == Spec => ImplementsProcessor
<1>1. Init => Served!ProcessorInit
  BY ServedInit DEF Init
<1>2. IInv /\ [Next]_vars => [Served!ProcessorNext]_(Served!processorVars)
  BY NextServes
<1> QED BY <1>1, <1>2, InvariantHolds, PTL DEF Spec, ImplementsProcessor, Served!ProcessorSpec

-----------------------------------------------------------------------------
\* The order in which the processes run.  Under SJF the priority of a process
\* is its running time, the list is in that order, nobody on the list has run,
\* and who runs has run a tick at least.

PrioritiesAreTimes == \A p \in Holders : proc[p].Priority = proc[p].Running_time

ListHasNotRun ==
  \A p \in Range(Priority_List_HPF_SJF) : proc[p].Remaining_time = proc[p].Running_time

CurrentHasRun ==
  ~NothingRuns => proc[curr_Proc].Remaining_time < proc[curr_Proc].Running_time

OrderInv == Sorted /\ PrioritiesAreTimes /\ ListHasNotRun /\ CurrentHasRun

\* Who is where, in one place.
LEMMA ListFacts ==
  ASSUME IInv
  PROVE  /\ Priority_List_HPF_SJF \in Seq(Procs)
         /\ \A i \in 1 .. Len(Priority_List_HPF_SJF) :
              Priority_List_HPF_SJF[i] \in Range(Priority_List_HPF_SJF)
         /\ Range(Priority_List_HPF_SJF) \subseteq Holders /\ Holders \subseteq Procs
         /\ ~NothingRuns => curr_Proc \in Holders
         /\ Holders = Range(Priority_List_HPF_SJF) \cup (IF NothingRuns THEN {} ELSE {curr_Proc})
         /\ \A p \in Procs : /\ proc[p].Priority \in Nat
                             /\ proc[p].Running_time \in Nat
                             /\ proc[p].Remaining_time \in Int
<1>1. Priority_List_HPF_SJF \in Seq(Procs)
  BY DEF IInv, TypeOK
<1>2. /\ Range(Priority_List_HPF_SJF) \subseteq Holders
      /\ ~NothingRuns => curr_Proc \in Holders
      /\ Holders = Range(Priority_List_HPF_SJF) \cup (IF NothingRuns THEN {} ELSE {curr_Proc})
  BY DEF IInv, NoneLost
<1>3. \A p \in Procs : /\ proc[p].Priority \in Nat
                       /\ proc[p].Running_time \in Nat
                       /\ proc[p].Remaining_time \in Int
  BY DEF IInv, SharedInv, SharedTypeOK
<1> QED BY <1>1, <1>2, <1>3, RangeOfQueue DEF Holders

LEMMA InitOrder == Init => OrderInv
<1> SUFFICES ASSUME Init PROVE OrderInv
  OBVIOUS
<1>1. Holders = {} /\ Range(<<>>) = {} /\ Len(<<>>) = 0
  BY SharedInitInv, EmptyQueue DEF Init
<1> QED BY <1>1 DEF Init, OrderInv, Sorted, PrioritiesAreTimes, ListHasNotRun, CurrentHasRun,
                    NothingRuns

\* A step that leaves the list and the records of the holders alone.
LEMMA OrderUnchanged ==
  ASSUME IInv, OrderInv, Holders' = Holders, NothingRuns' = NothingRuns,
         UNCHANGED <<Priority_List_HPF_SJF, curr_Proc>>,
         \A p \in Holders : proc'[p] = proc[p]
  PROVE  OrderInv'
<1>1. Sorted'
  BY ListFacts DEF OrderInv, Sorted
<1>2. PrioritiesAreTimes' /\ ListHasNotRun' /\ CurrentHasRun'
  BY ListFacts DEF OrderInv, PrioritiesAreTimes, ListHasNotRun, CurrentHasRun
<1> QED BY <1>1, <1>2 DEF OrderInv

LEMMA RefuseOrder ==
  ASSUME IInv, OrderInv, RefuseProcess
  PROVE  OrderInv'
<1>1. PICK r : r = received'
  OBVIOUS
<1>2. /\ Holders' = Holders /\ r = received + 1 /\ r \in Procs
      /\ proc'[r].memindex = NoPlace
      /\ \A p \in Procs \ {r} : proc'[p] = proc[p]
  BY <1>1, RefuseInv DEF IInv, RefuseProcess
<1>3. r \notin Holders
  BY <1>2 DEF Holders, Holds
<1>4. UNCHANGED <<Priority_List_HPF_SJF, curr_Proc>>
  BY DEF RefuseProcess, listVars
<1>5. curr_Proc # None => curr_Proc # r /\ curr_Proc \in Procs
  BY <1>2, ConstantTypes DEF IInv, TypeOK, SharedInv, SharedTypeOK, CurrentReceived, Procs
<1>6. NothingRuns' = NothingRuns
  BY <1>2, <1>4, <1>5 DEF NothingRuns
<1>7. \A p \in Holders : proc'[p] = proc[p]
  BY <1>2, <1>3 DEF Holders
<1> QED BY <1>2, <1>4, <1>6, <1>7, OrderUnchanged

\* pushIntoPriorityQueue looks for the place in the order of the priorities.
LEMMA PushPositionIsPlace ==
  ASSUME NEW list \in Seq(Procs), NEW e \in Procs, NEW priority, NEW rank,
         rank[e] = priority, \A p \in Range(list) : rank[p] = proc[p].Priority
  PROVE  PushPosition(list, priority) = PlaceOf(e, list, rank)
<1>1. /\ Len(list) \in Nat
      /\ \A i \in 1 .. Len(list) : rank[list[i]] = proc[list[i]].Priority
      /\ list # <<>> => rank[Head(list)] = proc[Head(list)].Priority
  BY LenProperties, RangeOfQueue, PoppedQueue
<1>2. {i \in 2 .. Len(list) : rank[list[i]] >= rank[e]}
        = {i \in 2 .. Len(list) : proc[list[i]].Priority >= priority}
  BY <1>1
<1> QED BY <1>1, <1>2 DEF PushPosition, PlaceOf

LEMMA ReceiveOrder ==
  ASSUME IInv, OrderInv, ReceiveProcess
  PROVE  OrderInv'
<1>1. PICK n \in Messages :
        Accept(n) /\ PushIntoPriorityQueue(n) /\ UNCHANGED <<curr_Proc, process_count, last_up>>
  BY DEF ReceiveProcess
<1>2. PICK r : r = received + 1
  OBVIOUS
<1>3. PICK list \in Seq(Procs) : list = Priority_List_HPF_SJF
  BY ListFacts
<1>4. PICK at : at = PushPosition(list, n.Priority)
  OBVIOUS
<1>5. /\ r \in Procs /\ proc' \in [Procs -> ProcessRecords] /\ proc'[r] = n
      /\ \A p \in Procs \ {r} : SameMemory(p)
      /\ \A p \in Procs \ {r} : proc'[p].Remaining_time = proc[p].Remaining_time
      /\ \A p \in Procs \ {r} : /\ proc'[p].Priority = proc[p].Priority
                                /\ proc'[p].Running_time = proc[p].Running_time
  BY <1>1, <1>2, PushedRecords
<1>6. r \notin Holders /\ Holders' = Holders \cup {r}
  BY <1>1, <1>2, <1>5, AcceptInv DEF IInv
<1>7. /\ Range(list) \subseteq Holders /\ Holders \subseteq Procs /\ r \notin Range(list)
      /\ \A i \in 1 .. Len(list) : list[i] \in Range(list)
  BY <1>3, <1>6, ListFacts
<1>8. PICK rank \in [Procs -> Nat] : rank = [p \in Procs |-> proc'[p].Priority]
  BY <1>5 DEF ProcessRecords
<1>9. \A p \in Range(list) : rank[p] = proc[p].Priority
  BY <1>5, <1>7, <1>8
<1>10. rank[r] = n.Priority /\ Ordered(list, rank)
  BY <1>3, <1>5, <1>7, <1>8, <1>9 DEF OrderInv, Sorted, Ordered
<1>11. at = PlaceOf(r, list, rank)
  BY <1>4, <1>5, <1>9, <1>10, PushPositionIsPlace
<1>12. PICK grown : grown = InsertAt(list, at, r)
  OBVIOUS
<1>13. at \in 1 .. Len(list) + 1 /\ Ordered(grown, rank)
  BY <1>5, <1>10, <1>11, <1>12, InsertedInOrder
<1>14. /\ Range(grown) = Range(list) \cup {r}
       /\ \A i \in 1 .. Len(grown) : grown[i] \in Procs
  <2>1. grown \in Seq(Procs) /\ Range(grown) = Range(list) \cup {r}
    BY <1>5, <1>12, <1>13, InsertedInQueue
  <2> QED BY <2>1, ElementOfSeq
<1>15. Priority_List_HPF_SJF' = grown
  BY <1>1, <1>2, <1>3, <1>4, <1>12 DEF PushIntoPriorityQueue
<1>16. Sorted'
  BY <1>8, <1>13, <1>14, <1>15 DEF Sorted, Ordered
<1>17. n.Priority = n.Running_time /\ n.Remaining_time = n.Running_time
  <2>1. PICK lag \in Lags, run \in RunTimes, priority \in Priorities, b \in BlockCounts :
          n = Message(lag, run, priority, b)
    BY DEF Messages
  <2> QED BY <2>1, ModeAssumption DEF Message
<1>18. PrioritiesAreTimes'
  BY <1>5, <1>6, <1>7, <1>17 DEF OrderInv, PrioritiesAreTimes
<1>19. ListHasNotRun'
  BY <1>3, <1>5, <1>7, <1>14, <1>15, <1>17 DEF OrderInv, ListHasNotRun
<1>20. CurrentHasRun'
  <2>1. curr_Proc # None => curr_Proc # r /\ curr_Proc \in Procs
    BY <1>2, ConstantTypes DEF IInv, TypeOK, SharedInv, SharedTypeOK, CurrentReceived, Procs
  <2>2. NothingRuns' = NothingRuns
    BY <1>1, <1>5, <2>1 DEF NothingRuns, SameMemory
  <2>3. ~NothingRuns => curr_Proc \in Procs \ {r}
    BY <2>1 DEF NothingRuns
  <2> QED BY <1>1, <1>5, <2>2, <2>3 DEF OrderInv, CurrentHasRun
<1> QED BY <1>16, <1>18, <1>19, <1>20 DEF OrderInv

\* r runs, and behind it is a list of processes that have not.
LEMMA RunOrder ==
  ASSUME IInv, OrderInv, NEW r, NEW list, NEW procs, NEW counts, NEW lines,
         ReadyToRun(r, list, procs), RunCurrProcess(r, list, procs, counts, lines),
         Begin, EndOfPass,
         \A i, j \in 1 .. Len(list) : i < j => proc[list[i]].Priority <= proc[list[j]].Priority,
         \A p \in Range(list) : proc[p].Remaining_time = proc[p].Running_time,
         proc[r].Remaining_time <= proc[r].Running_time
  PROVE  OrderInv'
<1>1. /\ Ran(r) /\ r \in Procs /\ proc[r].Remaining_time \in Nat \ {0}
      /\ \A p \in Procs : /\ proc'[p].Priority = proc[p].Priority
                          /\ proc'[p].Running_time = proc[p].Running_time
  BY RunRecords
<1>2. /\ list \in Seq(Procs) /\ r \notin Range(list) /\ r \in Holders
      /\ Range(list) \subseteq Procs /\ \A i \in 1 .. Len(list) : list[i] \in Procs
  BY RangeOfQueue DEF ReadyToRun
<1>3. Holders' \subseteq Holders
  BY <1>1, <1>2, RanHolders DEF IInv
<1>4. Priority_List_HPF_SJF' = list /\ curr_Proc' = r
  BY DEF RunCurrProcess
<1>5. Sorted'
  BY <1>1, <1>2, <1>4 DEF Sorted
<1>6. PrioritiesAreTimes'
  BY <1>1, <1>3, ListFacts DEF OrderInv, PrioritiesAreTimes
<1>7. ListHasNotRun'
  BY <1>1, <1>2, <1>4 DEF ListHasNotRun, Ran
<1>8. CurrentHasRun'
  <2>1. proc[r].Running_time \in Nat
    BY <1>1, ListFacts
  <2>2. proc'[r].Remaining_time = proc[r].Remaining_time - 1
    BY <1>1 DEF Ran
  <2> QED BY <1>1, <1>4, <2>1, <2>2 DEF CurrentHasRun
<1> QED BY <1>5, <1>6, <1>7, <1>8 DEF OrderInv

\* What Dispatch takes off the list is one of the shortest, and none of those
\* that stay has run.
LEMMA FrontIsShortest ==
  ASSUME IInv, OrderInv, Priority_List_HPF_SJF # <<>>,
         NEW rest, rest = Tail(Priority_List_HPF_SJF)
  PROVE  /\ proc[front].Remaining_time = proc[front].Running_time
         /\ \A x \in Range(Priority_List_HPF_SJF) :
              /\ proc[x].Remaining_time = proc[x].Running_time
              /\ proc[front].Running_time <= proc[x].Running_time
         /\ \A i, j \in 1 .. Len(rest) :
              i < j => proc[rest[i]].Priority <= proc[rest[j]].Priority
         /\ Range(rest) \subseteq Range(Priority_List_HPF_SJF)
<1>1. PICK list \in Seq(Procs) : list = Priority_List_HPF_SJF
  BY ListFacts
<1>2. /\ list # <<>> /\ front = Head(list) /\ Range(list) \subseteq Holders /\ Holders \subseteq Procs
      /\ \A i \in 1 .. Len(list) : list[i] \in Range(list)
  BY <1>1, ListFacts DEF front
<1>3. PICK rank \in [Procs -> Nat] : rank = [p \in Procs |-> proc[p].Priority]
  BY ListFacts
<1>4. Ordered(list, rank)
  BY <1>1, <1>2, <1>3 DEF OrderInv, Sorted, Ordered
<1>5. /\ front \in Range(list) /\ \A x \in Range(list) : rank[front] <= rank[x]
      /\ Ordered(rest, rank)
      /\ rest \in Seq(Procs) /\ Range(rest) \subseteq Range(list)
  BY <1>1, <1>2, <1>4, PoppedInOrder, PoppedQueue
<1>6. \A x \in Range(list) : /\ rank[x] = proc[x].Running_time
                             /\ proc[x].Remaining_time = proc[x].Running_time
  BY <1>1, <1>2, <1>3 DEF OrderInv, PrioritiesAreTimes, ListHasNotRun
<1>7. \A i, j \in 1 .. Len(rest) : i < j => proc[rest[i]].Priority <= proc[rest[j]].Priority
  BY <1>3, <1>5, ElementOfSeq DEF Ordered
<1> QED BY <1>1, <1>5, <1>6, <1>7

LEMMA DispatchOrder ==
  ASSUME IInv, OrderInv, Dispatch
  PROVE  OrderInv'
<1>1. PICK rest : rest = Tail(Priority_List_HPF_SJF)
  OBVIOUS
<1>2. PICK r : r = front
  OBVIOUS
<1>3. PICK procs : procs = SetState(proc, front, "STARTED")
  OBVIOUS
<1>4. /\ Begin /\ EndOfPass /\ Priority_List_HPF_SJF # <<>> /\ NothingRuns
      /\ RunCurrProcess(r, rest, procs, IF curr_Proc = None THEN ups ELSE Up(ups, curr_Proc),
                        PrintLine(log, front, "STARTED"))
  BY <1>1, <1>2, <1>3 DEF Dispatch
<1>5. ReadyToRun(r, rest, procs)
  BY <1>1, <1>2, <1>3, <1>4, FrontIsReady
<1>6. /\ proc[r].Remaining_time = proc[r].Running_time
      /\ \A x \in Range(rest) : proc[x].Remaining_time = proc[x].Running_time
      /\ \A i, j \in 1 .. Len(rest) :
           i < j => proc[rest[i]].Priority <= proc[rest[j]].Priority
  BY <1>1, <1>2, <1>4, FrontIsShortest
<1>7. proc[r].Remaining_time <= proc[r].Running_time
  BY <1>5, <1>6, ListFacts DEF ReadyToRun
<1> QED BY <1>4, <1>5, <1>6, <1>7, RunOrder

LEMMA ContinueOrder ==
  ASSUME IInv, OrderInv, Continue
  PROVE  OrderInv'
<1>1. PICK list : list = Priority_List_HPF_SJF
  OBVIOUS
<1>2. PICK r : r = curr_Proc
  OBVIOUS
<1>3. PICK procs : procs = proc
  OBVIOUS
<1>4. Begin /\ EndOfPass /\ ~NothingRuns /\ RunCurrProcess(r, list, procs, ups, log)
  BY <1>1, <1>2, <1>3 DEF Continue
<1>5. ReadyToRun(r, list, procs)
  BY <1>1, <1>2, <1>3, <1>4, CurrentIsReady
<1>6. /\ \A x \in Range(list) : proc[x].Remaining_time = proc[x].Running_time
      /\ \A i, j \in 1 .. Len(list) :
           i < j => proc[list[i]].Priority <= proc[list[j]].Priority
  BY <1>1 DEF OrderInv, Sorted, ListHasNotRun
<1>7. proc[r].Remaining_time <= proc[r].Running_time
  <2>1. proc[r].Remaining_time < proc[r].Running_time
    BY <1>2, <1>4 DEF OrderInv, CurrentHasRun
  <2>2. proc[r].Remaining_time \in Int /\ proc[r].Running_time \in Nat
    BY <1>5, ListFacts DEF ReadyToRun
  <2> QED BY <2>1, <2>2
<1> QED BY <1>4, <1>5, <1>6, <1>7, RunOrder

LEMMA NextOrder == IInv /\ OrderInv /\ [Next]_vars => OrderInv'
<1> SUFFICES ASSUME IInv, OrderInv, [Next]_vars PROVE OrderInv'
  OBVIOUS
<1>1. ASSUME proc' = proc, UNCHANGED listVars PROVE OrderInv'
  <2>1. UNCHANGED <<Priority_List_HPF_SJF, curr_Proc>>
    BY <1>1 DEF listVars
  <2>2. Holders' = Holders /\ NothingRuns' = NothingRuns
    BY <1>1, <2>1 DEF Holders, Holds, NothingRuns
  <2> QED BY <1>1, <2>1, <2>2, OrderUnchanged
<1>2. CASE Tick /\ UNCHANGED <<listVars, process_count, last_up>>
  BY <1>1, <1>2 DEF Tick
<1>3. CASE ReceiveProcess
  BY <1>3, ReceiveOrder
<1>4. CASE RefuseProcess
  BY <1>4, RefuseOrder
<1>5. CASE Idle
  BY <1>1, <1>5 DEF Idle
<1>6. CASE Dispatch
  BY <1>6, DispatchOrder
<1>7. CASE Continue
  BY <1>7, ContinueOrder
<1>8. CASE UNCHANGED vars
  BY <1>1, <1>8 DEF vars, sharedVars
<1> QED BY <1>2, <1>3, <1>4, <1>5, <1>6, <1>7, <1>8 DEF Next, Algorithm

\* One step of ShortestFirst.
RunsShortest ==
  \A p, x \in Holders :
    proc'[p].Remaining_time < proc[p].Remaining_time /\ p # x =>
      /\ Executed(x) = 0
      /\ Executed(p) = 0 => proc[p].Running_time <= proc[x].Running_time

LEMMA NobodyRuns ==
  ASSUME IInv, \A p \in Holders : proc'[p].Remaining_time = proc[p].Remaining_time
  PROVE  RunsShortest
<1>1. \A p \in Holders : proc[p].Remaining_time \in Int
  BY ListFacts
<1> QED BY <1>1 DEF RunsShortest

\* Who runs is the only one whose remaining time becomes less.
LEMMA OnlyOneRuns ==
  ASSUME IInv, NEW r, NEW list, NEW procs, NEW counts, NEW lines,
         ReadyToRun(r, list, procs), RunCurrProcess(r, list, procs, counts, lines)
  PROVE  \A p \in Holders : proc'[p].Remaining_time < proc[p].Remaining_time => p = r
<1>1. Ran(r)
  BY RunRecords
<1> QED BY <1>1, ListFacts DEF Ran

LEMMA NextRunsShortest ==
  ASSUME IInv, OrderInv, Next
  PROVE  RunsShortest
<1>1. \A p \in Holders : /\ p \in Procs /\ proc[p].Remaining_time \in Int
                         /\ proc[p].Running_time \in Nat
  BY ListFacts
<1>2. CASE Tick /\ UNCHANGED <<listVars, process_count, last_up>>
  BY <1>2, NobodyRuns DEF Tick
<1>3. CASE ReceiveProcess
  <2>1. PICK n \in Messages : Accept(n) /\ PushIntoPriorityQueue(n)
    BY <1>3 DEF ReceiveProcess
  <2>2. PICK r : r = received + 1
    OBVIOUS
  <2>3. /\ proc' \in [Procs -> ProcessRecords] /\ proc'[r] = n
        /\ \A p \in Procs \ {r} : SameMemory(p)
        /\ \A p \in Procs \ {r} : proc'[p].Remaining_time = proc[p].Remaining_time
    BY <2>1, <2>2, PushedRecords
  <2>4. r \notin Holders
    BY <2>1, <2>2, <2>3, AcceptInv DEF IInv
  <2> QED BY <1>1, <2>3, <2>4, NobodyRuns
<1>4. CASE RefuseProcess
  <2>1. PICK r : r = received'
    OBVIOUS
  <2>2. /\ Holders' = Holders /\ r \in Procs /\ proc'[r].memindex = NoPlace
        /\ \A p \in Procs \ {r} : proc'[p] = proc[p]
    BY <1>4, <2>1, RefuseInv DEF IInv, RefuseProcess
  <2>3. r \notin Holders
    BY <2>2 DEF Holders, Holds
  <2> QED BY <1>1, <2>2, <2>3, NobodyRuns
<1>5. CASE Idle
  BY <1>5, NobodyRuns DEF Idle
<1>6. CASE Dispatch
  <2>1. PICK r : r = front
    OBVIOUS
  <2>2. /\ Priority_List_HPF_SJF # <<>> /\ NothingRuns
        /\ ReadyToRun(r, Tail(Priority_List_HPF_SJF), SetState(proc, r, "STARTED"))
    BY <1>6, <2>1, FrontIsReady DEF Dispatch
  <2>3. \A p \in Holders : proc'[p].Remaining_time < proc[p].Remaining_time => p = r
    BY <1>6, <2>1, <2>2, OnlyOneRuns DEF Dispatch
  <2>4. Holders = Range(Priority_List_HPF_SJF)
    BY <2>2, ListFacts
  <2>5. \A x \in Holders : /\ proc[x].Remaining_time = proc[x].Running_time
                           /\ proc[r].Running_time <= proc[x].Running_time
    BY <2>1, <2>2, <2>4, FrontIsShortest
  <2> QED BY <1>1, <2>3, <2>5 DEF RunsShortest, Executed
<1>7. CASE Continue
  <2>1. PICK r : r = curr_Proc
    OBVIOUS
  <2>2. ~NothingRuns /\ ReadyToRun(r, Priority_List_HPF_SJF, proc)
    BY <1>7, <2>1, CurrentIsReady DEF Continue
  <2>3. \A p \in Holders : proc'[p].Remaining_time < proc[p].Remaining_time => p = r
    BY <1>7, <2>1, <2>2, OnlyOneRuns DEF Continue
  <2>4. \A x \in Holders \ {r} : proc[x].Remaining_time = proc[x].Running_time
    BY <2>1, <2>2, ListFacts DEF OrderInv, ListHasNotRun
  <2>5. r \in Holders /\ proc[r].Remaining_time < proc[r].Running_time
    BY <2>1, <2>2, ListFacts DEF OrderInv, CurrentHasRun
  <2>6. Executed(r) # 0 /\ \A x \in Holders \ {r} : Executed(x) = 0
    BY <1>1, <2>4, <2>5 DEF Executed
  <2> QED BY <2>3, <2>6 DEF RunsShortest
<1> QED BY <1>2, <1>3, <1>4, <1>5, <1>6, <1>7 DEF Next, Algorithm

\* Not preemptive, and shortest first: whatever runs, no other process is
\* half-way, and one that begins is among the shortest of those that wait,
\* however the arrivals were inserted between the dispatches.
THEOREM ShortestRunsFirst == Spec => ShortestFirst
<1>1. Spec => []OrderInv
  BY InitOrder, NextOrder, InvariantHolds, PTL DEF Spec
<1>2. IInv /\ OrderInv /\ [Next]_vars => [RunsShortest]_vars
  BY NextRunsShortest
<1> QED BY <1>1, <1>2, InvariantHolds, PTL DEF Spec, ShortestFirst, RunsShortest

-----------------------------------------------------------------------------
\* The reports.  Every process that holds memory is charged with every tick,
\* who has run has been started, and up() was called once per tick it ran.
Books == Ledger /\ \A p \in Procs : AccountOf(p)

LineOf(p) ==
  /\ Tells(log[p], {})
  /\ p \in Finished =>
       log[p] # <<>> /\ Last(log[p]) = "FINISHED" /\ ups[p] >= proc[p].Running_time
  /\ p \notin Finished =>
       /\ ups[p] = Executed(p)
       /\ Executed(p) = 0 => log[p] = <<>>
       /\ Executed(p) # 0 => log[p] # <<>> /\ Last(log[p]) = "STARTED"

Lines == \A p \in Procs : LineOf(p)

LEMMA InitLines == Init => Lines
<1> SUFFICES ASSUME Init, NEW p \in Procs PROVE LineOf(p)
  BY DEF Lines
<1>1. /\ proc[p].State = "STOPPED" /\ proc[p].Running_time = 0 /\ proc[p].Remaining_time = 0
      /\ log[p] = <<>> /\ ups[p] = 0
  BY DEF Init, SharedInit, Unborn
<1> QED BY <1>1, NoLinesTell DEF LineOf, Finished, Executed

\* A step that neither runs p nor prints anything about it.
LEMMA LineKept ==
  ASSUME NEW p \in Procs, LineOf(p), log'[p] = log[p], ups'[p] = ups[p],
         Executed(p)' = Executed(p), proc'[p].Running_time = proc[p].Running_time,
         proc'[p].State = "FINISHED" <=> proc[p].State = "FINISHED"
  PROVE  LineOf(p)'
BY DEF LineOf, Finished

LEMMA ReceiveReports ==
  ASSUME IInv, Books, Lines, ReceiveProcess \/ RefuseProcess
  PROVE  Books' /\ Lines'
<1>1. PICK n \in Messages, r \in Procs :
        /\ Receive(n) /\ r = received + 1 /\ proc'[r] = n
        /\ \A p \in Procs \ {r} : SameTimes(p) /\ SameMemory(p)
  <2>1. CASE ReceiveProcess
    <3>1. PICK n \in Messages : Accept(n) /\ PushIntoPriorityQueue(n)
      BY <2>1 DEF ReceiveProcess
    <3>2. PICK r : r = received + 1
      OBVIOUS
    <3>3. /\ r \in Procs /\ proc'[r] = n
          /\ \A p \in Procs \ {r} : SameMemory(p)
          /\ \A p \in Procs \ {r} : SameTimes(p)
      BY <3>1, <3>2, PushedRecords
    <3> QED BY <3>1, <3>2, <3>3 DEF Accept
  <2>2. CASE RefuseProcess
    <3>1. PICK n \in Messages : Receive(n) /\ proc' = [proc EXCEPT ![received + 1] = n]
      BY <2>2 DEF RefuseProcess, Refuse
    <3>2. PICK r : r = received + 1
      OBVIOUS
    <3>3. /\ r \in Procs /\ proc'[r] = n
          /\ \A p \in Procs \ {r} : proc'[p] = proc[p] /\ SameMemory(p)
      BY <3>1, <3>2, ReceivedRecords DEF IInv
    <3> QED BY <3>1, <3>2, <3>3 DEF SameTimes
  <2> QED BY <2>1, <2>2
<1>2. SharedInv /\ SharedTypeOK /\ Ledger /\ SharedTypeOK'
  BY ReceiveIInv, RefuseIInv DEF IInv, SharedInv, Books
<1>3. Books'
  BY <1>1, <1>2, ReceiveAccounts DEF Books
<1>4. log' = log /\ ups' = ups
  BY <1>1 DEF Receive, files
<1>5. LineOf(r)'
  <2>1. r > received
    BY <1>1, <1>2 DEF SharedTypeOK
  <2>2. r \notin Finished /\ proc[r].Remaining_time = proc[r].Running_time
    BY <1>2, <2>1 DEF SharedInv, RecordsFilled, Finished, Ledger, ExecutedIsNat
  <2>3. /\ n.State = "STOPPED" /\ n.Remaining_time = n.Running_time /\ n.Running_time \in Nat
    BY MessageTypes, RunTimesAssumption DEF IInv, SharedInv
  <2>4. Executed(r) = 0 /\ Executed(r)' = 0
    BY <1>1, <1>2, <2>2, <2>3, TimesAreNumbers DEF Executed
  <2>5. r \notin Finished'
    BY <1>1, <2>3 DEF Finished
  <2> QED BY <1>1, <1>4, <2>2, <2>4, <2>5 DEF Lines, LineOf
<1>6. ASSUME NEW p \in Procs, p # r PROVE LineOf(p)'
  <2>1. SameTimes(p) /\ SameMemory(p)
    BY <1>1, <1>6
  <2> QED BY <1>4, <2>1, LineKept DEF Lines, SameTimes, SameMemory, Executed
<1> QED BY <1>3, <1>5, <1>6 DEF Lines

\* What a run adds to the times, and to the total.
LEMMA RunEnds ==
  ASSUME IInv, NEW r, NEW list, NEW procs, NEW counts, NEW lines,
         ReadyToRun(r, list, procs), KeptTimes(procs, {}, follow),
         RunCurrProcess(r, list, procs, counts, lines)
  PROVE  /\ RanToEnd(r) /\ cpu_waiting_time' = cpu_waiting_time
         /\ \A p \in Procs :
              proc'[p].Waiting_time =
                proc[p].Waiting_time + IF p # r /\ p \in Holders THEN 1 ELSE 0
         /\ total_waiting_time' = total_waiting_time
              + IF proc'[r].Remaining_time = 0 THEN proc'[r].Waiting_time ELSE 0
         /\ ups' = Up(counts, r)
         /\ log' = IF proc'[r].Remaining_time = 0 THEN PrintLine(lines, r, "FINISHED") ELSE lines
<1>1. /\ r \in Procs /\ procs \in [Procs -> ProcessRecords]
      /\ \A p \in Procs : p # r => (p \in Range(list) <=> p \in Holders)
  BY DEF ReadyToRun, SameWork, Holders
<1>2. \A p \in Procs : /\ procs[p].memindex = proc[p].memindex
                       /\ procs[p].Remaining_time = proc[p].Remaining_time
                       /\ procs[p].Running_time = proc[p].Running_time
                       /\ procs[p].State = "FINISHED" <=> proc[p].State = "FINISHED"
                       /\ procs[p].Arrival_time = proc[p].Arrival_time
                       /\ procs[p].Waiting_time = proc[p].Waiting_time
                       /\ procs[p].TA = proc[p].TA
  BY DEF ReadyToRun, SameWork, KeptTimes
<1>3. PICK charged : charged = Charge(procs, r, Range(list))
  OBVIOUS
<1>4. PICK time \in Int : time = follow + 1
  BY DEF IInv, SharedInv, SharedTypeOK
<1>5. /\ charged \in [Procs -> ProcessRecords]
      /\ \A p \in Procs :
           /\ charged[p].memindex = procs[p].memindex
           /\ charged[p].State = procs[p].State
           /\ charged[p].Running_time = procs[p].Running_time
           /\ charged[p].Remaining_time = procs[p].Remaining_time - IF p = r THEN 1 ELSE 0
  BY <1>1, <1>3, ChargeRecords
<1>6. \A p \in Procs :
        /\ charged[p].Arrival_time = procs[p].Arrival_time
        /\ charged[p].TA = procs[p].TA
        /\ charged[p].Waiting_time =
             procs[p].Waiting_time + IF p # r /\ p \in Range(list) THEN 1 ELSE 0
  BY <1>1, <1>3, ChargeTimes
<1>7. /\ proc' = IF charged[r].Remaining_time = 0 THEN Finish(charged, r, time) ELSE charged
      /\ log' = IF charged[r].Remaining_time = 0 THEN PrintLine(lines, r, "FINISHED") ELSE lines
      /\ total_waiting_time' = IF charged[r].Remaining_time = 0
                               THEN total_waiting_time + charged[r].Waiting_time
                               ELSE total_waiting_time
      /\ ups' = Up(counts, r) /\ cpu_waiting_time' = cpu_waiting_time
  BY <1>3, <1>4 DEF RunCurrProcess
<1>8. charged[r].State # "FINISHED" /\ total_waiting_time \in Nat
  BY <1>1, <1>2, <1>5 DEF ReadyToRun, Holders, Holds, IInv, SharedInv, SharedTypeOK
<1>9. /\ proc' \in [Procs -> ProcessRecords]
      /\ \A p \in Procs :
           /\ proc'[p].memindex = charged[p].memindex
           /\ proc'[p].Arrival_time = charged[p].Arrival_time
           /\ proc'[p].Running_time = charged[p].Running_time
           /\ proc'[p].Remaining_time = charged[p].Remaining_time
           /\ proc'[p].Waiting_time = charged[p].Waiting_time
           /\ proc'[p].State = "FINISHED" <=>
                (p = r /\ charged[p].Remaining_time = 0) \/ charged[p].State = "FINISHED"
           /\ proc'[p].TA = IF p = r /\ charged[p].Remaining_time = 0
                            THEN time - charged[p].Arrival_time ELSE charged[p].TA
  <2>1. CASE charged[r].Remaining_time = 0
    <3>1. PICK set : set = Finish(charged, r, time)
      OBVIOUS
    <3>2. /\ set \in [Procs -> ProcessRecords]
          /\ \A p \in Procs :
               /\ set[p].memindex = charged[p].memindex
               /\ set[p].Remaining_time = charged[p].Remaining_time
               /\ set[p].Running_time = charged[p].Running_time
               /\ set[p].State = IF p = r THEN "FINISHED" ELSE charged[p].State
      BY <1>1, <1>5, <3>1, FinishRecords
    <3>3. \A p \in Procs :
            /\ set[p].Arrival_time = charged[p].Arrival_time
            /\ set[p].Waiting_time = charged[p].Waiting_time
            /\ set[p].TA = IF p = r THEN time - charged[p].Arrival_time ELSE charged[p].TA
      BY <1>1, <1>5, <3>1, FinishTimes
    <3>4. proc' = set
      BY <1>7, <2>1, <3>1
    <3> QED BY <2>1, <3>2, <3>3, <3>4
  <2>2. CASE charged[r].Remaining_time # 0
    <3>1. proc' = charged
      BY <1>7, <2>2
    <3> QED BY <1>5, <2>2, <3>1
  <2> QED BY <2>1, <2>2
<1>10. RanToEnd(r)
  <2>1. ASSUME NEW p \in Procs, p = r, proc'[p].Remaining_time = 0
        PROVE  proc'[p].TA = follow + 1 - proc[p].Arrival_time
    <3>1. charged[p].Remaining_time = 0
      BY <1>9, <2>1
    <3>2. proc'[p].TA = time - charged[p].Arrival_time
      BY <1>9, <2>1, <3>1
    <3>3. charged[p].Arrival_time = proc[p].Arrival_time
      BY <1>2, <1>6, <2>1
    <3>4. proc'[p].TA = time - proc[p].Arrival_time
      BY <3>2, <3>3
    <3>5. follow \in Int /\ proc[p].Arrival_time \in Int
      BY TimesAreNumbers DEF IInv, SharedInv, SharedTypeOK
    <3> QED BY <1>4, <3>4, <3>5
  <2> QED BY <1>2, <1>5, <1>6, <1>9, <2>1 DEF RanToEnd
<1>11. total_waiting_time' = total_waiting_time
         + IF proc'[r].Remaining_time = 0 THEN proc'[r].Waiting_time ELSE 0
  <2>1. CASE charged[r].Remaining_time = 0
    BY <1>1, <1>7, <1>9, <2>1
  <2>2. CASE charged[r].Remaining_time # 0
    BY <1>1, <1>7, <1>8, <1>9, <2>2
  <2> QED BY <2>1, <2>2
<1>12. \A p \in Procs :
         proc'[p].Waiting_time = proc[p].Waiting_time + IF p # r /\ p \in Holders THEN 1 ELSE 0
  BY <1>1, <1>2, <1>6, <1>9
<1>13. charged[r].Remaining_time = proc'[r].Remaining_time
  BY <1>1, <1>9
<1> QED BY <1>7, <1>10, <1>11, <1>12, <1>13

\* r runs, after it has been started at some time; counts and lines are those
\* that the caller passes.
LEMMA RunReports ==
  ASSUME IInv, IInv', Books, Lines, Begin, EndOfPass,
         NEW r, NEW list, NEW procs, NEW counts \in [Procs -> Nat],
         NEW lines \in [Procs -> Seq(States)],
         ReadyToRun(r, list, procs), KeptTimes(procs, {}, follow),
         RunCurrProcess(r, list, procs, counts, lines),
         \A p \in Procs : IF p \in Finished THEN counts[p] >= ups[p] ELSE counts[p] = ups[p],
         \A p \in Procs \ {r} : lines[p] = log[p],
         lines[r] # <<>>, Last(lines[r]) = "STARTED", Tells(lines[r], {})
  PROVE  Books' /\ Lines'
<1>1. /\ RanToEnd(r) /\ cpu_waiting_time' = cpu_waiting_time
      /\ \A p \in Procs :
           proc'[p].Waiting_time =
             proc[p].Waiting_time + IF p # r /\ p \in Holders THEN 1 ELSE 0
      /\ total_waiting_time' = total_waiting_time
           + IF proc'[r].Remaining_time = 0 THEN proc'[r].Waiting_time ELSE 0
      /\ ups' = Up(counts, r)
      /\ log' = IF proc'[r].Remaining_time = 0 THEN PrintLine(lines, r, "FINISHED") ELSE lines
  BY RunEnds
<1>2. /\ SharedInv /\ SharedTypeOK /\ SharedTypeOK' /\ Ledger /\ phase = "receive"
      /\ r \in Holders /\ r \in Procs /\ r \notin Finished
  BY DEF IInv, SharedInv, Books, Begin, Turn, ReadyToRun, Holders, Holds, Finished
<1>3. Ledger'
  <2>1. \A p \in Finished : proc'[p].Waiting_time = proc[p].Waiting_time
    BY <1>1, <1>2, TimesAreNumbers DEF Finished, Holders, Holds
  <2> QED BY <1>1, <1>2, <2>1, RanToEndLedger
<1>4. \A p \in Procs : AccountOf(p) => AccountOf(p)'
  BY <1>1, <1>2, RanToEndAccount
<1>5. /\ ups'[r] = counts[r] + 1
      /\ \A p \in Procs \ {r} : ups'[p] = counts[p]
  BY <1>1, <1>2 DEF Up
<1>6. \A p \in Procs \ {r} : /\ Executed(p)' = Executed(p)
                             /\ proc'[p].Running_time = proc[p].Running_time
                             /\ p \in Finished' <=> p \in Finished
                             /\ log'[p] = log[p]
  <2>1. \A p \in Procs \ {r} : log'[p] = log[p]
    <3>1. PICK more : more = PrintLine(lines, r, "FINISHED")
      OBVIOUS
    <3>2. \A p \in Procs \ {r} : more[p] = lines[p]
      BY <1>2, <3>1, PrintedLine DEF States
    <3> QED BY <1>1, <3>1, <3>2
  <2>2. \A p \in Procs \ {r} : proc'[p].Remaining_time = proc[p].Remaining_time
    BY <1>1, <1>2, TimesAreNumbers DEF RanToEnd
  <2> QED BY <1>1, <2>1, <2>2 DEF RanToEnd, Executed, Finished
<1>7. /\ Executed(r)' = Executed(r) + 1 /\ Executed(r) \in Nat
      /\ proc'[r].Remaining_time = 0 => Executed(r)' = proc'[r].Running_time
  <2>1. /\ proc[r].Remaining_time \in Int /\ proc[r].Running_time \in Nat
        /\ proc[r].Remaining_time <= proc[r].Running_time
    BY <1>2, TimesAreNumbers DEF Ledger, ExecutedIsNat
  <2>2. /\ proc'[r].Remaining_time = proc[r].Remaining_time - 1
        /\ proc'[r].Running_time = proc[r].Running_time
    BY <1>1, <1>2 DEF RanToEnd
  <2> QED BY <2>1, <2>2 DEF Executed
<1>8. r \in Finished' <=> proc'[r].Remaining_time = 0
  BY <1>1, <1>2 DEF RanToEnd, Finished
<1>9. ups'[r] = Executed(r)'
  BY <1>2, <1>5, <1>7 DEF Lines, LineOf
<1>10. LineOf(r)'
  <2>1. CASE proc'[r].Remaining_time = 0
    <3>1. log'[r] = Append(lines[r], "FINISHED")
      <4>1. PICK more : more = PrintLine(lines, r, "FINISHED")
        OBVIOUS
      <4>2. more[r] = Append(lines[r], "FINISHED")
        BY <1>2, <4>1, PrintedLine DEF States
      <4> QED BY <1>1, <2>1, <4>1, <4>2
    <3>2. lines[r] \in Seq(States) /\ "FINISHED" \in States /\ Follows("STARTED", "FINISHED")
      BY <1>2, FollowingLines DEF States
    <3>3. log'[r] # <<>> /\ Last(log'[r]) = "FINISHED" /\ Tells(log'[r], {})
      BY <3>1, <3>2, TellsOneMore
    <3>4. ups'[r] >= proc'[r].Running_time
      BY <1>7, <1>9, <2>1
    <3> QED BY <1>8, <2>1, <3>3, <3>4 DEF LineOf
  <2>2. CASE proc'[r].Remaining_time # 0
    <3>1. log'[r] = lines[r]
      BY <1>1, <2>2
    <3> QED BY <1>7, <1>8, <1>9, <2>2, <3>1 DEF LineOf
  <2> QED BY <2>1, <2>2
<1>11. ASSUME NEW p \in Procs \ {r} PROVE LineOf(p)'
  <2>1. LineOf(p) /\ ups[p] \in Nat /\ counts[p] \in Nat /\ proc[p].Running_time \in Nat
    BY <1>2, TimesAreNumbers DEF Lines, SharedTypeOK
  <2>2. p \in Finished => ups'[p] >= proc'[p].Running_time
    BY <1>5, <1>6, <2>1 DEF LineOf
  <2>3. p \notin Finished => ups'[p] = ups[p]
    BY <1>5, <2>1
  <2> QED BY <1>6, <2>1, <2>2, <2>3 DEF LineOf
<1> QED BY <1>3, <1>4, <1>10, <1>11 DEF Books, Lines

LEMMA DispatchReports ==
  ASSUME IInv, OrderInv, Books, Lines, Dispatch
  PROVE  Books' /\ Lines'
<1>1. PICK r, rest, procs : r = front /\ rest = Tail(Priority_List_HPF_SJF)
                            /\ procs = SetState(proc, front, "STARTED")
  OBVIOUS
<1>2. PICK counts, lines : /\ counts = IF curr_Proc = None THEN ups ELSE Up(ups, curr_Proc)
                           /\ lines = PrintLine(log, r, "STARTED")
  OBVIOUS
<1>3. /\ Begin /\ EndOfPass /\ Priority_List_HPF_SJF # <<>> /\ NothingRuns
      /\ RunCurrProcess(r, rest, procs, counts, lines)
  BY <1>1, <1>2 DEF Dispatch
<1>4. ReadyToRun(r, rest, procs)
  BY <1>1, <1>3, FrontIsReady
<1>5. /\ SharedTypeOK /\ IInv' /\ r \in Procs /\ "STARTED" \in States
      /\ log \in [Procs -> Seq(States)] /\ ups \in [Procs -> Nat]
  BY <1>4, DispatchIInv DEF IInv, SharedInv, SharedTypeOK, ReadyToRun, Holders, States
<1>6. KeptTimes(procs, {}, follow)
  <2>1. KeptTimes(proc, {}, follow) /\ proc \in [Procs -> ProcessRecords]
    BY NothingKept, NothingSet DEF IInv, SameWork
  <2> QED BY <1>1, <1>5, <2>1, SetStateKeepsTimes
<1>7. /\ counts \in [Procs -> Nat]
      /\ \A p \in Procs : IF p \in Finished THEN counts[p] >= ups[p] ELSE counts[p] = ups[p]
  <2>1. CASE curr_Proc = None
    BY <1>2, <1>5, <2>1
  <2>2. CASE curr_Proc # None
    <3>1. curr_Proc \in Finished
      BY <1>3, <2>2 DEF NothingRuns, Finished, IInv, TypeOK
    <3>2. counts = [ups EXCEPT ![curr_Proc] = @ + 1]
      BY <1>2, <2>2 DEF Up
    <3> QED BY <1>5, <3>1, <3>2 DEF Finished
  <2> QED BY <2>1, <2>2
<1>8. /\ lines \in [Procs -> Seq(States)] /\ lines[r] = Append(log[r], "STARTED")
      /\ \A p \in Procs \ {r} : lines[p] = log[p]
  BY <1>2, <1>5, PrintedLine
<1>9. log[r] = <<>>
  <2>1. proc[r].Remaining_time = proc[r].Running_time
    BY <1>1, <1>3, FrontIsShortest
  <2>2. Executed(r) = 0
    BY <1>5, <2>1, TimesAreNumbers DEF Executed
  <2>3. r \notin Finished
    BY <1>4 DEF ReadyToRun, Holders, Holds, Finished
  <2> QED BY <1>5, <2>2, <2>3 DEF Lines, LineOf
<1>10. /\ Append(log[r], "STARTED") # <<>> /\ Last(Append(log[r], "STARTED")) = "STARTED"
       /\ Tells(Append(log[r], "STARTED"), {})
  BY <1>5, <1>9, NoLinesTell, TellsOneMore
<1> QED BY <1>3, <1>4, <1>5, <1>6, <1>7, <1>8, <1>10, RunReports

LEMMA ContinueReports ==
  ASSUME IInv, OrderInv, Books, Lines, Continue
  PROVE  Books' /\ Lines'
<1>1. PICK r, list, procs : r = curr_Proc /\ list = Priority_List_HPF_SJF /\ procs = proc
  OBVIOUS
<1>2. Begin /\ EndOfPass /\ ~NothingRuns /\ RunCurrProcess(r, list, procs, ups, log)
  BY <1>1 DEF Continue
<1>3. ReadyToRun(r, list, procs) /\ KeptTimes(procs, {}, follow)
  BY <1>1, <1>2, CurrentIsReady, NothingKept
<1>4. /\ SharedTypeOK /\ IInv' /\ r \in Procs
      /\ log \in [Procs -> Seq(States)] /\ ups \in [Procs -> Nat]
  BY <1>3, ContinueIInv DEF IInv, SharedInv, SharedTypeOK, ReadyToRun, Holders
<1>5. log[r] # <<>> /\ Last(log[r]) = "STARTED" /\ Tells(log[r], {})
  <2>1. proc[r].Remaining_time < proc[r].Running_time
    BY <1>1, <1>2 DEF OrderInv, CurrentHasRun
  <2>2. Executed(r) # 0
    BY <1>4, <2>1, TimesAreNumbers DEF Executed
  <2>3. r \notin Finished
    BY <1>3 DEF ReadyToRun, Holders, Holds, Finished
  <2> QED BY <1>4, <2>2, <2>3 DEF Lines, LineOf
<1>6. \A p \in Procs : IF p \in Finished THEN ups[p] >= ups[p] ELSE ups[p] = ups[p]
  BY <1>4
<1> QED BY <1>2, <1>3, <1>4, <1>5, <1>6, RunReports

LEMMA IdleReports ==
  ASSUME IInv, Books, Lines, Idle
  PROVE  Books' /\ Lines'
<1>1. /\ phase = "receive" /\ EndOfPass /\ NothingRuns
      /\ cpu_waiting_time' = cpu_waiting_time + 1
      /\ UNCHANGED <<proc, log, total_waiting_time>>
  BY DEF Idle, Begin, Turn
<1>2. Holders = {}
  <2>1. Holders = Range(<<>>)
    BY DEF Idle, IInv, NoneLost
  <2> QED BY <2>1, EmptyQueue
<1>3. SharedInv /\ SharedTypeOK /\ Ledger /\ SharedTypeOK'
  BY IdleIInv DEF IInv, SharedInv, Books
<1>4. Books'
  BY <1>1, <1>2, <1>3, IdleAccounts DEF Books
<1>5. \A p \in Procs : IF p \in Finished THEN ups'[p] >= ups[p] ELSE ups'[p] = ups[p]
  <2>1. ups \in [Procs -> Nat]
    BY <1>3 DEF SharedTypeOK
  <2>2. CASE curr_Proc # None /\ last_up
    <3>1. ups' = [ups EXCEPT ![curr_Proc] = @ + 1] /\ curr_Proc \in Finished
      BY <1>1, <2>2 DEF Idle, Up, NothingRuns, Finished, IInv, TypeOK
    <3> QED BY <2>1, <3>1 DEF Finished
  <2>3. CASE ~(curr_Proc # None /\ last_up)
    BY <2>1, <2>3 DEF Idle
  <2> QED BY <2>2, <2>3
<1>6. ASSUME NEW p \in Procs PROVE LineOf(p)'
  <2>1. /\ LineOf(p) /\ ups[p] \in Nat /\ ups'[p] \in Nat /\ proc[p].Running_time \in Nat
        /\ p \in Finished' <=> p \in Finished
        /\ Executed(p)' = Executed(p) /\ log'[p] = log[p] /\ proc'[p] = proc[p]
    BY <1>1, <1>3, TimesAreNumbers DEF Lines, SharedTypeOK, Finished, Executed
  <2>2. IF p \in Finished THEN ups'[p] >= ups[p] ELSE ups'[p] = ups[p]
    BY <1>5
  <2>3. p \in Finished => ups'[p] >= proc'[p].Running_time
    BY <2>1, <2>2 DEF LineOf
  <2> QED BY <2>1, <2>2, <2>3 DEF LineOf
<1> QED BY <1>4, <1>6 DEF Lines

LEMMA NextReports == IInv /\ OrderInv /\ Books /\ Lines /\ [Next]_vars => Books' /\ Lines'
<1> SUFFICES ASSUME IInv, OrderInv, Books, Lines, [Next]_vars PROVE Books' /\ Lines'
  OBVIOUS
<1>1. SharedInv /\ Ledger
  BY DEF IInv, Books
<1>2. CASE Tick /\ UNCHANGED <<listVars, process_count, last_up>>
  <2>1. Books'
    BY <1>1, <1>2, TickAccounts DEF Books
  <2>2. UNCHANGED <<proc, log, ups>>
    BY <1>2 DEF Tick, files
  <2> QED BY <2>1, <2>2 DEF Lines, LineOf, Finished, Executed
<1>3. CASE ReceiveProcess \/ RefuseProcess
  BY <1>3, ReceiveReports
<1>4. CASE Idle
  BY <1>4, IdleReports
<1>5. CASE Dispatch
  BY <1>5, DispatchReports
<1>6. CASE Continue
  BY <1>6, ContinueReports
<1>7. CASE UNCHANGED vars
  <2>1. Books'
    BY <1>1, <1>7, AccountsStutter DEF vars, Books
  <2>2. UNCHANGED <<proc, log, ups>>
    BY <1>7 DEF vars, sharedVars, files
  <2> QED BY <2>1, <2>2 DEF Lines, LineOf, Finished, Executed
<1> QED BY <1>2, <1>3, <1>4, <1>5, <1>6, <1>7 DEF Next, Algorithm

LEMMA LinesTell == SharedTypeOK /\ Ledger /\ Lines => LogTellsLife /\ Lockstep
<1> SUFFICES ASSUME SharedTypeOK, Ledger, Lines PROVE LogTellsLife /\ Lockstep
  OBVIOUS
<1>1. ASSUME NEW p \in Procs
      PROVE  /\ log[p] # <<>> => log[p][1] = "STARTED"
             /\ \A i \in 1 .. Len(log[p]) - 1 : Follows(log[p][i], log[p][i + 1])
             /\ p \in Finished <=> (log[p] # <<>> /\ Last(log[p]) = "FINISHED")
  BY DEF Lines, LineOf, Tells
<1>2. ASSUME NEW p \in Holders PROVE ups[p] \in Executed(p) - 1 .. Executed(p) + 1
  <2>1. ups[p] = Executed(p) /\ Executed(p) \in Int
    BY TimesAreNumbers DEF Lines, LineOf, Holders, Holds, Finished, Executed
  <2> QED BY <2>1
<1>3. \A p \in Finished : ups[p] >= proc[p].Running_time
  BY DEF Lines, LineOf, Finished
<1> QED BY <1>1, <1>2, <1>3 DEF LogTellsLife, Lockstep

\* The numbers in scheduler.log and scheduler.perf are so whatever arrives, is
\* refused or runs; the lines of a process tell a possible life; and up() was
\* called as often as the process ran, the late calls for the last one included.
THEOREM ReportsAreTrue == Spec => []Reports
<1>1. Init => IInv /\ OrderInv /\ Books /\ Lines
  BY InitIInv, InitOrder, InitAccounts, InitLines DEF Init, Books
<1>2. (IInv /\ OrderInv /\ Books /\ Lines) /\ [Next]_vars
        => (IInv /\ OrderInv /\ Books /\ Lines)'
  BY NextIInv, NextOrder, NextReports
<1>3. IInv /\ Books /\ Lines => Reports
  BY LedgerIsAccounts, LinesTell DEF IInv, SharedInv, Books, Reports
<1> QED BY <1>1, <1>2, <1>3, PTL DEF Spec
=============================================================================
