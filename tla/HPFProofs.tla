----------------------------- MODULE HPFProofs -----------------------------
(***************************************************************************)
(* Under HPF no process and no memory is ever lost, the list stays in the  *)
(* order of the priorities, what runs has the highest, and the reports are *)
(* so.  The remaining time of a process may become negative (see           *)
(* NoOverrun), so nothing is assumed of it here.                           *)
(***************************************************************************)
EXTENDS HPF, SchedulerProofs

IInv == SharedInv /\ TypeOK /\ NoneLost

-----------------------------------------------------------------------------
\* The list and who is on it, in one place.
LEMMA ListFacts ==
  ASSUME IInv
  PROVE  /\ Priority_List_HPF_SJF \in Seq(Procs) /\ IsInjective(Priority_List_HPF_SJF)
         /\ Len(Priority_List_HPF_SJF) \in Nat
         /\ Holders = Range(Priority_List_HPF_SJF) /\ Holders \subseteq Procs
         /\ \A i \in 1 .. Len(Priority_List_HPF_SJF) : Priority_List_HPF_SJF[i] \in Holders
         /\ \A x \in Holders :
              \E i \in 1 .. Len(Priority_List_HPF_SJF) : Priority_List_HPF_SJF[i] = x
         /\ \A p \in Procs : proc[p].Priority \in Nat
<1>1. /\ Priority_List_HPF_SJF \in Seq(Procs) /\ IsInjective(Priority_List_HPF_SJF)
      /\ Holders = Range(Priority_List_HPF_SJF)
  BY DEF IInv, TypeOK, NoneLost, NoDuplicates
<1>2. \A p \in Procs : proc[p].Priority \in Nat
  BY DEF IInv, SharedInv, SharedTypeOK
<1> QED BY <1>1, <1>2, RangeOfQueue, LenProperties DEF Holders

LEMMA InitIInv == Init => IInv
<1> SUFFICES ASSUME Init PROVE IInv
  OBVIOUS
<1>1. SharedInv /\ Holders = {}
  BY SharedInitInv DEF Init
<1>2. Range(<<>>) = {} /\ IsInjective(<<>>) /\ <<>> \in Seq(Procs) /\ Len(<<>>) = 0
  BY EmptyQueue
<1>3. TypeOK
  BY <1>1, <1>2 DEF Init, TypeOK, SharedInv, States
<1>4. NoneLost
  BY <1>1, <1>2 DEF Init, NoneLost, NoDuplicates, Sorted, Empty
<1> QED BY <1>1, <1>3, <1>4 DEF IInv

\* A step that leaves the list, the holders and their priorities alone.
LEMMA ListUnchanged ==
  ASSUME IInv, SharedInv', Holders' = Holders,
         Priority_List_HPF_SJF' = Priority_List_HPF_SJF,
         curr_Proc' = curr_Proc \/ curr_Proc' \in Holders,
         P_state' \in States, startt' \in BOOLEAN,
         \A p \in Holders : proc'[p].Priority = proc[p].Priority
  PROVE  IInv'
<1>1. Sorted'
  BY ListFacts DEF IInv, NoneLost, Sorted
<1>2. IF Empty' THEN curr_Proc' = None ELSE curr_Proc' \in Range(Priority_List_HPF_SJF)
  BY ListFacts, EmptyQueue DEF IInv, NoneLost, Empty
<1>3. NoneLost'
  BY <1>1, <1>2 DEF IInv, NoneLost, NoDuplicates
<1>4. TypeOK'
  BY DEF IInv, TypeOK, SharedInv, Holders
<1> QED BY <1>3, <1>4 DEF IInv

LEMMA TickIInv ==
  ASSUME IInv, Tick, UNCHANGED <<listVars, P_state, startt>>
  PROVE  IInv'
<1>1. SharedInv' /\ Holders' = Holders /\ proc' = proc
  BY TickInv DEF IInv, Tick
<1> QED BY <1>1, ListUnchanged DEF IInv, TypeOK, listVars

LEMMA StutterIInv ==
  ASSUME IInv, UNCHANGED vars
  PROVE  IInv'
<1>1. SharedInv' /\ Holders' = Holders /\ proc' = proc
  BY StutterInv DEF IInv, vars
<1> QED BY <1>1, ListUnchanged DEF IInv, TypeOK, listVars, vars

LEMMA IdleIInv ==
  ASSUME IInv, Idle
  PROVE  IInv'
<1>1. SharedInv' /\ Holders' = Holders /\ proc' = proc
  BY IdleTurn DEF IInv, Idle
<1> QED BY <1>1, ListUnchanged DEF IInv, TypeOK, listVars, Idle

LEMMA RefuseIInv ==
  ASSUME IInv, RefuseProcess
  PROVE  IInv'
<1>1. PICK r : r = received'
  OBVIOUS
<1>2. /\ SharedInv' /\ Holders' = Holders /\ r \in Procs /\ proc'[r].memindex = NoPlace
      /\ \A p \in Procs \ {r} : proc'[p] = proc[p]
  BY <1>1, RefuseInv DEF IInv, RefuseProcess
<1>3. r \notin Holders
  BY <1>2 DEF Holders, Holds
<1>4. \A p \in Holders : proc'[p].Priority = proc[p].Priority
  BY <1>2, <1>3 DEF Holders
<1>5. UNCHANGED <<Priority_List_HPF_SJF, curr_Proc, P_state, startt>>
  BY DEF RefuseProcess, listVars
<1> QED BY <1>2, <1>4, <1>5, ListUnchanged DEF IInv, TypeOK

-----------------------------------------------------------------------------
\* pushIntoPriorityQueue looks for the place in the order of the priorities.
LEMMA PushPositionIsPlace ==
  ASSUME NEW list \in Seq(Procs), NEW e \in Procs, NEW priority, NEW rank,
         rank[e] = priority, \A p \in Range(list) : rank[p] = proc[p].Priority
  PROVE  PushPosition(list, priority) = PlaceOf(e, list, rank)
<1>1. /\ Len(list) \in Nat
      /\ \A i \in 1 .. Len(list) : rank[list[i]] = proc[list[i]].Priority
      /\ list # <<>> => rank[Head(list)] = proc[Head(list)].Priority
  BY LenProperties, RangeOfQueue, PoppedQueue
<1>2. {i \in 2 .. Len(list) : rank[list[i]] >= rank[e]}
        = {i \in 2 .. Len(list) : proc[list[i]].Priority >= priority}
  BY <1>1
<1> QED BY <1>1, <1>2 DEF PushPosition, PlaceOf

\* What a received process changes in the records: its own, and the state of
\* the front, which is not finished.
LEMMA PushedRecords ==
  ASSUME IInv, NEW n \in Messages, Accept(n), PushIntoPriorityQueue(n),
         NEW r, r = received + 1
  PROVE  /\ r \in Procs
         /\ proc' \in [Procs -> ProcessRecords] /\ proc'[r] = n
         /\ \A p \in Procs \ {r} : SameMemory(p)
         /\ \A p \in Procs \ {r} : proc'[p].Priority = proc[p].Priority
         /\ \A p \in Procs \ {r} : proc'[p].Remaining_time = proc[p].Remaining_time
         /\ \A p \in Procs \ {r} : SameTimes(p)
<1> DEFINE pushed == IF Displaces(Priority_List_HPF_SJF, n.Priority)
                     THEN SetState(proc, front, "STOPPED") ELSE proc
<1>1. r \in Procs
  <2>1. received \in 0 .. Count_OF_Processes /\ received < Count_OF_Processes
    BY DEF IInv, SharedInv, SharedTypeOK, Accept, Receive
  <2> QED BY <2>1, ConstantTypes DEF Procs
<1>2. proc \in [Procs -> ProcessRecords] /\ n \in ProcessRecords /\ SameWork(proc)
  BY MessageTypes, NothingSet DEF IInv, SharedInv, SharedTypeOK, ProcessRecords
<1>3. Displaces(Priority_List_HPF_SJF, n.Priority) => front \in Holders
  <2>1. Priority_List_HPF_SJF # <<>> => Head(Priority_List_HPF_SJF) \in Range(Priority_List_HPF_SJF)
    BY PoppedQueue, ListFacts
  <2> QED BY <2>1, ListFacts DEF Displaces, front
<1>4. SameWork(pushed) /\ KeptTimes(pushed, {}, follow)
  <2>1. "STOPPED" \in States /\ KeptTimes(proc, {}, follow)
    BY NothingKept DEF States
  <2>2. SameWork(pushed)
    BY <1>2, <1>3, <2>1, SetStateIsSameWork
  <2>3. KeptTimes(pushed, {}, follow)
    BY <1>2, <1>3, <2>1, SetStateKeepsTimes DEF Holders
  <2> QED BY <2>2, <2>3
<1>5. proc' = [pushed EXCEPT ![r] = n]
  BY DEF PushIntoPriorityQueue
<1> HIDE DEF pushed
<1>6. pushed \in [Procs -> ProcessRecords]
  BY <1>4 DEF SameWork
<1>7. proc' \in [Procs -> ProcessRecords] /\ proc'[r] = n /\ \A p \in Procs \ {r} : proc'[p] = pushed[p]
  BY <1>1, <1>2, <1>5, <1>6
<1>8. \A p \in Procs \ {r} : SameTimes(p)
  BY <1>4, <1>7 DEF SameWork, KeptTimes, SameTimes
<1> QED BY <1>1, <1>4, <1>7, <1>8 DEF SameMemory, SameWork

LEMMA ReceiveIInv ==
  ASSUME IInv, ReceiveProcess
  PROVE  IInv'
<1>1. PICK n \in Messages :
        /\ Accept(n) /\ PushIntoPriorityQueue(n)
        /\ curr_Proc' = IF Empty THEN received + 1 ELSE curr_Proc
        /\ UNCHANGED <<P_state, startt>>
  BY DEF ReceiveProcess
<1>2. PICK r : r = received + 1
  OBVIOUS
<1>3. PICK list : list = Priority_List_HPF_SJF
  OBVIOUS
<1>4. PICK at : at = PushPosition(list, n.Priority)
  OBVIOUS
<1>5. /\ r \in Procs
      /\ proc' \in [Procs -> ProcessRecords] /\ proc'[r] = n
      /\ \A p \in Procs \ {r} : SameMemory(p)
      /\ \A p \in Procs \ {r} : proc'[p].Priority = proc[p].Priority
  BY <1>1, <1>2, PushedRecords
<1>6. /\ SharedInv' /\ r \notin Holders /\ Holders' = Holders \cup {r}
  BY <1>1, <1>2, <1>5, AcceptInv DEF IInv
<1>7. /\ list \in Seq(Procs) /\ IsInjective(list) /\ r \notin Range(list)
      /\ Holders = Range(list) /\ Holders \subseteq Procs
      /\ \A i \in 1 .. Len(list) : list[i] \in Holders
  BY <1>3, <1>6, ListFacts
<1>8. PICK rank \in [Procs -> Nat] : rank = [p \in Procs |-> proc'[p].Priority]
  BY <1>5 DEF ProcessRecords
<1>9. \A p \in Range(list) : rank[p] = proc[p].Priority
  BY <1>5, <1>6, <1>7, <1>8
<1>10. rank[r] = n.Priority /\ Ordered(list, rank)
  BY <1>3, <1>5, <1>7, <1>8, <1>9 DEF IInv, NoneLost, Sorted, Ordered
<1>11. at = PlaceOf(r, list, rank)
  BY <1>4, <1>5, <1>7, <1>9, <1>10, PushPositionIsPlace
<1>12. PICK grown : grown = InsertAt(list, at, r)
  OBVIOUS
<1>13. at \in 1 .. Len(list) + 1 /\ Ordered(grown, rank)
  BY <1>5, <1>7, <1>10, <1>11, <1>12, InsertedInOrder
<1>14. /\ grown \in Seq(Procs) /\ Range(grown) = Range(list) \cup {r} /\ IsInjective(grown)
       /\ \A i \in 1 .. Len(grown) : grown[i] \in Procs
  <2>1. r \in Procs /\ list \in Seq(Procs) /\ at \in 1 .. Len(list) + 1
        /\ IsInjective(list) /\ r \notin Range(list)
    BY <1>5, <1>7, <1>13
  <2>2. grown \in Seq(Procs) /\ Range(grown) = Range(list) \cup {r} /\ IsInjective(grown)
    BY <1>12, <2>1, InsertedInQueue
  <2> QED BY <2>2, ElementOfSeq
<1>15. Priority_List_HPF_SJF' = grown
  BY <1>1, <1>2, <1>3, <1>4, <1>12 DEF PushIntoPriorityQueue
<1>16. Sorted'
  BY <1>8, <1>13, <1>14, <1>15 DEF Sorted, Ordered
<1>17. curr_Proc' \in Range(grown) /\ grown # <<>>
  <2>1. curr_Proc \in Range(list) \/ Empty
    BY <1>3 DEF IInv, NoneLost
  <2>2. r \in Range(grown)
    BY <1>14
  <2>3. grown # <<>>
    BY <2>2, EmptyQueue
  <2> QED BY <1>1, <1>2, <1>14, <2>1, <2>2, <2>3
<1>18. NoneLost'
  BY <1>6, <1>7, <1>14, <1>15, <1>16, <1>17 DEF NoneLost, NoDuplicates, Empty
<1>19. TypeOK'
  BY <1>1, <1>6, <1>14, <1>15, <1>17, RangeOfQueue DEF IInv, TypeOK, SharedInv
<1> QED BY <1>6, <1>18, <1>19 DEF IInv

-----------------------------------------------------------------------------
\* The front and what is behind it.

LEMMA FrontIsHighest ==
  ASSUME IInv, ~Empty
  PROVE  /\ front \in Holders /\ front \in Procs
         /\ \A x \in Holders : proc[front].Priority <= proc[x].Priority
<1>1. PICK list \in Seq(Procs) : list = Priority_List_HPF_SJF
  BY ListFacts
<1>2. list # <<>> /\ front = Head(list) /\ Holders = Range(list) /\ Holders \subseteq Procs
  BY <1>1, ListFacts DEF Empty, front
<1>3. PICK rank \in [Procs -> Nat] : rank = [p \in Procs |-> proc[p].Priority]
  BY ListFacts
<1>4. Ordered(list, rank)
  BY <1>1, <1>3, ElementOfSeq DEF IInv, NoneLost, Sorted, Ordered
<1>5. front \in Holders /\ \A x \in Range(list) : rank[front] <= rank[x]
  BY <1>2, <1>4, PoppedInOrder, PoppedQueue
<1> QED BY <1>2, <1>3, <1>5

LEMMA RestOfList ==
  ASSUME IInv, ~Empty, NEW rest, rest = Tail(Priority_List_HPF_SJF)
  PROVE  /\ rest \in Seq(Procs) /\ IsInjective(rest) /\ Len(rest) \in Nat
         /\ Range(rest) = Holders \ {front}
         /\ \A i \in 1 .. Len(rest) : rest[i] \in Holders \ {front}
         /\ \A i, j \in 1 .. Len(rest) :
              i < j => proc[rest[i]].Priority <= proc[rest[j]].Priority
         /\ rest # <<>> =>
              /\ Head(rest) \in Holders \ {front}
              /\ \A x \in Holders \ {front} : proc[Head(rest)].Priority <= proc[x].Priority
<1>1. PICK list \in Seq(Procs) : list = Priority_List_HPF_SJF
  BY ListFacts
<1>2. /\ list # <<>> /\ IsInjective(list) /\ front = Head(list)
      /\ Holders = Range(list) /\ Holders \subseteq Procs
  BY <1>1, ListFacts DEF Empty, front
<1>3. PICK rank \in [Procs -> Nat] : rank = [p \in Procs |-> proc[p].Priority]
  BY ListFacts
<1>4. Ordered(list, rank)
  BY <1>1, <1>3, ElementOfSeq DEF IInv, NoneLost, Sorted, Ordered
<1>5. /\ rest \in Seq(Procs) /\ IsInjective(rest)
      /\ Range(list) = Range(rest) \cup {front} /\ front \notin Range(rest)
  BY <1>1, <1>2, PoppedQueue
<1>6. Len(rest) \in Nat /\ Range(rest) = Holders \ {front}
  BY <1>2, <1>5, LenProperties
<1>7. \A i \in 1 .. Len(rest) : rest[i] \in Holders \ {front}
  BY <1>5, <1>6, RangeOfQueue
<1>8. Ordered(rest, rank)
  BY <1>1, <1>2, <1>4, PoppedInOrder
<1>9. \A i, j \in 1 .. Len(rest) : i < j => proc[rest[i]].Priority <= proc[rest[j]].Priority
  BY <1>2, <1>3, <1>7, <1>8 DEF Ordered
<1>10. ASSUME rest # <<>>
       PROVE  /\ Head(rest) \in Holders \ {front}
              /\ \A x \in Holders \ {front} : proc[Head(rest)].Priority <= proc[x].Priority
  <2>1. Head(rest) \in Range(rest) /\ \A x \in Range(rest) : rank[Head(rest)] <= rank[x]
    BY <1>5, <1>8, <1>10, PoppedInOrder, PoppedQueue
  <2> QED BY <1>2, <1>3, <1>6, <2>1
<1> QED BY <1>5, <1>6, <1>7, <1>9, <1>10

-----------------------------------------------------------------------------
\* The turns of HPF_Algo.

\* The process that was preempted is stopped: its work and memory stay.
LEMMA PreemptedIsSameWork ==
  ASSUME IInv, ~Empty
  PROVE  SameWork(PreemptedProc) /\ PreemptedLog \in [Procs -> Seq(States)]
<1>1. curr_Proc \in Holders /\ curr_Proc \in Procs
  BY ListFacts DEF IInv, NoneLost
<1>2. log \in [Procs -> Seq(States)] /\ "STOPPED" \in States
  BY DEF IInv, SharedInv, SharedTypeOK, States
<1>3. SameWork(proc) /\ SameWork(SetState(proc, curr_Proc, "STOPPED"))
  BY <1>1, <1>2, NothingSet, SetStateIsSameWork DEF IInv
<1>4. PrintLine(log, curr_Proc, "STOPPED") \in [Procs -> Seq(States)]
  BY <1>1, <1>2, PrintTypes
<1> QED BY <1>2, <1>3, <1>4 DEF PreemptedProc, PreemptedLog

\* What RunFront does: f runs, in a state that is not FINISHED.
LEMMA RunFrontSets ==
  ASSUME NEW f \in Procs, NEW list, NEW procs \in [Procs -> ProcessRecords],
         procs[f].State # "FINISHED", NEW lines \in [Procs -> Seq(States)],
         NEW shown \in States, NEW started \in BOOLEAN,
         RunFront(f, list, procs, lines, shown, started)
  PROVE  /\ \E s \in States :
              s # "FINISHED" /\ proc' = Charge(SetState(procs, f, s), f, Range(list))
         /\ Priority_List_HPF_SJF' = list
         /\ log' \in [Procs -> Seq(States)]
         /\ P_state' \in States /\ startt' \in BOOLEAN
         /\ cpu_waiting_time' = cpu_waiting_time
<1> DEFINE state == IF procs[f].Remaining_time = procs[f].Running_time THEN "STARTED"
                    ELSE IF started THEN procs[f].State
                    ELSE "RESUMED"
           sets == procs[f].Remaining_time = procs[f].Running_time \/ ~started
<1>1. state \in States /\ state # "FINISHED"
  BY DEF ProcessRecords, States
<1>2. /\ Priority_List_HPF_SJF' = list
      /\ proc' = Charge(SetState(procs, f, state), f, Range(list))
      /\ log' = IF sets /\ state # shown THEN PrintLine(lines, f, state) ELSE lines
      /\ P_state' = IF sets THEN state ELSE shown
      /\ startt' = (started \/ state = "STARTED")
      /\ cpu_waiting_time' = cpu_waiting_time
  BY DEF RunFront
<1> HIDE DEF state, sets
<1>3. log' \in [Procs -> Seq(States)]
  BY <1>1, <1>2, PrintTypes
<1>4. P_state' \in States /\ startt' \in BOOLEAN
  BY <1>1, <1>2
<1> QED BY <1>1, <1>2, <1>3, <1>4

\* The turn in which the front runs and nobody finishes.
LEMMA RunHighestTurn ==
  ASSUME IInv, RunHighest
  PROVE  /\ ~Empty /\ IInv'
         /\ \A p \in Procs :
              proc'[p].Remaining_time = proc[p].Remaining_time - IF p = front THEN 1 ELSE 0
<1>1. PICK f : f = front
  OBVIOUS
<1>2. PICK procs : procs = PreemptedProc
  OBVIOUS
<1>3. PICK shown : shown = IF Preempts THEN "STOPPED" ELSE P_state
  OBVIOUS
<1>4. PICK lines : lines = PreemptedLog
  OBVIOUS
<1>5. PICK list : list = Priority_List_HPF_SJF
  OBVIOUS
<1>6. PICK started : started = startt
  OBVIOUS
<1>7. /\ ~Empty /\ EndOfPass /\ ups' = Up(ups, f)
      /\ curr_Proc' = IF Preempts THEN f ELSE curr_Proc
      /\ RunFront(f, list, procs, lines, shown, started)
      /\ UNCHANGED <<mem, finished_process_count, total_waiting_time>>
  BY <1>1, <1>2, <1>3, <1>4, <1>5, <1>6 DEF RunHighest, Begin
<1>8. f \in Holders /\ f \in Procs /\ proc[f].State # "FINISHED"
  BY <1>1, <1>7, FrontIsHighest DEF Holders, Holds
<1>9. SameWork(procs) /\ lines \in [Procs -> Seq(States)]
  BY <1>2, <1>4, <1>7, PreemptedIsSameWork
<1>10. /\ procs \in [Procs -> ProcessRecords] /\ procs[f].State # "FINISHED"
       /\ shown \in States /\ started \in BOOLEAN
  BY <1>3, <1>6, <1>8, <1>9 DEF SameWork, IInv, TypeOK, States
<1>11. /\ \E s \in States :
            s # "FINISHED" /\ proc' = Charge(SetState(procs, f, s), f, Range(list))
       /\ Priority_List_HPF_SJF' = list
       /\ log' \in [Procs -> Seq(States)]
       /\ P_state' \in States /\ startt' \in BOOLEAN
       /\ cpu_waiting_time' = cpu_waiting_time
  BY <1>7, <1>8, <1>9, <1>10, RunFrontSets
<1>12. PICK s \in States :
         s # "FINISHED" /\ proc' = Charge(SetState(procs, f, s), f, Range(list))
  BY <1>11
<1>13. PICK running : running = SetState(procs, f, s)
  OBVIOUS
<1>14. SameWork(running)
  BY <1>8, <1>9, <1>12, <1>13, SetStateIsSameWork
<1>15. ups' \in [Procs -> Nat]
  BY <1>7, <1>8, UpTypes DEF IInv, SharedInv, SharedTypeOK
<1>16. /\ SharedInv' /\ Holders' = Holders
       /\ \A p \in Procs :
            /\ proc'[p].Priority = proc[p].Priority
            /\ proc'[p].Remaining_time = proc[p].Remaining_time - IF p = f THEN 1 ELSE 0
  <2>1. proc' = Charge(running, f, Range(list))
    BY <1>12, <1>13
  <2> QED BY <1>7, <1>8, <1>11, <1>14, <1>15, <2>1, ChargedTurn DEF IInv
<1>17. IInv'
  <2>1. \A p \in Holders : proc'[p].Priority = proc[p].Priority
    BY <1>16 DEF Holders
  <2> QED BY <1>5, <1>7, <1>8, <1>11, <1>16, <2>1, ListUnchanged
<1> QED BY <1>1, <1>7, <1>16, <1>17

\* The front f is finished at the beginning of the turn.
LEMMA EndOfFrontTurn ==
  ASSUME IInv, EndOfFront
  PROVE  /\ ~Empty /\ front \in Holders /\ front \in Procs
         /\ finished_process_count' = finished_process_count + 1
         /\ mem' = FreeMemoryOf(proc[front])
         /\ total_waiting_time' = total_waiting_time + proc[front].Waiting_time
         /\ ups' \in [Procs -> Nat]
         /\ PrintLine(PreemptedLog, front, "FINISHED") \in [Procs -> Seq(States)]
         /\ Ended(front, Finish(PreemptedProc, front, follow))
<1>1. PICK f : f = front
  OBVIOUS
<1>2. /\ ~Empty /\ ups' = Up(Up(ups, f), f)
      /\ finished_process_count' = finished_process_count + 1
      /\ mem' = FreeMemoryOf(proc[f])
      /\ total_waiting_time' = total_waiting_time + proc[f].Waiting_time
  BY <1>1 DEF EndOfFront, Begin
<1>3. f \in Holders /\ f \in Procs
  BY <1>1, <1>2, FrontIsHighest
<1>4. ups \in [Procs -> Nat] /\ follow \in Int /\ "FINISHED" \in States
  BY DEF IInv, SharedInv, SharedTypeOK, States
<1>5. ups' \in [Procs -> Nat]
  <2>1. PICK once \in [Procs -> Nat] : once = Up(ups, f)
    BY <1>3, <1>4, UpTypes
  <2> QED BY <1>2, <1>3, <2>1, UpTypes
<1>6. SameWork(PreemptedProc) /\ PreemptedLog \in [Procs -> Seq(States)]
  BY <1>2, PreemptedIsSameWork
<1>7. PrintLine(PreemptedLog, f, "FINISHED") \in [Procs -> Seq(States)]
  BY <1>3, <1>4, <1>6, PrintTypes
<1>8. Ended(f, Finish(PreemptedProc, f, follow))
  BY <1>3, <1>4, <1>6, FinishEnds
<1> QED BY <1>1, <1>2, <1>3, <1>5, <1>7, <1>8

\* f leaves, and the next of the list runs.
LEMMA FinishAndRunNextTurn ==
  ASSUME IInv, FinishAndRunNext
  PROVE  /\ IInv'
         /\ \E f, r \in Holders :
              /\ proc'[f].State = "FINISHED" /\ r # f
              /\ \A x \in Holders \ {f} : proc[r].Priority <= proc[x].Priority
              /\ \A p \in Procs :
                   proc'[p].Remaining_time = proc[p].Remaining_time - IF p = r THEN 1 ELSE 0
<1>1. PICK f : f = front
  OBVIOUS
<1>2. PICK rest : rest = Tail(Priority_List_HPF_SJF)
  OBVIOUS
<1>3. PICK r : r = Head(rest)
  OBVIOUS
<1>4. PICK procs : procs = Finish(PreemptedProc, f, follow)
  OBVIOUS
<1>5. PICK lines : lines = PrintLine(PreemptedLog, f, "FINISHED")
  OBVIOUS
<1>6. /\ EndOfFront /\ rest # <<>> /\ curr_Proc' = r /\ EndOfPass
      /\ RunFront(r, rest, procs, lines, "FINISHED", FALSE)
  BY <1>1, <1>2, <1>3, <1>4, <1>5 DEF FinishAndRunNext
<1>7. /\ ~Empty /\ f \in Holders /\ f \in Procs
      /\ finished_process_count' = finished_process_count + 1
      /\ mem' = FreeMemoryOf(proc[f])
      /\ total_waiting_time' = total_waiting_time + proc[f].Waiting_time
      /\ ups' \in [Procs -> Nat]
      /\ lines \in [Procs -> Seq(States)] /\ Ended(f, procs)
  BY <1>1, <1>4, <1>5, <1>6, EndOfFrontTurn
<1>8. /\ rest \in Seq(Procs) /\ IsInjective(rest) /\ Range(rest) = Holders \ {f}
      /\ Len(rest) \in Nat
      /\ \A i \in 1 .. Len(rest) : rest[i] \in Holders \ {f}
      /\ \A i, j \in 1 .. Len(rest) :
           i < j => proc[rest[i]].Priority <= proc[rest[j]].Priority
      /\ r \in Holders \ {f}
      /\ \A x \in Holders \ {f} : proc[r].Priority <= proc[x].Priority
  BY <1>1, <1>2, <1>3, <1>6, <1>7, RestOfList
<1>9. r \in Procs /\ r # f /\ proc[r].State # "FINISHED"
  BY <1>8 DEF Holders, Holds
<1>10. procs \in [Procs -> ProcessRecords] /\ procs[r].State # "FINISHED"
  BY <1>7, <1>9 DEF Ended
<1>11. "FINISHED" \in States /\ FALSE \in BOOLEAN
  BY DEF States
<1>12. /\ \E s \in States :
            s # "FINISHED" /\ proc' = Charge(SetState(procs, r, s), r, Range(rest))
       /\ Priority_List_HPF_SJF' = rest
       /\ log' \in [Procs -> Seq(States)]
       /\ P_state' \in States /\ startt' \in BOOLEAN
       /\ cpu_waiting_time' = cpu_waiting_time
  BY <1>6, <1>7, <1>9, <1>10, <1>11, RunFrontSets
<1>13. PICK s \in States :
         s # "FINISHED" /\ proc' = Charge(SetState(procs, r, s), r, Range(rest))
  BY <1>12
<1>14. PICK running : running = SetState(procs, r, s)
  OBVIOUS
<1>15. Ended(f, running) /\ running \in [Procs -> ProcessRecords]
  <2>1. Ended(f, running)
    BY <1>7, <1>8, <1>13, <1>14, SetStateIsEnded
  <2> QED BY <2>1 DEF Ended
<1>16. /\ proc' \in [Procs -> ProcessRecords]
       /\ \A p \in Procs :
            /\ proc'[p].memindex = running[p].memindex
            /\ proc'[p].no_of_blocks = running[p].no_of_blocks
            /\ proc'[p].State = running[p].State
            /\ proc'[p].Priority = running[p].Priority
            /\ proc'[p].Remaining_time = running[p].Remaining_time - IF p = r THEN 1 ELSE 0
  <2>1. PICK charged : charged = Charge(running, r, Range(rest))
    OBVIOUS
  <2>2. /\ charged \in [Procs -> ProcessRecords]
        /\ \A p \in Procs :
             /\ charged[p].memindex = running[p].memindex
             /\ charged[p].no_of_blocks = running[p].no_of_blocks
             /\ charged[p].State = running[p].State
             /\ charged[p].Priority = running[p].Priority
             /\ charged[p].Remaining_time = running[p].Remaining_time - IF p = r THEN 1 ELSE 0
    <3>1. /\ Charge(running, r, Range(rest)) \in [Procs -> ProcessRecords]
          /\ \A x \in Procs :
               /\ Charge(running, r, Range(rest))[x].memindex = running[x].memindex
               /\ Charge(running, r, Range(rest))[x].no_of_blocks = running[x].no_of_blocks
               /\ Charge(running, r, Range(rest))[x].State = running[x].State
               /\ Charge(running, r, Range(rest))[x].Priority = running[x].Priority
               /\ Charge(running, r, Range(rest))[x].Remaining_time =
                    running[x].Remaining_time - IF x = r THEN 1 ELSE 0
      BY <1>9, <1>15, ChargeRecords
    <3> QED BY <2>1, <3>1
  <2> QED BY <1>13, <1>14, <2>1, <2>2
<1>17. \A p \in Procs :
         /\ proc'[p].memindex = proc[p].memindex
         /\ proc'[p].no_of_blocks = proc[p].no_of_blocks
         /\ proc'[p].State = "FINISHED" <=> p = f \/ proc[p].State = "FINISHED"
  BY <1>15, <1>16 DEF Ended
<1>18. \A p \in Procs :
         /\ proc'[p].Priority = proc[p].Priority
         /\ proc'[p].Remaining_time = proc[p].Remaining_time - IF p = r THEN 1 ELSE 0
  BY <1>15, <1>16 DEF Ended
<1>19. cpu_waiting_time' \in Nat
  BY <1>12 DEF IInv, SharedInv, SharedTypeOK
<1>20. SharedInv' /\ Holders' = Holders \ {f}
  BY <1>6, <1>7, <1>12, <1>16, <1>17, <1>19, EndedTurn DEF IInv
<1>21. Sorted'
  <2>1. \A i \in 1 .. Len(rest) : proc'[rest[i]].Priority = proc[rest[i]].Priority
    BY <1>8, <1>18 DEF Holders
  <2> QED BY <1>8, <1>12, <2>1 DEF Sorted
<1>22. NoneLost'
  BY <1>6, <1>8, <1>12, <1>20, <1>21 DEF NoneLost, NoDuplicates, Empty
<1>23. TypeOK'
  BY <1>6, <1>8, <1>9, <1>12, <1>20 DEF TypeOK, SharedInv
<1>24. proc'[f].State = "FINISHED"
  BY <1>7, <1>17
<1> QED BY <1>7, <1>8, <1>9, <1>18, <1>20, <1>22, <1>23, <1>24 DEF IInv

\* The last process leaves, and nothing runs.
LEMMA FinishLastTurn ==
  ASSUME IInv, FinishLast
  PROVE  /\ IInv'
         /\ \A p \in Procs : proc'[p].Remaining_time = proc[p].Remaining_time
<1>1. PICK f : f = front
  OBVIOUS
<1>2. PICK procs : procs = Finish(PreemptedProc, f, follow)
  OBVIOUS
<1>3. /\ EndOfFront /\ EndOfPass /\ Tail(Priority_List_HPF_SJF) = <<>>
      /\ Priority_List_HPF_SJF' = <<>> /\ curr_Proc' = None
      /\ proc' = procs /\ log' = PrintLine(PreemptedLog, f, "FINISHED")
      /\ P_state' = "FINISHED" /\ startt' = FALSE
      /\ cpu_waiting_time' = cpu_waiting_time + 1
  BY <1>1, <1>2 DEF FinishLast
<1>4. /\ ~Empty /\ f \in Holders
      /\ finished_process_count' = finished_process_count + 1
      /\ mem' = FreeMemoryOf(proc[f])
      /\ total_waiting_time' = total_waiting_time + proc[f].Waiting_time
      /\ ups' \in [Procs -> Nat]
      /\ log' \in [Procs -> Seq(States)] /\ Ended(f, procs)
  BY <1>1, <1>2, <1>3, EndOfFrontTurn
<1>5. Holders \ {f} = {}
  <2>1. PICK rest : rest = Tail(Priority_List_HPF_SJF)
    OBVIOUS
  <2>2. Range(rest) = Holders \ {f} /\ rest = <<>>
    BY <1>1, <1>3, <1>4, <2>1, RestOfList
  <2> QED BY <2>2, EmptyQueue
<1>6. /\ proc' \in [Procs -> ProcessRecords]
      /\ \A p \in Procs :
           /\ proc'[p].memindex = proc[p].memindex
           /\ proc'[p].no_of_blocks = proc[p].no_of_blocks
           /\ proc'[p].State = "FINISHED" <=> p = f \/ proc[p].State = "FINISHED"
  BY <1>3, <1>4 DEF Ended
<1>7. \A p \in Procs : proc'[p].Remaining_time = proc[p].Remaining_time
  BY <1>3, <1>4 DEF Ended
<1>8. cpu_waiting_time' \in Nat
  BY <1>3 DEF IInv, SharedInv, SharedTypeOK
<1>9. SharedInv' /\ Holders' = Holders \ {f}
  BY <1>3, <1>4, <1>6, <1>8, EndedTurn DEF IInv
<1>10. Len(<<>>) = 0 /\ <<>> \in Seq(Procs) /\ Range(<<>>) = {} /\ IsInjective(<<>>)
  BY EmptyQueue
<1>11. NoneLost'
  BY <1>3, <1>5, <1>9, <1>10 DEF NoneLost, NoDuplicates, Sorted, Empty
<1>12. TypeOK'
  BY <1>3, <1>9, <1>10 DEF TypeOK, SharedInv, States
<1> QED BY <1>7, <1>9, <1>11, <1>12 DEF IInv

LEMMA NextIInv == IInv /\ [Next]_vars => IInv'
<1> SUFFICES ASSUME IInv, [Next]_vars PROVE IInv'
  OBVIOUS
<1>1. CASE Tick /\ UNCHANGED <<listVars, P_state, startt>>
  BY <1>1, TickIInv
<1>2. CASE ReceiveProcess
  BY <1>2, ReceiveIInv
<1>3. CASE RefuseProcess
  BY <1>3, RefuseIInv
<1>4. CASE RunHighest
  BY <1>4, RunHighestTurn
<1>5. CASE FinishAndRunNext
  BY <1>5, FinishAndRunNextTurn
<1>6. CASE FinishLast
  BY <1>6, FinishLastTurn
<1>7. CASE Idle
  BY <1>7, IdleIInv
<1>8. CASE UNCHANGED vars
  BY <1>8, StutterIInv
<1> QED BY <1>1, <1>2, <1>3, <1>4, <1>5, <1>6, <1>7, <1>8 DEF Next, Algorithm

LEMMA InvariantHolds == Spec => []IInv
BY InitIInv, NextIInv, PTL DEF Spec

-----------------------------------------------------------------------------
\* The list, the records and the counters keep their types, although a process
\* may run below zero.
THEOREM TypeCorrect == Spec => []TypeOK
<1>1. IInv => TypeOK
  BY DEF IInv
<1> QED BY <1>1, InvariantHolds, PTL

\* Whatever is inserted before or behind the front and whoever finishes, who
\* holds blocks is on the list once, in the order of the priorities, the
\* blocks taken are exactly theirs, curr_Proc points into the list, and the
\* scheduler does not stop before all are through.
THEOREM NothingIsLost == Spec => []NothingLost
<1>1. IInv => NothingLost
  BY DEF IInv, SharedInv, NothingLost
<1> QED BY <1>1, InvariantHolds, PTL

-----------------------------------------------------------------------------
\* One step of HighestRuns.
RunsHighest ==
  \A p, x \in Holders :
    /\ proc'[p].Remaining_time < proc[p].Remaining_time
    /\ proc'[x].State # "FINISHED"
    => proc[p].Priority <= proc[x].Priority

\* Where nobody's remaining time changes there is nothing to show.
LEMMA NobodyRuns ==
  ASSUME IInv, \A p \in Holders : proc'[p].Remaining_time = proc[p].Remaining_time
  PROVE  RunsHighest
<1>1. \A p \in Holders : proc[p].Remaining_time \in Int
  BY DEF IInv, SharedInv, SharedTypeOK, Holders
<1> QED BY <1>1 DEF RunsHighest

LEMMA ReceiveRunsNobody ==
  ASSUME IInv, ReceiveProcess
  PROVE  RunsHighest
<1>1. PICK n \in Messages : Accept(n) /\ PushIntoPriorityQueue(n)
  BY DEF ReceiveProcess
<1>2. PICK r : r = received + 1
  OBVIOUS
<1>3. /\ proc' \in [Procs -> ProcessRecords] /\ proc'[r] = n
      /\ \A p \in Procs \ {r} : SameMemory(p)
      /\ \A p \in Procs \ {r} : proc'[p].Remaining_time = proc[p].Remaining_time
  BY <1>1, <1>2, PushedRecords
<1>4. r \notin Holders
  BY <1>1, <1>2, <1>3, AcceptInv DEF IInv
<1>5. \A p \in Holders : proc'[p].Remaining_time = proc[p].Remaining_time
  BY <1>3, <1>4 DEF Holders
<1> QED BY <1>5, NobodyRuns

LEMMA RefuseRunsNobody ==
  ASSUME IInv, RefuseProcess
  PROVE  RunsHighest
<1>1. PICK r : r = received'
  OBVIOUS
<1>2. /\ Holders' = Holders /\ r \in Procs /\ proc'[r].memindex = NoPlace
      /\ \A p \in Procs \ {r} : proc'[p] = proc[p]
  BY <1>1, RefuseInv DEF IInv, RefuseProcess
<1>3. r \notin Holders
  BY <1>2 DEF Holders, Holds
<1>4. \A p \in Holders : proc'[p].Remaining_time = proc[p].Remaining_time
  BY <1>2, <1>3 DEF Holders
<1> QED BY <1>4, NobodyRuns

LEMMA NextRunsHighest ==
  ASSUME IInv, Next
  PROVE  RunsHighest
<1>1. \A p \in Holders : p \in Procs /\ proc[p].Remaining_time \in Int
  BY DEF IInv, SharedInv, SharedTypeOK, Holders
<1>2. CASE Tick /\ UNCHANGED <<listVars, P_state, startt>>
  BY <1>2, NobodyRuns DEF Tick
<1>3. CASE ReceiveProcess
  BY <1>3, ReceiveRunsNobody
<1>4. CASE RefuseProcess
  BY <1>4, RefuseRunsNobody
<1>5. CASE RunHighest
  <2>1. PICK f : f = front
    OBVIOUS
  <2>2. /\ ~Empty
        /\ \A p \in Procs :
             proc'[p].Remaining_time = proc[p].Remaining_time - IF p = f THEN 1 ELSE 0
    BY <1>5, <2>1, RunHighestTurn
  <2>3. \A p \in Holders : proc'[p].Remaining_time < proc[p].Remaining_time => p = f
    BY <1>1, <2>2
  <2>4. \A x \in Holders : proc[f].Priority <= proc[x].Priority
    BY <2>1, <2>2, FrontIsHighest
  <2> QED BY <2>3, <2>4 DEF RunsHighest
<1>6. CASE FinishAndRunNext
  <2>1. PICK f \in Holders, r \in Holders :
          /\ proc'[f].State = "FINISHED" /\ r # f
          /\ \A x \in Holders \ {f} : proc[r].Priority <= proc[x].Priority
          /\ \A p \in Procs :
               proc'[p].Remaining_time = proc[p].Remaining_time - IF p = r THEN 1 ELSE 0
    BY <1>6, FinishAndRunNextTurn
  <2>2. \A p \in Holders : proc'[p].Remaining_time < proc[p].Remaining_time => p = r
    BY <1>1, <2>1
  <2> QED BY <2>1, <2>2 DEF RunsHighest
<1>7. CASE FinishLast
  BY <1>1, <1>7, FinishLastTurn, NobodyRuns
<1>8. CASE Idle
  BY <1>8, NobodyRuns DEF Idle
<1> QED BY <1>2, <1>3, <1>4, <1>5, <1>6, <1>7, <1>8 DEF Next, Algorithm

\* Preemptive priority: what runs in a tick has the highest priority of all
\* that hold memory, those received in the same tick included, for every
\* sequence of arrivals, insertions, preemptions and finishes.
THEOREM HighestAlwaysRuns == Spec => HighestRuns
<1>1. IInv /\ [Next]_vars => [RunsHighest]_vars
  BY NextRunsHighest
<1> QED BY <1>1, InvariantHolds, PTL DEF Spec, HighestRuns, RunsHighest

-----------------------------------------------------------------------------
\* The reports.  The front and curr_Proc may differ only as long as the front
\* has not run, or curr_Proc has used up its time; so nobody is stopped when
\* the front is found finished.  Where no process was started since the last
\* one finished, the front has been resumed.
Books == Ledger /\ \A p \in Procs : AccountOf(p)

Unrun(p) == proc[p].Remaining_time = proc[p].Running_time

FrontInv ==
  /\ curr_Proc # front => Unrun(front) \/ proc[curr_Proc].Remaining_time = 0
  /\ ~Empty /\ ~startt /\ ~Unrun(front) => P_state = "RESUMED"
  /\ \A p \in Holders : proc[p].Running_time # 0

\* At the beginning the list is empty and nothing runs.
LEMMA InitFront == Init => FrontInv
<1> SUFFICES ASSUME Init PROVE FrontInv
  OBVIOUS
<1>1. curr_Proc = front /\ Empty
  BY DEF Init, front, Empty
<1>2. Holders = {}
  BY SharedInitInv DEF Init
<1> QED BY <1>1, <1>2 DEF FrontInv

\* A step that leaves the front, curr_Proc and their times alone.
LEMMA FrontKept ==
  ASSUME FrontInv, proc' = proc, UNCHANGED <<Priority_List_HPF_SJF, curr_Proc, P_state, startt>>
  PROVE  FrontInv'
<1>1. front' = front /\ (Empty' <=> Empty) /\ Holders' = Holders
  BY DEF front, Empty, Holders, Holds
<1> QED BY <1>1 DEF FrontInv, Unrun

\* What is printed about the process that runs, and what is remembered of it.
LEMMA RunFrontPrints ==
  ASSUME NEW f \in Procs, NEW list, NEW procs, NEW lines \in [Procs -> Seq(States)],
         NEW shown, NEW started \in BOOLEAN,
         RunFront(f, list, procs, lines, shown, started),
         procs[f].Remaining_time = proc[f].Remaining_time,
         procs[f].Running_time = proc[f].Running_time
  PROVE  /\ \A p \in Procs \ {f} : log'[p] = lines[p]
         /\ startt' \/ P_state' = "RESUMED"
         /\ Unrun(f) =>
              log'[f] = IF shown = "STARTED" THEN lines[f] ELSE Append(lines[f], "STARTED")
         /\ ~Unrun(f) =>
              log'[f] = IF started \/ shown = "RESUMED" THEN lines[f]
                        ELSE Append(lines[f], "RESUMED")
<1> DEFINE state == IF procs[f].Remaining_time = procs[f].Running_time THEN "STARTED"
                    ELSE IF started THEN procs[f].State
                    ELSE "RESUMED"
           sets == procs[f].Remaining_time = procs[f].Running_time \/ ~started
<1>1. /\ log' = IF sets /\ state # shown THEN PrintLine(lines, f, state) ELSE lines
      /\ P_state' = IF sets THEN state ELSE shown
      /\ startt' = (started \/ state = "STARTED")
  BY DEF RunFront
<1>2. /\ Unrun(f) => sets /\ state = "STARTED"
      /\ ~Unrun(f) => (sets <=> ~started)
      /\ ~Unrun(f) /\ ~started => state = "RESUMED"
  BY DEF Unrun
<1> HIDE DEF state, sets
<1>3. PICK more : more = PrintLine(lines, f, state)
  OBVIOUS
<1>4. more = [lines EXCEPT ![f] = Append(lines[f], state)]
  BY <1>3 DEF PrintLine
<1>5. more[f] = Append(lines[f], state) /\ \A p \in Procs \ {f} : more[p] = lines[p]
  BY <1>4
<1>6. log' = IF sets /\ state # shown THEN more ELSE lines
  BY <1>1, <1>3
<1>7. CASE Unrun(f)
  BY <1>1, <1>2, <1>5, <1>6, <1>7
<1>8. CASE ~Unrun(f) /\ started
  BY <1>1, <1>2, <1>5, <1>6, <1>8
<1>9. CASE ~Unrun(f) /\ ~started
  BY <1>1, <1>2, <1>5, <1>6, <1>9
<1> QED BY <1>7, <1>8, <1>9

\* The records of a turn before anybody is finished, and whom it concerns.
LEMMA BeforeTheTurn ==
  ASSUME IInv, ~Empty, NEW procs, procs = PreemptedProc, NEW lines, lines = PreemptedLog,
         NEW c, c = curr_Proc, NEW f, f = front
  PROVE  /\ c \in Procs /\ c \in Holders /\ f \in Procs /\ f \in Holders
         /\ SameWork(procs) /\ KeptTimes(procs, {}, follow)
         /\ lines \in [Procs -> Seq(States)]
         /\ IF Preempts
            THEN lines[c] = Append(log[c], "STOPPED") /\ \A p \in Procs \ {c} : lines[p] = log[p]
            ELSE lines = log
<1>1. c \in Holders /\ c \in Procs
  BY ListFacts DEF IInv, NoneLost
<1>2. f \in Holders /\ f \in Procs
  BY FrontIsHighest
<1>3. SameWork(procs) /\ lines \in [Procs -> Seq(States)]
  BY PreemptedIsSameWork
<1>4. KeptTimes(procs, {}, follow)
  <2>1. KeptTimes(proc, {}, follow) /\ proc \in [Procs -> ProcessRecords] /\ "STOPPED" \in States
    BY NothingKept, NothingSet DEF IInv, SameWork, States
  <2>2. PICK stopped : stopped = SetState(proc, c, "STOPPED")
    OBVIOUS
  <2>3. KeptTimes(stopped, {}, follow)
    BY <1>1, <2>1, <2>2, SetStateKeepsTimes
  <2> QED BY <2>1, <2>2, <2>3 DEF PreemptedProc
<1>5. IF Preempts
      THEN lines[c] = Append(log[c], "STOPPED") /\ \A p \in Procs \ {c} : lines[p] = log[p]
      ELSE lines = log
  <2>1. CASE Preempts
    <3>1. log \in [Procs -> Seq(States)] /\ "STOPPED" \in States
      BY DEF IInv, SharedInv, SharedTypeOK, States
    <3>2. lines = PrintLine(log, c, "STOPPED")
      BY <2>1 DEF PreemptedLog
    <3>3. lines[c] = Append(log[c], "STOPPED") /\ \A p \in Procs \ {c} : lines[p] = log[p]
      BY <1>1, <3>1, <3>2, PrintedLine
    <3> QED BY <2>1, <3>3
  <2>2. CASE ~Preempts
    BY <2>2 DEF PreemptedLog
  <2> QED BY <2>1, <2>2
<1> QED BY <1>1, <1>2, <1>3, <1>4, <1>5

\* The front f runs: if it displaces c, which has time left, c is stopped and f
\* is started; otherwise there is a line for f at most, and only to start it.
HighestPrints(f, c) ==
  /\ IF c # f /\ proc[c].Remaining_time # 0
     THEN /\ curr_Proc' = f /\ Unrun(f)
          /\ log'[c] = Append(log[c], "STOPPED") /\ log'[f] = Append(log[f], "STARTED")
          /\ \A p \in Procs \ {c, f} : log'[p] = log[p]
     ELSE /\ curr_Proc' = c
          /\ log'[f] = log[f] \/ (Unrun(f) /\ log'[f] = Append(log[f], "STARTED"))
          /\ \A p \in Procs \ {f} : log'[p] = log[p]
  /\ startt' \/ P_state' = "RESUMED"

\* That is what RunHighest prints, and it charges all that hold memory.
LEMMA RunHighestPrints ==
  ASSUME IInv, FrontInv, RunHighest, NEW f, f = front, NEW c, c = curr_Proc
  PROVE  /\ f \in Holders /\ c \in Holders /\ proc[f].Remaining_time # 0
         /\ HighestPrints(f, c) /\ ChargedAll(f, {})
<1>1. PICK procs : procs = PreemptedProc
  OBVIOUS
<1>2. PICK shown : shown = IF Preempts THEN "STOPPED" ELSE P_state
  OBVIOUS
<1>3. PICK lines : lines = PreemptedLog
  OBVIOUS
<1>4. PICK list : list = Priority_List_HPF_SJF
  OBVIOUS
<1>5. PICK started : started = startt
  OBVIOUS
<1>6. /\ ~Empty /\ proc[f].Remaining_time # 0
      /\ curr_Proc' = IF Preempts THEN f ELSE c
      /\ RunFront(f, list, procs, lines, shown, started)
  BY <1>1, <1>2, <1>3, <1>4, <1>5 DEF RunHighest, Begin
<1>7. /\ c \in Procs /\ c \in Holders /\ f \in Procs /\ f \in Holders
      /\ SameWork(procs) /\ KeptTimes(procs, {}, follow)
      /\ lines \in [Procs -> Seq(States)]
      /\ IF Preempts
         THEN lines[c] = Append(log[c], "STOPPED") /\ \A p \in Procs \ {c} : lines[p] = log[p]
         ELSE lines = log
  BY <1>1, <1>3, <1>6, BeforeTheTurn
<1>8. started \in BOOLEAN /\ SharedTypeOK
  BY <1>5 DEF IInv, SharedInv, TypeOK
<1>9. /\ procs \in [Procs -> ProcessRecords]
      /\ \A p \in Procs :
           /\ procs[p].memindex = proc[p].memindex
           /\ procs[p].Running_time = proc[p].Running_time
           /\ procs[p].Remaining_time = proc[p].Remaining_time
           /\ procs[p].State = "FINISHED" <=> p \in {} \/ proc[p].State = "FINISHED"
  BY <1>7 DEF SameWork
<1>10. /\ \A p \in Procs \ {f} : log'[p] = lines[p]
       /\ startt' \/ P_state' = "RESUMED"
       /\ Unrun(f) =>
            log'[f] = IF shown = "STARTED" THEN lines[f] ELSE Append(lines[f], "STARTED")
       /\ ~Unrun(f) =>
            log'[f] = IF started \/ shown = "RESUMED" THEN lines[f]
                      ELSE Append(lines[f], "RESUMED")
  BY <1>6, <1>7, <1>8, <1>9, RunFrontPrints
<1>11. Preempts <=> c # f /\ proc[c].Remaining_time # 0
  BY DEF Preempts
<1>12. HighestPrints(f, c)
  <2>1. CASE Preempts
    <3>1. Unrun(f) /\ c # f
      BY <1>11, <2>1 DEF FrontInv
    <3>2. log'[f] = Append(lines[f], "STARTED")
      BY <1>2, <1>10, <2>1, <3>1
    <3>3. /\ lines[c] = Append(log[c], "STOPPED") /\ lines[f] = log[f]
          /\ \A p \in Procs \ {c} : lines[p] = log[p]
      BY <1>7, <2>1, <3>1
    <3> QED BY <1>6, <1>7, <1>10, <1>11, <2>1, <3>1, <3>2, <3>3 DEF HighestPrints
  <2>2. CASE ~Preempts
    <3>1. lines = log /\ shown = P_state
      BY <1>2, <1>7, <2>2
    <3>2. ~Unrun(f) => started \/ shown = "RESUMED"
      BY <1>5, <1>6, <3>1 DEF FrontInv
    <3>3. log'[f] = log[f] \/ (Unrun(f) /\ log'[f] = Append(log[f], "STARTED"))
      BY <1>10, <3>1, <3>2
    <3> QED BY <1>6, <1>10, <1>11, <2>2, <3>1, <3>3 DEF HighestPrints
  <2> QED BY <2>1, <2>2
<1>13. ChargedAll(f, {})
  <2>1. PICK s \in States :
          s # "FINISHED" /\ proc' = Charge(SetState(procs, f, s), f, Range(list))
    <3>1. procs[f].State # "FINISHED"
      BY <1>7, <1>9 DEF Holders, Holds
    <3>2. shown \in States
      BY <1>2 DEF IInv, TypeOK, States
    <3> QED BY <1>6, <1>7, <1>8, <1>9, <3>1, <3>2, RunFrontSets
  <2>2. PICK running : running = SetState(procs, f, s)
    OBVIOUS
  <2>3. SameWork(running)
    BY <1>7, <2>1, <2>2, SetStateIsSameWork
  <2>4. KeptTimes(running, {}, follow)
    BY <1>7, <1>9, <2>1, <2>2, SetStateKeepsTimes
  <2>5. PICK S : S = Range(list)
    OBVIOUS
  <2>6. S \cup {f} = Holders \ {} /\ proc' = Charge(running, f, S)
    BY <1>4, <1>7, <2>1, <2>2, <2>5, ListFacts
  <2>7. /\ running \in [Procs -> ProcessRecords]
        /\ \A p \in Procs :
             /\ running[p].memindex = proc[p].memindex
             /\ running[p].Running_time = proc[p].Running_time
             /\ running[p].Remaining_time = proc[p].Remaining_time
             /\ running[p].State = "FINISHED" <=> p \in {} \/ proc[p].State = "FINISHED"
    BY <2>3 DEF SameWork
  <2>8. f \in Procs /\ SharedTypeOK
    BY <1>7, <1>8
  <2> QED BY <2>4, <2>6, <2>7, <2>8, ChargeChargesAll
<1> QED BY <1>6, <1>7, <1>12, <1>13

\* The front f has used up its time: it has its last line, and nobody is
\* stopped for it.
LEMMA EndOfFrontPrints ==
  ASSUME IInv, FrontInv, EndOfFront, NEW f, f = front, NEW c, c = curr_Proc,
         NEW procs, procs = Finish(PreemptedProc, f, follow),
         NEW lines, lines = PrintLine(PreemptedLog, f, "FINISHED")
  PROVE  /\ f \in Holders /\ f \in Procs /\ proc[f].Remaining_time = 0
         /\ c # f => proc[c].Remaining_time = 0
         /\ lines \in [Procs -> Seq(States)] /\ lines[f] = Append(log[f], "FINISHED")
         /\ \A p \in Procs \ {f} : lines[p] = log[p]
         /\ Ended(f, procs) /\ KeptTimes(procs, {f}, follow)
<1>1. ~Empty /\ proc[f].Remaining_time = 0
  BY DEF EndOfFront, Begin
<1>2. PICK before : before = PreemptedProc
  OBVIOUS
<1>3. PICK shown : shown = PreemptedLog
  OBVIOUS
<1>4. /\ f \in Holders /\ f \in Procs
      /\ SameWork(before) /\ KeptTimes(before, {}, follow)
      /\ shown \in [Procs -> Seq(States)] /\ (~Preempts => shown = log)
  BY <1>1, <1>2, <1>3, BeforeTheTurn
<1>5. c # f => proc[c].Remaining_time = 0
  BY <1>1, <1>4 DEF FrontInv, Unrun
<1>6. shown = log
  BY <1>4, <1>5 DEF Preempts
<1>7. lines = PrintLine(shown, f, "FINISHED") /\ "FINISHED" \in States
  BY <1>3 DEF States
<1>8. /\ lines \in [Procs -> Seq(States)] /\ lines[f] = Append(shown[f], "FINISHED")
      /\ \A p \in Procs \ {f} : lines[p] = shown[p]
  BY <1>4, <1>7, PrintedLine
<1>9. follow \in Int /\ procs = Finish(before, f, follow)
  BY <1>2 DEF IInv, SharedInv, SharedTypeOK
<1>10. PICK time \in Int : time = follow
  BY <1>9
<1>11. Ended(f, procs)
  BY <1>4, <1>9, FinishEnds
<1>12. before \in [Procs -> ProcessRecords]
  BY <1>4 DEF SameWork
<1>13. KeptTimes(procs, {f}, follow)
  BY <1>4, <1>9, <1>12, FinishSetsTime
<1> QED BY <1>1, <1>4, <1>5, <1>6, <1>8, <1>11, <1>13

\* Then r runs, with a line of its own: nobody was started since.
NextPrints(f, r, c) ==
  /\ r # f /\ curr_Proc' = r
  /\ proc[f].Remaining_time = 0 /\ (c # f => proc[c].Remaining_time = 0)
  /\ log'[f] = Append(log[f], "FINISHED")
  /\ log'[r] = Append(log[r], IF Unrun(r) THEN "STARTED" ELSE "RESUMED")
  /\ \A p \in Procs \ {f, r} : log'[p] = log[p]
  /\ startt' \/ P_state' = "RESUMED"

\* That is what FinishAndRunNext prints, and f is ended before the tick.
LEMMA RunNextPrints ==
  ASSUME IInv, FrontInv, FinishAndRunNext, NEW f, f = front, NEW c, c = curr_Proc
  PROVE  /\ f \in Holders
         /\ \E r \in Holders : /\ NextPrints(f, r, c) /\ ChargedAll(r, {f})
                               /\ r = Head(Tail(Priority_List_HPF_SJF))
<1>1. PICK rest : rest = Tail(Priority_List_HPF_SJF)
  OBVIOUS
<1>2. PICK r : r = Head(rest)
  OBVIOUS
<1>3. PICK procs : procs = Finish(PreemptedProc, f, follow)
  OBVIOUS
<1>4. PICK lines : lines = PrintLine(PreemptedLog, f, "FINISHED")
  OBVIOUS
<1>5. /\ EndOfFront /\ rest # <<>> /\ curr_Proc' = r
      /\ RunFront(r, rest, procs, lines, "FINISHED", FALSE)
  BY <1>1, <1>2, <1>3, <1>4 DEF FinishAndRunNext
<1>6. /\ f \in Holders /\ f \in Procs /\ proc[f].Remaining_time = 0
      /\ c # f => proc[c].Remaining_time = 0
      /\ lines \in [Procs -> Seq(States)] /\ lines[f] = Append(log[f], "FINISHED")
      /\ \A p \in Procs \ {f} : lines[p] = log[p]
      /\ Ended(f, procs) /\ KeptTimes(procs, {f}, follow)
  BY <1>3, <1>4, <1>5, EndOfFrontPrints
<1>7. r \in Holders \ {f} /\ Range(rest) = Holders \ {f}
  BY <1>1, <1>2, <1>5, RestOfList DEF EndOfFront, Begin
<1>8. r \in Procs /\ r \in Holders /\ r # f /\ SharedTypeOK /\ FALSE \in BOOLEAN
  BY <1>7 DEF Holders, IInv, SharedInv
<1>9. /\ procs \in [Procs -> ProcessRecords]
      /\ \A p \in Procs :
           /\ procs[p].memindex = proc[p].memindex
           /\ procs[p].Running_time = proc[p].Running_time
           /\ procs[p].Remaining_time = proc[p].Remaining_time
           /\ procs[p].State = "FINISHED" <=> p \in {f} \/ proc[p].State = "FINISHED"
  BY <1>6 DEF Ended
<1>10. /\ \A p \in Procs \ {r} : log'[p] = lines[p]
       /\ startt' \/ P_state' = "RESUMED"
       /\ Unrun(r) => log'[r] = Append(lines[r], "STARTED")
       /\ ~Unrun(r) => log'[r] = Append(lines[r], "RESUMED")
  <2>1. PICK shown, started : shown = "FINISHED" /\ started = FALSE
    OBVIOUS
  <2>2. /\ \A p \in Procs \ {r} : log'[p] = lines[p]
        /\ startt' \/ P_state' = "RESUMED"
        /\ Unrun(r) =>
             log'[r] = IF shown = "STARTED" THEN lines[r] ELSE Append(lines[r], "STARTED")
        /\ ~Unrun(r) =>
             log'[r] = IF started \/ shown = "RESUMED" THEN lines[r]
                       ELSE Append(lines[r], "RESUMED")
    BY <1>5, <1>6, <1>8, <1>9, <2>1, RunFrontPrints
  <2> QED BY <2>1, <2>2
<1>11. NextPrints(f, r, c)
  <2>1. log'[r] = Append(log[r], IF Unrun(r) THEN "STARTED" ELSE "RESUMED")
    BY <1>6, <1>8, <1>10
  <2> QED BY <1>5, <1>6, <1>8, <1>10, <2>1 DEF NextPrints
<1>12. ChargedAll(r, {f})
  <2>1. PICK s \in States :
          s # "FINISHED" /\ proc' = Charge(SetState(procs, r, s), r, Range(rest))
    <3>1. procs[r].State # "FINISHED"
      BY <1>8, <1>9 DEF Holders, Holds
    <3>2. "FINISHED" \in States
      BY DEF States
    <3> QED BY <1>5, <1>6, <1>8, <1>9, <3>1, <3>2, RunFrontSets
  <2>2. PICK running : running = SetState(procs, r, s)
    OBVIOUS
  <2>3. Ended(f, running)
    BY <1>6, <1>7, <2>1, <2>2, SetStateIsEnded
  <2>4. KeptTimes(running, {f}, follow)
    BY <1>6, <1>8, <1>9, <2>1, <2>2, SetStateKeepsTimes
  <2>5. PICK S : S = Range(rest)
    OBVIOUS
  <2>6. S \cup {r} = Holders \ {f} /\ proc' = Charge(running, r, S)
    BY <1>7, <2>1, <2>2, <2>5
  <2>7. /\ running \in [Procs -> ProcessRecords]
        /\ \A p \in Procs :
             /\ running[p].memindex = proc[p].memindex
             /\ running[p].Running_time = proc[p].Running_time
             /\ running[p].Remaining_time = proc[p].Remaining_time
             /\ running[p].State = "FINISHED" <=> p \in {f} \/ proc[p].State = "FINISHED"
    BY <2>3 DEF Ended
  <2>8. r \in Procs /\ SharedTypeOK
    BY <1>8
  <2> QED BY <2>4, <2>6, <2>7, <2>8, ChargeChargesAll
<1> QED BY <1>2, <1>1, <1>6, <1>8, <1>11, <1>12

\* The last one leaves, and the tick is idle.
LEMMA FinishLastPrints ==
  ASSUME IInv, FrontInv, FinishLast, NEW f, f = front
  PROVE  /\ f \in Holders /\ Holders = {f} /\ proc[f].Remaining_time = 0
         /\ log'[f] = Append(log[f], "FINISHED")
         /\ \A p \in Procs \ {f} : log'[p] = log[p]
         /\ ChargedAll(None, {f})
<1>1. PICK procs : procs = Finish(PreemptedProc, f, follow)
  OBVIOUS
<1>2. PICK c : c = curr_Proc
  OBVIOUS
<1>3. PICK lines : lines = PrintLine(PreemptedLog, f, "FINISHED")
  OBVIOUS
<1>4. /\ EndOfFront /\ Tail(Priority_List_HPF_SJF) = <<>> /\ proc' = procs /\ log' = lines
  BY <1>1, <1>3 DEF FinishLast
<1>5. /\ f \in Holders /\ f \in Procs /\ proc[f].Remaining_time = 0
      /\ lines[f] = Append(log[f], "FINISHED")
      /\ \A p \in Procs \ {f} : lines[p] = log[p]
      /\ Ended(f, procs) /\ KeptTimes(procs, {f}, follow)
  BY <1>1, <1>2, <1>3, <1>4, EndOfFrontPrints
<1>6. Holders = {f}
  <2>1. PICK rest : rest = Tail(Priority_List_HPF_SJF)
    OBVIOUS
  <2>2. Range(rest) = Holders \ {f} /\ rest = <<>>
    BY <1>4, <2>1, RestOfList DEF EndOfFront, Begin
  <2> QED BY <1>5, <2>2, EmptyQueue
<1>7. ASSUME NEW p \in Procs
      PROVE  /\ proc'[p].memindex = proc[p].memindex
             /\ proc'[p].State = "FINISHED" <=> p \in {f} \/ proc[p].State = "FINISHED"
             /\ proc'[p].Arrival_time = proc[p].Arrival_time
             /\ proc'[p].Running_time = proc[p].Running_time
             /\ proc'[p].Remaining_time = proc[p].Remaining_time
             /\ proc'[p].Waiting_time = proc[p].Waiting_time
             /\ proc'[p].TA = IF p \in {f} THEN follow - proc[p].Arrival_time ELSE proc[p].TA
  BY <1>4, <1>5 DEF Ended, KeptTimes
<1>8. ChargedAll(None, {f})
  <2>1. ASSUME NEW p \in Procs
        PROVE  /\ proc'[p].Remaining_time = proc[p].Remaining_time - IF p = None THEN 1 ELSE 0
               /\ proc'[p].Waiting_time =
                    proc[p].Waiting_time + IF p # None /\ p \in Holders \ {f} THEN 1 ELSE 0
    <3>1. p # None /\ p \notin Holders \ {f}
      BY <1>6 DEF Procs, None
    <3>2. proc[p].Remaining_time \in Int /\ proc[p].Waiting_time \in Nat
      BY TimesAreNumbers DEF IInv, SharedInv
    <3>3. /\ proc'[p].Remaining_time = proc[p].Remaining_time - 0
          /\ proc'[p].Waiting_time = proc[p].Waiting_time + 0
      BY <1>7, <3>2
    <3> QED BY <3>1, <3>3
  <2> QED BY <1>7, <2>1 DEF ChargedAll
<1> QED BY <1>4, <1>5, <1>6, <1>8

\* Who holds memory and who is finished after a turn.
LEMMA ChargedAllEnds ==
  ASSUME NEW r, NEW F, F \subseteq Procs, ChargedAll(r, F)
  PROVE  Holders' = Holders \ F /\ Finished' = Finished \cup F
BY DEF ChargedAll, Holders, Holds, Finished

\* The place that pushIntoPriorityQueue finds is one of the list, or behind it.
LEMMA PositionIsInList ==
  ASSUME NEW list \in Seq(Procs), NEW priority
  PROVE  PushPosition(list, priority) \in 1 .. Len(list) + 1
<1> DEFINE S == {i \in 2 .. Len(list) : proc[list[i]].Priority >= priority} \cup {Len(list) + 1}
<1>1. Len(list) \in Nat
  BY LenProperties
<1>2. S \subseteq 1 .. Len(list) + 1 /\ S \subseteq Nat /\ S # {}
  BY <1>1
<1>3. Min(S) \in S
  BY <1>2, MinIsLeast
<1> QED BY <1>1, <1>2, <1>3 DEF PushPosition

\* The message that is received and its process, and what it leaves alone.
Received(n, r) ==
  /\ Receive(n) /\ r = received + 1 /\ proc'[r] = n
  /\ r \notin Holders /\ r \notin Finished /\ r \notin Finished'
  /\ Finished' = Finished /\ Holders \subseteq Holders' /\ Holders' \subseteq Holders \cup {r}
  /\ \A p \in Procs \ {r} : SameTimes(p) /\ SameMemory(p)
  /\ n.Running_time \in Nat \ {0} /\ n.Remaining_time = n.Running_time

\* Every receipt is of that form, with memory or without.
LEMMA ReceivedOne ==
  ASSUME IInv, ReceiveProcess \/ RefuseProcess
  PROVE  \E n \in Messages, r \in Procs : Received(n, r)
<1>1. PICK n \in Messages, r \in Procs :
        /\ Receive(n) /\ r = received + 1 /\ proc'[r] = n
        /\ \A p \in Procs \ {r} : SameTimes(p) /\ SameMemory(p)
        /\ Holders \subseteq Holders' /\ Holders' \subseteq Holders \cup {r}
  <2>1. CASE ReceiveProcess
    <3>1. PICK n \in Messages : Accept(n) /\ PushIntoPriorityQueue(n)
      BY <2>1 DEF ReceiveProcess
    <3>2. PICK r : r = received + 1
      OBVIOUS
    <3>3. /\ r \in Procs /\ proc'[r] = n /\ proc' \in [Procs -> ProcessRecords]
          /\ \A p \in Procs \ {r} : SameMemory(p)
          /\ \A p \in Procs \ {r} : SameTimes(p)
      BY <3>1, <3>2, PushedRecords
    <3>4. Holders' = Holders \cup {r}
      BY <3>1, <3>2, <3>3, AcceptInv DEF IInv
    <3> QED BY <3>1, <3>2, <3>3, <3>4 DEF Accept
  <2>2. CASE RefuseProcess
    <3>1. PICK n \in Messages : Receive(n) /\ proc' = [proc EXCEPT ![received + 1] = n]
      BY <2>2 DEF RefuseProcess, Refuse
    <3>2. PICK r : r = received + 1
      OBVIOUS
    <3>3. /\ r \in Procs /\ proc'[r] = n
          /\ \A p \in Procs \ {r} : proc'[p] = proc[p] /\ SameMemory(p)
      BY <3>1, <3>2, ReceivedRecords DEF IInv
    <3>4. Holders' = Holders
      BY <2>2, RefuseInv DEF IInv, RefuseProcess
    <3> QED BY <3>1, <3>2, <3>3, <3>4 DEF SameTimes
  <2> QED BY <2>1, <2>2
<1>2. r > received
  BY <1>1 DEF IInv, SharedInv, SharedTypeOK
<1>3. r \notin Finished /\ r \notin Holders
  BY <1>1, <1>2 DEF IInv, SharedInv, RecordsFilled, Finished, Holders, Holds
<1>4. /\ n.State = "STOPPED" /\ n.Remaining_time = n.Running_time
      /\ n.Running_time \in Nat \ {0}
  BY MessageTypes, RunTimesAssumption DEF IInv, SharedInv
<1>5. Finished' = Finished /\ r \notin Finished'
  <2>1. r \notin Finished'
    BY <1>1, <1>4 DEF Finished
  <2>2. \A p \in Procs \ {r} : p \in Finished' <=> p \in Finished
    BY <1>1 DEF Finished, SameMemory
  <2>3. Finished' \subseteq Procs /\ Finished \subseteq Procs
    BY DEF Finished
  <2> QED BY <1>3, <2>1, <2>2, <2>3
<1>6. Received(n, r)
  BY <1>1, <1>3, <1>4, <1>5 DEF Received
<1> QED BY <1>6

\* A process that is received comes to the front only before its first tick.
LEMMA ReceiveFront ==
  ASSUME IInv, FrontInv, ReceiveProcess \/ RefuseProcess
  PROVE  FrontInv'
<1>1. PICK n \in Messages, r \in Procs : Received(n, r)
  BY ReceivedOne
<1>2. \A p \in Holders' : proc'[p].Running_time # 0
  <2>1. \A p \in Holders' : p = r \/ (p \in Holders /\ SameTimes(p))
    BY <1>1 DEF Received, Holders
  <2> QED BY <1>1, <2>1 DEF Received, SameTimes, FrontInv
<1>3. UNCHANGED <<P_state, startt>>
  BY DEF ReceiveProcess, RefuseProcess
<1>4. CASE RefuseProcess
  <2>1. UNCHANGED <<Priority_List_HPF_SJF, curr_Proc>>
    BY <1>4 DEF RefuseProcess, listVars
  <2>2. front' = front /\ (Empty' <=> Empty)
    BY <2>1 DEF front, Empty
  <2>3. CASE Empty
    <3>1. curr_Proc = front
      BY <2>3 DEF IInv, NoneLost, Empty, front
    <3> QED BY <1>2, <2>1, <2>2, <2>3, <3>1 DEF FrontInv
  <2>4. CASE ~Empty
    <3>1. PICK f, c : f = front /\ c = curr_Proc
      OBVIOUS
    <3>2. f \in Holders /\ c \in Holders /\ f \in Procs /\ c \in Procs
      BY <2>4, <3>1, FrontIsHighest, ListFacts DEF IInv, NoneLost
    <3>3. SameTimes(f) /\ SameTimes(c)
      BY <1>1, <3>2 DEF Received
    <3>4. (Unrun(f)' <=> Unrun(f)) /\ proc'[c].Remaining_time = proc[c].Remaining_time
      BY <3>3 DEF SameTimes, Unrun
    <3>5. /\ c # f => Unrun(f)' \/ proc'[c].Remaining_time = 0
          /\ ~startt' /\ ~Unrun(f)' => P_state' = "RESUMED"
      BY <1>3, <2>4, <3>1, <3>4 DEF FrontInv
    <3>6. f = front' /\ c = curr_Proc'
      BY <2>1, <2>2, <3>1
    <3> QED BY <1>2, <3>5, <3>6 DEF FrontInv, Unrun
  <2> QED BY <2>3, <2>4
<1>5. CASE ReceiveProcess
  <2>1. PICK m \in Messages : /\ PushIntoPriorityQueue(m)
                              /\ curr_Proc' = IF Empty THEN received + 1 ELSE curr_Proc
    BY <1>5 DEF ReceiveProcess
  <2>2. PICK list \in Seq(Procs) : list = Priority_List_HPF_SJF
    BY ListFacts
  <2>3. PICK at : at = PushPosition(list, m.Priority)
    OBVIOUS
  <2>4. PICK grown : grown = InsertAt(list, at, r)
    OBVIOUS
  <2>5. Priority_List_HPF_SJF' = grown
    BY <1>1, <2>1, <2>2, <2>3, <2>4 DEF PushIntoPriorityQueue, Received
  <2>6. Len(list) \in Nat /\ at \in 1 .. Len(list) + 1
    BY <2>3, PositionIsInList, LenProperties
  <2>7. /\ grown \in Seq(Procs) /\ Len(grown) = Len(list) + 1
        /\ \A j \in 1 .. Len(list) + 1 :
             grown[j] = IF j < at THEN list[j] ELSE IF j = at THEN r ELSE list[j - 1]
    BY <2>4, <2>6, InsertedInQueue
  <2>8. grown # <<>> /\ Head(grown) = grown[1]
    BY <2>6, <2>7
  <2>9. Head(grown) = r \/ (list # <<>> /\ Head(grown) = Head(list))
    BY <2>6, <2>7, <2>8
  <2>10. front' = Head(grown) /\ ~Empty'
    BY <2>5, <2>8 DEF front, Empty
  <2>11. proc'[r].Remaining_time = proc'[r].Running_time
    BY <1>1 DEF Received
  <2>12. CASE front' = r
    <3>1. front' # curr_Proc' => Unrun(r)'
      BY <2>11 DEF Unrun
    <3> QED BY <1>2, <2>11, <2>12 DEF FrontInv, Unrun
  <2>13. CASE front' # r
    <3>1. PICK f, c : f = front /\ c = curr_Proc
      OBVIOUS
    <3>2. ~Empty /\ front' = f /\ curr_Proc' = c
      BY <2>1, <2>2, <2>9, <2>10, <2>13, <3>1 DEF Empty, front
    <3>3. f \in Holders /\ c \in Holders /\ f \in Procs /\ c \in Procs
      BY <3>1, <3>2, FrontIsHighest, ListFacts DEF IInv, NoneLost
    <3>4. SameTimes(f) /\ SameTimes(c)
      BY <1>1, <3>3 DEF Received
    <3>5. (Unrun(f)' <=> Unrun(f)) /\ proc'[c].Remaining_time = proc[c].Remaining_time
      BY <3>4 DEF SameTimes, Unrun
    <3>6. /\ c # f => Unrun(f)' \/ proc'[c].Remaining_time = 0
          /\ ~startt' /\ ~Unrun(f)' => P_state' = "RESUMED"
      BY <1>3, <3>1, <3>2, <3>5 DEF FrontInv
    <3> QED BY <1>2, <3>2, <3>6 DEF FrontInv, Unrun
  <2> QED BY <2>12, <2>13
<1> QED BY <1>4, <1>5

\* FrontInv is kept by every step.
LEMMA NextFront == IInv /\ FrontInv /\ [Next]_vars => FrontInv'
<1> SUFFICES ASSUME IInv, FrontInv, [Next]_vars PROVE FrontInv'
  OBVIOUS
<1>1. CASE Tick /\ UNCHANGED <<listVars, P_state, startt>>
  BY <1>1, FrontKept DEF Tick, listVars
<1>2. CASE ReceiveProcess \/ RefuseProcess
  BY <1>2, ReceiveFront
<1>3. CASE RunHighest
  <2>1. PICK f, c : f = front /\ c = curr_Proc
    OBVIOUS
  <2>2. /\ f \in Holders /\ c \in Holders /\ f \in Procs /\ c \in Procs
        /\ HighestPrints(f, c) /\ ChargedAll(f, {})
    BY <1>3, <2>1, RunHighestPrints DEF Holders
  <2>3. Priority_List_HPF_SJF' = Priority_List_HPF_SJF
    BY <1>3 DEF RunHighest, RunFront
  <2>4. front' = f
    BY <2>1, <2>3 DEF front
  <2>5. curr_Proc' # f => curr_Proc' = c /\ proc'[c].Remaining_time = 0
    <3>1. proc[c].Remaining_time \in Int
      BY <2>2, TimesAreNumbers DEF IInv, SharedInv
    <3>2. c # f => proc'[c].Remaining_time = proc[c].Remaining_time - 0
      BY <2>2 DEF ChargedAll
    <3> QED BY <2>2, <3>1, <3>2 DEF HighestPrints
  <2>6. \A p \in Holders' : proc'[p].Running_time # 0
    <3>1. {} \subseteq Procs
      BY <2>2
    <3>2. Holders' = Holders \ {}
      BY <2>2, <3>1, ChargedAllEnds
    <3>3. \A p \in Holders : p \in Procs /\ proc'[p].Running_time = proc[p].Running_time
      BY <2>2 DEF ChargedAll, Holders
    <3> QED BY <3>2, <3>3 DEF FrontInv
  <2> QED BY <2>2, <2>4, <2>5, <2>6 DEF FrontInv, HighestPrints
<1>4. CASE FinishAndRunNext
  <2>1. PICK f, c : f = front /\ c = curr_Proc
    OBVIOUS
  <2>2. PICK r \in Holders : /\ f \in Holders /\ f \in Procs
                             /\ NextPrints(f, r, c) /\ ChargedAll(r, {f})
                             /\ r = Head(Tail(Priority_List_HPF_SJF))
    BY <1>4, <2>1, RunNextPrints DEF Holders
  <2>3. /\ Tail(Priority_List_HPF_SJF) # <<>>
        /\ Priority_List_HPF_SJF' = Tail(Priority_List_HPF_SJF)
    BY <1>4 DEF FinishAndRunNext, RunFront
  <2>4. front' = curr_Proc'
    BY <2>2, <2>3 DEF front, NextPrints
  <2>5. \A p \in Holders' : proc'[p].Running_time # 0
    <3>1. {f} \subseteq Procs
      BY <2>2
    <3>2. Holders' = Holders \ {f}
      BY <2>2, <3>1, ChargedAllEnds
    <3>3. \A p \in Holders : p \in Procs /\ proc'[p].Running_time = proc[p].Running_time
      BY <2>2 DEF ChargedAll, Holders
    <3> QED BY <3>2, <3>3 DEF FrontInv
  <2> QED BY <2>2, <2>4, <2>5 DEF FrontInv, NextPrints
<1>5. CASE FinishLast
  <2>1. PICK f : f = front
    OBVIOUS
  <2>2. Holders = {f} /\ f \in Procs /\ ChargedAll(None, {f})
    BY <1>5, <2>1, FinishLastPrints DEF Holders
  <2>3. Holders' = {}
    BY <2>2, ChargedAllEnds
  <2>4. Empty' /\ front' = curr_Proc'
    BY <1>5 DEF FinishLast, Empty, front
  <2> QED BY <2>3, <2>4 DEF FrontInv
<1>6. CASE Idle
  BY <1>6, FrontKept DEF Idle, listVars
<1>7. CASE UNCHANGED vars
  BY <1>7, FrontKept DEF vars, sharedVars, listVars
<1> QED BY <1>1, <1>2, <1>3, <1>4, <1>5, <1>6, <1>7 DEF Next, Algorithm

-----------------------------------------------------------------------------
\* The lines of a process with so much time left: STOPPED comes only after
\* STARTED or RESUMED, nothing after FINISHED, and only a process that runs
\* beyond its time may be resumed twice in a row, and once.
RepeatedIn(lines) == {i \in 2 .. Len(lines) : lines[i] = lines[i - 1]}

Life(lines, left) ==
  /\ \A i \in 2 .. Len(lines) :
       /\ lines[i] = "STOPPED" => lines[i - 1] \in {"STARTED", "RESUMED"}
       /\ lines[i - 1] # "FINISHED"
  /\ \A i \in RepeatedIn(lines) :
       RepeatedIn(lines) = {i} /\ lines[i] = "RESUMED" /\ left < 0

\* What s may come after.
MayFollow(lines, left, s, left2) ==
  lines # <<>> =>
    /\ Last(lines) # "FINISHED"
    /\ s = "STOPPED" => Last(lines) \in {"STARTED", "RESUMED"}
    /\ s = Last(lines) => s = "RESUMED" /\ left >= 0 /\ left2 < 0

\* A process without lines.
LEMMA NoLife == \A left : Life(<<>>, left)
BY DEF Life, RepeatedIn

\* The same lines, with less time left.
LEMMA LifeKept ==
  ASSUME NEW lines, NEW left \in Int, NEW left2 \in Int, left2 <= left, Life(lines, left)
  PROVE  Life(lines, left2)
BY DEF Life

\* One line more.
LEMMA LifeGoesOn ==
  ASSUME NEW lines \in Seq(States), NEW s \in States,
         NEW left \in Int, NEW left2 \in Int, left2 <= left,
         Life(lines, left), MayFollow(lines, left, s, left2),
         NEW more, more = Append(lines, s)
  PROVE  more # <<>> /\ Last(more) = s /\ Life(more, left2)
<1>1. PICK n \in Nat : n = Len(lines)
  BY LenProperties
<1>2. /\ more \in Seq(States) /\ Len(more) = n + 1 /\ more[n + 1] = s
      /\ \A i \in 1 .. n : more[i] = lines[i]
  BY <1>1
<1>3. more # <<>> /\ Last(more) = s
  BY <1>1, <1>2 DEF Last
<1>4. n # 0 => lines # <<>> /\ Last(lines) = lines[n]
  BY <1>1 DEF Last
<1>5. ASSUME NEW i \in 2 .. n + 1
      PROVE  /\ more[i] = "STOPPED" => more[i - 1] \in {"STARTED", "RESUMED"}
             /\ more[i - 1] # "FINISHED"
  <2>1. CASE i = n + 1
    <3>1. n # 0 /\ i - 1 = n /\ more[i - 1] = lines[n] /\ more[i] = s
      BY <1>1, <1>2, <2>1
    <3> QED BY <1>4, <3>1 DEF MayFollow
  <2>2. CASE i # n + 1
    <3>1. i \in 2 .. n /\ more[i] = lines[i] /\ more[i - 1] = lines[i - 1]
      BY <1>1, <1>2, <2>2
    <3> QED BY <1>1, <3>1 DEF Life
  <2> QED BY <2>1, <2>2
<1>6. RepeatedIn(lines) \subseteq RepeatedIn(more)
      /\ RepeatedIn(more) \subseteq RepeatedIn(lines) \cup {n + 1}
  BY <1>1, <1>2 DEF RepeatedIn
<1>7. CASE n # 0 /\ s = Last(lines)
  <2>1. s = "RESUMED" /\ left >= 0 /\ left2 < 0
    BY <1>4, <1>7 DEF MayFollow
  <2>2. RepeatedIn(lines) = {}
    BY <2>1 DEF Life
  <2>3. RepeatedIn(more) \subseteq {n + 1}
    BY <1>6, <2>2
  <2>4. \A i \in RepeatedIn(more) : RepeatedIn(more) = {i} /\ more[i] = "RESUMED" /\ left2 < 0
    BY <1>2, <2>1, <2>3
  <2> QED BY <1>2, <1>3, <1>5, <2>4 DEF Life
<1>8. CASE ~(n # 0 /\ s = Last(lines))
  <2>1. n + 1 \notin RepeatedIn(more)
    <3>1. n # 0 => more[n + 1] # more[n + 1 - 1]
      BY <1>1, <1>2, <1>4, <1>8
    <3> QED BY <1>1, <1>2, <3>1 DEF RepeatedIn
  <2>2. RepeatedIn(more) = RepeatedIn(lines)
    BY <1>6, <2>1
  <2>3. \A i \in RepeatedIn(lines) : i \in 1 .. n
    BY <1>1 DEF RepeatedIn
  <2>4. \A i \in RepeatedIn(more) : RepeatedIn(more) = {i} /\ more[i] = "RESUMED" /\ left2 < 0
    BY <1>2, <2>2, <2>3 DEF Life
  <2> QED BY <1>2, <1>3, <1>5, <2>4 DEF Life
<1> QED BY <1>3, <1>7, <1>8

\* The lines of a process tell its life; the last one says FINISHED exactly if
\* it is finished; curr_Proc is not stopped; and a process that has not run has
\* no line, unless it was stopped when it was displaced before its first tick.
LineOf(p) ==
  /\ Life(log[p], proc[p].Remaining_time)
  /\ p \in Finished <=> log[p] # <<>> /\ Last(log[p]) = "FINISHED"
  /\ p \in Holders \/ p \in Finished \/ log[p] = <<>>
  /\ p = curr_Proc => log[p] = <<>> \/ Last(log[p]) \in {"STARTED", "RESUMED"}
  /\ p \in Holders /\ log[p] # <<>> =>
       /\ Unrun(p) => Last(log[p]) = "STOPPED"
       /\ Last(log[p]) = "RESUMED" => p = curr_Proc \/ proc[p].Remaining_time = 0

Lines == \A p \in Procs : LineOf(p)

\* A step that prints nothing about p and does not run it.
LEMMA LineKept ==
  ASSUME NEW p \in Procs, LineOf(p), log'[p] = log[p],
         proc'[p].Remaining_time = proc[p].Remaining_time,
         proc'[p].Running_time = proc[p].Running_time,
         p \in Holders' <=> p \in Holders, p \in Finished' <=> p \in Finished,
         p = curr_Proc' => p = curr_Proc,
         p = curr_Proc => p = curr_Proc' \/ proc[p].Remaining_time = 0
  PROVE  LineOf(p)'
<1>1. (Unrun(p)' <=> Unrun(p))
  BY DEF Unrun
<1> QED BY <1>1 DEF LineOf

\* A step that runs p, with no line for it.
LEMMA RunsOn ==
  ASSUME SharedTypeOK, NEW p \in Holders, LineOf(p), log'[p] = log[p],
         proc[p].Remaining_time <= proc[p].Running_time, proc[p].Remaining_time # 0,
         proc'[p].Remaining_time = proc[p].Remaining_time - 1,
         proc'[p].Running_time = proc[p].Running_time,
         p \in Holders', p \notin Finished', p \notin Finished,
         p = curr_Proc' <=> p = curr_Proc
  PROVE  LineOf(p)'
<1>1. proc[p].Remaining_time \in Int /\ proc[p].Running_time \in Int
  BY TimesAreNumbers DEF Holders
<1>2. ~Unrun(p)'
  BY <1>1 DEF Unrun
<1>3. PICK left, left2 : left = proc[p].Remaining_time /\ left2 = proc'[p].Remaining_time
  OBVIOUS
<1>4. Life(log[p], left2)
  <2>1. left \in Int /\ left2 \in Int /\ left2 <= left /\ Life(log[p], left)
    BY <1>1, <1>3 DEF LineOf
  <2> QED BY <2>1, LifeKept
<1> QED BY <1>2, <1>3, <1>4 DEF LineOf

\* A step that starts p or resumes it, and runs it.
LEMMA RunsWithLine ==
  ASSUME SharedTypeOK, NEW p \in Holders, LineOf(p), NEW s,
         IF Unrun(p) THEN s = "STARTED" ELSE s = "RESUMED" /\ p = curr_Proc',
         log'[p] = Append(log[p], s),
         proc[p].Remaining_time <= proc[p].Running_time,
         log[p] # <<>> /\ Last(log[p]) = "RESUMED" => proc[p].Remaining_time = 0,
         proc'[p].Remaining_time = proc[p].Remaining_time - 1,
         proc'[p].Running_time = proc[p].Running_time,
         p \in Holders', p \notin Finished', p \notin Finished
  PROVE  LineOf(p)'
<1>1. proc[p].Remaining_time \in Int /\ proc[p].Running_time \in Int
  BY TimesAreNumbers DEF Holders
<1>2. ~Unrun(p)'
  BY <1>1 DEF Unrun
<1>3. PICK left, left2 : left = proc[p].Remaining_time /\ left2 = proc'[p].Remaining_time
  OBVIOUS
<1>4. PICK lines, more : lines = log[p] /\ more = log'[p]
  OBVIOUS
<1>5. /\ left \in Int /\ left2 \in Int /\ left2 <= left /\ Life(lines, left)
      /\ more = Append(lines, s)
  BY <1>1, <1>3, <1>4 DEF LineOf
<1>6. MayFollow(lines, left, s, left2)
  <2>1. lines # <<>> => Last(lines) # "FINISHED"
    BY <1>4 DEF LineOf
  <2>2. lines # <<>> /\ s = Last(lines) => s = "RESUMED" /\ left = 0 /\ left2 = -1
    BY <1>1, <1>3, <1>4 DEF LineOf
  <2>3. s # "STOPPED"
    OBVIOUS
  <2> QED BY <2>1, <2>2, <2>3 DEF MayFollow
<1>7. lines \in Seq(States) /\ s \in States
  BY <1>4 DEF SharedTypeOK, Holders, States
<1>8. more # <<>> /\ Last(more) = s /\ Life(more, left2)
  BY <1>5, <1>6, <1>7, LifeGoesOn
<1> QED BY <1>2, <1>3, <1>4, <1>8 DEF LineOf

\* A step that stops p or finishes it.
LEMMA LineOfNotRun ==
  ASSUME SharedTypeOK, NEW p \in Holders, LineOf(p), NEW s \in {"STOPPED", "FINISHED"},
         log'[p] = Append(log[p], s),
         s = "STOPPED" => p = curr_Proc,
         proc'[p].Remaining_time = proc[p].Remaining_time,
         p \notin Finished,
         IF s = "STOPPED" THEN p \in Holders' /\ p \notin Finished'
                          ELSE p \notin Holders' /\ p \in Finished',
         p # curr_Proc'
  PROVE  LineOf(p)'
<1>1. PICK left \in Int : left = proc[p].Remaining_time
  BY TimesAreNumbers DEF Holders
<1>2. PICK lines, more : lines = log[p] /\ more = log'[p]
  OBVIOUS
<1>3. left <= left /\ Life(lines, left) /\ more = Append(lines, s)
  BY <1>1, <1>2 DEF LineOf
<1>4. MayFollow(lines, left, s, left)
  BY <1>2 DEF LineOf, MayFollow
<1>5. lines \in Seq(States) /\ s \in States
  BY <1>2 DEF SharedTypeOK, Holders, States
<1>6. more # <<>> /\ Last(more) = s /\ Life(more, left)
  BY <1>3, <1>4, <1>5, LifeGoesOn
<1> QED BY <1>1, <1>2, <1>6 DEF LineOf

\* up() was called once for every tick a process ran, but for those that it ran
\* as the next of one that finished: no more of them than have finished.  For
\* its end it is called twice.
UpsOf(p) ==
  LET done == Cardinality(Finished) IN
    /\ p \in Holders => ups[p] \in Executed(p) - done .. Executed(p)
    /\ p \in Finished => ups[p] \in proc[p].Running_time + 3 - done .. proc[p].Running_time + 2
    /\ p \in Holders \/ p \in Finished \/ ups[p] = 0

Pace == \A p \in Procs : UpsOf(p)

\* The times of the processes in a turn.
LEMMA ChargedAllTimes ==
  ASSUME SharedTypeOK, Ledger, NEW r, NEW F, F \subseteq Procs, ChargedAll(r, F)
  PROVE  /\ Holders' = Holders \ F /\ Finished' = Finished \cup F
         /\ \A p \in Procs :
              /\ proc[p].Remaining_time \in Int /\ proc[p].Running_time \in Nat
              /\ proc[p].Remaining_time <= proc[p].Running_time
              /\ proc'[p].Running_time = proc[p].Running_time
              /\ Executed(p) \in Nat
              /\ IF p = r THEN /\ proc'[p].Remaining_time = proc[p].Remaining_time - 1
                               /\ Executed(p)' = Executed(p) + 1
                          ELSE /\ proc'[p].Remaining_time = proc[p].Remaining_time
                               /\ Executed(p)' = Executed(p)
<1>1. Holders' = Holders \ F /\ Finished' = Finished \cup F
  BY ChargedAllEnds
<1>2. ASSUME NEW p \in Procs
      PROVE  /\ proc[p].Remaining_time \in Int /\ proc[p].Running_time \in Nat
             /\ proc[p].Remaining_time <= proc[p].Running_time
             /\ proc'[p].Running_time = proc[p].Running_time
             /\ Executed(p) \in Nat
             /\ IF p = r THEN /\ proc'[p].Remaining_time = proc[p].Remaining_time - 1
                              /\ Executed(p)' = Executed(p) + 1
                         ELSE /\ proc'[p].Remaining_time = proc[p].Remaining_time
                              /\ Executed(p)' = Executed(p)
  <2>1. /\ proc[p].Remaining_time \in Int /\ proc[p].Running_time \in Nat
        /\ proc[p].Remaining_time <= proc[p].Running_time
    BY TimesAreNumbers DEF Ledger, ExecutedIsNat
  <2>2. /\ proc'[p].Running_time = proc[p].Running_time
        /\ proc'[p].Remaining_time = proc[p].Remaining_time - IF p = r THEN 1 ELSE 0
    BY DEF ChargedAll
  <2>3. CASE p = r
    <3>1. proc'[p].Remaining_time = proc[p].Remaining_time - 1
      BY <2>2, <2>3
    <3> QED BY <2>1, <2>2, <2>3, <3>1 DEF Executed
  <2>4. CASE p # r
    <3>1. proc'[p].Remaining_time = proc[p].Remaining_time - 0
      BY <2>2, <2>4
    <3> QED BY <2>1, <2>2, <2>4, <3>1 DEF Executed
  <2> QED BY <2>3, <2>4
<1> QED BY <1>1, <1>2

\* Who holds memory is not finished, and the finished are counted.
LEMMA FinishedFacts ==
  ASSUME SharedTypeOK
  PROVE  /\ \A p \in Holders : p \in Procs /\ p \notin Finished
         /\ Finished \subseteq Procs /\ IsFiniteSet(Finished) /\ Cardinality(Finished) \in Nat
<1>1. Finished \subseteq Procs /\ \A p \in Holders : p \in Procs /\ p \notin Finished
  BY DEF Holders, Holds, Finished
<1>2. IsFiniteSet(Procs)
  BY FS_Interval, ConstantTypes DEF Procs
<1> QED BY <1>1, <1>2, FS_Subset, FS_CardinalityType

\* The turn in which the front runs.
LEMMA HighestReports ==
  ASSUME IInv, IInv', FrontInv, Books, Lines, Pace, RunHighest
  PROVE  Books' /\ Lines' /\ Pace'
<1>1. PICK f, c : f = front /\ c = curr_Proc
  OBVIOUS
<1>2. /\ f \in Holders /\ c \in Holders /\ proc[f].Remaining_time # 0
      /\ HighestPrints(f, c) /\ ChargedAll(f, {})
  BY <1>1, RunHighestPrints
<1>3. /\ SharedInv /\ SharedTypeOK /\ SharedTypeOK' /\ Ledger
      /\ phase = "receive" /\ EndOfPass /\ ups' = Up(ups, f)
      /\ UNCHANGED <<cpu_waiting_time, total_waiting_time>>
  BY <1>1 DEF IInv, SharedInv, Books, RunHighest, Begin, Turn, RunFront
<1>4. /\ Holders' = Holders /\ Finished' = Finished
      /\ \A p \in Procs :
           /\ proc[p].Remaining_time \in Int /\ proc[p].Running_time \in Nat
           /\ proc[p].Remaining_time <= proc[p].Running_time
           /\ proc'[p].Running_time = proc[p].Running_time
           /\ Executed(p) \in Nat
           /\ IF p = f THEN /\ proc'[p].Remaining_time = proc[p].Remaining_time - 1
                            /\ Executed(p)' = Executed(p) + 1
                       ELSE /\ proc'[p].Remaining_time = proc[p].Remaining_time
                            /\ Executed(p)' = Executed(p)
  <2>1. PICK F : F = {}
    OBVIOUS
  <2>2. ChargedAll(f, F) /\ F \subseteq Procs
    BY <1>2, <2>1
  <2>3. SharedTypeOK /\ Ledger
    BY <1>3
  <2>4. /\ Holders' = Holders \ F /\ Finished' = Finished \cup F
        /\ \A p \in Procs :
             /\ proc[p].Remaining_time \in Int /\ proc[p].Running_time \in Nat
             /\ proc[p].Remaining_time <= proc[p].Running_time
             /\ proc'[p].Running_time = proc[p].Running_time
             /\ Executed(p) \in Nat
             /\ IF p = f THEN /\ proc'[p].Remaining_time = proc[p].Remaining_time - 1
                              /\ Executed(p)' = Executed(p) + 1
                         ELSE /\ proc'[p].Remaining_time = proc[p].Remaining_time
                              /\ Executed(p)' = Executed(p)
    BY <2>2, <2>3, ChargedAllTimes
  <2>5. Holders' = Holders /\ Finished' = Finished
    BY <2>1, <2>4
  <2> QED BY <2>4, <2>5
<1>5. /\ \A p \in Holders : p \in Procs /\ p \notin Finished
      /\ Cardinality(Finished) \in Nat /\ f \in Procs /\ c \in Procs
  BY <1>2, <1>3, FinishedFacts
<1>6. Books'
  <2>1. PICK F : F = {}
    OBVIOUS
  <2>2. f # None
    BY <1>5 DEF Procs, None
  <2>3. /\ ChargedAll(f, F) /\ f \in Holders \ F
        /\ \A p \in F : proc[p].Remaining_time = 0
    BY <1>2, <2>1
  <2>4. cpu_waiting_time' = cpu_waiting_time + IF f = None THEN 1 ELSE 0
    <3>1. cpu_waiting_time' = cpu_waiting_time + 0
      BY <1>3 DEF SharedTypeOK
    <3> QED BY <2>2, <3>1
  <2>5. total_waiting_time' =
          total_waiting_time + IF F = {} THEN 0 ELSE proc[f].Waiting_time
    <3>1. total_waiting_time' = total_waiting_time + 0
      BY <1>3 DEF SharedTypeOK
    <3> QED BY <2>1, <3>1
  <2>6. SharedInv /\ SharedTypeOK' /\ Ledger /\ phase = "receive" /\ EndOfPass
    BY <1>3
  <2>7. Ledger' /\ \A p \in Procs : AccountOf(p) => AccountOf(p)'
    BY <2>1, <2>3, <2>4, <2>5, <2>6, ChargedAllAccounts
  <2> QED BY <2>7 DEF Books
<1>7. ASSUME NEW p \in Procs PROVE UpsOf(p)'
  <2>1. ups'[p] = ups[p] + IF p = f THEN 1 ELSE 0
    <3>1. ups \in [Procs -> Nat]
      BY <1>3 DEF SharedTypeOK
    <3>2. ups'[p] = IF p = f THEN ups[p] + 1 ELSE ups[p]
      BY <1>3, <3>1 DEF Up
    <3> QED BY <3>1, <3>2
  <2>2. UpsOf(p) /\ ups[p] \in Nat
    BY <1>3 DEF Pace, SharedTypeOK
  <2>3. PICK done \in Nat : done = Cardinality(Finished) /\ done = Cardinality(Finished')
    BY <1>4, <1>5
  <2>4. CASE p = f
    <3>1. ups'[p] = ups[p] + 1 /\ Executed(p)' = Executed(p) + 1 /\ Executed(p) \in Nat
      BY <1>4, <2>1, <2>4
    <3>2. ups[p] \in Executed(p) - done .. Executed(p)
      BY <1>2, <2>2, <2>3, <2>4 DEF UpsOf
    <3>3. ups'[p] \in Executed(p)' - done .. Executed(p)'
      BY <2>2, <3>1, <3>2
    <3>4. p \in Holders' /\ p \notin Finished'
      BY <1>2, <1>4, <1>5, <2>4
    <3> QED BY <2>3, <3>3, <3>4 DEF UpsOf
  <2>5. CASE p # f
    <3>1. ups'[p] = ups[p] /\ Executed(p)' = Executed(p)
      BY <1>4, <2>1, <2>2, <2>5
    <3> QED BY <1>4, <2>2, <3>1 DEF UpsOf
  <2> QED BY <2>4, <2>5
<1>8. ASSUME NEW p \in Procs PROVE LineOf(p)'
  <2>1. LineOf(p)
    BY DEF Lines
  <2>2. CASE c # f /\ proc[c].Remaining_time # 0
    <3>1. /\ curr_Proc' = f /\ Unrun(f)
          /\ log'[c] = Append(log[c], "STOPPED") /\ log'[f] = Append(log[f], "STARTED")
          /\ \A x \in Procs \ {c, f} : log'[x] = log[x]
      BY <1>2, <2>2 DEF HighestPrints
    <3>2. CASE p = c
      BY <1>1, <1>2, <1>3, <1>4, <1>5, <2>1, <2>2, <3>1, <3>2, LineOfNotRun
    <3>3. CASE p = f
      <4>1. log[p] # <<>> => Last(log[p]) = "STOPPED"
        BY <1>2, <2>1, <3>1, <3>3 DEF LineOf
      <4> QED BY <1>2, <1>3, <1>4, <1>5, <2>1, <3>1, <3>3, <4>1, RunsWithLine
    <3>4. CASE p # c /\ p # f
      BY <1>1, <1>4, <2>1, <3>1, <3>4, LineKept
    <3> QED BY <3>2, <3>3, <3>4
  <2>3. CASE ~(c # f /\ proc[c].Remaining_time # 0)
    <3>1. /\ curr_Proc' = c
          /\ log'[f] = log[f] \/ (Unrun(f) /\ log'[f] = Append(log[f], "STARTED"))
          /\ \A x \in Procs \ {f} : log'[x] = log[x]
      BY <1>2, <2>3 DEF HighestPrints
    <3>2. CASE p # f
      BY <1>1, <1>4, <2>1, <3>1, <3>2, LineKept
    <3>3. CASE p = f /\ log'[f] = log[f]
      BY <1>1, <1>2, <1>3, <1>4, <1>5, <2>1, <3>1, <3>3, RunsOn
    <3>4. CASE p = f /\ Unrun(f) /\ log'[f] = Append(log[f], "STARTED")
      <4>1. log[p] # <<>> => Last(log[p]) = "STOPPED"
        BY <1>2, <2>1, <3>4 DEF LineOf
      <4> QED BY <1>2, <1>3, <1>4, <1>5, <2>1, <3>4, <4>1, RunsWithLine
    <3> QED BY <3>1, <3>2, <3>3, <3>4
  <2> QED BY <2>2, <2>3
<1> QED BY <1>6, <1>7, <1>8 DEF Pace, Lines

\* The front f is finished, and r, if there is one, runs.
LEMMA FinishPace ==
  ASSUME SharedInv, SharedTypeOK', Ledger, Pace, NEW f \in Holders, proc[f].Remaining_time = 0,
         NEW r, r # f, ChargedAll(r, {f}), ups' = Up(Up(ups, f), f)
  PROVE  Pace'
<1>1. /\ \A p \in Holders : p \in Procs /\ p \notin Finished
      /\ Finished \subseteq Procs /\ IsFiniteSet(Finished) /\ Cardinality(Finished) \in Nat
      /\ f \in Procs /\ f \notin Finished /\ SharedTypeOK
  BY FinishedFacts DEF SharedInv
<1>2. PICK F : F = {f}
  OBVIOUS
<1>3. /\ Holders' = Holders \ F /\ Finished' = Finished \cup F
      /\ \A p \in Procs :
           /\ proc[p].Remaining_time \in Int /\ proc[p].Running_time \in Nat
           /\ proc[p].Remaining_time <= proc[p].Running_time
           /\ proc'[p].Running_time = proc[p].Running_time
           /\ Executed(p) \in Nat
           /\ IF p = r THEN /\ proc'[p].Remaining_time = proc[p].Remaining_time - 1
                            /\ Executed(p)' = Executed(p) + 1
                       ELSE /\ proc'[p].Remaining_time = proc[p].Remaining_time
                            /\ Executed(p)' = Executed(p)
  <2>1. F \subseteq Procs /\ ChargedAll(r, F)
    BY <1>1, <1>2
  <2> QED BY <1>1, <2>1, ChargedAllTimes
<1>4. PICK done \in Nat : done = Cardinality(Finished)
  BY <1>1
<1>5. Cardinality(Finished') = done + 1
  <2>1. Finished' = Finished \cup {f}
    BY <1>2, <1>3
  <2>2. Cardinality(Finished \cup {f}) = done + 1
    BY <1>1, <1>4, FS_AddElement
  <2> QED BY <2>1, <2>2
<1>6. /\ ups'[f] = ups[f] + 2 /\ ups[f] \in Nat
      /\ \A p \in Procs \ {f} : ups'[p] = ups[p]
  <2>1. ups \in [Procs -> Nat]
    BY <1>1 DEF SharedTypeOK
  <2>2. PICK once \in [Procs -> Nat] :
          once = Up(ups, f) /\ once[f] = ups[f] + 1 /\ \A p \in Procs \ {f} : once[p] = ups[p]
    BY <1>1, <2>1 DEF Up
  <2>3. ups' = [once EXCEPT ![f] = once[f] + 1]
    BY <2>2 DEF Up
  <2> QED BY <1>1, <2>1, <2>2, <2>3
<1>7. ASSUME NEW p \in Procs PROVE UpsOf(p)'
  <2>1. UpsOf(p) /\ ups[p] \in Nat
    BY <1>1 DEF Pace, SharedTypeOK
  <2>2. CASE p = f
    <3>1. ups[p] \in Executed(p) - done .. Executed(p) /\ Executed(p) \in Nat
      BY <1>3, <1>4, <2>1, <2>2 DEF UpsOf
    <3>2. Executed(p) = proc[p].Running_time /\ proc[p].Running_time \in Nat
      BY <1>3, <2>2 DEF Executed
    <3>3. ups'[p] \in proc'[p].Running_time + 3 - (done + 1) .. proc'[p].Running_time + 2
      BY <1>3, <1>6, <2>2, <3>1, <3>2
    <3>4. p \in Finished' /\ p \notin Holders'
      BY <1>2, <1>3, <2>2
    <3> QED BY <1>5, <3>3, <3>4 DEF UpsOf
  <2>3. CASE p # f
    <3>1. ups'[p] = ups[p]
      BY <1>6, <2>3
    <3>2. (p \in Holders' <=> p \in Holders) /\ (p \in Finished' <=> p \in Finished)
      BY <1>2, <1>3, <2>3
    <3>3. p \in Holders => ups'[p] \in Executed(p)' - (done + 1) .. Executed(p)'
      <4>1. SUFFICES ASSUME p \in Holders
                     PROVE  ups'[p] \in Executed(p)' - (done + 1) .. Executed(p)'
        OBVIOUS
      <4>2. ups[p] \in Executed(p) - done .. Executed(p)
        BY <1>4, <2>1, <4>1 DEF UpsOf
      <4>3. Executed(p) \in Nat /\ (Executed(p)' = Executed(p) \/ Executed(p)' = Executed(p) + 1)
        BY <1>3
      <4> QED BY <2>1, <3>1, <4>2, <4>3
    <3>4. p \in Finished =>
            ups'[p] \in proc'[p].Running_time + 3 - (done + 1) .. proc'[p].Running_time + 2
      <4>1. SUFFICES ASSUME p \in Finished
                     PROVE  ups'[p] \in proc'[p].Running_time + 3 - (done + 1)
                                          .. proc'[p].Running_time + 2
        OBVIOUS
      <4>2. ups[p] \in proc[p].Running_time + 3 - done .. proc[p].Running_time + 2
        BY <1>4, <2>1, <4>1 DEF UpsOf
      <4> QED BY <1>3, <2>1, <3>1, <4>2
    <3>5. p \in Holders' \/ p \in Finished' \/ ups'[p] = 0
      BY <2>1, <3>1, <3>2 DEF UpsOf
    <3> QED BY <1>5, <3>2, <3>3, <3>4, <3>5 DEF UpsOf
  <2> QED BY <2>2, <2>3
<1> QED BY <1>7 DEF Pace

\* The turn in which the front is finished and the next one runs.
LEMMA NextRunReports ==
  ASSUME IInv, IInv', FrontInv, Books, Lines, Pace, FinishAndRunNext
  PROVE  Books' /\ Lines' /\ Pace'
<1>1. PICK f, c : f = front /\ c = curr_Proc
  OBVIOUS
<1>2. PICK r \in Holders : f \in Holders /\ NextPrints(f, r, c) /\ ChargedAll(r, {f})
  BY <1>1, RunNextPrints
<1>3. /\ SharedInv /\ SharedTypeOK /\ SharedTypeOK' /\ Ledger
      /\ phase = "receive" /\ EndOfPass /\ ups' = Up(Up(ups, f), f)
      /\ cpu_waiting_time' = cpu_waiting_time
      /\ total_waiting_time' = total_waiting_time + proc[f].Waiting_time
  BY <1>1 DEF IInv, SharedInv, Books, FinishAndRunNext, EndOfFront, Begin, Turn, RunFront
<1>4. /\ r # f /\ curr_Proc' = r
      /\ proc[f].Remaining_time = 0 /\ (c # f => proc[c].Remaining_time = 0)
      /\ log'[f] = Append(log[f], "FINISHED")
      /\ log'[r] = Append(log[r], IF Unrun(r) THEN "STARTED" ELSE "RESUMED")
      /\ \A p \in Procs \ {f, r} : log'[p] = log[p]
  BY <1>2 DEF NextPrints
<1>5. PICK F : F = {f}
  OBVIOUS
<1>6. /\ \A p \in Holders : p \in Procs /\ p \notin Finished
      /\ f \in Procs /\ r \in Procs /\ r # None
  BY <1>2, <1>3, FinishedFacts DEF Procs, None
<1>7. Books'
  <2>1. /\ ChargedAll(r, F) /\ r \in Holders \ F /\ F # {}
        /\ F = {f} /\ f \in Holders
        /\ \A p \in F : proc[p].Remaining_time = 0
    BY <1>2, <1>4, <1>5
  <2>2. cpu_waiting_time' = cpu_waiting_time + IF r = None THEN 1 ELSE 0
    <3>1. cpu_waiting_time' = cpu_waiting_time + 0
      BY <1>3 DEF SharedTypeOK
    <3> QED BY <1>6, <3>1
  <2>3. total_waiting_time' =
          total_waiting_time + IF F = {} THEN 0 ELSE proc[f].Waiting_time
    BY <1>3, <2>1
  <2>4. SharedInv /\ SharedTypeOK' /\ Ledger /\ phase = "receive" /\ EndOfPass
    BY <1>3
  <2>5. Ledger' /\ \A p \in Procs : AccountOf(p) => AccountOf(p)'
    BY <2>1, <2>2, <2>3, <2>4, ChargedAllAccounts
  <2> QED BY <2>5 DEF Books
<1>8. Pace'
  BY <1>2, <1>3, <1>4, FinishPace
<1>9. /\ Holders' = Holders \ F /\ Finished' = Finished \cup F
      /\ \A p \in Procs :
           /\ proc[p].Remaining_time \in Int /\ proc[p].Running_time \in Nat
           /\ proc[p].Remaining_time <= proc[p].Running_time
           /\ proc'[p].Running_time = proc[p].Running_time
           /\ Executed(p) \in Nat
           /\ IF p = r THEN /\ proc'[p].Remaining_time = proc[p].Remaining_time - 1
                            /\ Executed(p)' = Executed(p) + 1
                       ELSE /\ proc'[p].Remaining_time = proc[p].Remaining_time
                            /\ Executed(p)' = Executed(p)
  <2>1. F \subseteq Procs /\ ChargedAll(r, F)
    BY <1>2, <1>5, <1>6
  <2> QED BY <1>3, <2>1, ChargedAllTimes
<1>10. ASSUME NEW p \in Procs PROVE LineOf(p)'
  <2>1. LineOf(p)
    BY DEF Lines
  <2>2. CASE p = f
    BY <1>2, <1>3, <1>4, <1>5, <1>6, <1>9, <2>1, <2>2, LineOfNotRun
  <2>3. CASE p = r
    <3>1. PICK s : s = IF Unrun(r) THEN "STARTED" ELSE "RESUMED"
      OBVIOUS
    <3>2. log'[p] = Append(log[p], s)
      BY <1>4, <2>3, <3>1
    <3>3. IF Unrun(p) THEN s = "STARTED" ELSE s = "RESUMED" /\ p = curr_Proc'
      BY <1>4, <2>3, <3>1
    <3>4. log[p] # <<>> /\ Last(log[p]) = "RESUMED" => proc[p].Remaining_time = 0
      <4>1. p = c => proc[p].Remaining_time = 0
        BY <1>4, <2>3
      <4> QED BY <1>1, <1>2, <2>1, <2>3, <4>1 DEF LineOf
    <3>5. /\ p \in Holders /\ p \in Holders' /\ p \notin Finished /\ p \notin Finished'
          /\ proc[p].Remaining_time <= proc[p].Running_time
          /\ proc'[p].Remaining_time = proc[p].Remaining_time - 1
          /\ proc'[p].Running_time = proc[p].Running_time
      BY <1>2, <1>4, <1>5, <1>6, <1>9, <2>3
    <3> QED BY <1>3, <2>1, <3>2, <3>3, <3>4, <3>5, RunsWithLine
  <2>4. CASE p # f /\ p # r
    BY <1>1, <1>4, <1>5, <1>9, <2>1, <2>4, LineKept
  <2> QED BY <2>2, <2>3, <2>4
<1> QED BY <1>7, <1>8, <1>10 DEF Lines

\* The turn in which the last process is finished.
LEMMA LastReports ==
  ASSUME IInv, IInv', FrontInv, Books, Lines, Pace, FinishLast
  PROVE  Books' /\ Lines' /\ Pace'
<1>1. PICK f : f = front
  OBVIOUS
<1>2. /\ f \in Holders /\ Holders = {f} /\ proc[f].Remaining_time = 0
      /\ log'[f] = Append(log[f], "FINISHED")
      /\ \A p \in Procs \ {f} : log'[p] = log[p]
      /\ ChargedAll(None, {f})
  BY <1>1, FinishLastPrints
<1>3. /\ SharedInv /\ SharedTypeOK /\ SharedTypeOK' /\ Ledger /\ curr_Proc' = None
      /\ phase = "receive" /\ EndOfPass /\ ups' = Up(Up(ups, f), f)
      /\ cpu_waiting_time' = cpu_waiting_time + 1
      /\ total_waiting_time' = total_waiting_time + proc[f].Waiting_time
  BY <1>1 DEF IInv, SharedInv, Books, FinishLast, EndOfFront, Begin, Turn
<1>4. PICK F : F = {f}
  OBVIOUS
<1>5. /\ f \in Procs /\ f \notin Finished /\ \A p \in Procs : p # None
  BY <1>2, <1>3, FinishedFacts DEF Procs, None
<1>6. Books'
  <2>1. PICK r : r = None
    OBVIOUS
  <2>2. /\ ChargedAll(r, F) /\ r = None /\ Holders \ F = {} /\ F # {}
        /\ F = {f} /\ f \in Holders
        /\ \A p \in F : proc[p].Remaining_time = 0
    BY <1>2, <1>4, <2>1
  <2>3. cpu_waiting_time' = cpu_waiting_time + IF r = None THEN 1 ELSE 0
    BY <1>3, <2>1
  <2>4. total_waiting_time' =
          total_waiting_time + IF F = {} THEN 0 ELSE proc[f].Waiting_time
    BY <1>3, <2>2
  <2>5. SharedInv /\ SharedTypeOK' /\ Ledger /\ phase = "receive" /\ EndOfPass
    BY <1>3
  <2>6. Ledger' /\ \A p \in Procs : AccountOf(p) => AccountOf(p)'
    BY <2>2, <2>3, <2>4, <2>5, ChargedAllAccounts
  <2> QED BY <2>6 DEF Books
<1>7. Pace'
  <2>1. PICK r : r = None
    OBVIOUS
  <2>2. r # f /\ ChargedAll(r, {f})
    BY <1>2, <1>5, <2>1
  <2> QED BY <1>2, <1>3, <2>2, FinishPace
<1>8. /\ Holders' = Holders \ F /\ Finished' = Finished \cup F
      /\ \A p \in Procs :
           /\ proc'[p].Running_time = proc[p].Running_time
           /\ IF p = None THEN /\ proc'[p].Remaining_time = proc[p].Remaining_time - 1
                               /\ Executed(p)' = Executed(p) + 1
                          ELSE /\ proc'[p].Remaining_time = proc[p].Remaining_time
                               /\ Executed(p)' = Executed(p)
  <2>1. F \subseteq Procs /\ ChargedAll(None, F)
    BY <1>2, <1>4, <1>5
  <2> QED BY <1>3, <2>1, ChargedAllTimes
<1>9. ASSUME NEW p \in Procs PROVE LineOf(p)'
  <2>1. LineOf(p) /\ p # None
    BY <1>5 DEF Lines
  <2>2. CASE p = f
    BY <1>2, <1>3, <1>4, <1>5, <1>8, <2>1, <2>2, LineOfNotRun
  <2>3. CASE p # f
    <3>1. p \notin Holders /\ p \notin Holders' /\ log'[p] = log[p]
          /\ (p \in Finished' <=> p \in Finished)
          /\ proc'[p].Remaining_time = proc[p].Remaining_time
      BY <1>2, <1>4, <1>8, <2>1, <2>3
    <3> QED BY <1>3, <2>1, <3>1 DEF LineOf
  <2> QED BY <2>2, <2>3
<1> QED BY <1>6, <1>7, <1>9 DEF Lines

\* A process that is received has no lines, and nothing was counted for it.
LEMMA ReceiveReports ==
  ASSUME IInv, IInv', Books, Lines, Pace, ReceiveProcess \/ RefuseProcess
  PROVE  Books' /\ Lines' /\ Pace'
<1>1. PICK n \in Messages, r \in Procs : Received(n, r)
  BY ReceivedOne
<1>2. /\ SharedInv /\ SharedTypeOK /\ SharedTypeOK' /\ Ledger
      /\ log' = log /\ ups' = ups
  BY <1>1 DEF IInv, SharedInv, Books, Received, Receive, files
<1>3. Books'
  <2>1. /\ SharedInv /\ Ledger /\ Receive(n) /\ r = received + 1 /\ proc'[r] = n /\ SharedTypeOK'
        /\ \A p \in Procs \ {r} : SameTimes(p) /\ SameMemory(p)
    BY <1>1, <1>2 DEF Received
  <2>2. Ledger' /\ \A p \in Procs : p = r \/ AccountOf(p) => AccountOf(p)'
    BY <2>1, ReceiveAccounts
  <2> QED BY <2>2 DEF Books
<1>4. curr_Proc' = curr_Proc \/ (curr_Proc' = r /\ curr_Proc \notin Procs)
  <2>1. CASE RefuseProcess
    BY <2>1 DEF RefuseProcess, listVars
  <2>2. CASE ReceiveProcess
    BY <1>1, <2>2 DEF ReceiveProcess, Received, IInv, NoneLost, Procs, None
  <2> QED BY <2>1, <2>2
<1>5. /\ r \notin Holders /\ r \notin Finished /\ Finished' = Finished
      /\ Holders \subseteq Holders' /\ Holders' \subseteq Holders \cup {r}
      /\ proc'[r].Remaining_time = proc'[r].Running_time /\ proc'[r].Running_time \in Nat
      /\ \A p \in Procs \ {r} : SameTimes(p)
  BY <1>1 DEF Received
<1>6. log[r] = <<>> /\ ups[r] = 0
  BY <1>5 DEF Lines, LineOf, Pace, UpsOf
<1>7. LineOf(r)'
  <2>1. log'[r] = <<>>
    BY <1>2, <1>6
  <2>2. r \notin Finished' /\ Life(<<>>, proc'[r].Remaining_time)
    BY <1>5, NoLife
  <2> QED BY <2>1, <2>2 DEF LineOf
<1>8. UpsOf(r)'
  <2>1. Executed(r)' = 0
    BY <1>5 DEF Executed
  <2>2. PICK done \in Nat : done = Cardinality(Finished')
    BY <1>2, <1>5, FinishedFacts
  <2>3. ups'[r] = 0 /\ r \notin Finished'
    BY <1>2, <1>5, <1>6
  <2>4. ups'[r] \in Executed(r)' - done .. Executed(r)'
    BY <2>1, <2>2, <2>3
  <2> QED BY <2>2, <2>3, <2>4 DEF UpsOf
<1>9. ASSUME NEW p \in Procs, p # r PROVE LineOf(p)' /\ UpsOf(p)'
  <2>1. /\ SameTimes(p) /\ LineOf(p) /\ UpsOf(p)
        /\ (p \in Holders' <=> p \in Holders) /\ (p \in Finished' <=> p \in Finished)
        /\ (p = curr_Proc' <=> p = curr_Proc)
    BY <1>4, <1>5, <1>9 DEF Lines, Pace
  <2>2. LineOf(p)'
    BY <1>2, <2>1, LineKept DEF SameTimes
  <2>3. Executed(p)' = Executed(p)
    BY <2>1 DEF SameTimes, Executed
  <2>4. UpsOf(p)'
    BY <1>2, <1>5, <2>1, <2>3 DEF UpsOf, SameTimes
  <2> QED BY <2>2, <2>4
<1>10. \A p \in Procs : LineOf(p)' /\ UpsOf(p)'
  BY <1>7, <1>8, <1>9
<1> QED BY <1>3, <1>10 DEF Lines, Pace

\* A step that neither runs nor prints nor finishes anything.
LEMMA NothingReported ==
  ASSUME Lines, Pace, UNCHANGED <<proc, log, ups, curr_Proc>>
  PROVE  Lines' /\ Pace'
<1>1. Finished' = Finished /\ Holders' = Holders
  BY DEF Finished, Holders, Holds
<1>2. ASSUME NEW p \in Procs PROVE LineOf(p)' /\ UpsOf(p)'
  <2>1. LineOf(p) /\ UpsOf(p)
    BY DEF Lines, Pace
  <2>2. LineOf(p)'
    BY <1>1, <2>1 DEF LineOf, Unrun
  <2>3. UpsOf(p)'
    BY <1>1, <2>1 DEF UpsOf, Executed
  <2> QED BY <2>2, <2>3
<1> QED BY <1>2 DEF Lines, Pace

\* Every step keeps the accounts, the lines and the counts of up().
LEMMA NextReports ==
  IInv /\ FrontInv /\ Books /\ Lines /\ Pace /\ [Next]_vars => Books' /\ Lines' /\ Pace'
<1> SUFFICES ASSUME IInv, FrontInv, Books, Lines, Pace, [Next]_vars
             PROVE  Books' /\ Lines' /\ Pace'
  OBVIOUS
<1>1. SharedInv /\ Ledger /\ IInv'
  BY NextIInv DEF IInv, Books
<1>2. CASE Tick /\ UNCHANGED <<listVars, P_state, startt>>
  <2>1. Books'
    BY <1>1, <1>2, TickAccounts DEF Books
  <2>2. UNCHANGED <<proc, log, ups, curr_Proc>>
    BY <1>2 DEF Tick, files, listVars
  <2> QED BY <2>1, <2>2, NothingReported
<1>3. CASE ReceiveProcess \/ RefuseProcess
  BY <1>1, <1>3, ReceiveReports
<1>4. CASE RunHighest
  BY <1>1, <1>4, HighestReports
<1>5. CASE FinishAndRunNext
  BY <1>1, <1>5, NextRunReports
<1>6. CASE FinishLast
  BY <1>1, <1>6, LastReports
<1>7. CASE Idle
  <2>1. /\ phase = "receive" /\ EndOfPass /\ cpu_waiting_time' = cpu_waiting_time + 1
        /\ UNCHANGED <<proc, total_waiting_time>>
    BY <1>7 DEF Idle, Turn
  <2>2. Holders = {}
    BY <1>7, EmptyQueue DEF Idle, Empty, IInv, NoneLost
  <2>3. SharedTypeOK'
    BY <1>1 DEF IInv, SharedInv
  <2>4. Books'
    BY <1>1, <2>1, <2>2, <2>3, IdleAccounts DEF Books
  <2>5. UNCHANGED <<proc, log, ups, curr_Proc>>
    BY <1>7 DEF Idle, files, listVars
  <2> QED BY <2>4, <2>5, NothingReported
<1>8. CASE UNCHANGED vars
  <2>1. Books'
    BY <1>1, <1>8, AccountsStutter DEF vars, Books
  <2>2. UNCHANGED <<proc, log, ups, curr_Proc>>
    BY <1>8 DEF vars, sharedVars, files, listVars
  <2> QED BY <2>1, <2>2, NothingReported
<1> QED BY <1>2, <1>3, <1>4, <1>5, <1>6, <1>7, <1>8 DEF Next, Algorithm

\* Before the first pass nothing is charged, printed or counted.
LEMMA InitReports == Init => Books /\ Lines /\ Pace
<1> SUFFICES ASSUME Init PROVE Books /\ Lines /\ Pace
  OBVIOUS
<1>1. Books /\ Holders = {}
  BY InitAccounts, SharedInitInv DEF Init, Books
<1>2. ASSUME NEW p \in Procs PROVE LineOf(p) /\ UpsOf(p)
  <2>1. log[p] = <<>> /\ ups[p] = 0 /\ proc[p].State = "STOPPED"
    BY DEF Init, SharedInit, Unborn
  <2>2. p \notin Finished /\ p \notin Holders
    BY <1>1, <2>1 DEF Finished
  <2>3. LineOf(p)
    BY <2>1, <2>2, NoLife DEF LineOf
  <2> QED BY <2>1, <2>2, <2>3 DEF UpsOf
<1> QED BY <1>1, <1>2 DEF Lines, Pace

\* The lines and counts of the single processes are what Reports says.
LEMMA LinesTell == SharedTypeOK /\ Lines /\ Pace => LogTellsStops /\ UpsExceptPops
<1> SUFFICES ASSUME SharedTypeOK, Lines, Pace PROVE LogTellsStops /\ UpsExceptPops
  OBVIOUS
<1>1. \A p \in Procs : Repeated(p) = RepeatedIn(log[p])
  BY DEF Repeated, RepeatedIn
<1>2. LogTellsStops
  BY <1>1 DEF LogTellsStops, Lines, LineOf, Life
<1>3. /\ Finished \subseteq Procs /\ IsFiniteSet(Finished)
      /\ \A p \in Holders : p \in Procs /\ p \notin Finished
  BY FinishedFacts
<1>4. PICK done \in Nat : done = Cardinality(Finished)
  BY FinishedFacts
<1>5. ASSUME NEW p \in Holders
      PROVE  ups[p] \in Executed(p) - Cardinality(Finished) .. Executed(p)
  BY <1>3 DEF Pace, UpsOf
<1>6. ASSUME NEW p \in Finished
      PROVE  ups[p] \in proc[p].Running_time + 2 - Cardinality(Finished \ {p})
                          .. proc[p].Running_time + 2
  <2>1. Cardinality(Finished \ {p}) = done - 1
    BY <1>3, <1>4, FS_RemoveElement
  <2>2. ups[p] \in proc[p].Running_time + 3 - done .. proc[p].Running_time + 2
    BY <1>3, <1>4 DEF Pace, UpsOf
  <2>3. proc[p].Running_time \in Nat
    BY <1>3, TimesAreNumbers
  <2> QED BY <2>1, <2>2, <2>3
<1> QED BY <1>2, <1>5, <1>6, Zenon DEF UpsExceptPops

\* The numbers in scheduler.log and scheduler.perf are so whatever is displaced,
\* stopped or resumed.  The lines of a process tell a possible life, but that a
\* process which runs beyond its time may be resumed twice, and up() is missing
\* for no more ticks than other processes have finished.
THEOREM ReportsAreTrue == Spec => []Reports
<1>1. Init => IInv /\ FrontInv /\ Books /\ Lines /\ Pace
  BY InitIInv, InitFront, InitReports
<1>2. (IInv /\ FrontInv /\ Books /\ Lines /\ Pace) /\ [Next]_vars
        => (IInv /\ FrontInv /\ Books /\ Lines /\ Pace)'
  BY NextIInv, NextFront, NextReports
<1>3. IInv /\ Books /\ Lines /\ Pace => Reports
  BY LedgerIsAccounts, LinesTell DEF IInv, SharedInv, Books, Reports
<1> QED BY <1>1, <1>2, <1>3, PTL DEF Spec
=============================================================================
