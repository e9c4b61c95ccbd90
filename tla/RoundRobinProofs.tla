-------------------------- MODULE RoundRobinProofs --------------------------
(***************************************************************************)
(* Under round robin no process and no memory is ever lost, curr_Proc      *)
(* never points to a node that was freed, the scheduler does not stop      *)
(* before all are through, no process waits longer than a quantum of each  *)
(* other, the reports are so, the promise of Processor is kept, and the    *)
(* pointers of the circular list go round the queue.  In the composition   *)
(* the scheduler is still that one, the generator keeps its schedule and   *)
(* the programs stay in step with it.                                      *)
(***************************************************************************)
EXTENDS RoundRobinLinked, RoundRobinSystem, SchedulerProofs

\* Only the current process can have used up its time: it is the one that ran.
OthersHaveWork ==
  \A p \in Holders : p # curr_Proc => proc[p].Remaining_time > 0

IInv == SharedInv /\ TypeOK /\ NoneLost /\ OthersHaveWork

-----------------------------------------------------------------------------
LEMMA InitIInv == Init => IInv
<1> SUFFICES ASSUME Init PROVE IInv
  OBVIOUS
<1>1. SharedInv /\ Holders = {}
  BY SharedInitInv DEF Init
<1>2. Range(<<>>) = {} /\ IsInjective(<<>>) /\ <<>> \in Seq(Procs)
  BY EmptyQueue
<1>3. \A p \in Procs : proc[p].Remaining_time >= 0
  BY UnbornType DEF Init, SharedInit
<1>4. TypeOK
  BY <1>1, <1>2, <1>3, QuantumAssumption DEF Init, TypeOK, SharedInv
<1>5. NoneLost /\ OthersHaveWork
  BY <1>1, <1>2 DEF Init, NoneLost, OthersHaveWork, Empty
<1> QED BY <1>1, <1>4, <1>5 DEF IInv

\* A step that leaves the queue, the current process and the holders alone.
LEMMA QueueUnchanged ==
  ASSUME IInv, UNCHANGED rrVars, SharedInv', Holders' = Holders,
         \A p \in Procs : proc'[p].Remaining_time >= 0,
         \A p \in Holders : proc'[p].Remaining_time = proc[p].Remaining_time
  PROVE  IInv'
<1>1. UNCHANGED <<circular_Queue_RR, curr_Proc, quanta, waited>>
  BY DEF rrVars
<1>2. NoneLost' /\ OthersHaveWork'
  BY <1>1 DEF IInv, NoneLost, OthersHaveWork, Empty
<1>3. TypeOK'
  BY <1>1 DEF IInv, TypeOK, SharedInv
<1> QED BY <1>2, <1>3 DEF IInv

LEMMA TickIInv ==
  ASSUME IInv, Tick, UNCHANGED rrVars
  PROVE  IInv'
<1>1. SharedInv' /\ Holders' = Holders /\ proc' = proc
  BY TickInv DEF IInv, Tick
<1> QED BY <1>1, QueueUnchanged DEF IInv, TypeOK

LEMMA StutterIInv ==
  ASSUME IInv, UNCHANGED vars
  PROVE  IInv'
<1>1. SharedInv' /\ Holders' = Holders /\ proc' = proc /\ UNCHANGED rrVars
  BY StutterInv DEF IInv, vars
<1> QED BY <1>1, QueueUnchanged DEF IInv, TypeOK

LEMMA IdleIInv ==
  ASSUME IInv, Idle
  PROVE  IInv'
<1>1. SharedInv' /\ Holders' = Holders /\ proc' = proc /\ UNCHANGED rrVars
  BY IdleTurn DEF IInv, Idle
<1> QED BY <1>1, QueueUnchanged DEF IInv, TypeOK

LEMMA RefuseIInv ==
  ASSUME IInv, RefuseProcess
  PROVE  IInv'
<1>1. PICK r : r = received'
  OBVIOUS
<1>2. /\ SharedInv' /\ Holders' = Holders /\ r \in Procs
      /\ proc'[r].Remaining_time \in Nat \ {0} /\ proc'[r].memindex = NoPlace
      /\ \A p \in Procs \ {r} : proc'[p] = proc[p]
      /\ UNCHANGED rrVars
  BY <1>1, RefuseInv DEF IInv, RefuseProcess
<1>3. \A p \in Procs : proc'[p].Remaining_time >= 0
  BY <1>2 DEF IInv, TypeOK
<1>4. r \notin Holders
  BY <1>2 DEF Holders, Holds
<1>5. \A p \in Holders : proc'[p].Remaining_time = proc[p].Remaining_time
  BY <1>2, <1>4 DEF Holders
<1> QED BY <1>2, <1>3, <1>5, QueueUnchanged

LEMMA ReceiveIInv ==
  ASSUME IInv, ReceiveProcess
  PROVE  IInv'
<1> DEFINE queue == circular_Queue_RR
<1>1. PICK n \in Messages :
        /\ Accept(n)
        /\ proc' = [proc EXCEPT ![received + 1] = n]
        /\ queue' = Append(queue, received + 1)
        /\ curr_Proc' = IF Empty THEN received + 1 ELSE curr_Proc
        /\ UNCHANGED <<quanta, waited>>
  BY DEF ReceiveProcess
<1>2. PICK r : r = received + 1
  OBVIOUS
<1>3. /\ r \in Procs /\ proc' \in [Procs -> ProcessRecords] /\ proc'[r] = n
      /\ \A p \in Procs \ {r} : proc'[p] = proc[p] /\ SameMemory(p)
  BY <1>1, <1>2, ReceivedRecords DEF IInv, Accept
<1>4. SharedInv' /\ r \notin Holders /\ Holders' = Holders \cup {r}
  BY <1>1, <1>2, <1>3, AcceptInv DEF IInv
<1>5. n.Remaining_time \in Nat \ {0}
  BY MessageTypes, RunTimesAssumption DEF IInv, SharedInv
<1>6. /\ queue \in Seq(Procs) /\ IsInjective(queue) /\ Holders = Range(queue)
      /\ IF queue = <<>> THEN curr_Proc = None ELSE curr_Proc \in Range(queue)
  BY DEF IInv, TypeOK, NoneLost, Empty
<1>7. /\ queue' \in Seq(Procs) /\ queue' # <<>> /\ IsInjective(queue')
      /\ Range(queue') = Range(queue) \cup {r}
  <2>1. queue' = Append(queue, r)
    BY <1>1, <1>2
  <2> QED BY <1>3, <1>4, <1>6, <2>1, AppendedToQueue
<1>8. curr_Proc' \in Range(queue') /\ (queue # <<>> => curr_Proc' = curr_Proc)
  BY <1>1, <1>2, <1>6, <1>7 DEF Empty
<1>9. NoneLost'
  BY <1>4, <1>6, <1>7, <1>8 DEF NoneLost, Empty
<1>10. OthersHaveWork'
  <2>1. ASSUME NEW p \in Holders', p # curr_Proc' PROVE proc'[p].Remaining_time > 0
    <3>1. CASE p = r
      BY <1>3, <1>5, <3>1
    <3>2. CASE p # r
      <4>1. p \in Holders /\ queue # <<>>
        BY <1>4, <1>6, <2>1, <3>2, EmptyQueue
      <4>2. p # curr_Proc
        BY <1>8, <2>1, <4>1
      <4> QED BY <1>3, <3>2, <4>1, <4>2 DEF IInv, OthersHaveWork, Holders
    <3> QED BY <3>1, <3>2
  <2> QED BY <2>1 DEF OthersHaveWork
<1>11. \A p \in Procs : proc'[p].Remaining_time >= 0
  BY <1>3, <1>5 DEF IInv, TypeOK
<1>12. TypeOK'
  BY <1>1, <1>4, <1>7, <1>8, <1>11, RangeOfQueue DEF IInv, TypeOK, SharedInv
<1> QED BY <1>4, <1>9, <1>10, <1>12 DEF IInv

-----------------------------------------------------------------------------
\* The node that the search finds, and the one behind it.
LEMMA SuccessorInQueue ==
  ASSUME IInv, ~Empty
  PROVE  /\ curr_Proc \in Holders
         /\ Position(curr_Proc) \in 1 .. Len(circular_Queue_RR)
         /\ circular_Queue_RR[Position(curr_Proc)] = curr_Proc
         /\ Successor(curr_Proc) \in Holders
         /\ ~Alone => Successor(curr_Proc) # curr_Proc
<1> DEFINE queue == circular_Queue_RR
           i == Position(curr_Proc)
           j == IF i = Len(queue) THEN 1 ELSE i + 1
<1>1. /\ queue \in Seq(Procs) /\ Len(queue) \in Nat /\ IsInjective(queue)
      /\ Holders = Range(queue) /\ curr_Proc \in Range(queue)
  BY LenProperties DEF IInv, TypeOK, NoneLost
<1>2. \E k \in 1 .. Len(queue) : queue[k] = curr_Proc
  BY <1>1, RangeOfQueue
<1>3. i \in 1 .. Len(queue) /\ queue[i] = curr_Proc
  BY <1>2 DEF Position
<1>4. Successor(curr_Proc) = queue[j]
  BY DEF Successor
<1> HIDE DEF i
<1>5. j \in 1 .. Len(queue) /\ (Len(queue) # 1 => j # i)
  <2>1. CASE i = Len(queue)
    BY <1>1, <1>3, <2>1
  <2>2. CASE i # Len(queue)
    BY <1>1, <1>3, <2>2
  <2> QED BY <2>1, <2>2
<1> HIDE DEF j
<1>6. queue[j] \in Range(queue)
  BY <1>1, <1>5, RangeOfQueue
<1>7. Len(queue) # 1 => queue[j] # queue[i]
  BY <1>1, <1>3, <1>5 DEF IsInjective
<1> QED BY <1>1, <1>3, <1>4, <1>6, <1>7 DEF Alone, i

\* A turn in which r runs and nobody finishes.
LEMMA RunIInv ==
  ASSUME IInv, WorkLeft, EndOfPass, ~Empty, NEW r \in Holders, NEW procs, SameWork(procs),
         Run(r, procs, circular_Queue_RR), ups' = Up(ups, curr_Proc),
         log' \in [Procs -> Seq(States)], quanta' \in 0 .. q - 1,
         UNCHANGED <<mem, finished_process_count, total_waiting_time>>
  PROVE  /\ IInv' /\ Holders' = Holders
         /\ \A p \in Procs :
              /\ proc'[p].memindex = proc[p].memindex
              /\ proc'[p].Remaining_time = proc[p].Remaining_time - IF p = r THEN 1 ELSE 0
<1> DEFINE queue == circular_Queue_RR
<1>1. /\ queue' = queue /\ curr_Proc' = r
      /\ proc' = Charge(procs, r, Range(queue))
      /\ waited' = [p \in Procs |-> IF p \in Range(queue) \ {r} THEN waited[p] + 1 ELSE 0]
      /\ cpu_waiting_time' = cpu_waiting_time
  BY DEF Run
<1>2. ups' \in [Procs -> Nat]
  BY SuccessorInQueue, UpTypes DEF IInv, SharedInv, SharedTypeOK, Holders
<1>3. /\ SharedInv' /\ Holders' = Holders
      /\ \A p \in Procs :
           /\ proc'[p].memindex = proc[p].memindex
           /\ proc'[p].Remaining_time = proc[p].Remaining_time - IF p = r THEN 1 ELSE 0
  BY <1>1, <1>2, ChargedTurn DEF IInv
<1>4. r \in Procs /\ r \in Range(queue)
  BY DEF Holders, IInv, NoneLost
<1>5. NoneLost'
  BY <1>1, <1>3, <1>4 DEF IInv, NoneLost, Empty
<1>6. \A p \in Procs : proc[p].Remaining_time \in Int
  BY DEF IInv, SharedInv, SharedTypeOK
<1>7. OthersHaveWork' /\ \A p \in Procs : proc'[p].Remaining_time >= 0
  <2>1. ASSUME NEW p \in Procs PROVE proc'[p].Remaining_time >= 0
    <3>1. CASE p = r
      BY <1>3, <1>6, <3>1 DEF WorkLeft
    <3>2. CASE p # r
      BY <1>3, <1>6, <3>2 DEF WorkLeft
    <3> QED BY <3>1, <3>2
  <2>2. ASSUME NEW p \in Holders, p # r PROVE proc'[p].Remaining_time > 0
    BY <1>3, <1>6, <2>2 DEF WorkLeft, Holders
  <2> QED BY <1>1, <1>3, <2>1, <2>2 DEF OthersHaveWork
<1>8. waited' \in [Procs -> Nat]
  <2>1. \A p \in Procs : waited[p] + 1 \in Nat
    BY DEF IInv, TypeOK
  <2> QED BY <1>1, <2>1
<1>9. TypeOK'
  BY <1>1, <1>3, <1>4, <1>7, <1>8 DEF IInv, TypeOK, SharedInv
<1> QED BY <1>3, <1>5, <1>7, <1>9 DEF IInv

\* The three ways of going on: in all of them the current process has work left.
GoesOn == KeepRunning \/ KeepAlone \/ Switch

LEMMA BegunIsSameWork ==
  ASSUME IInv, ~Empty
  PROVE  /\ SameWork(Begun) /\ KeptTimes(Begun, {}, follow)
         /\ BegunLog \in [Procs -> Seq(States)]
<1>1. curr_Proc \in Holders /\ curr_Proc \in Procs
  BY SuccessorInQueue DEF Holders
<1>2. log \in [Procs -> Seq(States)] /\ "STARTED" \in States
  BY DEF IInv, SharedInv, SharedTypeOK, States
<1>3. SameWork(proc) /\ SameWork(SetState(proc, curr_Proc, "STARTED"))
  BY <1>1, <1>2, NothingSet, SetStateIsSameWork DEF IInv
<1>4. PrintLine(log, curr_Proc, "STARTED") \in [Procs -> Seq(States)]
  BY <1>1, <1>2, PrintTypes
<1>5. /\ KeptTimes(proc, {}, follow)
      /\ KeptTimes(SetState(proc, curr_Proc, "STARTED"), {}, follow)
  BY <1>1, <1>2, <1>3, NothingKept, SetStateKeepsTimes DEF SameWork
<1> QED BY <1>2, <1>3, <1>4, <1>5 DEF Begun, BegunLog

\* What runs in a turn that goes on, in which records.
LEMMA GoesOnRuns ==
  ASSUME IInv, GoesOn
  PROVE  /\ phase = "receive" /\ EndOfPass /\ ~Empty /\ WorkLeft
         /\ ups' = Up(ups, curr_Proc)
         /\ UNCHANGED <<mem, finished_process_count, total_waiting_time>>
         /\ quanta' \in 0 .. q - 1 /\ log' \in [Procs -> Seq(States)]
         /\ \E r \in Holders : \E procs :
              SameWork(procs) /\ KeptTimes(procs, {}, follow) /\ Run(r, procs, circular_Queue_RR)
<1>1. /\ phase = "receive" /\ EndOfPass /\ ~Empty /\ ups' = Up(ups, curr_Proc)
      /\ UNCHANGED <<mem, finished_process_count, total_waiting_time>>
      /\ proc[curr_Proc].Remaining_time # 0
  BY DEF GoesOn, KeepRunning, KeepAlone, Switch, Begin, Turn, Expired
<1>2. curr_Proc \in Holders /\ curr_Proc \in Procs
  BY <1>1, SuccessorInQueue DEF Holders
<1>3. WorkLeft
  <2>1. \A p \in Procs : proc[p].Remaining_time \in Int /\ proc[p].Remaining_time >= 0
    BY DEF IInv, TypeOK, SharedInv, SharedTypeOK
  <2>2. proc[curr_Proc].Remaining_time > 0
    BY <1>1, <1>2, <2>1
  <2> QED BY <2>1, <2>2 DEF IInv, OthersHaveWork, WorkLeft
<1>4. SameWork(Begun) /\ KeptTimes(Begun, {}, follow) /\ BegunLog \in [Procs -> Seq(States)]
  BY <1>1, BegunIsSameWork
<1>5. quanta \in 0 .. q - 1 /\ q - 1 \in 0 .. q - 1
  BY QuantumAssumption DEF IInv, TypeOK
<1>6. CASE KeepRunning
  <2>1. quanta' = quanta - 1 /\ quanta # 0 /\ log' = BegunLog
    BY <1>6 DEF KeepRunning, Expired
  <2>2. quanta' \in 0 .. q - 1
    BY <1>5, <2>1, QuantumAssumption
  <2>3. Run(curr_Proc, Begun, circular_Queue_RR)
    BY <1>6 DEF KeepRunning
  <2> QED BY <1>1, <1>2, <1>3, <1>4, <2>1, <2>2, <2>3
<1>7. CASE KeepAlone
  <2>1. quanta' = q - 1 /\ log' = BegunLog /\ Run(curr_Proc, Begun, circular_Queue_RR)
    BY <1>7 DEF KeepAlone
  <2> QED BY <1>1, <1>2, <1>3, <1>4, <1>5, <2>1
<1>8. CASE Switch
  <2>1. PICK next : next = Successor(curr_Proc)
    OBVIOUS
  <2>2. PICK state \in {"STARTED", "RESUMED"} : state = StateOfNext(next)
    BY DEF StateOfNext
  <2>3. PICK stopped : stopped = SetState(Begun, curr_Proc, "STOPPED")
    OBVIOUS
  <2>4. /\ ~Alone /\ quanta' = q - 1
        /\ log' = PrintLine(PrintLine(BegunLog, curr_Proc, "STOPPED"), next, state)
        /\ Run(next, SetState(stopped, next, state), circular_Queue_RR)
    BY <1>8, <2>1, <2>2, <2>3 DEF Switch
  <2>5. next \in Holders /\ next \in Procs
    BY <1>1, <2>1, SuccessorInQueue DEF Holders
  <2>6. /\ "STOPPED" \in States /\ state \in States /\ state # "FINISHED"
    BY DEF States
  <2>7. SameWork(stopped) /\ KeptTimes(stopped, {}, follow)
    BY <1>2, <1>4, <2>3, <2>6, SetStateIsSameWork, SetStateKeepsTimes DEF SameWork
  <2>8. /\ SameWork(SetState(stopped, next, state))
        /\ KeptTimes(SetState(stopped, next, state), {}, follow)
    BY <2>5, <2>6, <2>7, SetStateIsSameWork, SetStateKeepsTimes DEF SameWork
  <2>9. log' \in [Procs -> Seq(States)]
    <3>1. PICK lines \in [Procs -> Seq(States)] : lines = PrintLine(BegunLog, curr_Proc, "STOPPED")
      BY <1>2, <1>4, <2>6, PrintTypes
    <3>2. PrintLine(lines, next, state) \in [Procs -> Seq(States)]
      BY <2>5, <2>6, PrintTypes
    <3> QED BY <2>4, <3>1, <3>2
  <2> QED BY <1>1, <1>3, <1>5, <2>4, <2>5, <2>8, <2>9
<1> QED BY <1>6, <1>7, <1>8 DEF GoesOn

LEMMA GoesOnIInv ==
  ASSUME IInv, GoesOn
  PROVE  IInv'
BY GoesOnRuns, RunIInv

-----------------------------------------------------------------------------
\* The current process is finished at the beginning of the turn: with another
\* process behind it, or as the last one.
LEMMA EndOfProcessTurn ==
  ASSUME IInv, EndOfProcess
  PROVE  /\ phase = "receive" /\ ~Empty /\ curr_Proc \in Holders /\ curr_Proc \in Procs
         /\ finished_process_count' = finished_process_count + 1
         /\ mem' = FreeMemoryOf(proc[curr_Proc])
         /\ total_waiting_time' = total_waiting_time + proc[curr_Proc].Waiting_time
         /\ quanta' \in 0 .. q - 1 /\ ups' \in [Procs -> Nat]
         /\ PrintLine(log, curr_Proc, "FINISHED") \in [Procs -> Seq(States)]
         /\ Ended(curr_Proc, Finish(proc, curr_Proc, follow))
         /\ KeptTimes(Finish(proc, curr_Proc, follow), {curr_Proc}, follow)
<1>1. /\ phase = "receive" /\ ~Empty /\ ups' = Up(ups, curr_Proc) /\ quanta' = q - 1
      /\ finished_process_count' = finished_process_count + 1
      /\ mem' = FreeMemoryOf(proc[curr_Proc])
      /\ total_waiting_time' = total_waiting_time + proc[curr_Proc].Waiting_time
  BY DEF EndOfProcess, Begin, Turn
<1>2. curr_Proc \in Holders /\ curr_Proc \in Procs
  BY <1>1, SuccessorInQueue DEF Holders
<1>3. /\ ups \in [Procs -> Nat] /\ log \in [Procs -> Seq(States)] /\ "FINISHED" \in States
      /\ follow \in Int
  BY DEF IInv, SharedInv, SharedTypeOK, States
<1>4. Up(ups, curr_Proc) \in [Procs -> Nat]
  BY <1>2, <1>3, UpTypes
<1>5. PrintLine(log, curr_Proc, "FINISHED") \in [Procs -> Seq(States)]
  BY <1>2, <1>3, PrintTypes
<1>6. Ended(curr_Proc, Finish(proc, curr_Proc, follow))
  BY <1>2, <1>3, NothingSet, FinishEnds DEF IInv
<1>7. q - 1 \in 0 .. q - 1
  BY QuantumAssumption
<1>8. KeptTimes(Finish(proc, curr_Proc, follow), {curr_Proc}, follow)
  BY <1>2, <1>3, NothingSet, NothingKept, FinishSetsTime DEF IInv, SameWork
<1> QED BY <1>1, <1>2, <1>4, <1>5, <1>6, <1>7, <1>8

\* What the turn that finishes f and runs r changes in the records.
LEMMA FinishAndSwitchRuns ==
  ASSUME IInv, FinishAndSwitch
  PROVE  \E r \in Holders \ {curr_Proc}, procs \in [Procs -> ProcessRecords] :
           /\ Ended(curr_Proc, procs) /\ KeptTimes(procs, {curr_Proc}, follow)
           /\ Run(r, procs, RemoveAt(circular_Queue_RR, Position(curr_Proc)))
           /\ log' \in [Procs -> Seq(States)]
<1>1. PICK next : next = Successor(curr_Proc)
  OBVIOUS
<1>2. PICK state \in {"STARTED", "RESUMED"} : state = StateOfNext(next)
  BY DEF StateOfNext
<1>3. PICK finished : finished = Finish(proc, curr_Proc, follow)
  OBVIOUS
<1>4. PICK lines : lines = PrintLine(log, curr_Proc, "FINISHED")
  OBVIOUS
<1>5. /\ EndOfProcess /\ ~Alone
      /\ log' = PrintLine(lines, next, state)
      /\ Run(next, SetState(finished, next, state),
             RemoveAt(circular_Queue_RR, Position(curr_Proc)))
  BY <1>1, <1>2, <1>3, <1>4 DEF FinishAndSwitch
<1>6. /\ ~Empty /\ curr_Proc \in Procs
      /\ lines \in [Procs -> Seq(States)] /\ Ended(curr_Proc, finished)
      /\ KeptTimes(finished, {curr_Proc}, follow)
  BY <1>3, <1>4, <1>5, EndOfProcessTurn
<1>7. next \in Holders /\ next # curr_Proc /\ next \in Procs
  BY <1>1, <1>5, <1>6, SuccessorInQueue DEF Holders
<1>8. state \in States /\ state # "FINISHED"
  BY DEF States
<1>9. Ended(curr_Proc, SetState(finished, next, state))
  BY <1>6, <1>7, <1>8, SetStateIsEnded
<1>10. log' \in [Procs -> Seq(States)]
  BY <1>5, <1>6, <1>7, <1>8, PrintTypes
<1>11. SetState(finished, next, state) \in [Procs -> ProcessRecords]
  BY <1>9 DEF Ended
<1>12. KeptTimes(SetState(finished, next, state), {curr_Proc}, follow)
  BY <1>6, <1>7, <1>8, SetStateKeepsTimes DEF Ended
<1> QED BY <1>5, <1>7, <1>9, <1>10, <1>11, <1>12

\* Everything that this turn changes: f leaves, r runs.
LEMMA FinishAndSwitchTurn ==
  ASSUME IInv, FinishAndSwitch
  PROVE  \E f, r \in Holders :
           /\ f = curr_Proc /\ r # f /\ proc[f].Remaining_time = 0
           /\ IInv' /\ Holders' = Holders \ {f}
           /\ \A p \in Procs :
                /\ proc'[p].memindex = proc[p].memindex
                /\ proc'[p].Remaining_time = proc[p].Remaining_time - IF p = r THEN 1 ELSE 0
<1>1. PICK f : f = curr_Proc
  OBVIOUS
<1>2. PICK i : i = Position(curr_Proc)
  OBVIOUS
<1>3. PICK r \in Holders \ {f}, procs \in [Procs -> ProcessRecords] :
        /\ Ended(f, procs)
        /\ Run(r, procs, RemoveAt(circular_Queue_RR, i))
        /\ log' \in [Procs -> Seq(States)]
  BY <1>1, <1>2, FinishAndSwitchRuns
<1>4. PICK queue : queue = RemoveAt(circular_Queue_RR, i)
  OBVIOUS
<1>5. /\ circular_Queue_RR' = queue /\ curr_Proc' = r
      /\ proc' = Charge(procs, r, Range(queue))
      /\ waited' = [p \in Procs |-> IF p \in Range(queue) \ {r} THEN waited[p] + 1 ELSE 0]
      /\ cpu_waiting_time' = cpu_waiting_time
  BY <1>3, <1>4 DEF Run
<1>6. /\ EndOfProcess /\ EndOfPass /\ proc[f].Remaining_time = 0
  BY <1>1 DEF FinishAndSwitch, EndOfProcess
<1>7. /\ ~Empty /\ f \in Holders /\ f \in Procs
      /\ finished_process_count' = finished_process_count + 1
      /\ mem' = FreeMemoryOf(proc[f])
      /\ total_waiting_time' = total_waiting_time + proc[f].Waiting_time
      /\ quanta' \in 0 .. q - 1 /\ ups' \in [Procs -> Nat]
  BY <1>1, <1>6, EndOfProcessTurn
<1>8. r \in Procs /\ r \in Holders /\ r # f
  BY <1>3 DEF Holders
<1>9. /\ proc' \in [Procs -> ProcessRecords]
      /\ \A p \in Procs :
           /\ proc'[p].memindex = procs[p].memindex
           /\ proc'[p].no_of_blocks = procs[p].no_of_blocks
           /\ proc'[p].State = procs[p].State
           /\ proc'[p].Remaining_time = procs[p].Remaining_time - IF p = r THEN 1 ELSE 0
  <2>1. PICK charged : charged = Charge(procs, r, Range(queue))
    OBVIOUS
  <2>2. /\ charged \in [Procs -> ProcessRecords]
        /\ \A p \in Procs :
             /\ charged[p].memindex = procs[p].memindex
             /\ charged[p].no_of_blocks = procs[p].no_of_blocks
             /\ charged[p].State = procs[p].State
             /\ charged[p].Remaining_time = procs[p].Remaining_time - IF p = r THEN 1 ELSE 0
    <3>1. /\ Charge(procs, r, Range(queue)) \in [Procs -> ProcessRecords]
          /\ \A x \in Procs :
               /\ Charge(procs, r, Range(queue))[x].memindex = procs[x].memindex
               /\ Charge(procs, r, Range(queue))[x].no_of_blocks = procs[x].no_of_blocks
               /\ Charge(procs, r, Range(queue))[x].State = procs[x].State
               /\ Charge(procs, r, Range(queue))[x].Remaining_time =
                    procs[x].Remaining_time - IF x = r THEN 1 ELSE 0
      BY <1>3, <1>8, ChargeRecords
    <3> QED BY <2>1, <3>1
  <2> QED BY <1>5, <2>1, <2>2
<1>10. \A p \in Procs :
         /\ proc'[p].memindex = proc[p].memindex
         /\ proc'[p].no_of_blocks = proc[p].no_of_blocks
         /\ proc'[p].State = "FINISHED" <=> p = f \/ proc[p].State = "FINISHED"
         /\ proc'[p].Remaining_time = proc[p].Remaining_time - IF p = r THEN 1 ELSE 0
  BY <1>3, <1>9 DEF Ended
<1>11. cpu_waiting_time' \in Nat
  BY <1>5 DEF IInv, SharedInv, SharedTypeOK
<1>12. SharedInv' /\ Holders' = Holders \ {f}
  <2>1. \A p \in Procs :
          /\ proc'[p].memindex = proc[p].memindex
          /\ proc'[p].no_of_blocks = proc[p].no_of_blocks
          /\ proc'[p].State = "FINISHED" <=> p = f \/ proc[p].State = "FINISHED"
    BY <1>10
  <2> QED BY <1>3, <1>6, <1>7, <1>9, <1>11, <2>1, EndedTurn DEF IInv
<1>13. /\ queue \in Seq(Procs) /\ IsInjective(queue)
       /\ Range(queue) = Range(circular_Queue_RR) \ {f}
  <2>1. /\ circular_Queue_RR \in Seq(Procs) /\ IsInjective(circular_Queue_RR)
        /\ i \in 1 .. Len(circular_Queue_RR) /\ f = circular_Queue_RR[i]
    BY <1>1, <1>2, <1>7, SuccessorInQueue DEF IInv, TypeOK, NoneLost
  <2> QED BY <1>4, <2>1, RemovedFromQueue
<1>14. r \in Range(queue) /\ queue # <<>>
  <2>1. r \in Range(queue)
    BY <1>8, <1>13 DEF IInv, NoneLost
  <2> QED BY <2>1, EmptyQueue
<1>15. NoneLost'
  BY <1>5, <1>12, <1>13, <1>14 DEF IInv, NoneLost, Empty
<1>16. \A p \in Procs : proc[p].Remaining_time \in Int /\ proc[p].Remaining_time >= 0
  BY DEF IInv, TypeOK, SharedInv, SharedTypeOK
<1>17. \A p \in Holders \ {f} : proc[p].Remaining_time > 0
  BY <1>1 DEF IInv, OthersHaveWork
<1>18. OthersHaveWork' /\ \A p \in Procs : proc'[p].Remaining_time >= 0
  <2>1. ASSUME NEW p \in Procs PROVE proc'[p].Remaining_time >= 0
    <3>1. CASE p = r
      BY <1>3, <1>8, <1>10, <1>16, <1>17, <3>1
    <3>2. CASE p # r
      BY <1>10, <1>16, <3>2
    <3> QED BY <3>1, <3>2
  <2>2. ASSUME NEW p \in Holders \ {f}, p # r PROVE proc'[p].Remaining_time > 0
    BY <1>10, <1>16, <1>17, <2>2 DEF Holders
  <2> QED BY <1>5, <1>12, <2>1, <2>2 DEF OthersHaveWork
<1>19. waited' \in [Procs -> Nat]
  <2>1. \A p \in Procs : waited[p] + 1 \in Nat
    BY DEF IInv, TypeOK
  <2> QED BY <1>5, <2>1
<1>20. TypeOK'
  BY <1>5, <1>7, <1>8, <1>12, <1>13, <1>18, <1>19 DEF TypeOK, SharedInv
<1>21. IInv'
  BY <1>12, <1>15, <1>18, <1>20 DEF IInv
<1> QED BY <1>1, <1>6, <1>7, <1>8, <1>10, <1>12, <1>21

\* The last process leaves, and nothing runs.
LEMMA FinishLastTurn ==
  ASSUME IInv, FinishLast
  PROVE  /\ phase = "receive" /\ phase' # "receive"
         /\ IInv' /\ Holders' = {}
         /\ \A p \in Holders : proc[p].Remaining_time = 0
         /\ \A p \in Procs : /\ proc'[p].memindex = proc[p].memindex
                             /\ proc'[p].Remaining_time = proc[p].Remaining_time
<1>1. PICK f : f = curr_Proc
  OBVIOUS
<1>2. /\ EndOfProcess /\ EndOfPass /\ Alone /\ proc[f].Remaining_time = 0
      /\ log' = PrintLine(log, f, "FINISHED") /\ proc' = Finish(proc, f, follow)
      /\ circular_Queue_RR' = <<>> /\ curr_Proc' = None
      /\ cpu_waiting_time' = cpu_waiting_time + 1 /\ waited' = waited
  BY <1>1 DEF FinishLast, EndOfProcess
<1>3. /\ phase = "receive" /\ f \in Holders /\ f \in Procs
      /\ finished_process_count' = finished_process_count + 1
      /\ mem' = FreeMemoryOf(proc[f])
      /\ total_waiting_time' = total_waiting_time + proc[f].Waiting_time
      /\ quanta' \in 0 .. q - 1 /\ ups' \in [Procs -> Nat]
      /\ log' \in [Procs -> Seq(States)]
      /\ Ended(f, Finish(proc, f, follow))
  BY <1>1, <1>2, EndOfProcessTurn
<1>4. Holders = {f}
  <2>1. /\ circular_Queue_RR \in Seq(Procs) /\ Holders = Range(circular_Queue_RR)
    BY DEF IInv, TypeOK, NoneLost
  <2>2. \A p \in Holders : p = circular_Queue_RR[1]
    BY <1>2, <2>1, RangeOfQueue DEF Alone
  <2> QED BY <1>3, <2>2
<1>5. /\ proc' \in [Procs -> ProcessRecords]
      /\ \A p \in Procs :
           /\ proc'[p].memindex = proc[p].memindex
           /\ proc'[p].no_of_blocks = proc[p].no_of_blocks
           /\ proc'[p].Remaining_time = proc[p].Remaining_time
           /\ proc'[p].State = "FINISHED" <=> p = f \/ proc[p].State = "FINISHED"
  <2>1. PICK procs : procs = Finish(proc, f, follow)
    OBVIOUS
  <2>2. Ended(f, procs)
    BY <1>3, <2>1
  <2> QED BY <1>2, <2>1, <2>2 DEF Ended
<1>6. cpu_waiting_time' \in Nat
  BY <1>2 DEF IInv, SharedInv, SharedTypeOK
<1>7. SharedInv' /\ Holders' = Holders \ {f}
  <2>1. \A p \in Procs :
          /\ proc'[p].memindex = proc[p].memindex
          /\ proc'[p].no_of_blocks = proc[p].no_of_blocks
          /\ proc'[p].State = "FINISHED" <=> p = f \/ proc[p].State = "FINISHED"
    BY <1>5
  <2> QED BY <1>2, <1>3, <1>5, <1>6, <2>1, EndedTurn DEF IInv
<1>8. Holders' = {}
  BY <1>4, <1>7
<1>9. NoneLost' /\ OthersHaveWork'
  BY <1>2, <1>8, EmptyQueue DEF NoneLost, OthersHaveWork, Empty
<1>10. TypeOK'
  <2>1. \A p \in Procs : proc'[p].Remaining_time >= 0
    BY <1>5 DEF IInv, TypeOK
  <2>2. waited' \in [Procs -> Nat]
    BY <1>2 DEF IInv, TypeOK
  <2> QED BY <1>2, <1>3, <1>7, <2>1, <2>2, EmptyQueue DEF TypeOK, SharedInv
<1>11. phase' # "receive"
  BY <1>2 DEF EndOfPass
<1> QED BY <1>2, <1>3, <1>4, <1>5, <1>7, <1>8, <1>9, <1>10, <1>11 DEF IInv

LEMMA NextIInv == IInv /\ [Next]_vars => IInv'
<1> SUFFICES ASSUME IInv, [Next]_vars PROVE IInv'
  OBVIOUS
<1>1. CASE Tick /\ UNCHANGED rrVars
  BY <1>1, TickIInv
<1>2. CASE ReceiveProcess
  BY <1>2, ReceiveIInv
<1>3. CASE RefuseProcess
  BY <1>3, RefuseIInv
<1>4. CASE GoesOn
  BY <1>4, GoesOnIInv
<1>5. CASE FinishAndSwitch
  BY <1>5, FinishAndSwitchTurn
<1>6. CASE FinishLast
  BY <1>6, FinishLastTurn
<1>7. CASE Idle
  BY <1>7, IdleIInv
<1>8. CASE UNCHANGED vars
  BY <1>8, StutterIInv
<1> QED BY <1>1, <1>2, <1>3, <1>4, <1>5, <1>6, <1>7, <1>8 DEF Next, Algorithm, GoesOn

LEMMA InvariantHolds == Spec => []IInv
BY InitIInv, NextIInv, PTL DEF Spec

-----------------------------------------------------------------------------
\* The queue, the records and the counters keep their types and ranges: above
\* all the quantum is never counted below 0, and no process runs below zero.
THEOREM TypeCorrect == Spec => []TypeOK
<1>1. IInv => TypeOK
  BY DEF IInv
<1> QED BY <1>1, InvariantHolds, PTL

\* The removals and insertions of Round_Robin lose no process and no memory:
\* who holds blocks is in the circle once, the blocks taken are exactly
\* theirs, curr_Proc points into the circle and never to a node that was
\* freed, and the scheduler does not stop before all are through.
THEOREM NothingIsLost == Spec => []NothingLost
<1>1. IInv => NothingLost
  BY DEF IInv, SharedInv, NothingLost
<1> QED BY <1>1, InvariantHolds, PTL

-----------------------------------------------------------------------------
\* Nobody waits too long: the invariant behind BoundedWait counts the turns
\* that are still to come before that of a process.

\* How many nodes from the i-th on the j-th is, in a circle of n.
Ahead(i, j, n) == IF j >= i THEN j - i ELSE j - i + n

\* Of all processes received, those that are still before a process in the
\* circle have not had their quantum since it last ran; nor has the current
\* process had what it has left of its own.
TurnsToCome ==
  \A i, j \in 1 .. Len(circular_Queue_RR) :
    circular_Queue_RR[i] = curr_Proc =>
      waited[circular_Queue_RR[j]] + quanta
        <= (received - Ahead(i, j, Len(circular_Queue_RR))) * q

\* Only a process that is in the circle waits, unless it is the current one.
OthersWait ==
  \A p \in Procs : p \notin Range(circular_Queue_RR) \/ p = curr_Proc => waited[p] = 0

WaitInv ==
  /\ Len(circular_Queue_RR) <= received
  /\ OthersWait
  /\ TurnsToCome

LEMMA OneTurnMore ==
  ASSUME NEW a \in Int, NEW b \in Int, a <= b
  PROVE  /\ (a + 1) * q = a * q + q
         /\ a * q \in Int /\ b * q \in Int /\ a * q <= b * q
BY QuantumAssumption

LEMMA AheadInCircle ==
  ASSUME NEW n \in Nat, NEW i \in 1 .. n, NEW j \in 1 .. n
  PROVE  /\ Ahead(i, j, n) \in 0 .. n - 1
         /\ Ahead(i, j, n) = 0 <=> i = j
BY DEF Ahead

\* A node that is inserted behind the last one.
LEMMA AheadInLonger ==
  ASSUME NEW n \in Nat, NEW i \in 1 .. n, NEW j \in 1 .. n
  PROVE  Ahead(i, j, n + 1) <= Ahead(i, j, n) + 1
BY DEF Ahead

\* The node behind the current one comes first; to the others it is one less.
LEMMA AheadOfSuccessor ==
  ASSUME NEW n \in Nat, NEW i \in 1 .. n, NEW j \in 1 .. n, j # i,
         NEW k, k = IF i = n THEN 1 ELSE i + 1
  PROVE  k \in 1 .. n /\ Ahead(i, j, n) = Ahead(k, j, n) + 1
BY DEF Ahead

\* The numbers of the circle.
LEMMA CircleTypes ==
  ASSUME IInv
  PROVE  /\ circular_Queue_RR \in Seq(Procs) /\ Len(circular_Queue_RR) \in Nat
         /\ Holders = Range(circular_Queue_RR) /\ IsInjective(circular_Queue_RR)
         /\ \A i, j \in 1 .. Len(circular_Queue_RR) :
              circular_Queue_RR[i] = circular_Queue_RR[j] => i = j
         /\ received \in Nat /\ received <= Count_OF_Processes
         /\ Count_OF_Processes \in Nat /\ q \in Nat \ {0}
         /\ quanta \in Nat /\ quanta <= q - 1
         /\ \A p \in Procs : waited[p] \in Nat
<1>1. /\ circular_Queue_RR \in Seq(Procs) /\ Len(circular_Queue_RR) \in Nat
      /\ Holders = Range(circular_Queue_RR) /\ IsInjective(circular_Queue_RR)
  BY LenProperties DEF IInv, TypeOK, NoneLost
<1>2. DOMAIN circular_Queue_RR = 1 .. Len(circular_Queue_RR)
  BY <1>1, LenProperties
<1>3. received \in 0 .. Count_OF_Processes /\ Count_OF_Processes \in Nat
  BY CountAssumption DEF IInv, SharedInv, SharedTypeOK
<1>4. quanta \in 0 .. q - 1 /\ waited \in [Procs -> Nat]
  BY DEF IInv, TypeOK
<1> QED BY <1>1, <1>2, <1>3, <1>4, QuantumAssumption DEF IsInjective

\* The bound of BoundedWait: another process comes at least one turn ahead.
LEMMA WaitIsBounded == IInv /\ WaitInv => BoundedWait
<1> SUFFICES ASSUME IInv, WaitInv, NEW p \in Holders
             PROVE  waited[p] <= (Count_OF_Processes - 1) * q
  BY DEF BoundedWait
<1> DEFINE n == Len(circular_Queue_RR)
<1>1. /\ circular_Queue_RR \in Seq(Procs) /\ n \in Nat /\ p \in Range(circular_Queue_RR)
      /\ received \in Nat /\ received <= Count_OF_Processes
      /\ Count_OF_Processes \in Nat /\ q \in Nat \ {0}
      /\ quanta \in Nat /\ p \in Procs /\ waited[p] \in Nat
  BY CircleTypes DEF Holders
<1>2. PICK j \in 1 .. n : circular_Queue_RR[j] = p
  BY <1>1, RangeOfQueue
<1>3. Count_OF_Processes >= 1
  BY CountAssumption
<1>4. 0 <= (Count_OF_Processes - 1) * q
  <2>1. 0 * q <= (Count_OF_Processes - 1) * q
    BY <1>1, <1>3, OneTurnMore
  <2> QED BY <1>1, <2>1
<1>5. CASE p = curr_Proc
  BY <1>1, <1>4, <1>5 DEF WaitInv, OthersWait
<1>6. CASE p # curr_Proc
  <2>1. curr_Proc \in Range(circular_Queue_RR)
    BY <1>1, RangeOfQueue DEF IInv, NoneLost, Empty
  <2>2. PICK i \in 1 .. n : circular_Queue_RR[i] = curr_Proc
    BY <1>1, <2>1, RangeOfQueue
  <2>3. PICK d : d = Ahead(i, j, n)
    OBVIOUS
  <2>4. d \in 1 .. n - 1
    <3>1. /\ Ahead(i, j, n) \in 0 .. n - 1
          /\ Ahead(i, j, n) = 0 <=> i = j
      BY <1>1, AheadInCircle
    <3>2. i # j
      BY <1>2, <1>6, <2>2
    <3> QED BY <1>1, <2>3, <3>1, <3>2
  <2>5. waited[p] + quanta <= (received - d) * q
    BY <1>2, <2>2, <2>3 DEF WaitInv, TurnsToCome
  <2>6. received - d \in Int /\ received - d <= Count_OF_Processes - 1
    BY <1>1, <2>4
  <2>7. /\ (received - d) * q \in Int /\ (Count_OF_Processes - 1) * q \in Int
        /\ (received - d) * q <= (Count_OF_Processes - 1) * q
    BY <1>1, <2>6, OneTurnMore
  <2> QED BY <1>1, <2>5, <2>7
<1> QED BY <1>5, <1>6

\* A turn in which a quantum begins: the circle becomes queue, and instead of
\* its i-th process the k-th of queue is now the current one.
NewQuantum(queue, i, k) ==
  /\ queue \in Seq(Procs) /\ IsInjective(queue)
  /\ Len(queue) <= Len(circular_Queue_RR)
  /\ i \in 1 .. Len(circular_Queue_RR) /\ circular_Queue_RR[i] = curr_Proc
  /\ k \in 1 .. Len(queue)
  /\ \A j \in 1 .. Len(queue) : queue[j] # curr_Proc /\ j # k =>
       \E l \in 1 .. Len(circular_Queue_RR) :
         /\ circular_Queue_RR[l] = queue[j]
         /\ Ahead(i, l, Len(circular_Queue_RR)) = Ahead(k, j, Len(queue)) + 1
  /\ circular_Queue_RR' = queue
  /\ curr_Proc' = queue[k]
  /\ quanta' = q - 1
  /\ received' = received
  /\ waited' = [p \in Procs |-> IF p \in Range(queue) \ {queue[k]} THEN waited[p] + 1 ELSE 0]

LEMMA NewQuantumWaits ==
  ASSUME IInv, WaitInv, NEW queue, NEW i, NEW k, NewQuantum(queue, i, k)
  PROVE  WaitInv'
<1> PICK r : r = queue[k]
  OBVIOUS
<1> USE DEF NewQuantum
<1> DEFINE n == Len(circular_Queue_RR)
           m == Len(queue)
<1>1. /\ n \in Nat /\ m \in Nat /\ m <= n /\ n <= received
      /\ received \in Nat /\ q \in Nat \ {0} /\ quanta \in Nat
      /\ \A p \in Procs : waited[p] \in Nat
  BY CircleTypes, LenProperties DEF WaitInv
<1>2. \A x, y \in 1 .. m : queue[x] = queue[y] => x = y
  <2>1. DOMAIN queue = 1 .. m
    BY LenProperties
  <2> QED BY <2>1 DEF IsInjective
<1>3. Len(circular_Queue_RR)' <= received' /\ OthersWait'
  BY <1>1 DEF OthersWait
<1>4. ASSUME NEW j \in 1 .. m
      PROVE  waited'[queue[j]] + (q - 1) <= (received - Ahead(k, j, m)) * q
  <2>1. PICK d : d = Ahead(k, j, m)
    OBVIOUS
  <2>2. d \in 0 .. m - 1 /\ (d = 0 <=> k = j)
    <3>1. /\ Ahead(k, j, m) \in 0 .. m - 1
          /\ Ahead(k, j, m) = 0 <=> k = j
      BY <1>1, AheadInCircle
    <3> QED BY <2>1, <3>1
  <2>3. queue[j] \in Procs /\ queue[j] \in Range(queue)
    BY RangeOfQueue
  <2>4. received - d >= 1 /\ received - d \in Int
    BY <1>1, <2>2
  <2>5. q <= (received - d) * q /\ (received - d) * q \in Int
    <3>1. PICK e \in Int : e = received - d /\ 1 <= e
      BY <2>4
    <3>2. 1 * q <= e * q /\ e * q \in Int
      BY <3>1, OneTurnMore
    <3> QED BY <1>1, <3>1, <3>2
  <2>6. CASE queue[j] = r
    <3>1. waited'[queue[j]] = 0
      BY <2>3, <2>6
    <3> QED BY <1>1, <2>1, <2>5, <3>1
  <2>7. CASE queue[j] # r /\ queue[j] = curr_Proc
    <3>1. waited'[queue[j]] = waited[queue[j]] + 1
      BY <2>3, <2>7
    <3>2. waited[queue[j]] = 0
      BY <2>3, <2>7 DEF WaitInv, OthersWait
    <3> QED BY <1>1, <2>1, <2>5, <3>1, <3>2
  <2>8. CASE queue[j] # r /\ queue[j] # curr_Proc
    <3>1. waited'[queue[j]] = waited[queue[j]] + 1 /\ waited[queue[j]] \in Nat
      BY <1>1, <2>3, <2>8
    <3>2. PICK l \in 1 .. n :
            circular_Queue_RR[l] = queue[j] /\ Ahead(i, l, n) = d + 1
      <4>1. j # k
        BY <2>8
      <4> QED BY <2>1, <2>8, <4>1
    <3>3. waited[queue[j]] + quanta <= (received - (d + 1)) * q
      BY <3>2 DEF WaitInv, TurnsToCome
    <3>4. PICK a \in Int : a = received - (d + 1)
      BY <1>1, <2>2
    <3>5. (a + 1) * q = a * q + q /\ a * q \in Int
      BY <3>4, OneTurnMore
    <3>6. a + 1 = received - d
      BY <1>1, <2>2, <3>4
    <3>7. (received - d) * q = a * q + q
      BY <3>5, <3>6
    <3>8. PICK turns \in Int : turns = a * q
      BY <3>5
    <3>9. waited[queue[j]] + quanta <= turns
      BY <3>3, <3>4, <3>8
    <3>10. waited'[queue[j]] + (q - 1) <= turns + q
      BY <1>1, <3>1, <3>9
    <3> QED BY <2>1, <3>7, <3>8, <3>10
  <2> QED BY <2>6, <2>7, <2>8
<1>5. TurnsToCome'
  <2>1. \A x, y \in 1 .. m :
          queue[x] = r => waited'[queue[y]] + (q - 1) <= (received - Ahead(x, y, m)) * q
    BY <1>2, <1>4
  <2> QED BY <2>1 DEF TurnsToCome, Ahead
<1> QED BY <1>3, <1>5 DEF WaitInv

\* Another tick of the same quantum.
LEMMA KeepRunningWaits ==
  ASSUME IInv, WaitInv, KeepRunning
  PROVE  WaitInv'
<1> DEFINE queue == circular_Queue_RR
           n == Len(circular_Queue_RR)
<1>1. /\ queue' = queue /\ curr_Proc' = curr_Proc
      /\ quanta' = quanta - 1 /\ received' = received
      /\ waited' = [p \in Procs |-> IF p \in Range(queue) \ {curr_Proc} THEN waited[p] + 1 ELSE 0]
  BY DEF KeepRunning, Run, EndOfPass
<1>2. /\ queue \in Seq(Procs) /\ n \in Nat /\ received \in Nat /\ quanta \in Nat
      /\ \A p \in Procs : waited[p] \in Nat
  BY CircleTypes
<1>3. OthersWait'
  BY <1>1 DEF OthersWait
<1>4. ASSUME NEW i \in 1 .. n, NEW j \in 1 .. n, queue[i] = curr_Proc
      PROVE  waited'[queue[j]] + (quanta - 1) <= (received - Ahead(i, j, n)) * q
  <2>1. waited[queue[j]] + quanta <= (received - Ahead(i, j, n)) * q
    BY <1>4 DEF WaitInv, TurnsToCome
  <2>2. queue[j] \in Procs /\ queue[j] \in Range(queue)
    BY <1>2, RangeOfQueue
  <2>3. waited'[queue[j]] <= waited[queue[j]] + 1 /\ waited'[queue[j]] \in Nat
    BY <1>1, <1>2, <2>2
  <2>4. Ahead(i, j, n) \in Int
    BY <1>2, AheadInCircle
  <2>5. PICK turns \in Int : turns = (received - Ahead(i, j, n)) * q
    <3>1. PICK e \in Int : e = received - Ahead(i, j, n)
      BY <1>2, <2>4
    <3>2. e * q \in Int
      BY <3>1, OneTurnMore
    <3> QED BY <3>1, <3>2
  <2> QED BY <1>2, <2>1, <2>2, <2>3, <2>5
<1>5. TurnsToCome'
  BY <1>1, <1>4 DEF TurnsToCome, Ahead
<1> QED BY <1>1, <1>3, <1>5 DEF WaitInv

\* The successor of the current process, when there is another one.
LEMMA SuccessorBehind ==
  ASSUME IInv, ~Empty,
         NEW i, i = Position(curr_Proc),
         NEW k, k = IF i = Len(circular_Queue_RR) THEN 1 ELSE i + 1
  PROVE  /\ i \in 1 .. Len(circular_Queue_RR) /\ circular_Queue_RR[i] = curr_Proc
         /\ k \in 1 .. Len(circular_Queue_RR) /\ circular_Queue_RR[k] = Successor(curr_Proc)
<1>1. i \in 1 .. Len(circular_Queue_RR) /\ circular_Queue_RR[i] = curr_Proc
  BY SuccessorInQueue
<1>2. Len(circular_Queue_RR) \in Nat
  BY CircleTypes
<1>3. k \in 1 .. Len(circular_Queue_RR)
  BY <1>1, <1>2
<1> QED BY <1>1, <1>3 DEF Successor

\* A lone process begins another quantum.
LEMMA KeepAloneWaits ==
  ASSUME IInv, WaitInv, KeepAlone
  PROVE  WaitInv'
<1> DEFINE queue == circular_Queue_RR
           n == Len(circular_Queue_RR)
<1>1. /\ queue' = queue /\ curr_Proc' = curr_Proc
      /\ quanta' = q - 1 /\ received' = received /\ ~Empty /\ n = 1
      /\ waited' = [p \in Procs |-> IF p \in Range(queue) \ {curr_Proc} THEN waited[p] + 1 ELSE 0]
  BY DEF KeepAlone, Begin, Alone, Run, EndOfPass
<1>2. queue \in Seq(Procs) /\ IsInjective(queue) /\ n \in Nat
  BY CircleTypes
<1>3. PICK i \in 1 .. n : queue[i] = curr_Proc
  BY <1>1, SuccessorInQueue
<1>4. \A j \in 1 .. n : queue[j] = curr_Proc
  BY <1>1, <1>3
<1>5. NewQuantum(queue, i, i)
  BY <1>1, <1>2, <1>3, <1>4 DEF NewQuantum
<1> QED BY <1>5, NewQuantumWaits

LEMMA SwitchWaits ==
  ASSUME IInv, WaitInv, Switch
  PROVE  WaitInv'
<1> DEFINE queue == circular_Queue_RR
           n == Len(circular_Queue_RR)
<1>1. PICK r : r = Successor(curr_Proc)
  OBVIOUS
<1>2. /\ queue' = queue /\ curr_Proc' = r
      /\ quanta' = q - 1 /\ received' = received /\ ~Empty
      /\ waited' = [p \in Procs |-> IF p \in Range(queue) \ {r} THEN waited[p] + 1 ELSE 0]
  BY <1>1 DEF Switch, Begin, Run, EndOfPass
<1>3. queue \in Seq(Procs) /\ IsInjective(queue) /\ n \in Nat
  BY CircleTypes
<1>4. PICK i : i = Position(curr_Proc)
  OBVIOUS
<1>5. PICK k : k = IF i = n THEN 1 ELSE i + 1
  OBVIOUS
<1>6. i \in 1 .. n /\ queue[i] = curr_Proc /\ k \in 1 .. n /\ queue[k] = r
  BY <1>1, <1>2, <1>4, <1>5, SuccessorBehind
<1>7. ASSUME NEW j \in 1 .. n, queue[j] # curr_Proc
      PROVE  \E l \in 1 .. n : queue[l] = queue[j] /\ Ahead(i, l, n) = Ahead(k, j, n) + 1
  <2>1. Ahead(i, j, n) = Ahead(k, j, n) + 1
    BY <1>3, <1>5, <1>6, <1>7, AheadOfSuccessor
  <2> QED BY <2>1
<1>8. NewQuantum(queue, i, k)
  BY <1>2, <1>3, <1>6, <1>7 DEF NewQuantum
<1> QED BY <1>8, NewQuantumWaits

LEMMA FinishAndSwitchWaits ==
  ASSUME IInv, WaitInv, FinishAndSwitch
  PROVE  WaitInv'
<1> DEFINE old == circular_Queue_RR
           n == Len(circular_Queue_RR)
<1>1. PICK r : r = Successor(curr_Proc)
  OBVIOUS
<1>2. PICK i : i = Position(curr_Proc)
  OBVIOUS
<1>3. PICK queue : queue = RemoveAt(old, i)
  OBVIOUS
<1>4. /\ circular_Queue_RR' = queue /\ curr_Proc' = r
      /\ quanta' = q - 1 /\ received' = received /\ ~Empty /\ n # 1
      /\ waited' = [p \in Procs |-> IF p \in Range(queue) \ {r} THEN waited[p] + 1 ELSE 0]
  BY <1>1, <1>2, <1>3 DEF FinishAndSwitch, EndOfProcess, Begin, Alone, Run, EndOfPass
<1>5. old \in Seq(Procs) /\ IsInjective(old) /\ n \in Nat
  BY CircleTypes
<1>6. /\ i \in 1 .. n /\ old[i] = curr_Proc
      /\ old[IF i = n THEN 1 ELSE i + 1] = r
  BY <1>1, <1>2, <1>4, SuccessorBehind
<1> PICK m : m = n - 1
  OBVIOUS
<1>7. m \in Nat \ {0} /\ n = m + 1 /\ m = n - 1
  BY <1>4, <1>5, <1>6
<1>8. /\ queue \in Seq(Procs) /\ IsInjective(queue) /\ Len(queue) = m
      /\ \A j \in 1 .. m : queue[j] = old[IF j < i THEN j ELSE j + 1]
  BY <1>3, <1>5, <1>6, <1>7, ElementsOfRemoved, RemovedFromQueue
<1>9. PICK k : k = IF i = n THEN 1 ELSE i
  OBVIOUS
<1>10. k \in 1 .. m /\ queue[k] = r
  <2>1. CASE i = n
    <3>1. k = 1 /\ 1 \in 1 .. m /\ 1 < i
      BY <1>7, <1>9, <2>1
    <3> QED BY <1>6, <1>8, <2>1, <3>1
  <2>2. CASE i # n
    <3>1. k = i /\ i \in 1 .. m /\ ~(i < i)
      BY <1>6, <1>7, <1>9, <2>2
    <3> QED BY <1>6, <1>8, <2>2, <3>1
  <2> QED BY <2>1, <2>2
<1>11. ASSUME NEW j \in 1 .. m
       PROVE  \E l \in 1 .. n : old[l] = queue[j] /\ Ahead(i, l, n) = Ahead(k, j, m) + 1
  <2>1. PICK l : l = IF j < i THEN j ELSE j + 1
    OBVIOUS
  <2>2. l \in 1 .. n /\ old[l] = queue[j]
    <3>1. old[l] = queue[j]
      BY <1>8, <2>1
    <3>2. l \in 1 .. m + 1
      BY <1>6, <1>7, <2>1
    <3> QED BY <1>7, <3>1, <3>2
  <2>3. Ahead(i, l, n) = Ahead(k, j, m) + 1
    <3>1. PICK c \in Nat : c = n
      BY <1>5
    <3>2. c = m + 1 /\ i \in 1 .. c /\ m \in Nat /\ k = IF i = c THEN 1 ELSE i
      BY <1>6, <1>7, <1>9, <3>1
    <3>3. Ahead(i, l, c) = Ahead(k, j, m) + 1
      BY <2>1, <3>2 DEF Ahead
    <3> QED BY <3>1, <3>3
  <2> QED BY <2>2, <2>3
<1>12. Len(queue) <= n
  BY <1>7, <1>8
<1>13. NewQuantum(queue, i, k)
  BY <1>4, <1>6, <1>8, <1>10, <1>11, <1>12 DEF NewQuantum
<1> QED BY <1>13, NewQuantumWaits

\* The circle becomes empty.
LEMMA FinishLastWaits ==
  ASSUME IInv, WaitInv, FinishLast
  PROVE  WaitInv'
<1>1. /\ circular_Queue_RR' = <<>> /\ curr_Proc' = None /\ waited' = waited
      /\ received' = received /\ quanta' = q - 1
      /\ ~Empty /\ Len(circular_Queue_RR) = 1
  BY DEF FinishLast, EndOfProcess, Begin, Alone, EndOfPass
<1>2. received \in Nat /\ circular_Queue_RR \in Seq(Procs)
  BY CircleTypes
<1>3. PICK f : f = curr_Proc
  OBVIOUS
<1>4. circular_Queue_RR[1] = f
  <2>1. Position(curr_Proc) \in 1 .. 1 /\ circular_Queue_RR[Position(curr_Proc)] = f
    BY <1>1, <1>3, SuccessorInQueue
  <2> QED BY <2>1
<1>5. \A p \in Procs : waited[p] = 0
  <2>1. ASSUME NEW p \in Range(circular_Queue_RR) PROVE p = f
    BY <1>1, <1>2, <1>4, RangeOfQueue
  <2> QED BY <1>3, <2>1 DEF WaitInv, OthersWait
<1>6. Len(<<>>) = 0
  OBVIOUS
<1> QED BY <1>1, <1>2, <1>5, <1>6 DEF WaitInv, OthersWait, TurnsToCome

LEMMA ReceiveWaits ==
  ASSUME IInv, WaitInv, ReceiveProcess
  PROVE  WaitInv'
<1> DEFINE queue == circular_Queue_RR
           n == Len(circular_Queue_RR)
<1>1. PICK r : r = received + 1
  OBVIOUS
<1>2. PICK x \in Messages :
        /\ Accept(x) /\ proc' = [proc EXCEPT ![received + 1] = x]
        /\ queue' = Append(queue, r) /\ received' = r
        /\ curr_Proc' = IF Empty THEN r ELSE curr_Proc
        /\ quanta' = quanta /\ waited' = waited
  BY <1>1 DEF ReceiveProcess, Accept, Receive
<1>3. r \in Procs /\ r \notin Range(queue)
  <2>1. /\ r \in Procs /\ proc' \in [Procs -> ProcessRecords] /\ proc'[r] = x
        /\ \A p \in Procs \ {r} : proc'[p] = proc[p] /\ SameMemory(p)
    BY <1>1, <1>2, ReceivedRecords DEF IInv, Accept
  <2>2. r \notin Holders
    BY <1>1, <1>2, <2>1, AcceptInv DEF IInv
  <2> QED BY <2>1, <2>2, CircleTypes
<1>4. /\ queue \in Seq(Procs) /\ n \in Nat /\ received \in Nat
      /\ q \in Nat \ {0} /\ quanta \in Nat /\ quanta <= q - 1
      /\ \A p \in Procs : waited[p] \in Nat
      /\ \A a, b \in 1 .. n : queue[a] = queue[b] => a = b
  BY CircleTypes
<1>5. PICK s : s = Append(queue, r)
  OBVIOUS
<1>6. /\ s \in Seq(Procs) /\ Len(s) = n + 1 /\ s[n + 1] = r
      /\ \A j \in 1 .. n : s[j] = queue[j]
      /\ Range(s) = Range(queue) \cup {r}
  BY <1>3, <1>4, <1>5, AppendProperties, AppendedToQueue
<1>7. waited[r] = 0 /\ n <= received
  BY <1>3 DEF WaitInv, OthersWait
<1>8. PICK c : c = IF Empty THEN r ELSE curr_Proc
  OBVIOUS
<1>9. OthersWait'
  <2>1. \A p \in Procs : p \notin Range(s) \/ p = c => waited[p] = 0
    BY <1>6, <1>7, <1>8 DEF WaitInv, OthersWait
  <2> QED BY <1>2, <1>5, <1>8, <2>1 DEF OthersWait
<1>10. ASSUME NEW i \in 1 .. n + 1, NEW j \in 1 .. n + 1, s[i] = c
       PROVE  waited[s[j]] + quanta <= (r - Ahead(i, j, n + 1)) * q
  <2>1. PICK d : d = Ahead(i, j, n + 1)
    OBVIOUS
  <2>2. d \in 0 .. n
    BY <1>4, <2>1, AheadInCircle
  <2>3. r - d \in Int /\ r - d >= 1
    BY <1>1, <1>4, <1>7, <2>2
  <2>4. CASE j = n + 1
    <3>1. waited[s[j]] = 0
      BY <1>6, <1>7, <2>4
    <3>2. PICK e \in Int : e = r - d /\ 1 <= e
      BY <2>3
    <3>3. 1 * q <= e * q /\ e * q \in Int
      BY <3>2, OneTurnMore
    <3> QED BY <1>4, <2>1, <3>1, <3>2, <3>3
  <2>5. CASE j # n + 1
    <3>1. j \in 1 .. n /\ s[j] = queue[j] /\ queue[j] \in Procs
      BY <1>4, <1>6, <2>5, RangeOfQueue
    <3>2. queue # <<>>
      BY <1>4, <3>1, RangeOfQueue
    <3>3. c = curr_Proc /\ c # r /\ i # n + 1
      <4>1. c = curr_Proc
        BY <1>8, <3>2 DEF Empty
      <4>2. c \in Range(queue)
        BY <3>2, <4>1 DEF IInv, NoneLost, Empty
      <4> QED BY <1>3, <1>6, <1>10, <4>1, <4>2
    <3>4. i \in 1 .. n /\ queue[i] = curr_Proc
      BY <1>4, <1>6, <1>10, <3>3
    <3>5. waited[queue[j]] + quanta <= (received - Ahead(i, j, n)) * q
      BY <3>1, <3>4 DEF WaitInv, TurnsToCome
    <3>6. Ahead(i, j, n) \in Int
      BY <1>4, <3>1, <3>4, AheadInCircle
    <3>7. d <= Ahead(i, j, n) + 1
      BY <1>4, <2>1, <3>1, <3>4, AheadInLonger
    <3>8. PICK a \in Int : a = received - Ahead(i, j, n)
      BY <1>4, <3>6
    <3>9. PICK e \in Int : e = r - d
      BY <2>3
    <3>10. a <= e
      BY <1>1, <1>4, <2>2, <3>6, <3>7, <3>8, <3>9
    <3>11. a * q <= e * q /\ a * q \in Int /\ e * q \in Int
      BY <3>10, OneTurnMore
    <3>12. waited[queue[j]] + quanta \in Int
      BY <1>4, <3>1
    <3> QED BY <2>1, <3>1, <3>5, <3>8, <3>9, <3>11, <3>12
  <2> QED BY <2>4, <2>5
<1>11. TurnsToCome'
  <2>1. \A i, j \in 1 .. Len(s) :
          s[i] = c => waited[s[j]] + quanta <= (r - Ahead(i, j, Len(s))) * q
    BY <1>6, <1>10
  <2> QED BY <1>2, <1>5, <1>8, <2>1 DEF TurnsToCome, Ahead
<1>12. Len(s) <= r
  BY <1>1, <1>4, <1>6, <1>7
<1> QED BY <1>2, <1>5, <1>9, <1>11, <1>12 DEF WaitInv

\* A step that leaves the circle alone, in which others may be refused.
LEMMA CircleUnchanged ==
  ASSUME IInv, WaitInv, UNCHANGED rrVars, received' = received \/ received' = received + 1
  PROVE  WaitInv'
<1>1. UNCHANGED <<circular_Queue_RR, curr_Proc, quanta, waited>>
  BY DEF rrVars
<1>2. /\ circular_Queue_RR \in Seq(Procs)
      /\ Len(circular_Queue_RR) \in Nat /\ received \in Nat /\ quanta \in Nat
      /\ \A p \in Procs : waited[p] \in Nat
  BY CircleTypes
<1>3. Len(circular_Queue_RR)' <= received' /\ OthersWait'
  BY <1>1, <1>2 DEF WaitInv, OthersWait
<1>4. ASSUME NEW i \in 1 .. Len(circular_Queue_RR), NEW j \in 1 .. Len(circular_Queue_RR),
             circular_Queue_RR[i] = curr_Proc
      PROVE  waited[circular_Queue_RR[j]] + quanta
               <= (received' - Ahead(i, j, Len(circular_Queue_RR))) * q
  <2>1. PICK d \in Int : d = Ahead(i, j, Len(circular_Queue_RR))
    BY <1>2, AheadInCircle
  <2>2. waited[circular_Queue_RR[j]] + quanta <= (received - d) * q
    BY <1>4, <2>1 DEF WaitInv, TurnsToCome
  <2>3. PICK a \in Int : a = received - d
    BY <1>2, <2>1
  <2>4. PICK e \in Int : e = received' - d /\ a <= e
    BY <1>2, <2>1, <2>3
  <2>5. a * q <= e * q /\ a * q \in Int /\ e * q \in Int
    BY <2>4, OneTurnMore
  <2>6. waited[circular_Queue_RR[j]] + quanta \in Int
    <3>1. circular_Queue_RR[j] \in Procs
      BY <1>2, RangeOfQueue
    <3> QED BY <1>2, <3>1
  <2> QED BY <2>1, <2>2, <2>3, <2>4, <2>5, <2>6
<1>5. TurnsToCome'
  BY <1>1, <1>4 DEF TurnsToCome, Ahead
<1> QED BY <1>3, <1>5 DEF WaitInv

LEMMA NextWaits ==
  ASSUME IInv, WaitInv, [Next]_vars
  PROVE  WaitInv'
<1>1. CASE Tick /\ UNCHANGED rrVars
  BY <1>1, CircleUnchanged DEF Tick
<1>2. CASE ReceiveProcess
  BY <1>2, ReceiveWaits
<1>3. CASE RefuseProcess
  BY <1>3, CircleUnchanged DEF RefuseProcess, Refuse, Receive
<1>4. CASE KeepRunning
  BY <1>4, KeepRunningWaits
<1>5. CASE KeepAlone
  BY <1>5, KeepAloneWaits
<1>6. CASE Switch
  BY <1>6, SwitchWaits
<1>7. CASE FinishAndSwitch
  BY <1>7, FinishAndSwitchWaits
<1>8. CASE FinishLast
  BY <1>8, FinishLastWaits
<1>9. CASE Idle
  BY <1>9, CircleUnchanged DEF Idle, EndOfPass
<1>10. CASE UNCHANGED vars
  BY <1>10, CircleUnchanged DEF vars, sharedVars
<1> QED BY <1>1, <1>2, <1>3, <1>4, <1>5, <1>6, <1>7, <1>8, <1>9, <1>10 DEF Next, Algorithm

LEMMA InitWaits == Init => WaitInv
<1> SUFFICES ASSUME Init PROVE WaitInv
  OBVIOUS
<1>1. /\ circular_Queue_RR = <<>> /\ Len(<<>>) = 0 /\ received = 0
      /\ \A p \in Procs : waited[p] = 0
  BY DEF Init, SharedInit
<1> QED BY <1>1 DEF WaitInv, OthersWait, TurnsToCome

\* Between two of its turns a process waits for at most one quantum of every
\* other process of the file, for every quantum and every number of processes,
\* whoever arrives, is refused or finishes while it waits.
THEOREM WaitsAreBounded == Spec => []BoundedWait
<1>1. Init => IInv /\ WaitInv
  BY InitIInv, InitWaits
<1>2. (IInv /\ WaitInv) /\ [Next]_vars => (IInv /\ WaitInv)'
  BY NextIInv, NextWaits
<1>3. IInv /\ WaitInv => BoundedWait
  BY WaitIsBounded
<1> QED BY <1>1, <1>2, <1>3, PTL DEF Spec

-----------------------------------------------------------------------------
\* The accounts: every turn charges all the processes that hold memory.
Books == Ledger /\ \A p \in Procs : AccountOf(p)

\* What a turn adds to the totals: f is the process that is ended, if any, and
\* r the one that runs.
LEMMA GoesOnCharges ==
  ASSUME IInv, GoesOn
  PROVE  \E r \in Holders : ChargedAll(r, {}) /\ curr_Proc' = r
                            /\ cpu_waiting_time' = cpu_waiting_time
<1>0. PICK r \in Holders : \E procs :
        /\ SameWork(procs) /\ KeptTimes(procs, {}, follow)
        /\ Run(r, procs, circular_Queue_RR)
  BY GoesOnRuns
<1>1. PICK procs :
        /\ SameWork(procs) /\ KeptTimes(procs, {}, follow)
        /\ Run(r, procs, circular_Queue_RR)
  BY <1>0
<1>2. PICK S : S = Range(circular_Queue_RR)
  OBVIOUS
<1>3. /\ proc' = Charge(procs, r, S) /\ curr_Proc' = r /\ cpu_waiting_time' = cpu_waiting_time
  BY <1>1, <1>2 DEF Run
<1>4. /\ SharedTypeOK /\ r \in Procs /\ S \cup {r} = Holders \ {}
  BY <1>1, <1>2 DEF IInv, SharedInv, NoneLost, Holders
<1>5. /\ procs \in [Procs -> ProcessRecords]
      /\ \A p \in Procs :
           /\ procs[p].memindex = proc[p].memindex
           /\ procs[p].Running_time = proc[p].Running_time
           /\ procs[p].Remaining_time = proc[p].Remaining_time
           /\ procs[p].State = "FINISHED" <=> p \in {} \/ proc[p].State = "FINISHED"
  BY <1>1 DEF SameWork
<1>6. ChargedAll(r, {})
  BY <1>1, <1>3, <1>4, <1>5, ChargeChargesAll
<1> QED BY <1>1, <1>3, <1>6

LEMMA GoesOnBooks ==
  ASSUME IInv, Books, GoesOn
  PROVE  Books'
<1>0. PICK F : F = {}
  OBVIOUS
<1>1. PICK r \in Holders : ChargedAll(r, F) /\ cpu_waiting_time' = cpu_waiting_time /\ F = {}
  BY <1>0, GoesOnCharges
<1>2. /\ SharedInv /\ Ledger /\ SharedTypeOK' /\ phase = "receive" /\ EndOfPass
      /\ total_waiting_time' = total_waiting_time
  BY GoesOnRuns, GoesOnIInv DEF IInv, SharedInv, Books
<1>3. r # None
  BY DEF Holders, Procs, None
<1>4. /\ cpu_waiting_time' = cpu_waiting_time + 0
      /\ total_waiting_time' = total_waiting_time + 0
  BY <1>1, <1>2 DEF SharedInv, SharedTypeOK
<1>5. Ledger' /\ \A p \in Procs : AccountOf(p) => AccountOf(p)'
  BY <1>1, <1>2, <1>3, <1>4, ChargedAllAccounts
<1> QED BY <1>5 DEF Books

LEMMA FinishAndSwitchCharges ==
  ASSUME IInv, FinishAndSwitch
  PROVE  \E r \in Holders \ {curr_Proc} : ChargedAll(r, {curr_Proc}) /\ curr_Proc' = r
                                          /\ cpu_waiting_time' = cpu_waiting_time
<1>1. PICK f, i : f = curr_Proc /\ i = Position(curr_Proc)
  OBVIOUS
<1>2. PICK r \in Holders \ {f}, procs \in [Procs -> ProcessRecords] :
        /\ Ended(f, procs) /\ KeptTimes(procs, {f}, follow)
        /\ Run(r, procs, RemoveAt(circular_Queue_RR, i))
  BY <1>1, FinishAndSwitchRuns
<1>3. PICK S : S = Range(RemoveAt(circular_Queue_RR, i))
  OBVIOUS
<1>4. /\ proc' = Charge(procs, r, S) /\ curr_Proc' = r /\ cpu_waiting_time' = cpu_waiting_time
  BY <1>2, <1>3 DEF Run
<1>5. ~Empty
  BY DEF FinishAndSwitch, EndOfProcess, Begin
<1>6. S = Holders \ {f}
  <2>1. PICK queue : queue = RemoveAt(circular_Queue_RR, i)
    OBVIOUS
  <2>2. /\ circular_Queue_RR \in Seq(Procs) /\ IsInjective(circular_Queue_RR)
        /\ i \in 1 .. Len(circular_Queue_RR) /\ f = circular_Queue_RR[i]
        /\ Holders = Range(circular_Queue_RR)
    BY <1>1, <1>5, SuccessorInQueue DEF IInv, TypeOK, NoneLost
  <2>3. Range(queue) = Range(circular_Queue_RR) \ {f}
    BY <2>1, <2>2, RemovedFromQueue
  <2> QED BY <1>3, <2>1, <2>2, <2>3
<1>7. SharedTypeOK /\ r \in Procs /\ S \cup {r} = Holders \ {f}
  BY <1>2, <1>6 DEF IInv, SharedInv, Holders
<1>8. \A p \in Procs :
        /\ procs[p].memindex = proc[p].memindex
        /\ procs[p].Running_time = proc[p].Running_time
        /\ procs[p].Remaining_time = proc[p].Remaining_time
        /\ procs[p].State = "FINISHED" <=> p \in {f} \/ proc[p].State = "FINISHED"
  BY <1>2 DEF Ended
<1>9. ChargedAll(r, {f})
  BY <1>2, <1>4, <1>7, <1>8, ChargeChargesAll
<1> QED BY <1>1, <1>2, <1>4, <1>9

LEMMA FinishAndSwitchBooks ==
  ASSUME IInv, Books, FinishAndSwitch
  PROVE  Books'
<1>1. PICK f : f = curr_Proc
  OBVIOUS
<1>0. PICK F : F = {f}
  OBVIOUS
<1>2. PICK r \in Holders \ {f} :
        ChargedAll(r, F) /\ cpu_waiting_time' = cpu_waiting_time /\ F = {f}
  BY <1>0, <1>1, FinishAndSwitchCharges
<1>3. EndOfProcess /\ EndOfPass /\ proc[f].Remaining_time = 0
  BY <1>1 DEF FinishAndSwitch, EndOfProcess
<1>4. /\ SharedInv /\ Ledger /\ SharedTypeOK' /\ phase = "receive" /\ f \in Holders
      /\ total_waiting_time' = total_waiting_time + proc[f].Waiting_time
  BY <1>1, <1>3, EndOfProcessTurn, FinishAndSwitchTurn DEF IInv, SharedInv, Books
<1>5. r # None /\ F # {}
  BY <1>2 DEF Holders, Procs, None
<1>6. cpu_waiting_time' = cpu_waiting_time + 0
  BY <1>2, <1>4 DEF SharedInv, SharedTypeOK
<1>7. Ledger' /\ \A p \in Procs : AccountOf(p) => AccountOf(p)'
  BY <1>2, <1>3, <1>4, <1>5, <1>6, ChargedAllAccounts
<1> QED BY <1>7 DEF Books

LEMMA FinishLastCharges ==
  ASSUME IInv, FinishLast
  PROVE  ChargedAll(None, {curr_Proc}) /\ Holders \ {curr_Proc} = {}
<1>1. PICK f, F, r : f = curr_Proc /\ F = {f} /\ r = None
  OBVIOUS
<1>2. /\ EndOfProcess /\ Alone /\ proc' = Finish(proc, f, follow)
  BY <1>1 DEF FinishLast
<1>3. /\ f \in Holders /\ Ended(f, Finish(proc, f, follow))
      /\ KeptTimes(Finish(proc, f, follow), F, follow)
  BY <1>1, <1>2, EndOfProcessTurn
<1>4. SharedTypeOK /\ None \notin Procs
  BY DEF IInv, SharedInv, None, Procs
<1>5. Holders \ F = {}
  <2>1. circular_Queue_RR \in Seq(Procs) /\ Holders = Range(circular_Queue_RR)
    BY DEF IInv, TypeOK, NoneLost
  <2>2. \A p \in Holders : p = circular_Queue_RR[1]
    BY <1>2, <2>1, RangeOfQueue DEF Alone
  <2> QED BY <1>1, <1>3, <2>2
<1>6. PICK procs : procs = Finish(proc, f, follow)
  OBVIOUS
<1>7. Ended(f, procs) /\ KeptTimes(procs, F, follow) /\ proc' = procs
  BY <1>2, <1>3, <1>6
<1>8. \A p \in Procs : /\ proc[p].Remaining_time = proc[p].Remaining_time - 0
                       /\ proc[p].Waiting_time = proc[p].Waiting_time + 0
  BY <1>4, TimesAreNumbers
<1>9. ChargedAll(r, F)
  BY <1>1, <1>4, <1>5, <1>7, <1>8 DEF ChargedAll, Ended, KeptTimes
<1> QED BY <1>1, <1>5, <1>9

LEMMA FinishLastBooks ==
  ASSUME IInv, Books, FinishLast
  PROVE  Books'
<1>1. PICK f, F, r : f = curr_Proc /\ F = {f} /\ r = None
  OBVIOUS
<1>2. /\ EndOfProcess /\ EndOfPass /\ proc[f].Remaining_time = 0
      /\ cpu_waiting_time' = cpu_waiting_time + 1
  BY <1>1 DEF FinishLast, EndOfProcess
<1>3. /\ phase = "receive" /\ f \in Holders
      /\ total_waiting_time' = total_waiting_time + proc[f].Waiting_time
  BY <1>1, <1>2, EndOfProcessTurn
<1>4. SharedInv /\ Ledger /\ SharedTypeOK'
  BY FinishLastTurn DEF IInv, SharedInv, Books
<1>5. ChargedAll(r, F) /\ Holders \ F = {} /\ \A p \in F : proc[p].Remaining_time = 0
  BY <1>1, <1>2, FinishLastCharges
<1>6. Ledger' /\ \A p \in Procs : AccountOf(p) => AccountOf(p)'
  BY <1>1, <1>2, <1>3, <1>4, <1>5, ChargedAllAccounts
<1> QED BY <1>6 DEF Books

LEMMA NextBooks == IInv /\ Books /\ [Next]_vars => Books'
<1> SUFFICES ASSUME IInv, Books, [Next]_vars PROVE Books'
  OBVIOUS
<1>1. SharedInv /\ Ledger /\ IInv' /\ SharedTypeOK'
  BY NextIInv DEF IInv, Books, SharedInv
<1>2. CASE Tick /\ UNCHANGED rrVars
  BY <1>1, <1>2, TickAccounts DEF Books
<1>3. CASE ReceiveProcess
  <2>1. PICK n \in Messages : Accept(n) /\ proc' = [proc EXCEPT ![received + 1] = n]
    BY <1>3 DEF ReceiveProcess
  <2>2. PICK r : r = received + 1
    OBVIOUS
  <2>3. /\ r \in Procs /\ proc'[r] = n
        /\ \A p \in Procs \ {r} : proc'[p] = proc[p] /\ SameMemory(p)
    BY <1>1, <2>1, <2>2, ReceivedRecords DEF Accept
  <2>4. Receive(n) /\ \A p \in Procs \ {r} : SameTimes(p) /\ SameMemory(p)
    BY <2>1, <2>3 DEF SameTimes, Accept
  <2> QED BY <1>1, <2>2, <2>3, <2>4, ReceiveAccounts DEF Books
<1>4. CASE RefuseProcess
  BY <1>1, <1>4, RefuseAccounts DEF RefuseProcess, Books
<1>5. CASE GoesOn
  BY <1>5, GoesOnBooks
<1>6. CASE FinishAndSwitch
  BY <1>6, FinishAndSwitchBooks
<1>7. CASE FinishLast
  BY <1>7, FinishLastBooks
<1>8. CASE Idle
  <2>1. Holders = {}
    BY <1>8, EmptyQueue DEF Idle, IInv, NoneLost, Empty
  <2> QED BY <1>1, <1>8, <2>1, IdleAccounts DEF Idle, Turn, Books
<1>9. CASE UNCHANGED vars
  BY <1>1, <1>9, AccountsStutter DEF vars, Books
<1> QED BY <1>2, <1>3, <1>4, <1>5, <1>6, <1>7, <1>8, <1>9 DEF Next, Algorithm, GoesOn

-----------------------------------------------------------------------------
\* The lines: what scheduler.log tells of a process follows from its place and
\* from whether it has run.

\* A process may be started, stopped at once and started again.
Restarts == {<<2, "STOPPED", "STARTED">>}

LineOf(p) ==
  /\ Tells(log[p], Restarts)
  /\ p \in Finished <=> log[p] # <<>> /\ Last(log[p]) = "FINISHED"
  /\ p \in Finished \/ p \in Holders \/ log[p] = <<>>
  /\ p \in Holders /\ NotYetRun(proc, p) =>
       \/ log[p] = <<>>
       \/ p # curr_Proc /\ Len(log[p]) = 2 /\ Last(log[p]) = "STOPPED"
  /\ p \in Holders /\ ~NotYetRun(proc, p) =>
       /\ log[p] # <<>>
       /\ p = curr_Proc => Last(log[p]) \in {"STARTED", "RESUMED"}
       /\ p # curr_Proc => Last(log[p]) = "STOPPED"

Lines ==
  /\ \A p \in Procs : LineOf(p)
  /\ \A p \in Holders : proc[p].Running_time > 0

LEMMA InitLines == Init => Lines
<1> SUFFICES ASSUME Init PROVE Lines
  OBVIOUS
<1>1. Holders = {} /\ Finished = {}
  BY UnbornType DEF Init, SharedInit, Holders, Holds, Finished, Unborn
<1>2. \A p \in Procs : log[p] = <<>>
  BY DEF Init, SharedInit
<1> QED BY <1>1, <1>2, NoLinesTell DEF Lines, LineOf

\* A step that prints nothing about p, and neither runs p nor changes its place.
LEMMA LineKept ==
  ASSUME NEW p \in Procs, LineOf(p), log'[p] = log[p],
         proc'[p].Running_time = proc[p].Running_time,
         proc'[p].Remaining_time = proc[p].Remaining_time, SameMemory(p),
         p \in Holders => (curr_Proc' = p <=> curr_Proc = p)
  PROVE  LineOf(p)'
<1>1. /\ p \in Finished' <=> p \in Finished
      /\ p \in Holders' <=> p \in Holders
      /\ NotYetRun(proc, p)' <=> NotYetRun(proc, p)
  BY DEF SameMemory, Finished, Holders, Holds, NotYetRun
<1> QED BY <1>1 DEF LineOf

\* A step that prints nothing about a process that did not run yet.
LEMMA LineOfReceived ==
  ASSUME NEW r \in Procs, LineOf(r), r \notin Holders, r \notin Finished, log'[r] = log[r],
         proc'[r].State = "STOPPED", proc'[r].Remaining_time = proc'[r].Running_time
  PROVE  LineOf(r)'
<1>1. log'[r] = <<>> /\ r \notin Finished' /\ NotYetRun(proc, r)'
  BY DEF LineOf, Finished, NotYetRun
<1> QED BY <1>1, NoLinesTell DEF LineOf

LEMMA ReceiveLines ==
  ASSUME IInv, Lines, ReceiveProcess \/ RefuseProcess
  PROVE  Lines'
<1>1. PICK n \in Messages : Receive(n) /\ proc' = [proc EXCEPT ![received + 1] = n]
  BY DEF ReceiveProcess, RefuseProcess, Refuse, Accept
<1>2. PICK r : r = received + 1
  OBVIOUS
<1>3. /\ r \in Procs /\ received \in Nat /\ proc'[r] = n /\ log' = log
      /\ \A p \in Procs \ {r} : proc'[p] = proc[p] /\ SameMemory(p)
  BY <1>1, <1>2, ReceivedRecords DEF IInv, Receive, files
<1>4. r \notin Holders /\ r \notin Finished
  <2>1. r > received
    BY <1>2, <1>3
  <2> QED BY <1>3, <2>1 DEF IInv, SharedInv, RecordsFilled, Holders, Holds, Finished
<1>5. /\ n.State = "STOPPED" /\ n.Remaining_time = n.Running_time
      /\ n.Running_time \in Nat \ {0}
  BY MessageTypes, RunTimesAssumption DEF IInv, SharedInv
<1>6. \A p \in Holders : curr_Proc' = curr_Proc
  <2>1. CASE ReceiveProcess
    <3>1. Holders # {} => ~Empty
      BY EmptyQueue DEF IInv, NoneLost, Empty
    <3> QED BY <2>1, <3>1 DEF ReceiveProcess
  <2>2. CASE RefuseProcess
    BY <2>2 DEF RefuseProcess, rrVars
  <2> QED BY <2>1, <2>2
<1>7. ASSUME NEW p \in Procs PROVE LineOf(p)'
  <2>1. CASE p = r
    BY <1>3, <1>4, <1>5, <2>1, LineOfReceived DEF Lines
  <2>2. CASE p # r
    BY <1>3, <1>6, <2>2, LineKept DEF Lines
  <2> QED BY <2>1, <2>2
<1>8. \A p \in Holders' : proc'[p].Running_time > 0
  <2>1. ASSUME NEW p \in Holders' PROVE proc'[p].Running_time > 0
    <3>1. CASE p = r
      BY <1>3, <1>5, <3>1
    <3>2. CASE p # r
      BY <1>3, <2>1, <3>2 DEF Lines, Holders, Holds
    <3> QED BY <3>1, <3>2
  <2> QED BY <2>1
<1> QED BY <1>7, <1>8 DEF Lines

\* The lines of the current process, when it has been started.
LEMMA BegunLines ==
  ASSUME IInv, Lines, ~Empty
  PROVE  /\ BegunLog \in [Procs -> Seq(States)]
         /\ \A p \in Procs \ {curr_Proc} : BegunLog[p] = log[p]
         /\ BegunLog[curr_Proc] # <<>>
         /\ Last(BegunLog[curr_Proc]) \in {"STARTED", "RESUMED"}
         /\ Tells(BegunLog[curr_Proc], Restarts)
         /\ NotYetRun(proc, curr_Proc) => Len(BegunLog[curr_Proc]) = 1
<1>1. curr_Proc \in Holders /\ curr_Proc \in Procs
  BY SuccessorInQueue DEF Holders
<1>2. log \in [Procs -> Seq(States)] /\ "STARTED" \in States /\ LineOf(curr_Proc)
  BY <1>1 DEF IInv, SharedInv, SharedTypeOK, States, Lines
<1>3. CASE NotYetRun(proc, curr_Proc)
  <2>1. BegunLog = PrintLine(log, curr_Proc, "STARTED") /\ log[curr_Proc] = <<>>
    BY <1>1, <1>2, <1>3 DEF BegunLog, LineOf
  <2>2. /\ BegunLog \in [Procs -> Seq(States)]
        /\ BegunLog[curr_Proc] = Append(log[curr_Proc], "STARTED")
        /\ \A x \in Procs \ {curr_Proc} : BegunLog[x] = log[x]
    <3>1. PICK lines : lines = PrintLine(log, curr_Proc, "STARTED")
      OBVIOUS
    <3>2. /\ lines \in [Procs -> Seq(States)]
          /\ lines[curr_Proc] = Append(log[curr_Proc], "STARTED")
          /\ \A x \in Procs \ {curr_Proc} : lines[x] = log[x]
      BY <1>1, <1>2, <3>1, PrintedLine
    <3> QED BY <2>1, <3>1, <3>2
  <2>3. /\ Append(log[curr_Proc], "STARTED") # <<>>
        /\ Last(Append(log[curr_Proc], "STARTED")) = "STARTED"
        /\ Tells(Append(log[curr_Proc], "STARTED"), Restarts)
    BY <1>1, <1>2, <2>1, TellsOneMore DEF LineOf
  <2>4. Len(Append(log[curr_Proc], "STARTED")) = 1
    BY <2>1
  <2> QED BY <2>2, <2>3, <2>4
<1>4. CASE ~NotYetRun(proc, curr_Proc)
  <2>1. BegunLog = log
    BY <1>4 DEF BegunLog
  <2> QED BY <1>1, <1>2, <1>4, <2>1 DEF LineOf
<1> QED BY <1>3, <1>4

\* The line of the process that is switched to.
LEMMA NextLine ==
  ASSUME SharedInv, NEW p \in Holders, LineOf(p), p # curr_Proc,
         NEW s, s = StateOfNext(p)
  PROVE  /\ s \in {"STARTED", "RESUMED"} /\ s \in States
         /\ Append(log[p], s) # <<>> /\ Last(Append(log[p], s)) = s
         /\ Tells(Append(log[p], s), Restarts)
<1>1. s \in {"STARTED", "RESUMED"} /\ s \in States
  BY DEF StateOfNext, States
<1>2. log[p] \in Seq(States) /\ Tells(log[p], Restarts)
  BY DEF SharedInv, SharedTypeOK, Holders, LineOf
<1>3. \/ log[p] = <<>> /\ s = "STARTED"
      \/ log[p] # <<>> /\ \/ Follows(Last(log[p]), s)
                          \/ <<Len(log[p]), Last(log[p]), s>> \in Restarts
  <2>1. CASE NotYetRun(proc, p) /\ log[p] = <<>>
    BY <2>1 DEF StateOfNext
  <2>2. CASE NotYetRun(proc, p) /\ Len(log[p]) = 2 /\ Last(log[p]) = "STOPPED"
    <3>1. log[p] # <<>> /\ s = "STARTED"
      BY <2>2 DEF StateOfNext
    <3>2. <<Len(log[p]), Last(log[p]), s>> = <<2, "STOPPED", "STARTED">>
      BY <2>2, <3>1
    <3> QED BY <3>1, <3>2 DEF Restarts
  <2>3. CASE ~NotYetRun(proc, p)
    <3>1. log[p] # <<>> /\ Last(log[p]) = "STOPPED" /\ s = "RESUMED"
      BY <2>3 DEF StateOfNext, LineOf
    <3> QED BY <3>1, FollowingLines
  <2> QED BY <2>1, <2>2, <2>3 DEF LineOf
<1> QED BY <1>1, <1>2, <1>3, TellsOneMore

\* The lines of p after a turn in which it was charged with its tick: only
\* those of the process that runs, and of the one that ran before, change.
LEMMA LineOfRunning ==
  ASSUME SharedTypeOK, ExecutedIsNat, NEW F, NEW r \in Holders \ F, ChargedAll(r, F),
         curr_Proc' = r, log'[r] # <<>>, Last(log'[r]) \in {"STARTED", "RESUMED"},
         Tells(log'[r], Restarts)
  PROVE  LineOf(r)'
<1>1. r \in Procs /\ r \notin Finished'
  BY DEF ChargedAll, Finished, Holders, Holds
<1>2. ~NotYetRun(proc, r)'
  <2>1. /\ proc[r].Remaining_time \in Int /\ proc[r].Running_time \in Nat
        /\ proc[r].Remaining_time <= proc[r].Running_time
    BY <1>1, TimesAreNumbers DEF ExecutedIsNat
  <2>2. /\ proc'[r].Remaining_time = proc[r].Remaining_time - 1
        /\ proc'[r].Running_time = proc[r].Running_time
    BY <1>1 DEF ChargedAll
  <2>3. proc'[r].Remaining_time # proc'[r].Running_time
    BY <2>1, <2>2
  <2> QED BY <2>3 DEF NotYetRun
<1>3. r \in Holders'
  BY <1>1 DEF ChargedAll, Holders, Holds, Finished
<1> QED BY <1>1, <1>2, <1>3 DEF LineOf

LEMMA LineOfOthers ==
  ASSUME SharedTypeOK, NEW F, NEW r, ChargedAll(r, F),
         NEW p \in Procs, p # r, p \notin F, p # curr_Proc, curr_Proc' = r, LineOf(p), log'[p] = log[p]
  PROVE  LineOf(p)'
<1>1. /\ proc'[p].Running_time = proc[p].Running_time
      /\ proc'[p].Remaining_time = proc[p].Remaining_time
  <2>1. proc'[p].Remaining_time = proc[p].Remaining_time - 0
    BY DEF ChargedAll
  <2> QED BY <2>1, TimesAreNumbers DEF ChargedAll
<1>2. /\ p \in Finished' <=> p \in Finished
      /\ p \in Holders' <=> p \in Holders
      /\ NotYetRun(proc, p)' <=> NotYetRun(proc, p)
  BY <1>1 DEF ChargedAll, Finished, Holders, Holds, NotYetRun
<1> QED BY <1>2 DEF LineOf

\* The process that is finished.
LEMMA LineOfFinished ==
  ASSUME SharedInv, NEW F, NEW r, ChargedAll(r, F), NEW f \in F, f \in Holders, LineOf(f),
         ~NotYetRun(proc, f), f = curr_Proc, log'[f] = Append(log[f], "FINISHED")
  PROVE  LineOf(f)'
<1>1. f \in Procs /\ log[f] \in Seq(States) /\ "FINISHED" \in States
  BY DEF SharedInv, SharedTypeOK, Holders, States
<1>2. log[f] # <<>> /\ Last(log[f]) \in {"STARTED", "RESUMED"} /\ Tells(log[f], Restarts)
  BY DEF LineOf
<1>3. Follows(Last(log[f]), "FINISHED")
  BY <1>2, FollowingLines
<1>4. log'[f] # <<>> /\ Last(log'[f]) = "FINISHED" /\ Tells(log'[f], Restarts)
  BY <1>1, <1>2, <1>3, TellsOneMore
<1>5. f \in Finished' /\ f \notin Holders'
  BY <1>1 DEF ChargedAll, Finished, Holders, Holds
<1> QED BY <1>4, <1>5 DEF LineOf

\* The running times of the processes that hold memory.
LEMMA RunningTimesKept ==
  ASSUME NEW F, NEW r, ChargedAll(r, F), Lines
  PROVE  \A p \in Holders' : proc'[p].Running_time > 0
BY DEF ChargedAll, Lines, Holders, Holds

LEMMA GoesOnLines ==
  ASSUME IInv, Books, Lines, GoesOn
  PROVE  Lines'
<1>0. PICK F : F = {}
  OBVIOUS
<1>1. PICK r \in Holders : ChargedAll(r, F) /\ curr_Proc' = r /\ F = {}
  BY <1>0, GoesOnCharges
<1>2. PICK c : c = curr_Proc
  OBVIOUS
<1>3. /\ SharedInv /\ SharedTypeOK /\ ExecutedIsNat /\ ~Empty
      /\ c \in Holders /\ c \in Procs /\ r \in Procs
  BY <1>2, GoesOnRuns, SuccessorInQueue DEF IInv, SharedInv, Books, Ledger, Holders
<1>4. PICK lines : lines = BegunLog
  OBVIOUS
<1>5. /\ lines \in [Procs -> Seq(States)]
      /\ \A p \in Procs \ {c} : lines[p] = log[p]
      /\ lines[c] # <<>> /\ Last(lines[c]) \in {"STARTED", "RESUMED"}
      /\ Tells(lines[c], Restarts)
      /\ NotYetRun(proc, c) => Len(lines[c]) = 1
  BY <1>2, <1>3, <1>4, BegunLines
<1>6. CASE KeepRunning \/ KeepAlone
  <2>1. log' = lines /\ r = c
    BY <1>1, <1>2, <1>4, <1>6 DEF KeepRunning, KeepAlone, Run
  <2>2. ASSUME NEW p \in Procs PROVE LineOf(p)'
    <3>1. CASE p = r
      BY <1>1, <1>3, <1>5, <2>1, <3>1, LineOfRunning
    <3>2. CASE p # r
      BY <1>1, <1>2, <1>3, <1>5, <2>1, <3>2, LineOfOthers DEF Lines
    <3> QED BY <3>1, <3>2
  <2> QED BY <1>1, <2>2, RunningTimesKept DEF Lines
<1>7. CASE Switch
  <2>1. PICK state : state = StateOfNext(r)
    OBVIOUS
  <2>2. PICK more : more = PrintLine(lines, c, "STOPPED")
    OBVIOUS
  <2>3. ~Alone /\ r = Successor(c) /\ log' = PrintLine(more, r, state)
    <3>1. curr_Proc' = Successor(curr_Proc)
      BY <1>7 DEF Switch, Run
    <3> QED BY <1>1, <1>2, <1>4, <1>7, <2>1, <2>2, <3>1 DEF Switch
  <2>4. r # c
    BY <1>2, <1>3, <2>3, SuccessorInQueue
  <2>5. /\ state \in {"STARTED", "RESUMED"} /\ state \in States
        /\ Append(log[r], state) # <<>> /\ Last(Append(log[r], state)) = state
        /\ Tells(Append(log[r], state), Restarts)
    BY <1>2, <1>3, <2>1, <2>4, NextLine DEF Lines
  <2>6. /\ more \in [Procs -> Seq(States)] /\ more[c] = Append(lines[c], "STOPPED")
        /\ \A p \in Procs \ {c} : more[p] = lines[p]
    <3>1. "STOPPED" \in States /\ lines \in [Procs -> Seq(States)] /\ c \in Procs
      BY <1>3, <1>5 DEF States
    <3> QED BY <2>2, <3>1, PrintedLine
  <2>7. /\ log'[r] = Append(more[r], state)
        /\ \A p \in Procs \ {r} : log'[p] = more[p]
    <3>1. PICK all : all = PrintLine(more, r, state)
      OBVIOUS
    <3>2. /\ all[r] = Append(more[r], state)
          /\ \A p \in Procs \ {r} : all[p] = more[p]
      BY <1>3, <2>5, <2>6, <3>1, PrintedLine
    <3> QED BY <2>3, <3>1, <3>2
  <2>8. LineOf(r)'
    BY <1>1, <1>3, <1>5, <2>4, <2>5, <2>6, <2>7, LineOfRunning
  <2>9. LineOf(c)'
    <3>1. log'[c] = Append(lines[c], "STOPPED") /\ lines[c] \in Seq(States) /\ "STOPPED" \in States
      BY <1>3, <1>5, <2>4, <2>6, <2>7 DEF States
    <3>2. Follows(Last(lines[c]), "STOPPED")
      BY <1>5, FollowingLines
    <3>3. log'[c] # <<>> /\ Last(log'[c]) = "STOPPED" /\ Tells(log'[c], Restarts)
      BY <1>5, <3>1, <3>2, TellsOneMore
    <3>4. NotYetRun(proc, c)' <=> NotYetRun(proc, c)
      <4>1. /\ proc'[c].Running_time = proc[c].Running_time
            /\ proc'[c].Remaining_time = proc[c].Remaining_time - 0
        BY <1>1, <1>3, <2>4 DEF ChargedAll
      <4> QED BY <1>3, <4>1, TimesAreNumbers DEF NotYetRun
    <3>5. NotYetRun(proc, c) => Len(log'[c]) = 2
      <4>1. Len(Append(lines[c], "STOPPED")) = Len(lines[c]) + 1
        BY <3>1
      <4> QED BY <1>5, <3>1, <4>1
    <3>6. c \notin Finished' /\ curr_Proc' # c
      BY <1>1, <1>3, <2>4 DEF ChargedAll, Finished, Holders, Holds
    <3>7. c \in Holders'
      BY <1>1, <1>3, <3>6 DEF ChargedAll, Finished, Holders, Holds
    <3> QED BY <3>3, <3>4, <3>5, <3>6, <3>7 DEF LineOf
  <2>10. ASSUME NEW p \in Procs, p # r, p # c PROVE LineOf(p)'
    <3>1. log'[p] = log[p] /\ p \notin F
      BY <1>1, <1>5, <2>6, <2>7, <2>10
    <3> QED BY <1>1, <1>2, <1>3, <2>10, <3>1, LineOfOthers DEF Lines
  <2> QED BY <1>1, <2>8, <2>9, <2>10, RunningTimesKept DEF Lines
<1> QED BY <1>6, <1>7 DEF GoesOn

\* A process that used up its time has run.
LEMMA EndedHasRun ==
  ASSUME Lines, NEW p \in Holders, proc[p].Remaining_time = 0
  PROVE  ~NotYetRun(proc, p)
BY DEF Lines, NotYetRun

LEMMA FinishAndSwitchLines ==
  ASSUME IInv, Books, Lines, FinishAndSwitch
  PROVE  Lines'
<1>1. PICK f : f = curr_Proc
  OBVIOUS
<1>0. PICK F : F = {f}
  OBVIOUS
<1>2. PICK r \in Holders \ {f} : ChargedAll(r, F) /\ curr_Proc' = r /\ F = {f}
  BY <1>0, <1>1, FinishAndSwitchCharges
<1>3. EndOfProcess /\ ~Alone /\ proc[f].Remaining_time = 0
  BY <1>1 DEF FinishAndSwitch, EndOfProcess
<1>4. /\ SharedInv /\ SharedTypeOK /\ ExecutedIsNat
      /\ f \in Holders /\ f \in Procs /\ r \in Procs /\ r # f
      /\ log \in [Procs -> Seq(States)] /\ "FINISHED" \in States
  BY <1>1, <1>2, <1>3, EndOfProcessTurn
     DEF IInv, SharedInv, SharedTypeOK, States, Books, Ledger, Holders
<1>5. PICK state : state = StateOfNext(r)
  OBVIOUS
<1>6. PICK more : more = PrintLine(log, f, "FINISHED")
  OBVIOUS
<1>7. log' = PrintLine(more, r, state)
  <2>1. curr_Proc' = Successor(curr_Proc)
    BY DEF FinishAndSwitch, Run
  <2> QED BY <1>1, <1>2, <1>5, <1>6, <2>1 DEF FinishAndSwitch
<1>8. /\ state \in {"STARTED", "RESUMED"} /\ state \in States
      /\ Append(log[r], state) # <<>> /\ Last(Append(log[r], state)) = state
      /\ Tells(Append(log[r], state), Restarts)
  BY <1>1, <1>2, <1>4, <1>5, NextLine DEF Lines
<1>9. /\ more \in [Procs -> Seq(States)] /\ more[f] = Append(log[f], "FINISHED")
      /\ \A p \in Procs \ {f} : more[p] = log[p]
  BY <1>4, <1>6, PrintedLine
<1>10. /\ log'[r] = Append(more[r], state)
       /\ \A p \in Procs \ {r} : log'[p] = more[p]
  <2>1. PICK all : all = PrintLine(more, r, state)
    OBVIOUS
  <2>2. more \in [Procs -> Seq(States)] /\ r \in Procs /\ state \in States
    BY <1>4, <1>8, <1>9
  <2>3. /\ all[r] = Append(more[r], state)
        /\ \A p \in Procs \ {r} : all[p] = more[p]
    BY <2>1, <2>2, PrintedLine
  <2> QED BY <1>7, <2>1, <2>3
<1>11. LineOf(r)'
  BY <1>2, <1>4, <1>8, <1>9, <1>10, LineOfRunning
<1>12. LineOf(f)'
  BY <1>1, <1>2, <1>3, <1>4, <1>9, <1>10, EndedHasRun, LineOfFinished DEF Lines
<1>13. ASSUME NEW p \in Procs, p # r, p # f PROVE LineOf(p)'
  BY <1>1, <1>2, <1>4, <1>9, <1>10, <1>13, LineOfOthers DEF Lines
<1> QED BY <1>2, <1>11, <1>12, <1>13, RunningTimesKept DEF Lines

LEMMA FinishLastLines ==
  ASSUME IInv, Books, Lines, FinishLast
  PROVE  Lines'
<1>1. PICK f, F, r : f = curr_Proc /\ F = {f} /\ r = None
  OBVIOUS
<1>2. ChargedAll(r, F) /\ curr_Proc' = r
  BY <1>1, FinishLastCharges DEF FinishLast
<1>3. /\ EndOfProcess /\ proc[f].Remaining_time = 0 /\ log' = PrintLine(log, f, "FINISHED")
  BY <1>1 DEF FinishLast, EndOfProcess
<1>4. /\ SharedInv /\ SharedTypeOK /\ f \in Holders /\ f \in Procs /\ None \notin Procs
  BY <1>1, <1>3, EndOfProcessTurn DEF IInv, SharedInv, None, Procs
<1>8. log \in [Procs -> Seq(States)] /\ "FINISHED" \in States
  BY <1>4 DEF SharedTypeOK, States
<1>5. /\ log'[f] = Append(log[f], "FINISHED")
      /\ \A p \in Procs \ {f} : log'[p] = log[p]
  <2>1. PICK all : all = PrintLine(log, f, "FINISHED")
    OBVIOUS
  <2>2. /\ all[f] = Append(log[f], "FINISHED")
        /\ \A p \in Procs \ {f} : all[p] = log[p]
    BY <1>4, <1>8, <2>1, PrintedLine
  <2> QED BY <1>3, <2>1, <2>2
<1>6. LineOf(f)'
  BY <1>1, <1>2, <1>3, <1>4, <1>5, EndedHasRun, LineOfFinished DEF Lines
<1>7. ASSUME NEW p \in Procs, p # f PROVE LineOf(p)'
  BY <1>1, <1>2, <1>4, <1>5, <1>7, LineOfOthers DEF Lines
<1> QED BY <1>2, <1>6, <1>7, RunningTimesKept DEF Lines

LEMMA NextLines == IInv /\ Books /\ Lines /\ [Next]_vars => Lines'
<1> SUFFICES ASSUME IInv, Books, Lines, [Next]_vars PROVE Lines'
  OBVIOUS
<1>1. CASE ReceiveProcess \/ RefuseProcess
  BY <1>1, ReceiveLines
<1>2. CASE GoesOn
  BY <1>2, GoesOnLines
<1>3. CASE FinishAndSwitch
  BY <1>3, FinishAndSwitchLines
<1>4. CASE FinishLast
  BY <1>4, FinishLastLines
<1>5. CASE (Tick /\ UNCHANGED rrVars) \/ Idle \/ UNCHANGED vars
  <2>1. UNCHANGED <<proc, log, curr_Proc>>
    BY <1>5 DEF Tick, Idle, vars, sharedVars, rrVars, files
  <2> QED BY <2>1 DEF Lines, LineOf, Finished, Holders, Holds, NotYetRun
<1> QED BY <1>1, <1>2, <1>3, <1>4, <1>5 DEF Next, Algorithm, GoesOn

LEMMA LinesTellRestarts == Lines => LogTellsRestarts
<1> SUFFICES ASSUME Lines, NEW p \in Procs
             PROVE  /\ log[p] # <<>> => log[p][1] = "STARTED"
                    /\ \A i \in 1 .. Len(log[p]) - 1 :
                         \/ Follows(log[p][i], log[p][i + 1])
                         \/ i = 2 /\ log[p][i] = "STOPPED" /\ log[p][i + 1] = "STARTED"
                    /\ p \in Finished <=> (log[p] # <<>> /\ Last(log[p]) = "FINISHED")
  BY DEF LogTellsRestarts
<1>1. Tells(log[p], Restarts) /\ LineOf(p)
  BY DEF Lines, LineOf
<1>2. \A i, s, t : <<i, s, t>> \in Restarts => i = 2 /\ s = "STOPPED" /\ t = "STARTED"
  BY DEF Restarts
<1> QED BY <1>1, <1>2 DEF Tells, LineOf

\* The numbers of scheduler.log and scheduler.perf, and the lines of every
\* process, are so whatever runs, arrives, is refused or ends: every tick since
\* the arrival is charged once, the totals have every process once, and the
\* only lines out of order are those of a process that is started twice.
THEOREM ReportsAreTrue == Spec => []Reports
<1>1. Init => IInv /\ Books /\ Lines
  BY InitIInv, InitAccounts, InitLines DEF Init, Books
<1>2. (IInv /\ Books /\ Lines) /\ [Next]_vars => (IInv /\ Books /\ Lines)'
  BY NextIInv, NextBooks, NextLines
<1>3. IInv /\ Books /\ Lines => Reports
  BY LedgerIsAccounts, LinesTellRestarts DEF IInv, SharedInv, Books, Reports
<1> QED BY <1>1, <1>2, <1>3, PTL DEF Spec

-----------------------------------------------------------------------------
\* Every step of round robin is one of Processor, or none.

LEMMA ReceiveServes ==
  ASSUME IInv, ReceiveProcess
  PROVE  \E r \in Procs : Served!Arrive(r)
<1>1. PICK n \in Messages : Accept(n) /\ proc' = [proc EXCEPT ![received + 1] = n]
  BY DEF ReceiveProcess
<1>2. PICK r : r = received + 1
  OBVIOUS
<1>3. /\ r \in Procs /\ proc' \in [Procs -> ProcessRecords] /\ proc'[r] = n
      /\ \A p \in Procs \ {r} : proc'[p] = proc[p] /\ SameMemory(p)
  BY <1>1, <1>2, ReceivedRecords DEF IInv, Accept
<1>4. Served!Arrive(r)
  BY <1>1, <1>2, <1>3, AcceptServes DEF IInv
<1> QED BY <1>3, <1>4

LEMMA GoesOnServes ==
  ASSUME IInv, GoesOn
  PROVE  \E r \in Procs : Served!Serve(r)
<1>1. /\ phase = "receive" /\ EndOfPass /\ ~Empty /\ WorkLeft
      /\ ups' = Up(ups, curr_Proc)
      /\ UNCHANGED <<mem, finished_process_count, total_waiting_time>>
      /\ quanta' \in 0 .. q - 1 /\ log' \in [Procs -> Seq(States)]
  BY GoesOnRuns
<1>2. PICK r \in Holders : \E procs : SameWork(procs) /\ Run(r, procs, circular_Queue_RR)
  BY GoesOnRuns
<1>3. /\ Holders' = Holders
      /\ \A p \in Procs :
           /\ proc'[p].memindex = proc[p].memindex
           /\ proc'[p].Remaining_time = proc[p].Remaining_time - IF p = r THEN 1 ELSE 0
  BY <1>1, <1>2, RunIInv
<1>4. /\ r \in Procs /\ proc[r].memindex # NoPlace /\ proc[r].Remaining_time \in Nat \ {0}
      /\ phase' # "receive"
  BY <1>1 DEF IInv, SharedInv, SharedTypeOK, WorkLeft, Holders, Holds, EndOfPass
<1>5. \A p \in Procs \ {r} : LeftOf(p)' = LeftOf(p)
  <2>1. \A p \in Procs : proc[p].Remaining_time \in Int
    BY DEF IInv, SharedInv, SharedTypeOK
  <2> QED BY <1>3, <2>1 DEF LeftOf
<1>6. \A p \in Holders : LeftOf(p) > 0
  BY <1>1 DEF WorkLeft, LeftOf, Holders, Holds
<1>7. /\ proc'[r].memindex # NoPlace
      /\ proc'[r].Remaining_time = proc[r].Remaining_time - 1
  BY <1>3, <1>4
<1>8. Served!Serve(r)
  BY <1>1, <1>3, <1>4, <1>5, <1>6, <1>7, ServedServe
<1> QED BY <1>4, <1>8

LEMMA FinishAndSwitchServes ==
  ASSUME IInv, FinishAndSwitch
  PROVE  \E r \in Procs : Served!Serve(r)
<1>1. PICK f \in Holders, r \in Holders :
        /\ f = curr_Proc /\ r # f /\ proc[f].Remaining_time = 0
        /\ Holders' = Holders \ {f}
        /\ \A p \in Procs :
             /\ proc'[p].memindex = proc[p].memindex
             /\ proc'[p].Remaining_time = proc[p].Remaining_time - IF p = r THEN 1 ELSE 0
  BY FinishAndSwitchTurn
<1>2. \A p \in Holders : p \in Procs /\ proc[p].memindex # NoPlace
  BY DEF Holders, Holds
<1>3. \A p \in Procs : proc[p].Remaining_time \in Int
  BY DEF IInv, SharedInv, SharedTypeOK
<1>4. \A p \in Holders \ {f} : proc[p].Remaining_time > 0
  BY <1>1 DEF IInv, OthersHaveWork
<1>5. phase = "receive" /\ phase' # "receive"
  BY DEF FinishAndSwitch, EndOfProcess, Begin, Turn, EndOfPass
<1>6. \A p \in Procs \ {r} : LeftOf(p)' = LeftOf(p)
  BY <1>1, <1>3 DEF LeftOf
<1>7. \A p \in Holders' : LeftOf(p) > 0
  BY <1>1, <1>2, <1>4 DEF LeftOf
<1>8. LeftOf(f)' = 0
  BY <1>1, <1>2, <1>3 DEF LeftOf
<1>9. /\ proc[r].Remaining_time \in Nat \ {0}
      /\ proc'[r].memindex # NoPlace
      /\ proc'[r].Remaining_time = proc[r].Remaining_time - 1
  BY <1>1, <1>2, <1>3, <1>4
<1>10. Served!Serve(r)
  BY <1>1, <1>5, <1>6, <1>7, <1>8, <1>9, ServedServe
<1> QED BY <1>2, <1>10

LEMMA FinishLastRests ==
  ASSUME IInv, FinishLast
  PROVE  Served!Rest
<1>1. /\ phase = "receive" /\ phase' # "receive" /\ Holders' = {}
      /\ \A p \in Holders : proc[p].Remaining_time = 0
      /\ \A p \in Procs : /\ proc'[p].memindex = proc[p].memindex
                          /\ proc'[p].Remaining_time = proc[p].Remaining_time
  BY FinishLastTurn
<1>2. \A p \in Procs : LeftOf(p)' = LeftOf(p)
  BY <1>1 DEF LeftOf
<1>3. \A p \in Holders : LeftOf(p) = 0
  BY <1>1 DEF LeftOf
<1> QED BY <1>1, <1>2, <1>3, ServedRest

LEMMA IdleRests ==
  ASSUME IInv, Idle
  PROVE  Served!Rest
<1>1. phase = "receive" /\ phase' # "receive" /\ proc' = proc
  BY DEF Idle, Turn, EndOfPass
<1>2. Holders = {}
  <2>1. Holders = Range(<<>>)
    BY DEF Idle, Empty, IInv, NoneLost
  <2> QED BY <2>1, EmptyQueue
<1> QED BY <1>1, <1>2, IdleServes

LEMMA NextServes ==
  ASSUME IInv, [Next]_vars
  PROVE  [Served!ProcessorNext]_(Served!processorVars)
<1>1. CASE Tick /\ UNCHANGED rrVars
  <2>1. Served!Begin
    BY <1>1, TickServes
  <2> QED BY <2>1 DEF Served!ProcessorNext
<1>2. CASE ReceiveProcess
  BY <1>2, ReceiveServes DEF Served!ProcessorNext
<1>3. CASE RefuseProcess
  BY <1>3, RefuseStutters DEF IInv, RefuseProcess
<1>4. CASE GoesOn
  BY <1>4, GoesOnServes DEF Served!ProcessorNext
<1>5. CASE FinishAndSwitch
  BY <1>5, FinishAndSwitchServes DEF Served!ProcessorNext
<1>6. CASE FinishLast
  BY <1>6, FinishLastRests DEF Served!ProcessorNext
<1>7. CASE Idle
  BY <1>7, IdleRests DEF Served!ProcessorNext
<1>8. CASE UNCHANGED vars
  BY <1>8, StutterServes DEF vars, sharedVars
<1> QED BY <1>1, <1>2, <1>3, <1>4, <1>5, <1>6, <1>7, <1>8 DEF Next, Algorithm, GoesOn

\* Round_Robin serves the processes that hold memory as Processor promises:
\* one tick of one of them in every pass while any has work left, none beyond
\* its running time, and whoever used up its time leaves in the next pass,
\* in which another one runs.
THEOREM Refinement == Spec => ImplementsProcessor
<1>1. Init => Served!ProcessorInit
  BY ServedInit DEF Init
<1>2. IInv /\ [Next]_vars => [Served!ProcessorNext]_(Served!processorVars)
  BY NextServes
<1> QED BY <1>1, <1>2, InvariantHolds, PTL DEF Spec, ImplementsProcessor, Served!ProcessorSpec

-----------------------------------------------------------------------------
\* The circular list with its nodes and pointers.

\* The place behind the i-th in a circle of n.
Following(i, n) == IF i = n THEN 1 ELSE i + 1

\* The pointers of r go round s.
Around(r, s) ==
  /\ s = <<>> => r.front = None /\ r.rear = None
  /\ s # <<>> => r.front = s[1] /\ r.rear = s[Len(s)]
  /\ r.Next = [p \in Range(s) |-> r.Next[p]]
  /\ \A i \in 1 .. Len(s) : r.Next[s[i]] = s[Following(i, Len(s))]

LEMMA FollowingInCircle ==
  ASSUME NEW n \in Nat, NEW i \in 1 .. n
  PROVE  Following(i, n) \in 1 .. n
BY DEF Following

\* A node inserted by Insert_Circular_Queue comes behind the rear.
LEMMA InsertedInRing ==
  ASSUME NEW s \in Seq(Procs), IsInjective(s), NEW n \in Procs, n \notin Range(s),
         NEW r, Around(r, s)
  PROVE  Around(InsertCircularQueue(r, n), Append(s, n))
<1> DEFINE t == Append(s, n)
           u == InsertCircularQueue(r, n)
<1>1. /\ t \in Seq(Procs) /\ Len(t) = Len(s) + 1 /\ Len(s) \in Nat
      /\ \A i \in 1 .. Len(s) : t[i] = s[i]
      /\ t[Len(s) + 1] = n
  BY AppendProperties, LenProperties
<1>2. t # <<>> /\ Range(t) = Range(s) \cup {n}
  BY AppendedToQueue
<1>3. DOMAIN r.Next = Range(s)
  BY DEF Around
<1>4. \A i \in 1 .. Len(s) : s[i] \in Procs /\ s[i] # n /\ s[i] \in Range(s)
  BY RangeOfQueue
<1>5. s = <<>> <=> Len(s) = 0
  BY RangeOfQueue
<1>6. None \notin Procs
  BY DEF Procs, None
<1>7. /\ u.front = IF r.front = None THEN n ELSE r.front
      /\ u.rear = n
      /\ u.Next = [m \in Range(s) \cup {n} |->
                     IF m = n THEN u.front ELSE IF m = r.rear THEN n ELSE r.Next[m]]
  BY <1>3 DEF InsertCircularQueue, Live
<1> HIDE DEF t, u
<1>8. u.front = t[1] /\ u.rear = t[Len(t)]
  <2>1. CASE s = <<>>
    BY <1>1, <1>5, <1>7, <2>1 DEF Around
  <2>2. CASE s # <<>>
    <3>1. 1 \in 1 .. Len(s) /\ r.front = s[1]
      BY <1>1, <1>5, <2>2 DEF Around
    <3> QED BY <1>1, <1>4, <1>6, <1>7, <3>1
  <2> QED BY <2>1, <2>2
<1>9. u.Next = [p \in Range(t) |-> u.Next[p]]
  BY <1>2, <1>7
<1>10. ASSUME NEW i \in 1 .. Len(t)
       PROVE  u.Next[t[i]] = t[Following(i, Len(t))]
  <2>1. CASE i = Len(s) + 1
    <3>1. t[i] = n /\ Following(i, Len(t)) = 1
      BY <1>1, <2>1 DEF Following
    <3> QED BY <1>7, <1>8, <3>1
  <2>2. CASE i = Len(s)
    <3>1. i \in 1 .. Len(s) /\ t[i] = s[i] /\ Following(i, Len(t)) = Len(s) + 1
      BY <1>1, <2>2 DEF Following
    <3>2. r.rear = s[i]
      BY <1>1, <1>5, <2>2, <3>1 DEF Around
    <3>3. s[i] # n /\ s[i] \in Range(s)
      BY <1>4, <3>1
    <3>4. u.Next[s[i]] = n
      BY <1>7, <3>2, <3>3
    <3> QED BY <1>1, <3>1, <3>4
  <2>3. CASE i # Len(s) /\ i # Len(s) + 1
    <3>1. /\ i \in 1 .. Len(s) /\ i + 1 \in 1 .. Len(s) /\ Len(s) \in 1 .. Len(s)
          /\ Following(i, Len(t)) = i + 1 /\ Following(i, Len(s)) = i + 1
      BY <1>1, <2>3 DEF Following
    <3>2. t[i] = s[i] /\ t[i + 1] = s[i + 1]
      BY <1>1, <3>1
    <3>3. r.rear = s[Len(s)] /\ s[Len(s)] # s[i]
      BY <1>1, <1>5, <2>3, <3>1 DEF Around, IsInjective
    <3>4. s[i] # n /\ s[i] \in Range(s)
      BY <1>4, <3>1
    <3>5. u.Next[s[i]] = r.Next[s[i]]
      BY <1>7, <3>3, <3>4
    <3>6. r.Next[s[i]] = s[i + 1]
      BY <3>1 DEF Around
    <3> QED BY <3>1, <3>2, <3>5, <3>6
  <2> QED BY <2>1, <2>2, <2>3, <1>1
<1>11. Around(u, t)
  BY <1>2, <1>8, <1>9, <1>10 DEF Around
<1> QED BY <1>11 DEF t, u

\* No node is allocated but those of the queue.
LEMMA RingHasNodesOfQueue ==
  ASSUME NEW s \in Seq(Procs), IsInjective(s), NEW r, Around(r, s)
  PROVE  Cardinality(Live(r)) = Len(s)
<1>1. DOMAIN r.Next = Range(s)
  BY DEF Around
<1>2. DOMAIN s = 1 .. Len(s) /\ Len(s) \in Nat
  BY LenProperties
<1>3. s \in Bijection(1 .. Len(s), Range(s))
  <2>1. s \in [1 .. Len(s) -> Range(s)]
    BY <1>2, RangeOfQueue, SeqDef
  <2>2. \A p \in Range(s) : \E i \in 1 .. Len(s) : s[i] = p
    BY RangeOfQueue
  <2> QED BY <2>1, <2>2 DEF Bijection, Injection, Surjection
<1>4. IsFiniteSet(1 .. Len(s)) /\ Cardinality(1 .. Len(s)) = Len(s)
  BY <1>2, FS_Interval
<1>5. ExistsBijection(1 .. Len(s), Range(s))
  BY <1>3 DEF ExistsBijection
<1>6. Cardinality(Range(s)) = Cardinality(1 .. Len(s))
  BY <1>4, <1>5, FS_Bijection, Zenon
<1> QED BY <1>1, <1>4, <1>6 DEF Live

\* What Met computes: the equation of its recursion, over n nodes.
Search(r, n, node) ==
  node = [k \in 0 .. n |-> IF k = 0 THEN r.front ELSE r.Next[node[k - 1]]]

\* The search meets the queue from front to rear: going round the queue solves
\* the equation, and by the least place at which another solution could differ
\* it is the only one.
LEMMA SearchMeetsQueue ==
  ASSUME NEW s \in Seq(Procs), s # <<>>, IsInjective(s), NEW r, Around(r, s)
  PROVE  \A k \in 0 .. Len(s) - 1 : Met(r)[k] = s[k + 1]
<1> DEFINE n == Len(s)
           round == [k \in 0 .. n |-> s[IF k = n THEN 1 ELSE k + 1]]
           met == CHOOSE node : Search(r, n, node)
<1>1. n \in Nat /\ n # 0
  BY LenProperties, RangeOfQueue
<1>2. Met(r) = met
  BY RingHasNodesOfQueue DEF Met, Search
<1> HIDE DEF n
<1>3. Search(r, n, round)
  <2>1. ASSUME NEW k \in 0 .. n
        PROVE  round[k] = IF k = 0 THEN r.front ELSE r.Next[round[k - 1]]
    <3>1. CASE k = 0
      BY <1>1, <3>1 DEF Around, n
    <3>2. CASE k # 0
      <4>1. k - 1 \in 0 .. n /\ k \in 1 .. n /\ round[k - 1] = s[k]
        BY <1>1, <3>2
      <4>2. r.Next[s[k]] = s[Following(k, n)]
        BY <4>1 DEF Around, n
      <4>3. round[k] = s[Following(k, n)]
        BY <4>1 DEF Following
      <4> QED BY <3>2, <4>1, <4>2, <4>3
    <3> QED BY <3>1, <3>2
  <2>2. round = [k \in 0 .. n |-> IF k = 0 THEN r.front ELSE r.Next[round[k - 1]]]
    BY <2>1
  <2> QED BY <2>2 DEF Search
<1>4. Search(r, n, met)
  BY <1>3
<1> HIDE DEF met
<1>5. \A k \in 0 .. n : met[k] = IF k = 0 THEN r.front ELSE r.Next[met[k - 1]]
  BY <1>4 DEF Search
<1>6. \A k \in 0 .. n : round[k] = IF k = 0 THEN r.front ELSE r.Next[round[k - 1]]
  <2> HIDE DEF round
  <2> QED BY <1>3 DEF Search
<1>7. \A k \in 0 .. n - 1 : round[k] = s[k + 1]
  BY <1>1
<1> HIDE DEF round
<1> DEFINE wrong == {k \in 0 .. n : met[k] # round[k]}
<1>8. ASSUME wrong # {} PROVE FALSE
  <2>1. wrong \subseteq Nat
    BY <1>1
  <2>2. PICK k \in wrong : \A l \in wrong : k <= l
    BY <1>8, <2>1, MinIsLeast
  <2>3. k # 0 /\ k \in 0 .. n
    BY <1>1, <1>5, <1>6, <2>2
  <2>4. k - 1 \in 0 .. n /\ ~(k <= k - 1)
    BY <1>1, <2>3
  <2>5. met[k - 1] = round[k - 1]
    BY <2>2, <2>4
  <2> QED BY <1>5, <1>6, <2>2, <2>3, <2>5
<1>9. \A k \in 0 .. n - 1 : k \in 0 .. n
  BY <1>1
<1> QED BY <1>2, <1>7, <1>8, <1>9 DEF n

\* A ring that is not empty has its front and rear, and each node once.
LEMMA EndsOfRing ==
  ASSUME NEW s \in Seq(Procs), s # <<>>, IsInjective(s), NEW r, Around(r, s)
  PROVE  /\ r.front = s[1] /\ r.rear = s[Len(s)] /\ r.front # None
         /\ DOMAIN r.Next = Range(s)
         /\ \A i \in 1 .. Len(s) : s[i] \in Range(s)
         /\ \A i, j \in 1 .. Len(s) : s[i] = s[j] => i = j
<1>1. Len(s) \in Nat /\ Len(s) # 0
  BY LenProperties, RangeOfQueue
<1>2. r.front = s[1] /\ r.rear = s[Len(s)] /\ DOMAIN r.Next = Range(s)
  BY DEF Around
<1>3. \A i \in 1 .. Len(s) : s[i] \in Range(s) /\ s[i] \in Procs
  BY RangeOfQueue
<1>4. 1 \in 1 .. Len(s) /\ None \notin Procs
  BY <1>1 DEF Procs, None
<1> QED BY <1>2, <1>3, <1>4 DEF IsInjective

\* free(front) leaves the rest of the queue, rear pointing to the new front.
LEMMA FrontRemovedFromRing ==
  ASSUME NEW s \in Seq(Procs), Len(s) > 1, IsInjective(s), NEW r, Around(r, s)
  PROVE  Around(RemoveFront(r), RemoveAt(s, 1))
<1> DEFINE n == Len(s)
           t == RemoveAt(s, 1)
           u == RemoveFront(r)
<1>1. n \in Nat /\ n > 1 /\ s # <<>>
  BY LenProperties, RangeOfQueue
<1>2. /\ r.front = s[1] /\ r.rear = s[n] /\ DOMAIN r.Next = Range(s)
      /\ \A i \in 1 .. n : s[i] \in Range(s)
      /\ \A i, j \in 1 .. n : s[i] = s[j] => i = j
  BY <1>1, EndsOfRing
<1>3. \A i \in 1 .. n : r.Next[s[i]] = s[Following(i, n)]
  BY DEF Around
<1>4. /\ t \in Seq(Procs) /\ Len(t) = n - 1
      /\ \A j \in 1 .. n - 1 : t[j] = s[j + 1]
  <2>1. 1 \in 1 .. n
    BY <1>1
  <2>2. /\ t \in Seq(Procs) /\ Len(t) = n - 1
        /\ \A j \in 1 .. n - 1 : t[j] = s[IF j < 1 THEN j ELSE j + 1]
    BY <2>1, ElementsOfRemoved
  <2> HIDE DEF t, n
  <2>3. \A j \in 1 .. n - 1 : (IF j < 1 THEN j ELSE j + 1) = j + 1
    BY <1>1
  <2> QED BY <2>2, <2>3
<1>5. Range(t) = Range(s) \ {s[1]}
  BY <1>1, RemovedFromQueue
<1>6. r.Next[s[1]] = s[2]
  BY <1>1, <1>3 DEF Following
<1>7. /\ u.front = s[2] /\ u.rear = s[n]
      /\ u.Next = [m \in Range(t) |-> [r.Next EXCEPT ![s[n]] = s[2]][m]]
  <2>1. DOMAIN [r.Next EXCEPT ![r.rear] = s[2]] = Range(s)
    BY <1>2
  <2> HIDE DEF t, n
  <2> QED BY <1>2, <1>5, <1>6, <2>1 DEF RemoveFront, FreeNode, Restrict
<1> HIDE DEF t, u, n
<1>8. t # <<>> /\ t[1] = s[2] /\ t[n - 1] = s[n]
  BY <1>1, <1>4, RangeOfQueue
<1>9. u.Next = [m \in Range(t) |-> u.Next[m]]
  BY <1>7
<1>10. \A j \in 1 .. n - 1 : t[j] \in Range(t) /\ t[j] \in Range(s)
  BY <1>4, <1>5, RangeOfQueue
<1>11. ASSUME NEW j \in 1 .. n - 1
       PROVE  u.Next[t[j]] = t[Following(j, n - 1)]
  <2>1. CASE j = n - 1
    <3>1. u.Next[s[n]] = s[2]
      BY <1>1, <1>2, <1>7, <1>8, <1>10, <2>1
    <3>2. Following(j, n - 1) = 1
      BY <2>1 DEF Following
    <3> QED BY <1>8, <2>1, <3>1, <3>2
  <2>2. CASE j # n - 1
    <3>1. /\ j + 1 \in 1 .. n - 1 /\ j + 1 \in 1 .. n /\ n \in 1 .. n /\ j + 1 # n
          /\ Following(j, n - 1) = j + 1 /\ Following(j + 1, n) = j + 1 + 1
      BY <1>1, <2>2 DEF Following
    <3>2. t[j] = s[j + 1] /\ t[j + 1] = s[j + 1 + 1] /\ s[j + 1] # s[n]
      BY <1>2, <1>4, <3>1
    <3>3. u.Next[t[j]] = r.Next[s[j + 1]]
      BY <1>2, <1>7, <1>10, <3>2
    <3> QED BY <1>3, <3>1, <3>2, <3>3
  <2> QED BY <2>1, <2>2
<1>12. Around(u, t)
  BY <1>4, <1>7, <1>8, <1>9, <1>11 DEF Around
<1> QED BY <1>12 DEF t, u

\* So does taking out any other node, rear moving back if it was the last.
LEMMA OthersRemovedFromRing ==
  ASSUME NEW s \in Seq(Procs), IsInjective(s), NEW i \in 2 .. Len(s), NEW r, Around(r, s)
  PROVE  Around(RemoveBehind(r, i - 1), RemoveAt(s, i))
<1> DEFINE n == Len(s)
           t == RemoveAt(s, i)
           u == RemoveBehind(r, i - 1)
<1>1. n \in Nat /\ n > 1 /\ s # <<>> /\ i \in 1 .. n /\ i - 1 \in 1 .. n /\ i # 1
  BY LenProperties, RangeOfQueue
<1>2. /\ r.front = s[1] /\ r.rear = s[n] /\ DOMAIN r.Next = Range(s)
      /\ \A k \in 1 .. n : s[k] \in Range(s)
      /\ \A k, j \in 1 .. n : s[k] = s[j] => k = j
  BY <1>1, EndsOfRing
<1>3. \A k \in 1 .. n : r.Next[s[k]] = s[Following(k, n)]
  BY DEF Around
<1>4. /\ t \in Seq(Procs) /\ Len(t) = n - 1
      /\ \A j \in 1 .. n - 1 : t[j] = s[IF j < i THEN j ELSE j + 1]
  BY <1>1, ElementsOfRemoved
<1>5. Range(t) = Range(s) \ {s[i]}
  BY <1>1, RemovedFromQueue
<1>6. Met(r)[i - 1] = s[i] /\ Met(r)[i - 1 - 1] = s[i - 1]
  <2>1. \A k \in 0 .. n - 1 : Met(r)[k] = s[k + 1]
    BY <1>1, SearchMeetsQueue
  <2> HIDE DEF n
  <2>2. /\ i - 1 \in 0 .. n - 1 /\ i - 1 - 1 \in 0 .. n - 1
        /\ i - 1 + 1 = i /\ i - 1 - 1 + 1 = i - 1
    BY <1>1
  <2> QED BY <2>1, <2>2
<1>7. /\ u.front = s[1] /\ u.rear = IF s[i] = s[n] THEN s[i - 1] ELSE s[n]
      /\ u.Next = [m \in Range(t) |-> [r.Next EXCEPT ![s[i - 1]] = s[Following(i, n)]][m]]
  <2>1. DOMAIN [r.Next EXCEPT ![s[i - 1]] = r.Next[s[i]]] = Range(s)
    BY <1>2
  <2>2. r.Next[s[i]] = s[Following(i, n)]
    BY <1>1, <1>3
  <2> HIDE DEF t, n
  <2> QED BY <1>2, <1>5, <1>6, <2>1, <2>2 DEF RemoveBehind, FreeNode, Restrict
<1> HIDE DEF t, u, n
<1>8. t # <<>> /\ t[1] = s[1] /\ u.rear = t[n - 1]
  <2>1. t # <<>>
    BY <1>1, <1>4, RangeOfQueue
  <2>2. t[1] = s[1]
    BY <1>1, <1>4
  <2>3. CASE i = n
    BY <1>1, <1>4, <1>7, <2>3
  <2>4. CASE i # n
    <3>1. s[i] # s[n] /\ n - 1 \in 1 .. n - 1 /\ ~(n - 1 < i) /\ n - 1 + 1 = n
      BY <1>1, <1>2, <2>4
    <3> QED BY <1>4, <1>7, <3>1
  <2> QED BY <2>1, <2>2, <2>3, <2>4
<1>9. u.Next = [m \in Range(t) |-> u.Next[m]]
  BY <1>7
<1>10. \A j \in 1 .. n - 1 : t[j] \in Range(t) /\ t[j] \in Range(s)
  BY <1>4, <1>5, RangeOfQueue
<1>11. ASSUME NEW j \in 1 .. n - 1
       PROVE  u.Next[t[j]] = t[Following(j, n - 1)]
  <2>1. CASE j = i - 1
    <3>1. t[j] = s[i - 1]
      BY <1>1, <1>4, <2>1
    <3>2. u.Next[t[j]] = s[Following(i, n)]
      BY <1>2, <1>7, <1>10, <3>1
    <3>3. CASE i = n
      BY <1>1, <1>8, <2>1, <3>2, <3>3 DEF Following
    <3>4. CASE i # n
      <4>1. /\ Following(i, n) = i + 1 /\ Following(j, n - 1) = i /\ i \in 1 .. n - 1
            /\ ~(i < i)
        BY <1>1, <2>1, <3>4 DEF Following
      <4>2. t[i] = s[i + 1]
        BY <1>4, <4>1
      <4> QED BY <3>2, <4>1, <4>2
    <3> QED BY <3>3, <3>4
  <2>2. CASE j < i - 1
    <3>1. /\ j \in 1 .. n /\ j # i - 1 /\ j + 1 \in 1 .. n - 1 /\ j < i /\ j + 1 < i
          /\ Following(j, n - 1) = j + 1 /\ Following(j, n) = j + 1
      BY <1>1, <2>2 DEF Following
    <3>2. t[j] = s[j] /\ t[j + 1] = s[j + 1] /\ s[j] # s[i - 1]
      BY <1>1, <1>2, <1>4, <3>1
    <3>3. u.Next[t[j]] = r.Next[s[j]]
      BY <1>2, <1>7, <1>10, <3>2
    <3> QED BY <1>3, <3>1, <3>2, <3>3
  <2>3. CASE j > i - 1
    <3>1. j + 1 \in 1 .. n /\ j + 1 # i - 1 /\ ~(j < i)
      BY <1>1, <2>3
    <3>2. t[j] = s[j + 1] /\ s[j + 1] # s[i - 1]
      BY <1>1, <1>2, <1>4, <3>1
    <3>3. u.Next[t[j]] = r.Next[s[j + 1]]
      BY <1>2, <1>7, <1>10, <3>2
    <3>4. CASE j = n - 1
      BY <1>1, <1>3, <1>8, <3>1, <3>3, <3>4 DEF Following
    <3>5. CASE j # n - 1
      <4>1. /\ j + 1 \in 1 .. n - 1 /\ ~(j + 1 < i)
            /\ Following(j, n - 1) = j + 1 /\ Following(j + 1, n) = j + 1 + 1
        BY <1>1, <2>3, <3>5 DEF Following
      <4>2. t[j + 1] = s[j + 1 + 1]
        BY <1>4, <4>1
      <4> QED BY <1>3, <3>1, <3>3, <4>1, <4>2
    <3> QED BY <3>4, <3>5
  <2> QED BY <1>1, <2>1, <2>2, <2>3
<1>12. Around(u, t)
  BY <1>4, <1>7, <1>8, <1>9, <1>11 DEF Around
<1> QED BY <1>12 DEF t, u

\* remove_From_Circular takes the node it is asked for out of the ring.
LEMMA RemovedFromRing ==
  ASSUME NEW s \in Seq(Procs), IsInjective(s), NEW i \in 1 .. Len(s), NEW r, Around(r, s)
  PROVE  Around(RemoveFromCircular(r, s[i]), RemoveAt(s, i))
<1>1. Len(s) \in Nat /\ s # <<>> /\ 1 \in 1 .. Len(s) /\ Len(s) \in 1 .. Len(s)
  BY LenProperties, RangeOfQueue
<1>2. /\ r.front = s[1] /\ r.rear = s[Len(s)] /\ r.front # None
      /\ \A k, j \in 1 .. Len(s) : s[k] = s[j] => k = j
  BY <1>1, EndsOfRing
<1>3. CASE Len(s) = 1
  <2>1. RemoveFromCircular(r, s[i]) = NoRing
    <3>1. i = 1 /\ r.front = s[i] /\ r.front = r.rear
      BY <1>1, <1>2, <1>3
    <3> QED BY <1>2, <3>1 DEF RemoveFromCircular
  <2>2. RemoveAt(s, i) = <<>>
    <3>1. PICK t \in Seq(Procs) : t = RemoveAt(s, i) /\ Len(t) = Len(s) - 1
      BY ElementsOfRemoved
    <3>2. Len(t) = 0
      BY <1>3, <3>1
    <3> QED BY <3>1, <3>2, RangeOfQueue
  <2>3. Around(NoRing, <<>>)
    <3>1. Range(<<>>) = {} /\ Len(<<>>) = 0
      BY EmptyQueue
    <3> QED BY <3>1 DEF Around, NoRing
  <2> QED BY <2>1, <2>2, <2>3
<1>4. CASE Len(s) # 1 /\ i = 1
  <2>1. Len(s) > 1 /\ r.front = s[i] /\ r.front # r.rear
    <3>1. Len(s) > 1 /\ 1 # Len(s)
      <4>1. PICK n \in Nat : n = Len(s)
        BY <1>1
      <4>2. n # 0 /\ n # 1
        BY <1>1, <1>4, <4>1, RangeOfQueue
      <4>3. n > 1 /\ 1 # n
        BY <4>2
      <4> QED BY <4>1, <4>3
    <3>2. s[1] # s[Len(s)]
      BY <1>1, <1>2, <3>1
    <3>3. s[1] = s[i]
      BY <1>4
    <3> QED BY <1>2, <3>1, <3>2, <3>3
  <2>2. RemoveFromCircular(r, s[i]) = RemoveFront(r)
    BY <1>2, <2>1 DEF RemoveFromCircular
  <2> QED BY <1>4, <2>1, <2>2, FrontRemovedFromRing
<1>5. CASE i # 1
  <2> DEFINE found == {k \in 1 .. Len(s) - 1 : Met(r)[k] = s[i]}
  <2>1. i \in 2 .. Len(s) /\ r.front # s[i]
    BY <1>1, <1>2, <1>5
  <2>2. \A k \in 1 .. Len(s) - 1 : Met(r)[k] = s[k + 1] /\ k + 1 \in 1 .. Len(s)
    <3>1. \A k \in 0 .. Len(s) - 1 : Met(r)[k] = s[k + 1]
      BY <1>1, SearchMeetsQueue
    <3> QED BY <1>1, <3>1
  <2>3. \A k \in 1 .. Len(s) - 1 : k \in found <=> k = i - 1
    <3>1. ASSUME NEW k \in 1 .. Len(s) - 1 PROVE s[k + 1] = s[i] <=> k = i - 1
      BY <1>1, <1>2, <2>1
    <3> QED BY <2>2, <3>1
  <2>4. found = {i - 1}
    <3>1. i - 1 \in 1 .. Len(s) - 1 /\ found \subseteq 1 .. Len(s) - 1
      BY <1>1, <2>1
    <3> HIDE DEF found
    <3> QED BY <2>3, <3>1
  <2>5. Min({i - 1}) = i - 1
    <3>1. {i - 1} \subseteq Nat /\ {i - 1} # {}
      BY <2>1
    <3> QED BY <3>1, MinIsLeast
  <2>6. Cardinality(Live(r)) = Len(s)
    BY RingHasNodesOfQueue
  <2>7. RemoveFromCircular(r, s[i]) =
          IF found = {} THEN r ELSE RemoveBehind(r, Min(found))
    BY <1>2, <2>1, <2>6 DEF RemoveFromCircular
  <2> HIDE DEF found
  <2>8. RemoveFromCircular(r, s[i]) = RemoveBehind(r, i - 1)
    BY <2>4, <2>5, <2>7
  <2> QED BY <2>1, <2>8, OthersRemovedFromRing
<1> QED BY <1>3, <1>4, <1>5

-----------------------------------------------------------------------------
\* At all times the pointers go round the queue.
RingInv == Around(ring, circular_Queue_RR)

LEMMA InitRing == LinkedInit => RingInv
<1> SUFFICES ASSUME LinkedInit PROVE RingInv
  OBVIOUS
<1>1. ring = NoRing /\ circular_Queue_RR = <<>>
  BY DEF LinkedInit, Init
<1>2. Range(<<>>) = {} /\ Len(<<>>) = 0
  BY EmptyQueue
<1> QED BY <1>1, <1>2 DEF RingInv, Around, NoRing

\* A newcomer has no node in the ring yet.
LEMMA ReceiveRing ==
  ASSUME IInv, RingInv, ReceiveAndLink
  PROVE  RingInv'
<1>1. /\ received + 1 \in Procs /\ received + 1 \notin Range(circular_Queue_RR)
      /\ circular_Queue_RR' = Append(circular_Queue_RR, received + 1)
  <2>1. ReceiveProcess
    BY DEF ReceiveAndLink
  <2>2. PICK n \in Messages :
          /\ Accept(n)
          /\ proc' = [proc EXCEPT ![received + 1] = n]
          /\ circular_Queue_RR' = Append(circular_Queue_RR, received + 1)
    BY <2>1 DEF ReceiveProcess
  <2>3. PICK r : r = received + 1
    OBVIOUS
  <2>4. /\ r \in Procs /\ proc' \in [Procs -> ProcessRecords] /\ proc'[r] = n
        /\ \A p \in Procs \ {r} : proc'[p] = proc[p] /\ SameMemory(p)
    BY <2>2, <2>3, ReceivedRecords DEF IInv, Accept
  <2>5. r \notin Holders
    BY <2>2, <2>3, <2>4, AcceptInv DEF IInv
  <2> QED BY <2>2, <2>3, <2>4, <2>5 DEF IInv, NoneLost
<1>2. Around(InsertCircularQueue(ring, received + 1), Append(circular_Queue_RR, received + 1))
  BY <1>1, InsertedInRing DEF IInv, TypeOK, NoneLost, RingInv
<1>3. ring' = InsertCircularQueue(ring, received + 1)
  BY DEF ReceiveAndLink
<1> QED BY <1>1, <1>2, <1>3 DEF RingInv

\* A process that finished is in the ring, where Position says.
LEMMA FinishRing ==
  ASSUME IInv, RingInv, FinishAndUnlink
  PROVE  RingInv'
<1> DEFINE i == Position(curr_Proc)
<1>1. /\ ~Empty /\ ring' = RemoveFromCircular(ring, curr_Proc)
      /\ \/ circular_Queue_RR' = RemoveAt(circular_Queue_RR, i)
         \/ Alone /\ circular_Queue_RR' = <<>>
  BY DEF FinishAndUnlink, FinishAndSwitch, FinishLast, EndOfProcess, Begin, Run
<1>2. i \in 1 .. Len(circular_Queue_RR) /\ circular_Queue_RR[i] = curr_Proc
  BY <1>1, SuccessorInQueue
<1> HIDE DEF i
<1>3. circular_Queue_RR \in Seq(Procs) /\ IsInjective(circular_Queue_RR)
  BY DEF IInv, TypeOK, NoneLost
<1>4. Around(RemoveFromCircular(ring, curr_Proc), RemoveAt(circular_Queue_RR, i))
  BY <1>2, <1>3, RemovedFromRing DEF RingInv
<1>5. Alone => RemoveAt(circular_Queue_RR, i) = <<>>
  <2>1. SUFFICES ASSUME Alone PROVE RemoveAt(circular_Queue_RR, i) = <<>>
    OBVIOUS
  <2>2. PICK t \in Seq(Procs) : /\ t = RemoveAt(circular_Queue_RR, i)
                                /\ Len(t) = Len(circular_Queue_RR) - 1
    BY <1>2, <1>3, ElementsOfRemoved
  <2>3. Len(t) = 0
    BY <2>1, <2>2 DEF Alone
  <2> QED BY <2>2, <2>3, RangeOfQueue
<1> QED BY <1>1, <1>4, <1>5 DEF RingInv

LEMMA NextRing ==
  ASSUME IInv, RingInv, [LinkedNext]_linkedVars
  PROVE  RingInv'
<1>1. CASE ReceiveAndLink
  BY <1>1, ReceiveRing
<1>2. CASE FinishAndUnlink
  BY <1>2, FinishRing
<1>3. CASE Traverse
  <2>1. circular_Queue_RR' = circular_Queue_RR /\ ring' = ring
    BY <1>3 DEF Traverse, rrVars, RefuseProcess, KeepRunning, KeepAlone, Switch, Idle, Run
  <2> QED BY <2>1 DEF RingInv
<1>4. CASE UNCHANGED linkedVars
  <2>1. circular_Queue_RR' = circular_Queue_RR /\ ring' = ring
    BY <1>4 DEF linkedVars, vars, rrVars
  <2> QED BY <2>1 DEF RingInv
<1> QED BY <1>1, <1>2, <1>3, <1>4 DEF LinkedNext

\* With its pointers forgotten, a step is one of round robin.
LEMMA LinkedStep == [LinkedNext]_linkedVars => [Next]_vars
<1>1. ReceiveAndLink => Next
  BY DEF ReceiveAndLink, Next
<1>2. FinishAndUnlink => Next
  BY DEF FinishAndUnlink, Next, Algorithm
<1>3. Traverse => Next
  BY DEF Traverse, Next, Algorithm
<1>4. UNCHANGED linkedVars => UNCHANGED vars
  BY DEF linkedVars
<1> QED BY <1>1, <1>2, <1>3, <1>4 DEF LinkedNext

\* The pointers go where Successor says.
LEMMA AroundIsQueue ==
  ASSUME IInv, RingInv
  PROVE  RingIsQueue
<1> DEFINE s == circular_Queue_RR
<1>1. s \in Seq(Procs) /\ IsInjective(s) /\ Len(s) \in Nat
  BY LenProperties DEF IInv, TypeOK, NoneLost
<1>2. IF Empty THEN ring.front = None /\ ring.rear = None
      ELSE ring.front = Head(s) /\ ring.rear = Last(s)
  <2>1. s # <<>> => Head(s) = s[1]
    BY <1>1, HeadTailProperties
  <2> QED BY <2>1 DEF RingInv, Around, Empty, Last
<1>3. ASSUME NEW p \in Range(s) PROVE ring.Next[p] = Successor(p)
  <2>1. PICK i \in 1 .. Len(s) : s[i] = p
    BY <1>1, RangeOfQueue
  <2>2. Position(p) \in 1 .. Len(s) /\ s[Position(p)] = p
    BY <2>1 DEF Position
  <2>3. Position(p) = i
    BY <1>1, <2>1, <2>2 DEF IsInjective
  <2>4. ring.Next[s[i]] = s[Following(i, Len(s))]
    BY <2>1 DEF RingInv, Around
  <2> QED BY <2>1, <2>3, <2>4 DEF Successor, Following
<1>4. ring.Next = [p \in Range(s) |-> ring.Next[p]]
  BY DEF RingInv, Around
<1>5. ring.Next = [p \in Range(s) |-> Successor(p)]
  BY <1>3, <1>4
<1> QED BY <1>2, <1>5 DEF RingIsQueue

\* The ring implements round robin over its queue: what is proved of Spec
\* holds of the program with its pointers.
THEOREM RingImplementsQueue == LinkedSpec => Spec
BY LinkedStep, PTL DEF LinkedSpec, LinkedInit, Spec

\* The pointers of the circular list go round exactly the queue, after every
\* insertion behind rear and every removal at front, at rear or in between:
\* no node is leaked, none is freed while a pointer leads to it, and neither
\* a process nor its memory is lost.
THEOREM RingGoesRound == LinkedSpec => []NothingLostOnRing
<1>1. LinkedInit => IInv /\ RingInv
  BY InitIInv, InitRing DEF LinkedInit
<1>2. IInv /\ RingInv /\ [LinkedNext]_linkedVars => IInv' /\ RingInv'
  BY LinkedStep, NextIInv, NextRing
<1>3. IInv /\ RingInv => NothingLostOnRing
  <2>1. IInv => NothingLost
    BY DEF IInv, SharedInv, NothingLost
  <2> QED BY <2>1, AroundIsQueue DEF NothingLostOnRing
<1> QED BY <1>1, <1>2, <1>3, PTL DEF LinkedSpec

-----------------------------------------------------------------------------
\* The composition.  Whatever the clock, the generator and the programs do, the
\* scheduler's own steps are those of RoundRobin, so that all of the theorems
\* above hold of it when it gets its inputs from actors and not from a set.
LEMMA SystemStep == [SystemNext]_systemVars => [Next]_vars
<1> SUFFICES ASSUME [SystemNext]_systemVars PROVE [Next]_vars
  OBVIOUS
<1>1. CASE Pass
  BY <1>1 DEF Pass, Next
<1>2. CASE Reception
  BY <1>2 DEF Reception, Next
<1>3. CASE Turns
  BY <1>3 DEF Turns, Next
<1>4. CASE Second
  BY <1>4 DEF Second
<1>5. CASE GeneratorStep
  BY <1>5 DEF GeneratorStep
<1>6. ASSUME NEW p \in Procs, ProgramStep(p) PROVE UNCHANGED vars
  BY <1>6 DEF ProgramStep
<1>7. CASE UNCHANGED systemVars
  BY <1>7 DEF systemVars
<1> QED BY <1>1, <1>2, <1>3, <1>4, <1>5, <1>6, <1>7 DEF SystemNext, SchedulerStep

\* A clock, a generator and programs that step on their own only choose among the
\* inputs that RoundRobin allows: the scheduler of the composition is the one that
\* the theorems on RoundRobin are about.
THEOREM SystemIsRoundRobin == SystemSpec => Spec
<1>1. SystemInit => Init
  BY DEF SystemInit
<1> QED BY <1>1, SystemStep, PTL DEF SystemSpec, Spec

LEMMA SystemInvariant == SystemSpec => []IInv
BY SystemIsRoundRobin, InvariantHolds, PTL

-----------------------------------------------------------------------------
\* The scheduler's steps as the other actors see them.

\* The clock is read.
LEMMA PassReads ==
  ASSUME IInv, Pass
  PROVE  /\ phase = "poll" /\ phase' = "receive" /\ follow' = clk
         /\ \E gap \in 1 .. MaxMissed + 1 - missed :
              follow' = follow + gap /\ missed' = missed + gap - 1
         /\ UNCHANGED <<received, proc, ups, curr_Proc>>
         /\ UNCHANGED <<clk, file, pg_follow, curr, skips, msg_queue>>
         /\ UNCHANGED <<prog, sem, remainingtime, seen>>
         /\ ProgramsReady
<1>1. Tick /\ ProgramsReady /\ ReadClock /\ UNCHANGED <<rrVars, programVars>>
  BY DEF Pass
<1>2. /\ phase = "poll" /\ phase' = "receive"
      /\ \E gap \in 1 .. MaxMissed + 1 - missed :
           follow' = follow + gap /\ missed' = missed + gap - 1
      /\ UNCHANGED <<received, proc, ups>>
  BY <1>1 DEF Tick, files
<1> QED BY <1>1, <1>2 DEF ReadClock, feedVars, programVars, rrVars

\* A process is received, with memory or without.
LEMMA ReceptionReceives ==
  ASSUME IInv, ReceiveProcess \/ RefuseProcess, NEW s, s = received + 1
  PROVE  /\ s \in Procs /\ received' = s /\ phase = "receive"
         /\ UNCHANGED <<follow, phase, missed, ups>>
         /\ proc'[s].Running_time \in Nat \ {0}
         /\ proc'[s].Remaining_time = proc'[s].Running_time
         /\ proc'[s].State # "FINISHED" /\ proc'[s].Arrival_time \in Int
         /\ \A p \in Procs \ {s} : proc'[p] = proc[p] /\ (p = curr_Proc' <=> p = curr_Proc)
<1>1. PICK n \in Messages :
        /\ Receive(n)
        /\ proc' = [proc EXCEPT ![received + 1] = n]
        /\ curr_Proc' = curr_Proc \/ (Empty /\ curr_Proc' = received + 1)
  BY DEF ReceiveProcess, RefuseProcess, Refuse, Accept, rrVars
<1>2. /\ s \in Procs /\ received' = s /\ proc'[s] = n
      /\ \A p \in Procs \ {s} : proc'[p] = proc[p]
  BY <1>1, ReceivedRecords DEF IInv
<1>3. phase = "receive" /\ UNCHANGED <<follow, phase, missed, ups>>
  BY <1>1 DEF Receive, files
<1>4. /\ n.State = "STOPPED" /\ n.Running_time \in RunTimes
      /\ n.Remaining_time = n.Running_time /\ n.Arrival_time \in Int
  BY MessageTypes DEF IInv, SharedInv
<1>5. n.Running_time \in Nat \ {0}
  BY <1>4, RunTimesAssumption
<1>6. \A p \in Procs \ {s} : p = curr_Proc' <=> p = curr_Proc
  <2>1. CASE curr_Proc' = curr_Proc
    BY <2>1
  <2>2. CASE Empty /\ curr_Proc' = received + 1
    <3>1. curr_Proc = None /\ None \notin Procs
      BY <2>2 DEF IInv, NoneLost, None, Procs
    <3> QED BY <2>2, <3>1
  <2> QED BY <1>1, <2>1, <2>2
<1> QED BY <1>2, <1>3, <1>4, <1>5, <1>6

\* A turn: up() goes to the process that was the current one, the tick is run by
\* the one that is now, and those in F, who have no work left, are ended.
Turned(F) ==
  /\ phase' # "receive" /\ UNCHANGED <<follow, received, missed>>
  /\ \A p \in Procs :
       /\ ups'[p] = ups[p] + IF p = curr_Proc THEN 1 ELSE 0
       /\ proc'[p].Arrival_time = proc[p].Arrival_time
       /\ proc'[p].Running_time = proc[p].Running_time
       /\ proc'[p].Remaining_time = proc[p].Remaining_time - IF p = curr_Proc' THEN 1 ELSE 0
       /\ proc'[p].State = "FINISHED" <=> p \in F \/ proc[p].State = "FINISHED"
  /\ \A p \in F : proc[p].Remaining_time = 0 /\ p # curr_Proc'
  /\ curr_Proc' \in Holders \cup {None}

LEMMA AlgorithmTurns ==
  ASSUME IInv, Algorithm
  PROVE  \E F : Turned(F)
<1>1. EndOfPass
  BY DEF Algorithm, KeepRunning, KeepAlone, Switch, FinishAndSwitch, FinishLast, Idle
<1>2. phase' # "receive" /\ UNCHANGED <<follow, received, missed>>
  BY <1>1 DEF EndOfPass, history
<1>3. ups \in [Procs -> Nat] /\ \A p \in Procs : proc[p].Remaining_time \in Int
  BY DEF IInv, SharedInv, SharedTypeOK
<1>4. ASSUME Begin
      PROVE  \A p \in Procs : ups'[p] = ups[p] + IF p = curr_Proc THEN 1 ELSE 0
  BY <1>3, <1>4 DEF Begin, Up
<1>5. CASE GoesOn
  <2>1. PICK F : F = {}
    OBVIOUS
  <2>2. PICK r \in Holders : ChargedAll(r, F) /\ curr_Proc' = r
    BY <1>5, <2>1, GoesOnCharges
  <2>3. Begin
    BY <1>5 DEF GoesOn, KeepRunning, KeepAlone, Switch
  <2> QED BY <1>2, <1>4, <2>1, <2>2, <2>3 DEF ChargedAll, Turned
<1>6. CASE FinishAndSwitch
  <2>1. PICK f, F : f = curr_Proc /\ F = {f}
    OBVIOUS
  <2>2. PICK r \in Holders \ {f} : ChargedAll(r, F) /\ curr_Proc' = r
    BY <1>6, <2>1, FinishAndSwitchCharges
  <2>3. Begin /\ proc[f].Remaining_time = 0
    BY <1>6, <2>1 DEF FinishAndSwitch, EndOfProcess
  <2> QED BY <1>2, <1>4, <2>1, <2>2, <2>3 DEF ChargedAll, Turned
<1>7. CASE FinishLast
  <2>1. PICK f, F, r : f = curr_Proc /\ F = {f} /\ r = None
    OBVIOUS
  <2>2. ChargedAll(r, F)
    BY <1>7, <2>1, FinishLastCharges
  <2>3. Begin /\ proc[f].Remaining_time = 0 /\ curr_Proc' = r
    BY <1>7, <2>1 DEF FinishLast, EndOfProcess
  <2>4. f # r
    BY <1>7, <2>1, EndOfProcessTurn DEF FinishLast, Procs, None
  <2> QED BY <1>2, <1>4, <2>1, <2>2, <2>3, <2>4 DEF ChargedAll, Turned
<1>8. CASE Idle
  <2>1. /\ proc' = proc /\ ups' = ups /\ curr_Proc' = curr_Proc /\ curr_Proc = None
    BY <1>8 DEF Idle, files, rrVars, IInv, NoneLost
  <2>2. \A p \in Procs : p # None
    BY DEF Procs, None
  <2>3. \A p \in Procs : /\ ups'[p] = ups[p] + 0
                         /\ proc'[p].Remaining_time = proc[p].Remaining_time - 0
    BY <1>3, <2>1
  <2>4. Turned({})
    BY <1>2, <2>1, <2>2, <2>3 DEF Turned
  <2> QED BY <2>4
<1> QED BY <1>5, <1>6, <1>7, <1>8 DEF Algorithm, GoesOn

-----------------------------------------------------------------------------
\* The generator and the message queue.

\* The queue has the processes that were sent and not received, in the order of
\* the file, and a record has the arrival time of the file.
FeedInv ==
  /\ clk \in Nat /\ pg_follow \in Nat /\ skips \in BOOLEAN
  /\ file \in Files
  /\ curr \in 1 .. Count_OF_Processes + 1 /\ received \in 0 .. curr - 1
  /\ msg_queue \in Seq(Procs) /\ Len(msg_queue) = curr - 1 - received
  /\ \A i \in 1 .. Len(msg_queue) : msg_queue[i] = received + i
  /\ \A p \in 1 .. received : proc[p].Arrival_time = file[p].Arrival_time

LEMMA FileTypes ==
  ASSUME file \in Files
  PROVE  /\ file \in [Procs -> Entries]
         /\ \A p \in Procs : file[p].Arrival_time \in Nat
         /\ \A p, x \in Procs : p < x => file[p].Arrival_time <= file[x].Arrival_time
BY FeedAssumption DEF Files, Entries

LEMMA InitFeed == SystemInit => FeedInv
<1> SUFFICES ASSUME SystemInit PROVE FeedInv
  OBVIOUS
<1>1. /\ clk = StartTime /\ file \in Files /\ pg_follow = StartTime /\ curr = 1
      /\ skips = TRUE /\ msg_queue = <<>> /\ received = 0
  BY DEF SystemInit, FeedInit, Init, SharedInit
<1>2. <<>> \in Seq(Procs) /\ Len(<<>>) = 0
  BY EmptySeq
<1> QED BY <1>1, <1>2, TimesAssumption, ConstantTypes DEF FeedInv

\* A step that sends and receives nothing.
LEMMA FeedKept ==
  ASSUME FeedInv, UNCHANGED <<file, curr, msg_queue, received>>,
         clk' \in Nat, pg_follow' \in Nat, skips' \in BOOLEAN,
         \A p \in Procs : proc'[p].Arrival_time = proc[p].Arrival_time
  PROVE  FeedInv'
<1>1. \A p \in 1 .. received : p \in Procs
  BY ConstantTypes DEF FeedInv, Procs
<1> QED BY <1>1 DEF FeedInv

LEMMA SendFeed ==
  ASSUME FeedInv, Send, UNCHANGED <<received, proc>>
  PROVE  FeedInv'
<1>1. CASE Len(msg_queue) < Capacity
  <2>1. /\ msg_queue' = Append(msg_queue, curr) /\ curr' = curr + 1
        /\ UNCHANGED <<skips, clk, file, pg_follow>> /\ curr <= Count_OF_Processes
    BY <1>1 DEF Send, Sending, Due
  <2>2. curr \in Procs /\ curr' \in 1 .. Count_OF_Processes + 1 /\ curr \in Nat
    BY <2>1, ConstantTypes DEF FeedInv, Procs
  <2>3. received \in 0 .. curr' - 1 /\ received \in Nat
    BY <2>1, <2>2 DEF FeedInv
  <2>4. PICK t : t = Append(msg_queue, curr)
    OBVIOUS
  <2>5. /\ t \in Seq(Procs) /\ Len(t) = Len(msg_queue) + 1
        /\ \A i \in 1 .. Len(msg_queue) : t[i] = msg_queue[i]
        /\ t[Len(msg_queue) + 1] = curr
    BY <2>2, <2>4, AppendProperties DEF FeedInv
  <2>6. Len(t) = curr' - 1 - received /\ \A i \in 1 .. Len(t) : t[i] = received + i
    <3>1. PICK n \in Nat : n = Len(msg_queue)
      BY LenProperties DEF FeedInv
    <3>2. n = curr - 1 - received
      BY <3>1 DEF FeedInv
    <3>3. ASSUME NEW i \in 1 .. n PROVE t[i] = received + i
      BY <2>5, <3>1 DEF FeedInv
    <3>4. t[n + 1] = received + (n + 1)
      BY <2>2, <2>3, <2>5, <3>1, <3>2
    <3>5. Len(t) = n + 1
      BY <2>5, <3>1
    <3>6. \A i \in 1 .. n + 1 : i \in 1 .. n \/ i = n + 1
      OBVIOUS
    <3>7. n + 1 = curr' - 1 - received
      BY <2>1, <2>2, <2>3, <3>2
    <3> QED BY <3>3, <3>4, <3>5, <3>6, <3>7
  <2> QED BY <2>1, <2>2, <2>3, <2>4, <2>5, <2>6 DEF FeedInv
<1>2. CASE ~(Len(msg_queue) < Capacity)
  <2>1. skips' = TRUE /\ UNCHANGED <<msg_queue, curr, clk, file, pg_follow>>
    BY <1>2 DEF Send
  <2> QED BY <2>1, FeedKept DEF FeedInv
<1> QED BY <1>1, <1>2

LEMMA ReceptionFeed ==
  ASSUME IInv, FeedInv, Reception
  PROVE  FeedInv' /\ received' = received + 1 /\ msg_queue # <<>>
<1>1. PICK s : s = received + 1
  OBVIOUS
<1>2. /\ s \in Procs /\ received' = s
      /\ \A p \in Procs \ {s} : proc'[p] = proc[p]
  BY <1>1, ReceptionReceives DEF Reception
<1>3. /\ msg_queue # <<>> /\ msg_queue' = Tail(msg_queue)
      /\ proc'[s].Arrival_time = file[Head(msg_queue)].Arrival_time
      /\ UNCHANGED <<clk, file, pg_follow, curr, skips>>
  BY <1>1 DEF Reception, TakeMessage, IsEntry
<1>4. Len(msg_queue) \in Nat \ {0} /\ Head(msg_queue) = msg_queue[1]
  BY <1>3, EmptySeq DEF FeedInv
<1>5. Head(msg_queue) = s /\ s <= curr - 1 /\ curr \in Nat /\ received \in Nat
  BY <1>1, <1>4 DEF FeedInv
<1>6. PICK t : t = Tail(msg_queue)
  OBVIOUS
<1>7. /\ t \in Seq(Procs) /\ Len(t) = Len(msg_queue) - 1
      /\ \A i \in 1 .. Len(t) : t[i] = msg_queue[i + 1]
  BY <1>3, <1>6, HeadTailProperties DEF FeedInv
<1>8. Len(t) = curr - 1 - s /\ \A i \in 1 .. Len(t) : t[i] = s + i
  <2>1. Len(t) = curr - 1 - s
    BY <1>1, <1>5, <1>7 DEF FeedInv
  <2>2. ASSUME NEW i \in 1 .. Len(t) PROVE t[i] = s + i
    <3>1. i + 1 \in 1 .. Len(msg_queue)
      BY <1>4, <1>7
    <3>2. msg_queue[i + 1] = received + (i + 1)
      BY <3>1 DEF FeedInv
    <3> QED BY <1>1, <1>5, <1>7, <3>2
  <2> QED BY <2>1, <2>2
<1>9. \A p \in 1 .. s : proc'[p].Arrival_time = file[p].Arrival_time
  <2>1. ASSUME NEW p \in 1 .. received PROVE proc'[p].Arrival_time = file[p].Arrival_time
    <3>1. p \in Procs \ {s}
      BY <1>1, <1>2, <1>5, ConstantTypes DEF Procs
    <3> QED BY <1>2, <3>1 DEF FeedInv
  <2> QED BY <1>1, <1>3, <1>5, <2>1
<1>10. s \in 0 .. curr - 1
  BY <1>1, <1>5
<1> QED BY <1>1, <1>2, <1>3, <1>6, <1>7, <1>8, <1>9, <1>10 DEF FeedInv

LEMMA NextFeed == IInv /\ FeedInv /\ [SystemNext]_systemVars => FeedInv'
<1> SUFFICES ASSUME IInv, FeedInv, [SystemNext]_systemVars PROVE FeedInv'
  OBVIOUS
<1>1. CASE Pass
  BY <1>1, PassReads, FeedKept DEF FeedInv
<1>2. CASE Reception
  BY <1>2, ReceptionFeed
<1>3. CASE Turns
  <2>1. PICK F : Turned(F)
    BY <1>3, AlgorithmTurns DEF Turns
  <2>2. UNCHANGED <<clk, file, pg_follow, curr, skips, msg_queue>>
    BY <1>3 DEF Turns, NoMessage, feedVars
  <2>3. received' = received /\ \A p \in Procs : proc'[p].Arrival_time = proc[p].Arrival_time
    BY <2>1 DEF Turned
  <2> QED BY <2>2, <2>3, FeedKept DEF FeedInv
<1>4. CASE Second
  <2>1. clk' = clk + 1 /\ UNCHANGED <<file, pg_follow, curr, skips, msg_queue, received, proc>>
    BY <1>4 DEF Second, ClockTick, vars, sharedVars
  <2> QED BY <2>1, FeedKept DEF FeedInv
<1>5. CASE GeneratorStep
  <2>1. UNCHANGED <<received, proc>>
    BY <1>5 DEF GeneratorStep, vars, sharedVars
  <2>2. CASE Look
    <3>1. pg_follow' = clk /\ skips' = FALSE /\ UNCHANGED <<clk, file, curr, msg_queue>>
      BY <2>2 DEF Look
    <3> QED BY <2>1, <3>1, FeedKept DEF FeedInv
  <2> QED BY <1>5, <2>1, <2>2, SendFeed DEF GeneratorStep, Generator
<1>6. ASSUME UNCHANGED <<vars, feedVars>> PROVE FeedInv'
  <2>1. UNCHANGED <<clk, file, pg_follow, curr, skips, msg_queue, received, proc>>
    BY <1>6 DEF feedVars, vars, sharedVars
  <2> QED BY <2>1, FeedKept DEF FeedInv
<1> QED BY <1>1, <1>2, <1>3, <1>4, <1>5, <1>6 DEF SystemNext, SchedulerStep, ProgramStep, systemVars

LEMMA FeedHolds == SystemSpec => []FeedInv
BY InitFeed, NextFeed, SystemInvariant, PTL DEF SystemSpec

-----------------------------------------------------------------------------
\* When they are received.  With a generator that sees every second, whatever is
\* sent is sent in the second of its arrival time (the third line).  The queue was
\* found empty at the end of the last pass, so what is in it arrived since, and
\* the clock has not gone on by more than the seconds that may be missed and one.
TimesInv ==
  /\ follow <= clk /\ pg_follow <= clk
  /\ missed <= MaxMissed /\ clk - follow <= MaxMissed - missed + 1
  /\ Sending => pg_follow = clk
  /\ \A p \in received + 1 .. curr - 1 :
       /\ file[p].Arrival_time <= clk
       /\ phase = "poll" => follow <= file[p].Arrival_time
       /\ phase = "receive" => follow - (MaxMissed + 1) <= file[p].Arrival_time

LEMMA TimeTypes ==
  ASSUME IInv, FeedInv
  PROVE  /\ follow \in Nat /\ missed \in Nat /\ clk \in Nat /\ pg_follow \in Nat
         /\ received \in Nat /\ curr \in Nat \ {0} /\ MaxMissed \in Nat
         /\ \A p \in received + 1 .. curr - 1 : p \in Procs /\ file[p].Arrival_time \in Nat
<1>1. /\ follow \in Nat /\ missed \in Nat /\ clk \in Nat /\ pg_follow \in Nat
      /\ received \in Nat /\ curr \in Nat \ {0} /\ MaxMissed \in Nat
  BY TimesAssumption, ConstantTypes DEF IInv, SharedInv, SharedTypeOK, FeedInv
<1>2. \A p \in received + 1 .. curr - 1 : p \in Procs
  BY <1>1, ConstantTypes DEF FeedInv, Procs
<1> QED BY <1>1, <1>2, FileTypes DEF FeedInv

LEMMA InitTimes == SystemInit => TimesInv
<1> SUFFICES ASSUME SystemInit PROVE TimesInv
  OBVIOUS
<1>1. /\ clk = StartTime /\ pg_follow = StartTime /\ curr = 1 /\ skips = TRUE
      /\ received = 0 /\ follow = StartTime /\ missed = 0
  BY DEF SystemInit, FeedInit, Init, SharedInit
<1> QED BY <1>1, TimesAssumption DEF TimesInv, Sending

LEMMA PassTimes ==
  ASSUME IInv, FeedInv, TimesInv, Pass
  PROVE  TimesInv'
<1>1. /\ phase = "poll" /\ phase' = "receive" /\ follow' = clk
      /\ UNCHANGED <<received, clk, file, pg_follow, curr, skips>>
  BY PassReads
<1>2. PICK gap \in 1 .. MaxMissed + 1 - missed :
        follow' = follow + gap /\ missed' = missed + gap - 1
  BY PassReads
<1>3. Sending' <=> Sending
  BY <1>1 DEF Sending, Due
<1>4. ASSUME NEW p \in received + 1 .. curr - 1
      PROVE  follow' - (MaxMissed + 1) <= file[p].Arrival_time /\ file[p].Arrival_time <= clk
  <2>1. file[p].Arrival_time \in Nat /\ follow <= file[p].Arrival_time
    BY <1>1, TimeTypes DEF TimesInv
  <2> QED BY <1>2, <2>1, TimeTypes DEF TimesInv
<1>5. missed' <= MaxMissed /\ clk' - follow' <= MaxMissed - missed' + 1
  BY <1>1, <1>2, TimeTypes
<1>6. follow' <= clk'
  BY <1>1, TimeTypes
<1> QED BY <1>1, <1>3, <1>4, <1>5, <1>6 DEF TimesInv

LEMMA SchedulerTimes ==
  ASSUME IInv, FeedInv, TimesInv, Reception \/ Turns
  PROVE  TimesInv'
<1>1. CASE Reception
  <2>1. PICK s : s = received + 1
    OBVIOUS
  <2>2. received' = s /\ UNCHANGED <<follow, phase, missed>>
    BY <1>1, <2>1, ReceptionReceives DEF Reception
  <2>3. UNCHANGED <<clk, file, pg_follow, curr, skips>>
    BY <1>1 DEF Reception, TakeMessage
  <2>4. Sending' <=> Sending
    BY <2>3 DEF Sending, Due
  <2>5. \A p \in received' + 1 .. curr - 1 : p \in received + 1 .. curr - 1
    BY <2>1, <2>2, TimeTypes
  <2> QED BY <2>2, <2>3, <2>4, <2>5 DEF TimesInv
<1>2. CASE Turns
  <2>1. PICK F : Turned(F)
    BY <1>2, AlgorithmTurns DEF Turns
  <2>2. UNCHANGED <<follow, missed, received>> /\ phase' # "receive"
    BY <2>1 DEF Turned
  <2>3. UNCHANGED <<clk, file, pg_follow, curr, skips>> /\ msg_queue = <<>>
    BY <1>2 DEF Turns, NoMessage, feedVars
  <2>4. Sending' <=> Sending
    BY <2>3 DEF Sending, Due
  <2>5. received' + 1 .. curr' - 1 = {}
    <3>1. Len(msg_queue) = 0
      BY <2>3, EmptySeq
    <3> QED BY <2>2, <2>3, <3>1, TimeTypes DEF FeedInv
  <2> QED BY <2>2, <2>3, <2>4, <2>5 DEF TimesInv
<1> QED BY <1>1, <1>2

LEMMA GeneratorTimes ==
  ASSUME IInv, FeedInv, TimesInv, GeneratorStep
  PROVE  TimesInv'
<1>1. UNCHANGED <<received, follow, phase, missed>>
  BY DEF GeneratorStep, vars, sharedVars, history
<1>2. CASE Look
  BY <1>1, <1>2, TimeTypes DEF Look, TimesInv, Sending, Due
<1>3. CASE Send
  <2>1. /\ pg_follow = clk /\ clk = file[curr].Arrival_time
        /\ UNCHANGED <<clk, file, pg_follow>> /\ curr' \in {curr, curr + 1}
    BY <1>3 DEF Send, Sending, Due, TimesInv
  <2>2. ASSUME NEW p \in received' + 1 .. curr' - 1
        PROVE  /\ file[p].Arrival_time <= clk
               /\ phase = "poll" => follow <= file[p].Arrival_time
               /\ phase = "receive" => follow - (MaxMissed + 1) <= file[p].Arrival_time
    <3>1. CASE p = curr
      BY <2>1, <3>1, TimeTypes DEF TimesInv
    <3>2. CASE p # curr
      <4>1. p \in received + 1 .. curr - 1
        BY <1>1, <2>1, <3>2, TimeTypes
      <4> QED BY <4>1 DEF TimesInv
    <3> QED BY <3>1, <3>2
  <2> QED BY <1>1, <2>1, <2>2 DEF TimesInv
<1> QED BY <1>2, <1>3 DEF GeneratorStep, Generator

LEMMA SecondTimes ==
  ASSUME PunctualGenerator, IInv, FeedInv, TimesInv, Second
  PROVE  TimesInv'
<1>1. /\ clk - follow <= MaxMissed - missed /\ clk' = clk + 1 /\ ~Sending
      /\ UNCHANGED <<file, pg_follow, curr, skips>>
  BY DEF Second, ClockTick
<1>2. UNCHANGED <<received, follow, phase, missed>>
  BY DEF Second, vars, sharedVars, history
<1>3. ~Sending'
  BY <1>1 DEF Sending, Due
<1>4. ASSUME NEW p \in received + 1 .. curr - 1 PROVE file[p].Arrival_time <= clk'
  BY <1>1, TimeTypes DEF TimesInv
<1>5. follow <= clk' /\ pg_follow <= clk' /\ clk' - follow <= MaxMissed - missed + 1
  BY <1>1, TimeTypes DEF TimesInv
<1> QED BY <1>1, <1>2, <1>3, <1>4, <1>5 DEF TimesInv

LEMMA NextTimes ==
  ASSUME PunctualGenerator, IInv, FeedInv, TimesInv, [SystemNext]_systemVars
  PROVE  TimesInv'
<1>1. ASSUME UNCHANGED <<vars, feedVars>> PROVE TimesInv'
  <2>1. UNCHANGED <<clk, file, pg_follow, curr, skips, received, follow, phase, missed>>
    BY <1>1 DEF feedVars, vars, sharedVars, history
  <2>2. Sending' <=> Sending
    BY <2>1 DEF Sending, Due
  <2> QED BY <2>1, <2>2 DEF TimesInv
<1> QED BY <1>1, PassTimes, SchedulerTimes, GeneratorTimes, SecondTimes
        DEF SystemNext, SchedulerStep, ProgramStep, systemVars

LEMMA TimesKeepSchedule ==
  ASSUME IInv, FeedInv, TimesInv, -(MaxMissed + 1) .. MaxMissed + 1 \subseteq Lags
  PROVE  KeepsSchedule
<1>1. msg_queue = [i \in 1 .. curr - 1 - received |-> received + i]
  <2>1. msg_queue = [i \in 1 .. Len(msg_queue) |-> msg_queue[i]]
    BY LenProperties DEF FeedInv
  <2> QED BY <2>1 DEF FeedInv
<1>2. ASSUME phase = "receive", msg_queue # <<>>
      PROVE  /\ follow - file[Head(msg_queue)].Arrival_time \in Lags
             /\ received > 0 => proc[received].Arrival_time <= file[Head(msg_queue)].Arrival_time
  <2>1. Len(msg_queue) \in Nat \ {0} /\ Head(msg_queue) = msg_queue[1]
    BY <1>2, EmptySeq DEF FeedInv
  <2>2. PICK s : s = received + 1
    OBVIOUS
  <2>3. Head(msg_queue) = s /\ s \in received + 1 .. curr - 1
    BY <2>1, <2>2, TimeTypes DEF FeedInv
  <2>4. PICK a : a = file[s].Arrival_time
    OBVIOUS
  <2>5. a \in Nat /\ a <= clk /\ follow - (MaxMissed + 1) <= a /\ s \in Procs
    BY <1>2, <2>3, <2>4, TimeTypes DEF TimesInv
  <2>6. clk <= follow + (MaxMissed + 1)
    BY TimeTypes DEF TimesInv
  <2>7. follow - a \in -(MaxMissed + 1) .. MaxMissed + 1
    BY <2>5, <2>6, TimeTypes
  <2>8. ASSUME received > 0 PROVE proc[received].Arrival_time <= a
    <3>1. received \in 1 .. received /\ received \in Procs /\ received < s
      BY <2>2, <2>5, <2>8, TimeTypes, ConstantTypes DEF Procs
    <3> QED BY <2>4, <2>5, <3>1, FileTypes DEF FeedInv
  <2> QED BY <2>3, <2>4, <2>7, <2>8
<1> QED BY <1>1, <1>2 DEF KeepsSchedule

\* The generator keeps the schedule that Scheduler takes for granted: if it is
\* punctual, the messages in the queue are the next ones of the file in its order,
\* and a pass finds none whose arrival time is more than MaxMissed + 1 seconds away.
\* So a set of Lags with these leaves no message out, however long the file is,
\* however many arrive at once, and whether the queue has room for them or not.
THEOREM ScheduleIsKept ==
  ASSUME PunctualGenerator, -(MaxMissed + 1) .. MaxMissed + 1 \subseteq Lags
  PROVE  SystemSpec => []KeepsSchedule
<1>1. SystemInit => TimesInv
  BY InitTimes
<1>2. IInv /\ FeedInv /\ TimesInv /\ [SystemNext]_systemVars => TimesInv'
  BY NextTimes
<1>3. IInv /\ FeedInv /\ TimesInv => KeepsSchedule
  BY TimesKeepSchedule
<1> QED BY <1>1, <1>2, <1>3, SystemInvariant, FeedHolds, PTL DEF SystemSpec

-----------------------------------------------------------------------------
\* The programs.  Who is not through has something left to count down.
ProgramsInv ==
  /\ ProgramsTypeOK
  /\ \A p \in Procs :
       prog[p] \in {"forked", "started", "loop", "down"} => remainingtime[p] > 0

LEMMA ProgramStepTypes ==
  ASSUME ProgramsInv, NEW p \in Procs, Program(p)
  PROVE  ProgramsInv'
<1> USE DEF ProgramsInv, ProgramsTypeOK, ProgramStates
<1>1. CASE Start(p)
  BY <1>1 DEF Start
<1>2. CASE CreateSemaphore(p)
  BY <1>2 DEF CreateSemaphore
<1>3. CASE CallDown(p)
  BY <1>3 DEF CallDown
<1>4. CASE PassDown(p)
  <2>1. /\ prog[p] = "down" /\ sem[p] > 0 /\ UNCHANGED seen
        /\ sem' = [sem EXCEPT ![p] = sem[p] - 1]
        /\ remainingtime' = [remainingtime EXCEPT ![p] = remainingtime[p] - 1]
        /\ prog' = [prog EXCEPT ![p] = IF remainingtime[p] = 1 THEN "ended" ELSE "loop"]
    BY <1>4 DEF PassDown
  <2>2. sem[p] - 1 \in Nat /\ remainingtime[p] - 1 \in Nat
    BY <2>1
  <2>3. ASSUME NEW x \in Procs, prog'[x] \in {"forked", "started", "loop", "down"}
        PROVE  remainingtime'[x] > 0
    <3>1. CASE x = p
      BY <2>1, <2>2, <2>3, <3>1
    <3>2. CASE x # p
      BY <2>1, <2>3, <3>2
    <3> QED BY <3>1, <3>2
  <2> QED BY <2>1, <2>2, <2>3
<1> QED BY <1>1, <1>2, <1>3, <1>4 DEF Program

LEMMA InitPrograms == SystemInit => ProgramsInv
BY DEF SystemInit, ProgramsInit, ProgramsInv, ProgramsTypeOK, ProgramStates

LEMMA NextPrograms == IInv /\ ProgramsInv /\ [SystemNext]_systemVars => ProgramsInv'
<1> SUFFICES ASSUME IInv, ProgramsInv, [SystemNext]_systemVars PROVE ProgramsInv'
  OBVIOUS
<1>1. ASSUME UNCHANGED programVars PROVE ProgramsInv'
  BY <1>1 DEF programVars, ProgramsInv, ProgramsTypeOK
<1>2. CASE Reception
  <2>1. PICK s : s = received + 1
    OBVIOUS
  <2>2. PICK run : run = proc'[s].Running_time
    OBVIOUS
  <2>3. s \in Procs /\ run \in Nat \ {0}
    BY <1>2, <2>1, <2>2, ReceptionReceives DEF Reception
  <2>4. /\ prog' = [prog EXCEPT ![s] = "forked"] /\ sem' = [sem EXCEPT ![s] = 0]
        /\ remainingtime' = [remainingtime EXCEPT ![s] = run] /\ seen' = seen
    BY <1>2, <2>1, <2>2 DEF Reception, Fork
  <2> QED BY <2>3, <2>4 DEF ProgramsInv, ProgramsTypeOK, ProgramStates
<1>3. CASE Turns
  <2>1. PICK F : Turned(F)
    BY <1>3, AlgorithmTurns DEF Turns
  <2>2. /\ sem' = [p \in Procs |-> sem[p] + ups'[p] - ups[p]]
        /\ UNCHANGED <<prog, remainingtime, seen>>
    BY <1>3 DEF Turns, Ups
  <2>3. ups \in [Procs -> Nat]
    BY DEF IInv, SharedInv, SharedTypeOK
  <2>4. ASSUME NEW p \in Procs PROVE sem[p] + ups'[p] - ups[p] \in Nat
    BY <2>1, <2>3 DEF Turned, ProgramsInv, ProgramsTypeOK
  <2>5. sem' \in [Procs -> Nat]
    BY <2>2, <2>4
  <2> QED BY <2>2, <2>5 DEF ProgramsInv, ProgramsTypeOK
<1>4. CASE Second
  <2>1. seen' \in [Procs -> BOOLEAN] /\ UNCHANGED <<prog, sem, remainingtime>>
    BY <1>4 DEF Second, NewSecond
  <2> QED BY <2>1 DEF ProgramsInv, ProgramsTypeOK
<1>5. ASSUME NEW p \in Procs, ProgramStep(p) PROVE ProgramsInv'
  BY <1>5, ProgramStepTypes DEF ProgramStep
<1> QED BY <1>1, <1>2, <1>3, <1>4, <1>5
        DEF SystemNext, SchedulerStep, Pass, GeneratorStep, systemVars

LEMMA ProgramsHold == SystemSpec => []ProgramsInv
BY InitPrograms, NextPrograms, SystemInvariant, PTL DEF SystemSpec

\* The clock, the queue, the semaphores and what the programs count keep their
\* types: no semaphore is counted below 0, none of the programs counts below 0, and
\* the generator does not run past the end of its list.
THEOREM SystemTypeCorrect == SystemSpec => []SystemTypeOK
<1>1. IInv /\ FeedInv /\ ProgramsInv => SystemTypeOK
  BY FileTypes DEF IInv, FeedInv, ProgramsInv, SystemTypeOK, FeedTypeOK
<1> QED BY <1>1, SystemInvariant, FeedHolds, ProgramsHold, PTL

-----------------------------------------------------------------------------
\* The scheduler's count, the up() calls and the programs.

\* The program of p has not made its semaphore yet, so it will reset it.
Early(p) == prog[p] \in {"forked", "started"}

\* The up() calls that no down() of p can answer: those that a reset erased, or
\* will erase.
Lost(p) ==
  IF Early(p) THEN ups[p]
  ELSE ups[p] - sem[p] - (proc[p].Running_time - remainingtime[p])

\* A switch gives the up() of its tick to the process it stops.  So the process that
\* runs may be one call short, and the others one ahead; a call is lost only of a
\* process that entered an empty queue, and that one has a call too many.
PaceOf(p) ==
  /\ Lost(p) >= 0
  /\ p = curr_Proc => ups[p] - Executed(p) \in Lost(p) - 1 .. 0
  /\ p # curr_Proc => ups[p] - Executed(p) \in Lost(p) .. 1
  /\ p > received => ups[p] = 0
  /\ p \in Finished => proc[p].Remaining_time = 0
  /\ Early(p) => remainingtime[p] = proc[p].Running_time
  /\ Early(p) /\ phase = "receive" => ups[p] = 0 /\ Executed(p) = 0

Paces == \A p \in Procs : PaceOf(p)

LEMMA PaceTypes ==
  ASSUME IInv, ProgramsInv, NEW p \in Procs
  PROVE  /\ ups[p] \in Nat /\ sem[p] \in Nat /\ remainingtime[p] \in Nat
         /\ proc[p].Running_time \in Nat /\ proc[p].Remaining_time \in Int
         /\ Executed(p) \in Int /\ Lost(p) \in Int /\ received \in Nat
<1>1. /\ ups[p] \in Nat /\ sem[p] \in Nat /\ remainingtime[p] \in Nat
      /\ proc[p].Running_time \in Nat /\ proc[p].Remaining_time \in Int /\ received \in Nat
  BY ConstantTypes DEF IInv, SharedInv, SharedTypeOK, ProgramsInv, ProgramsTypeOK
<1> QED BY <1>1 DEF Executed, Lost

LEMMA InitPaces == SystemInit => Paces
<1> SUFFICES ASSUME SystemInit, NEW p \in Procs PROVE PaceOf(p)
  BY DEF Paces
<1>1. /\ ups[p] = 0 /\ proc[p] = Unborn /\ curr_Proc = None
      /\ prog[p] = "none" /\ sem[p] = 0 /\ remainingtime[p] = 0
  BY DEF SystemInit, Init, SharedInit, ProgramsInit
<1>2. p # None
  BY DEF Procs, None
<1>3. ~Early(p) /\ Executed(p) = 0 /\ Lost(p) = 0 /\ p \notin Finished
  BY <1>1 DEF Early, Executed, Lost, Unborn, Finished
<1> QED BY <1>1, <1>2, <1>3 DEF PaceOf

\* A step that leaves alone what is counted of p.
LEMMA PaceKept ==
  ASSUME NEW p \in Procs, PaceOf(p), proc'[p] = proc[p], p = curr_Proc' <=> p = curr_Proc,
         p > received' => p > received, Early(p)' => Early(p),
         phase' = phase \/ ~Early(p), ups'[p] = ups[p], Lost(p)' = Lost(p),
         Early(p)' => remainingtime'[p] = remainingtime[p]
  PROVE  PaceOf(p)'
<1>1. Executed(p)' = Executed(p) /\ (p \in Finished' <=> p \in Finished)
  BY DEF Executed, Finished
<1> QED BY <1>1 DEF PaceOf

LEMMA PassPaces ==
  ASSUME PunctualPrograms, IInv, Paces, Pass
  PROVE  Paces'
<1>1. /\ UNCHANGED <<received, proc, ups, curr_Proc>>
      /\ UNCHANGED <<prog, sem, remainingtime, seen>>
      /\ ProgramsReady
  BY PassReads
<1>2. ASSUME NEW p \in Procs PROVE PaceOf(p)'
  <2>1. ~Early(p)
    BY <1>1 DEF ProgramsReady, Early
  <2>2. (Early(p)' <=> Early(p)) /\ Lost(p)' = Lost(p)
    BY <1>1 DEF Early, Lost
  <2> QED BY <1>1, <2>1, <2>2, PaceKept DEF Paces
<1> QED BY <1>2 DEF Paces

LEMMA ReceptionPaces ==
  ASSUME IInv, ProgramsInv, Paces, Reception
  PROVE  Paces'
<1>1. PICK s : s = received + 1
  OBVIOUS
<1>2. /\ s \in Procs /\ received' = s /\ phase = "receive" /\ UNCHANGED <<phase, ups>>
      /\ proc'[s].Running_time \in Nat \ {0}
      /\ proc'[s].Remaining_time = proc'[s].Running_time /\ proc'[s].State # "FINISHED"
      /\ \A p \in Procs \ {s} : proc'[p] = proc[p] /\ (p = curr_Proc' <=> p = curr_Proc)
  BY <1>1, ReceptionReceives DEF Reception
<1>3. /\ prog' = [prog EXCEPT ![s] = "forked"] /\ sem' = [sem EXCEPT ![s] = 0]
      /\ remainingtime' = [remainingtime EXCEPT ![s] = proc'[s].Running_time]
  BY <1>1 DEF Reception, Fork
<1>4. ASSUME NEW p \in Procs \ {s} PROVE PaceOf(p)'
  <2>1. prog'[p] = prog[p] /\ sem'[p] = sem[p] /\ remainingtime'[p] = remainingtime[p]
    BY <1>2, <1>3 DEF ProgramsInv, ProgramsTypeOK
  <2>2. (Early(p)' <=> Early(p)) /\ Lost(p)' = Lost(p)
    BY <1>2, <2>1 DEF Early, Lost
  <2>3. p > received' => p > received
    BY <1>1, <1>2, PaceTypes DEF Procs
  <2> QED BY <1>2, <2>1, <2>2, <2>3, PaceKept DEF Paces
<1>5. PaceOf(s)'
  <2>1. ups'[s] = 0
    BY <1>1, <1>2, PaceTypes DEF Paces, PaceOf
  <2>2. prog'[s] = "forked" /\ remainingtime'[s] = proc'[s].Running_time
    BY <1>2, <1>3 DEF ProgramsInv, ProgramsTypeOK
  <2>3. Early(s)' /\ Lost(s)' = 0 /\ Executed(s)' = 0 /\ s \notin Finished'
    BY <1>2, <2>1, <2>2 DEF Early, Lost, Executed, Finished
  <2> QED BY <1>2, <2>1, <2>2, <2>3 DEF PaceOf
<1> QED BY <1>4, <1>5 DEF Paces

LEMMA TurnsPaces ==
  ASSUME IInv, ProgramsInv, Paces, Turns
  PROVE  Paces'
<1>1. PICK F : Turned(F) /\ phase = "receive"
  BY AlgorithmTurns DEF Turns, Algorithm, KeepRunning, KeepAlone, Switch, FinishAndSwitch,
       FinishLast, Idle, EndOfProcess, Begin, Turn
<1>2. /\ sem' = [p \in Procs |-> sem[p] + ups'[p] - ups[p]]
      /\ UNCHANGED <<prog, remainingtime>>
  BY DEF Turns, Ups
<1>3. PICK c, r : c = curr_Proc /\ r = curr_Proc'
  OBVIOUS
<1>4. ASSUME NEW p \in Procs PROVE PaceOf(p)'
  <2>1. /\ ups'[p] = ups[p] + IF p = c THEN 1 ELSE 0
        /\ proc'[p].Running_time = proc[p].Running_time
        /\ proc'[p].Remaining_time = proc[p].Remaining_time - IF p = r THEN 1 ELSE 0
        /\ p \in Finished' <=> p \in F \/ p \in Finished
        /\ received' = received /\ phase' # "receive"
    BY <1>1, <1>3 DEF Turned, Finished
  <2>2. /\ sem'[p] = sem[p] + IF p = c THEN 1 ELSE 0
        /\ prog'[p] = prog[p] /\ remainingtime'[p] = remainingtime[p]
    BY <1>2, <2>1, PaceTypes
  <2>3. Executed(p)' = Executed(p) + IF p = r THEN 1 ELSE 0
    BY <2>1, PaceTypes DEF Executed
  <2>4. (Early(p)' <=> Early(p)) /\ PaceOf(p)
    BY <2>2 DEF Early, Paces
  <2>5. ~Early(p) => Lost(p)' = Lost(p)
    BY <2>1, <2>2, <2>4, PaceTypes DEF Lost
  <2>6. Early(p) => ups[p] = 0 /\ Executed(p) = 0 /\ Lost(p)' = ups'[p]
    BY <1>1, <2>4 DEF PaceOf, Lost
  <2>7. /\ Lost(p)' >= 0
        /\ p = r => ups'[p] - Executed(p)' \in Lost(p)' - 1 .. 0
        /\ p # r => ups'[p] - Executed(p)' \in Lost(p)' .. 1
    <3>1. CASE Early(p)
      BY <2>1, <2>3, <2>6, <3>1
    <3>2. CASE ~Early(p)
      <4>1. /\ Lost(p) >= 0
            /\ p = c => ups[p] - Executed(p) \in Lost(p) - 1 .. 0
            /\ p # c => ups[p] - Executed(p) \in Lost(p) .. 1
        BY <1>3, <2>4 DEF PaceOf
      <4>2. PICK u, e, l \in Int : u = ups[p] /\ e = Executed(p) /\ l = Lost(p)
        BY PaceTypes
      <4> QED BY <2>1, <2>3, <2>5, <3>2, <4>1, <4>2
    <3> QED BY <3>1, <3>2
  <2>8. p > received' => ups'[p] = 0
    <3>1. p = c => ~(p > received)
      <4>1. ASSUME p = c PROVE p \in Holders
        BY <1>3, <4>1 DEF IInv, NoneLost, Procs, None
      <4> QED BY <4>1 DEF IInv, SharedInv, RecordsFilled, Holders, Holds
    <3> QED BY <2>1, <2>4, <3>1, PaceTypes DEF PaceOf
  <2>9. p \in Finished' => proc'[p].Remaining_time = 0
    <3>1. p \in F \cup Finished => proc[p].Remaining_time = 0 /\ p # r
      <4>1. p \in F => proc[p].Remaining_time = 0 /\ p # r
        BY <1>1, <1>3 DEF Turned
      <4>2. p \in Finished => proc[p].Remaining_time = 0 /\ p # r
        BY <1>1, <1>3, <2>4 DEF Turned, PaceOf, Holders, Holds, Finished, Procs, None
      <4> QED BY <4>1, <4>2
    <3> QED BY <2>1, <3>1, PaceTypes
  <2>10. Early(p)' => remainingtime'[p] = proc'[p].Running_time
    BY <2>1, <2>2, <2>4 DEF PaceOf
  <2> QED BY <1>3, <2>1, <2>7, <2>8, <2>9, <2>10 DEF PaceOf
<1> QED BY <1>4 DEF Paces

LEMMA ProgramPaces ==
  ASSUME IInv, ProgramsInv, Paces, NEW x \in Procs, ProgramStep(x)
  PROVE  Paces'
<1>1. UNCHANGED <<received, proc, ups, curr_Proc, phase>>
  BY DEF ProgramStep, vars, sharedVars, rrVars, files
<1>2. ASSUME NEW p \in Procs
      PROVE  /\ Early(p)' => Early(p) /\ remainingtime'[p] = remainingtime[p]
             /\ Lost(p)' = Lost(p)
  <2>1. /\ prog \in [Procs -> ProgramStates] /\ sem \in [Procs -> Nat]
        /\ remainingtime \in [Procs -> Nat] /\ Program(x)
    BY DEF ProgramsInv, ProgramsTypeOK, ProgramStep
  <2>2. CASE p # x
    <3>1. prog'[p] = prog[p] /\ sem'[p] = sem[p] /\ remainingtime'[p] = remainingtime[p]
      BY <2>1, <2>2 DEF Program, Start, CreateSemaphore, CallDown, PassDown
    <3> QED BY <1>1, <3>1 DEF Early, Lost
  <2>3. CASE p = x /\ Start(x)
    BY <1>1, <2>1, <2>3 DEF Start, Early, Lost
  <2>4. CASE p = x /\ CreateSemaphore(x)
    <3>1. /\ prog[p] = "started" /\ prog'[p] = "loop" /\ sem'[p] = 0
          /\ remainingtime'[p] = remainingtime[p]
      BY <2>1, <2>4 DEF CreateSemaphore
    <3>2. Early(p) /\ ~Early(p)' /\ remainingtime[p] = proc[p].Running_time
      BY <3>1 DEF Early, Paces, PaceOf
    <3>3. Lost(p)' = ups[p] - 0 - (proc[p].Running_time - remainingtime[p])
      BY <1>1, <3>1, <3>2 DEF Lost
    <3>4. Lost(p) = ups[p]
      BY <3>2 DEF Lost
    <3> QED BY <3>2, <3>3, <3>4, PaceTypes
  <2>5. CASE p = x /\ CallDown(x)
    BY <1>1, <2>1, <2>5 DEF CallDown, Early, Lost
  <2>6. CASE p = x /\ PassDown(x)
    <3>1. /\ prog[p] = "down" /\ prog'[p] \in {"ended", "loop"} /\ sem'[p] = sem[p] - 1
          /\ remainingtime'[p] = remainingtime[p] - 1
      BY <2>1, <2>6 DEF PassDown
    <3>2. ~Early(p) /\ ~Early(p)'
      BY <3>1 DEF Early
    <3>3. /\ Lost(p)' = ups[p] - (sem[p] - 1) - (proc[p].Running_time - (remainingtime[p] - 1))
          /\ Lost(p) = ups[p] - sem[p] - (proc[p].Running_time - remainingtime[p])
      BY <1>1, <3>1, <3>2 DEF Lost
    <3> QED BY <3>2, <3>3, PaceTypes
  <2> QED BY <2>1, <2>2, <2>3, <2>4, <2>5, <2>6 DEF Program
<1> QED BY <1>1, <1>2, PaceKept DEF Paces

LEMMA NextPaces ==
  ASSUME PunctualPrograms, IInv, ProgramsInv, Paces, [SystemNext]_systemVars
  PROVE  Paces'
<1>1. ASSUME UNCHANGED <<vars, prog, sem, remainingtime>> PROVE Paces'
  <2>1. UNCHANGED <<received, proc, ups, curr_Proc, phase>>
    BY <1>1 DEF vars, sharedVars, rrVars, files
  <2>2. ASSUME NEW p \in Procs PROVE (Early(p)' <=> Early(p)) /\ Lost(p)' = Lost(p)
    BY <1>1, <2>1 DEF Early, Lost
  <2> QED BY <1>1, <2>1, <2>2, PaceKept DEF Paces
<1>2. ASSUME Second \/ GeneratorStep \/ UNCHANGED systemVars
      PROVE  UNCHANGED <<vars, prog, sem, remainingtime>>
  BY <1>2 DEF Second, NewSecond, GeneratorStep, systemVars, programVars
<1> QED BY <1>1, <1>2, PassPaces, ReceptionPaces, TurnsPaces, ProgramPaces
        DEF SystemNext, SchedulerStep

LEMMA PacesSynchronize ==
  ASSUME IInv, ProgramsInv, Paces
  PROVE  Synchronized
<1>1. ASSUME NEW p \in Procs
      PROVE  /\ Lost(p) >= 0 /\ ups[p] - Executed(p) \in Lost(p) - 1 .. 1
             /\ p # curr_Proc => ups[p] - Executed(p) >= Lost(p)
             /\ p \in Finished => p # curr_Proc /\ Executed(p) = proc[p].Running_time
  <2>1. PaceOf(p)
    BY DEF Paces
  <2>2. p = curr_Proc => p \notin Finished
    BY DEF IInv, NoneLost, Holders, Holds, Finished, Procs, None
  <2>3. PICK d, l \in Int : d = ups[p] - Executed(p) /\ l = Lost(p)
    BY PaceTypes
  <2>4. /\ l >= 0 /\ (p = curr_Proc => d \in l - 1 .. 0) /\ (p # curr_Proc => d \in l .. 1)
        /\ p \in Finished => proc[p].Remaining_time = 0
    BY <2>1, <2>3 DEF PaceOf
  <2>5. l >= 0 /\ d \in l - 1 .. 1 /\ (p # curr_Proc => d >= l)
    BY <2>4
  <2>6. p \in Finished => Executed(p) = proc[p].Running_time
    BY <2>4, PaceTypes DEF Executed
  <2> QED BY <2>2, <2>3, <2>5, <2>6
<1>2. Lockstep
  <2>1. ASSUME NEW p \in Holders PROVE ups[p] \in Executed(p) - 1 .. Executed(p) + 1
    BY <1>1, PaceTypes DEF Holders
  <2>2. ASSUME NEW p \in Finished PROVE ups[p] >= proc[p].Running_time
    BY <1>1, PaceTypes DEF Finished
  <2> QED BY <2>1, <2>2 DEF Lockstep
<1>3. NeverAhead
  <2>1. ASSUME NEW p \in 1 .. received
        PROVE  proc[p].Running_time - remainingtime[p] <= Executed(p) + 1
    <3>1. p \in Procs
      BY ConstantTypes DEF IInv, SharedInv, SharedTypeOK, Procs
    <3>2. CASE Early(p)
      BY <1>1, <3>1, <3>2, PaceTypes DEF Paces, PaceOf, Lost
    <3>3. CASE ~Early(p)
      BY <1>1, <3>1, <3>3, PaceTypes DEF Lost
    <3> QED BY <3>2, <3>3
  <2> QED BY <2>1 DEF NeverAhead
<1>4. CanEnd
  <2>1. ASSUME NEW p \in Finished PROVE remainingtime[p] <= sem[p]
    <3>1. p \in Procs
      BY DEF Finished
    <3>2. CASE Early(p)
      BY <1>1, <3>1, <3>2, PaceTypes DEF Paces, PaceOf, Lost
    <3>3. CASE ~Early(p)
      BY <1>1, <3>1, <3>3, PaceTypes DEF Lost
    <3> QED BY <3>2, <3>3
  <2> QED BY <2>1 DEF CanEnd
<1> QED BY <1>2, <1>3, <1>4 DEF Synchronized

\* The scheduler counts a process down in its own record and calls up(); the program
\* counts for itself and calls down(); both set the semaphore to 0.  For every
\* interleaving of the two in which a program makes its semaphore before the next
\* pass, the program is never more than a second ahead of the scheduler, and once its
\* process is finished it can end by itself, although a reset may erase an up().
THEOREM StaysSynchronized ==
  ASSUME PunctualPrograms
  PROVE  SystemSpec => []Synchronized
<1>1. SystemInit => Paces
  BY InitPaces
<1>2. IInv /\ ProgramsInv /\ Paces /\ [SystemNext]_systemVars => Paces'
  BY NextPaces
<1>3. IInv /\ ProgramsInv /\ Paces => Synchronized
  BY PacesSynchronize
<1> QED BY <1>1, <1>2, <1>3, SystemInvariant, ProgramsHold, PTL DEF SystemSpec
=============================================================================
