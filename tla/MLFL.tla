-------------------------------- MODULE MLFL --------------------------------
(***************************************************************************)
(* Multilevel feedback (MLF_Algo in scheduler.c, the multilevel functions  *)
(* of headers_ali.h): a queue for each of the levels 0 to 10.  A process   *)
(* begins in the level of its priority and goes down one level with each   *)
(* quantum it uses up; the first process of the first level that is not    *)
(* empty has the next quantum.                                             *)
(*                                                                         *)
(* MultiLevel declares listOfQueues[10] but the code uses the index 10,    *)
(* which in the build of the Makefile is the member behind the array,      *)
(* toBeReturnedToItsLevel: level 10 and the buffer are one list.           *)
(***************************************************************************)
EXTENDS Scheduler

CONSTANT q  \* the quantum given on the command line

VARIABLES
  listOfQueues,    \* the processes of each level, from front to rear
  currentProcess,
  currentLevel,
  quantamsLeft

levelVars == <<listOfQueues, currentProcess, currentLevel, quantamsLeft>>
vars == <<sharedVars, levelVars>>

ASSUME ModeAssumption == mode = "MLFL"
ASSUME QuantumAssumption == q \in Nat \ {0}

LastLevel == 10
Levels == 0 .. LastLevel

Init ==
  /\ SharedInit
  /\ listOfQueues = [i \in Levels |-> <<>>]
  /\ currentProcess = None
  /\ currentLevel = 0
  /\ quantamsLeft = q

\* pushIntoMultiLevel
ReceiveProcess ==
  \E n \in Messages :
    /\ Accept(n)
    /\ proc' = [proc EXCEPT ![received + 1] = n]
    /\ listOfQueues' = [listOfQueues EXCEPT ![n.Priority] = Append(@, received + 1)]
    /\ UNCHANGED <<currentProcess, currentLevel, quantamsLeft>>

RefuseProcess == Refuse /\ UNCHANGED levelVars

-----------------------------------------------------------------------------
NonEmpty == {i \in Levels : listOfQueues[i] # <<>>}
Queued == UNION {Range(listOfQueues[i]) : i \in Levels}

\* Mutant of TicksWaited: the current process does not get its tick back.
TicksWaitedByAll(p, r) ==
  IF p \in Range(listOfQueues[LastLevel]) THEN 2 ELSE 1

\* AddWaitingMultiLevel walks the levels 0 to 10, then the buffer, which is
\* level 10 again; the current process r is on a list and gets one tick back.
TicksWaited(p, r) ==
  (IF p \in Range(listOfQueues[LastLevel]) THEN 2 ELSE 1) - (IF p = r THEN 1 ELSE 0)

Executes(procs, r) ==
  [p \in Procs |->
     [procs[p] EXCEPT !.Waiting_time = @ + (IF p \in Queued THEN TicksWaited(p, r) ELSE 0),
                      !.Remaining_time = @ - (IF p = r THEN 1 ELSE 0)]]

\* Mutant of PushIntoNextLevel: the process goes to the end of its own level.
PushIntoSameLevel(queues, level, p) ==
  [queues EXCEPT ![level] = Append(Tail(@), p)]

\* Mutant of PushIntoNextLevel: what leaves the last level is put into a
\* buffer that nobody empties.
PushIntoBuffer(queues, level, p) ==
  IF level = LastLevel
  THEN [queues EXCEPT ![level] = Tail(@)]
  ELSE [queues EXCEPT ![level + 1] = Append(@, p), ![level] = Tail(@)]

\* pushIntoNextLevel: behind the last level comes the buffer, which is the
\* last level.
PushIntoNextLevel(queues, level, p) ==
  LET next == IF level = LastLevel THEN LastLevel ELSE level + 1
  IN  [[queues EXCEPT ![next] = Append(@, p)] EXCEPT ![level] = Tail(@)]

\* runMultiLevelProcess and the end of MLF_Algo for process p in its level,
\* with quantum ticks left, after procs and lines were changed by its choice.
RunMultiLevelProcess(p, level, quantum, procs, lines) ==
  LET ran      == Executes(procs, p)
      done     == ran[p].Remaining_time = 0
      used     == quantum = 1
      finished == Finish(ran, p, follow + 1)
  IN
    /\ ups' = IF procs[p].Remaining_time > 1 THEN Up(ups, p) ELSE ups
    /\ currentLevel' = level
    /\ currentProcess' = IF done \/ used THEN None ELSE p
    /\ quantamsLeft' = IF used /\ ~done THEN q ELSE quantum - 1
    /\ proc' = IF done THEN finished
               ELSE IF used THEN SetState(ran, p, "STOPPED")
               ELSE ran
    /\ log' = IF done THEN PrintLine(lines, p, "FINISHED")
              ELSE IF used THEN PrintLine(lines, p, "STOPPED")
              ELSE lines
    /\ listOfQueues' = IF done THEN [listOfQueues EXCEPT ![level] = Tail(@)]
                       ELSE IF used THEN PushIntoNextLevel(listOfQueues, level, p)
                       ELSE listOfQueues
    /\ mem' = IF done THEN FreeMemoryOf(ran[p]) ELSE mem
    /\ finished_process_count' = finished_process_count + IF done THEN 1 ELSE 0
    /\ total_waiting_time' =
         total_waiting_time + IF done THEN ran[p].Waiting_time ELSE 0
    /\ UNCHANGED cpu_waiting_time

\* Mutant of NextLevel: the levels are searched from the last one.
NextLevelFromLast == Max(NonEmpty)

\* getNextProcessFromMultiLevel takes the first level that is not empty.
NextLevel == Min(NonEmpty)

\* As the buffer is one of the levels that are looked into, the test that would
\* return the processes of the buffer to their levels never holds.
ChooseNext ==
  LET level == NextLevel
      p     == Head(listOfQueues[level])
      state == IF proc[p].Remaining_time = proc[p].Running_time THEN "STARTED" ELSE "RESUMED"
  IN
    /\ Turn
    /\ currentProcess = None
    /\ NonEmpty # {}
    /\ RunMultiLevelProcess(p, level, q, SetState(proc, p, state), PrintLine(log, p, state))
    /\ EndOfPass

Continue ==
  /\ Turn
  /\ currentProcess # None
  /\ RunMultiLevelProcess(currentProcess, currentLevel, quantamsLeft, proc, log)
  /\ EndOfPass

Idle ==
  /\ Turn
  /\ currentProcess = None
  /\ NonEmpty = {}
  /\ cpu_waiting_time' = cpu_waiting_time + 1
  /\ UNCHANGED <<proc, mem, finished_process_count, total_waiting_time, files, levelVars>>
  /\ EndOfPass

Algorithm == ChooseNext \/ Continue \/ Idle

Next ==
  \/ Tick /\ UNCHANGED levelVars
  \/ ReceiveProcess
  \/ RefuseProcess
  \/ Algorithm

Spec == Init /\ [][Next]_vars

\* The clock keeps ticking, the generator keeps its schedule and the
\* scheduler's loop polls without blocking.
FairSpec == Spec /\ WF_vars(Next)

-----------------------------------------------------------------------------
TypeOK ==
  /\ SharedTypeOK
  /\ \A p \in Procs : proc[p].Remaining_time >= 0
  /\ listOfQueues \in [Levels -> Seq(Procs)]
  /\ currentProcess \in Procs \cup {None}
  /\ currentLevel \in Levels
  /\ quantamsLeft \in 0 .. q

\* Every process that holds memory is on exactly one level, once, and the
\* current process is the first of its level: finishing it or pushing it down
\* pops the list it is really on.
NoneLost ==
  /\ \A i \in Levels : IsInjective(listOfQueues[i])
  /\ \A i, j \in Levels : i # j => Range(listOfQueues[i]) \cap Range(listOfQueues[j]) = {}
  /\ Holders = Queued
  /\ currentProcess # None =>
       /\ listOfQueues[currentLevel] # <<>>
       /\ currentProcess = Head(listOfQueues[currentLevel])

\* No process is lost; nor is the memory of any, and the scheduler does not
\* stop before they are all through.
NothingLost == NoneLost /\ MemoryIsOwned /\ StopsOnlyWhenDone

\* The level a process is on follows from what it has run: it goes down one
\* level with each full quantum, and no process loses or gains part of one by
\* what the others do.
LevelTracksQuanta ==
  \A i \in Levels : \A p \in Range(listOfQueues[i]) :
    i = Min({LastLevel, proc[p].Priority + Executed(p) \div q})

\* A process keeps the processor for its quantum, and when it is over the
\* first level with a process has the next one.
LowestLevelFirst ==
  [][\A p \in Procs :
       phase = "receive" /\ proc'[p].Remaining_time < proc[p].Remaining_time =>
         \/ p = currentProcess
         \/ /\ currentProcess = None
            /\ \A x \in Holders :
                 Min({LastLevel, proc[p].Priority + Executed(p) \div q})
                   <= proc[x].Priority + Executed(x) \div q]_vars

\* p has come to the last level, where waiting is counted twice.
CameToLastLevel(p) == proc[p].Priority + Executed(p) \div q >= LastLevel

\* Every tick a process runs is handed to its own program by up(), but for its
\* last one: when it is finished its program still waits in its last down().
UpsButLast ==
  \A p \in Procs : ups[p] = Executed(p) - IF p \in Finished THEN 1 ELSE 0

\* What the output files say of the processes is so, except for the waiting
\* times of those that have come to the last level; and up() keeps pace.
Reports ==
  /\ \A p \in Procs : ~CameToLastLevel(p) => ChargedFor(p) /\ TurnaroundOf(p)
  /\ Utilization
  /\ WaitingTotal
  /\ LogTellsLife
  /\ UpsButLast

\* A process that used up its quantum on level 10 "is pushed into the buffer"
\* and from there "returned to its initial level", so the level it runs on
\* follows from its priority and the quanta it used, going round.
ReturnsToInitialLevel ==
  currentProcess # None =>
    LET p == proc[currentProcess] IN
      currentLevel = p.Priority + ((Executed(currentProcess) \div q) % (LastLevel + 1 - p.Priority))

\* The scheduler gets through all the work and stops.
EventuallyStops == <>(phase = "stopped")
=============================================================================
