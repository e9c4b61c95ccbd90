--------------------------- MODULE ShutdownProofs ---------------------------
(***************************************************************************)
(* Whenever SIGINT comes, the handlers leave nothing behind that they know *)
(* of, and the scheduler writes its summary once, for any number of        *)
(* processes and any number of semaphores that its handler removes.        *)
(***************************************************************************)
EXTENDS Shutdown, FiniteSetTheorems, TLAPS

-----------------------------------------------------------------------------
\* The inductive invariant.

\* A process has a program only once it was received.
Received == \A p \in Procs : p > received => prog[p] = "none"

\* In SJF the count may lag behind, and never counts more than those that finished
\* or were refused.  A process is in no count while its semaphore is to be made.
Counted ==
  /\ mode = "SJF" => finished_process_count <= process_count + refused
  /\ mode # "SJF" => process_count = 0 /\ refused <= finished_process_count
  /\ sch = "create" =>
       finished_process_count < received /\ process_count + refused < received

\* When the scheduler is about to end, SIGINT is pending for every program that
\* has not made its semaphore yet: both were signalled by one call.
StartersAreCaught ==
  sch \in {"removes", "gone"} \/ SCH \in pending =>
    \A p \in Procs : prog[p] \in {"forked", "started"} => Program(p) \in pending

Cleared ==
  /\ pg = "gone" => ~queue
  /\ clk = "gone" => ~shm
  /\ sch = "gone" => semaphores \cap semaphore_IDs \cap 1 .. HandlerRemoves = {}

\* The scheduler's files are closed with the summary in them, by the loop or by
\* the handler; only the user can bring the handler to run before.
SummaryInv ==
  /\ summaries \in Nat
  /\ buffered \in {0, 1}
  /\ closed => OwnSummaries = 1 /\ buffered = 0
  /\ ~closed /\ sch # "gone" => OwnSummaries = 0
  /\ ~closed /\ sch = "gone" => OwnSummaries \in {0, 1} /\ buffered = 0
  /\ ~closed /\ sch \in {"removes", "gone"} =>
       interrupted /\ finished_process_count = Count_OF_Processes
  /\ buffered = 1 => sch \in {"close", "removes"}
  /\ ~closed /\ sch = "close" => buffered = 1
  /\ sch = "kill" => closed
  /\ sch = "starts" => ~closed /\ received = 0
  /\ sch = "aborted" => closed \/ (interrupted /\ received = 0)
  /\ sch \in {"write", "close", "kill"} => finished_process_count = Count_OF_Processes
  /\ closed /\ sch \in Loop => finished_process_count = Count_OF_Processes
  /\ pending # {} \/ pg # "runs" => interrupted \/ closed

\* Once SJF_Algo's own count is complete, copying it changes nothing any more.
CountStaysComplete ==
  mode = "SJF" =>
    /\ sch = "test" => finished_process_count <= process_count
    /\ sch \in {"write", "close", "kill"} \/ (closed /\ sch \in Loop) =>
         process_count = Count_OF_Processes

IInv ==
  /\ TypeOK /\ Received /\ Counted
  /\ StartersAreCaught /\ Cleared
  /\ SummaryInv /\ CountStaysComplete

-----------------------------------------------------------------------------
\* Facts about names and about the copied programs.

LEMMA NamesDiffer ==
  /\ PG # CLK /\ PG # SCH /\ CLK # SCH
  /\ \A p : Program(p) \notin {PG, CLK, SCH}
  /\ \A p, x : Program(p) = Program(x) => p = x
BY DEF PG, CLK, SCH, Program

LEMMA CopiesAreFinite ==
  ASSUME NEW f
  PROVE  LET C == {p \in Procs : f[p] = "copied"}
         IN  IsFiniteSet(C) /\ Cardinality(C) \in 0 .. Count_OF_Processes
<1> DEFINE C == {p \in Procs : f[p] = "copied"}
<1>1. IsFiniteSet(Procs) /\ Cardinality(Procs) = Count_OF_Processes
  BY FS_Interval, ConstantsAssumption DEF Procs
<1>2. IsFiniteSet(C) /\ Cardinality(C) <= Cardinality(Procs)
  BY <1>1, FS_Subset
<1>3. Cardinality(C) \in Nat
  BY <1>2, FS_CardinalityType
<1> QED BY <1>1, <1>2, <1>3, ConstantsAssumption

LEMMA AliveIsTyped ==
  ASSUME TypeOK
  PROVE  Alive \subseteq {PG, CLK, SCH} \cup {Program(p) : p \in Procs}
BY DEF Alive

-----------------------------------------------------------------------------
LEMMA InitIInv == Init => IInv
<1> SUFFICES ASSUME Init PROVE IInv
  OBVIOUS
<1>1. Copied = {}
  BY DEF Init, Copied
<1>2. OwnSummaries = 0
  BY <1>1, FS_EmptySet DEF OwnSummaries, Init
<1>3. TypeOK
  <2>1. queue \in BOOLEAN /\ shm \in BOOLEAN /\ closed \in BOOLEAN /\ interrupted \in BOOLEAN
    BY Zenon DEF Init
  <2>2. prog \in [Procs -> {"none", "forked", "started", "loop", "gone", "copied"}]
    BY DEF Init
  <2> QED BY <2>1, <2>2, ConstantsAssumption DEF Init, TypeOK, SchStates, Loop
<1>4. Received /\ Counted /\ StartersAreCaught /\ Cleared
  BY DEF Init, Received, Counted, StartersAreCaught, Cleared
<1>5. SummaryInv /\ CountStaysComplete
  BY <1>2 DEF Init, SummaryInv, CountStaysComplete, Loop
<1> QED BY <1>3, <1>4, <1>5 DEF IInv

\* The types, but for the summaries, whose bound follows from SummaryInv.
LEMMA TypesAreKept ==
  ASSUME IInv, [Next]_vars, summaries' \in 0 .. Count_OF_Processes + 1
  PROVE  TypeOK'
<1> USE ConstantsAssumption DEF IInv, TypeOK, Received, Counted, SchStates, Loop, Procs
<1>1. CASE UserInterrupt
  BY <1>1, AliveIsTyped DEF UserInterrupt, work, releases, output
<1>2. CASE SignalGroup
  BY <1>2, AliveIsTyped DEF SignalGroup, work, releases, output
<1>3. CASE ClearResources
  BY <1>3 DEF ClearResources, work, output
<1>4. CASE Cleanup
  BY <1>4 DEF Cleanup, work, output
<1>5. CASE Fork
  BY <1>5 DEF Fork, AtLoop, releases, output
<1>6. CASE CreateSemaphore
  BY <1>6 DEF CreateSemaphore, AtLoop, output
<1>7. CASE Algorithm
  <2>1. CASE SJF_Algo
    BY <1>7, <2>1 DEF Algorithm, SJF_Algo, AtLoop, releases, output
  <2>2. CASE OtherAlgo
    BY <1>7, <2>2 DEF Algorithm, OtherAlgo, AtLoop, releases, output
  <2> QED BY <1>7, <2>1, <2>2 DEF Algorithm
<1>8. CASE Test
  BY <1>8 DEF Test, AtLoop, work, releases, output
<1>9. CASE Write
  BY <1>9 DEF Write, AtLoop, work, releases, SummaryInv
<1>10. CASE Close
  BY <1>10 DEF Close, AtLoop, work, releases
<1>11. CASE Kill
  BY <1>11 DEF Kill, AtLoop, work, releases, output
<1>12. CASE Handle
  BY <1>12 DEF Handle, work, releases, output
<1>13. CASE RemoveAndExit
  BY <1>13 DEF RemoveAndExit, work
<1>14. ASSUME NEW p \in Procs, Exec(p) PROVE TypeOK'
  BY <1>14 DEF Exec, work, releases, output
<1>15. ASSUME NEW p \in Procs, CreateOwnSemaphore(p) PROVE TypeOK'
  BY <1>15 DEF CreateOwnSemaphore, work, output
<1>16. ASSUME NEW p \in Procs, HandleAsScheduler(p) PROVE TypeOK'
  BY <1>16 DEF HandleAsScheduler, work
<1>17. ASSUME NEW p \in Procs, Killed(p) PROVE TypeOK'
  BY <1>17 DEF Killed, work, releases, output
<1>18. ASSUME NEW p \in Procs, Terminate(p) PROVE TypeOK'
  BY <1>18 DEF Terminate, work, releases, output
<1>19. CASE Start
  BY <1>19 DEF Start, AtLoop, work, releases, output
<1>20. CASE HandleAtStart
  BY <1>20 DEF HandleAtStart, work, releases, output
<1>21. CASE UNCHANGED vars
  BY <1>21 DEF vars, work, releases, output
<1> QED
  BY <1>1, <1>2, <1>3, <1>4, <1>5, <1>6, <1>7, <1>8, <1>9, <1>10, <1>11, <1>12, <1>13,
     <1>14, <1>15, <1>16, <1>17, <1>18, <1>19, <1>20, <1>21
  DEF Next, Generator, SchedulerStep, SchedulerLoop, SchedulerHandler, ProgramStep

LEMMA ReceivedIsKept ==
  ASSUME IInv, [Next]_vars
  PROVE  Received'
<1> USE ConstantsAssumption DEF IInv, TypeOK, Received, Procs
<1>1. CASE UserInterrupt \/ Generator \/ Cleanup \/ SchedulerHandler
  BY <1>1 DEF UserInterrupt, Generator, SignalGroup, ClearResources, Cleanup,
              SchedulerHandler, Handle, RemoveAndExit, HandleAtStart, work
<1>2. CASE Fork
  BY <1>2 DEF Fork, AtLoop
<1>3. CASE Start \/ CreateSemaphore \/ Algorithm \/ Test \/ Write \/ Close \/ Kill
  BY <1>3 DEF Start, CreateSemaphore, Algorithm, Test, Write, Close, Kill, AtLoop, work
<1>4. ASSUME NEW p \in Procs, ProgramStep(p) \/ Terminate(p) PROVE Received'
  BY <1>4 DEF ProgramStep, Exec, CreateOwnSemaphore, HandleAsScheduler, Killed,
              Terminate, work
<1>5. CASE UNCHANGED vars
  BY <1>5 DEF vars, work
<1> QED BY <1>1, <1>2, <1>3, <1>4, <1>5 DEF Next, SchedulerStep, SchedulerLoop

\* Nobody but the main loop counts, and nothing but its place is changed by it
\* except in the three steps that count.
LEMMA OtherStepsDoNotCount ==
  ASSUME [Next]_vars
  PROVE  \/ Fork \/ CreateSemaphore \/ Algorithm
         \/ (UNCHANGED work) /\ (sch' # sch => sch' # "create")
<1>1. CASE UserInterrupt \/ Generator \/ Cleanup \/ SchedulerHandler
  BY <1>1 DEF UserInterrupt, Generator, SignalGroup, ClearResources, Cleanup,
              SchedulerHandler, Handle, RemoveAndExit, HandleAtStart
<1>2. CASE Start \/ Test \/ Write \/ Close \/ Kill
  BY <1>2 DEF Start, Test, Write, Close, Kill, AtLoop
<1>3. ASSUME NEW p \in Procs, ProgramStep(p) \/ Terminate(p)
      PROVE  UNCHANGED <<work, sch>>
  BY <1>3 DEF ProgramStep, Exec, CreateOwnSemaphore, HandleAsScheduler, Killed, Terminate
<1>4. CASE UNCHANGED vars
  BY <1>4 DEF vars
<1> QED BY <1>1, <1>2, <1>3, <1>4 DEF Next, SchedulerStep, SchedulerLoop

LEMMA CountedIsKept ==
  ASSUME IInv, [Next]_vars
  PROVE  Counted'
<1> USE ConstantsAssumption DEF IInv, TypeOK, Counted
<1>1. CASE Fork
  BY <1>1 DEF Fork, AtLoop
<1>2. CASE CreateSemaphore
  BY <1>2 DEF CreateSemaphore, AtLoop
<1>3. CASE Algorithm
  <2>1. CASE SJF_Algo
    BY <1>3, <2>1 DEF Algorithm, SJF_Algo, AtLoop
  <2>2. CASE OtherAlgo
    BY <1>3, <2>2 DEF Algorithm, OtherAlgo, AtLoop
  <2> QED BY <1>3, <2>1, <2>2 DEF Algorithm
<1>4. CASE (UNCHANGED work) /\ (sch' # sch => sch' # "create")
  BY <1>4 DEF work
<1> QED BY <1>1, <1>2, <1>3, <1>4, OtherStepsDoNotCount

\* Both SIGINT for the scheduler and those for the programs come from one call
\* that signals all who are alive, and between it and the scheduler's handler
\* nothing is forked.
LEMMA StartersAreCaughtIsKept ==
  ASSUME IInv, [Next]_vars
  PROVE  StartersAreCaught'
<1> USE DEF IInv, TypeOK, StartersAreCaught, Procs
<1>1. CASE UserInterrupt \/ SignalGroup
  <2>1. \A p \in Procs : prog[p] \in {"forked", "started"} => Program(p) \in Alive \ {PG}
    BY NamesDiffer DEF Alive
  <2> QED BY <1>1, <2>1 DEF UserInterrupt, SignalGroup
<1>2. CASE ClearResources \/ Cleanup
  BY <1>2, NamesDiffer DEF ClearResources, Cleanup
<1>3. CASE SchedulerLoop
  BY <1>3, NamesDiffer DEF SchedulerLoop, Start, Fork, CreateSemaphore, Algorithm, Test,
                           Write, Close, Kill, AtLoop, Loop
<1>4. CASE SchedulerHandler
  BY <1>4, NamesDiffer DEF SchedulerHandler, Handle, RemoveAndExit, HandleAtStart
<1>5. ASSUME NEW p \in Procs, ProgramStep(p) \/ Terminate(p) PROVE StartersAreCaught'
  BY <1>5, NamesDiffer DEF ProgramStep, Exec, CreateOwnSemaphore, HandleAsScheduler,
                           Killed, Terminate
<1>6. CASE UNCHANGED vars
  BY <1>6 DEF vars
<1> QED BY <1>1, <1>2, <1>3, <1>4, <1>5, <1>6 DEF Next, Generator, SchedulerStep

LEMMA ClearedIsKept ==
  ASSUME IInv, [Next]_vars
  PROVE  Cleared'
<1> USE DEF IInv, TypeOK, Cleared
<1>1. CASE UserInterrupt \/ SignalGroup \/ ClearResources \/ Cleanup
  BY <1>1 DEF UserInterrupt, SignalGroup, ClearResources, Cleanup, work, releases
<1>2. CASE SchedulerLoop
  BY <1>2 DEF SchedulerLoop, Start, Fork, CreateSemaphore, Algorithm, Test, Write, Close,
              Kill, AtLoop, work, releases
<1>3. CASE Handle \/ HandleAtStart
  BY <1>3 DEF Handle, HandleAtStart, work, releases
<1>4. CASE RemoveAndExit
  <2>1. \A ids \in Removable(semaphore_IDs) : semaphore_IDs \cap 1 .. HandlerRemoves \subseteq ids
    BY DEF Removable
  <2> QED BY <1>4, <2>1 DEF RemoveAndExit, work
<1>5. ASSUME NEW p \in Procs, CreateOwnSemaphore(p) PROVE Cleared'
  BY <1>5 DEF CreateOwnSemaphore, StartersAreCaught, work
<1>6. ASSUME NEW p \in Procs, HandleAsScheduler(p) PROVE Cleared'
  BY <1>6 DEF HandleAsScheduler, work
<1>7. ASSUME NEW p \in Procs, Exec(p) \/ Killed(p) \/ Terminate(p) PROVE Cleared'
  BY <1>7 DEF Exec, Killed, Terminate, work, releases
<1>8. CASE UNCHANGED vars
  BY <1>8 DEF vars, work, releases
<1> QED BY <1>1, <1>2, <1>3, <1>4, <1>5, <1>6, <1>7, <1>8
        DEF Next, Generator, SchedulerStep, SchedulerHandler, ProgramStep

\* Only a child that handles SIGINT as the scheduler adds a copy.
LEMMA OwnSummariesOfStep ==
  ASSUME IInv
  PROVE  /\ OwnSummaries \in Int
         /\ prog' = prog /\ summaries' \in Nat =>
              OwnSummaries' = OwnSummaries + summaries' - summaries
         /\ \A p \in Procs :
              /\ Exec(p) \/ CreateOwnSemaphore(p) \/ Killed(p) \/ Terminate(p) =>
                   OwnSummaries' = OwnSummaries
              /\ HandleAsScheduler(p) => OwnSummaries' = OwnSummaries
<1> USE DEF IInv, TypeOK, SummaryInv
<1>1. IsFiniteSet(Copied) /\ Cardinality(Copied) \in Nat
  BY CopiesAreFinite, ConstantsAssumption DEF Copied
<1>2. OwnSummaries \in Int
  BY <1>1 DEF OwnSummaries
<1>3. ASSUME prog' = prog, summaries' \in Nat
      PROVE  OwnSummaries' = OwnSummaries + summaries' - summaries
  BY <1>1, <1>3 DEF OwnSummaries, Copied
<1>4. ASSUME NEW p \in Procs,
             Exec(p) \/ CreateOwnSemaphore(p) \/ Killed(p) \/ Terminate(p)
      PROVE  OwnSummaries' = OwnSummaries
  <2>1. prog[p] # "copied" /\ prog'[p] # "copied" /\ summaries' = summaries
        /\ \A x \in Procs : x # p => prog'[x] = prog[x]
    BY <1>4 DEF Exec, CreateOwnSemaphore, Killed, Terminate, output
  <2>2. Copied' = Copied
    BY <2>1 DEF Copied
  <2> QED BY <2>1, <2>2 DEF OwnSummaries
<1>5. ASSUME NEW p \in Procs, HandleAsScheduler(p) PROVE OwnSummaries' = OwnSummaries
  <2>1. prog[p] # "copied" /\ prog'[p] = "copied" /\ summaries' = summaries + 1
        /\ \A x \in Procs : x # p => prog'[x] = prog[x]
    BY <1>5 DEF HandleAsScheduler
  <2>2. Copied' = Copied \cup {p} /\ p \notin Copied
    BY <2>1 DEF Copied
  <2>3. Cardinality(Copied') = Cardinality(Copied) + 1
    BY <1>1, <2>2, FS_AddElement
  <2> QED BY <1>1, <2>1, <2>3 DEF OwnSummaries
<1> QED BY <1>2, <1>3, <1>4, <1>5

LEMMA SummaryInvIsKept ==
  ASSUME IInv, [Next]_vars
  PROVE  SummaryInv'
<1> USE OwnSummariesOfStep DEF IInv, TypeOK, SummaryInv, Loop, SchStates
<1>1. CASE UserInterrupt
  BY <1>1 DEF UserInterrupt, work, output
<1>2. CASE SignalGroup
  BY <1>2 DEF SignalGroup, work, output
<1>3. CASE ClearResources
  BY <1>3 DEF ClearResources, work, output
<1>4. CASE Cleanup
  BY <1>4 DEF Cleanup, work, output
<1>5. CASE Fork
  <2> DEFINE p == received + 1
  <2>1. p \in Procs /\ prog[p] = "none" /\ prog' = [prog EXCEPT ![p] = "forked"]
    BY <1>5, ConstantsAssumption DEF Fork, Received, Procs
  <2>2. Copied' = Copied
    BY <2>1 DEF Copied
  <2>3. OwnSummaries' = OwnSummaries
    BY <1>5, <2>2 DEF Fork, OwnSummaries, output
  <2> HIDE DEF p
  <2> QED BY <1>5, <2>3, ConstantsAssumption DEF Fork, AtLoop, output
<1>6. CASE CreateSemaphore
  BY <1>6, ConstantsAssumption DEF CreateSemaphore, AtLoop, output, Counted
<1>7. CASE Algorithm
  <2>1. finished_process_count = Count_OF_Processes /\ closed =>
          finished_process_count' = Count_OF_Processes
    BY <1>7, ConstantsAssumption
    DEF Algorithm, SJF_Algo, OtherAlgo, AtLoop, CountStaysComplete
  <2> QED BY <1>7, <2>1, ConstantsAssumption DEF Algorithm, AtLoop, output
<1>8. CASE Test
  BY <1>8 DEF Test, AtLoop, work, output
<1>9. CASE Write
  BY <1>9 DEF Write, AtLoop, work
<1>10. CASE Close
  BY <1>10 DEF Close, AtLoop, work
<1>11. CASE Kill
  BY <1>11 DEF Kill, AtLoop, work, output
<1>12. CASE Handle
  BY <1>12 DEF Handle, work, output
<1>13. CASE RemoveAndExit
  <2>1. /\ sch = "removes" /\ sch' = "gone"
        /\ buffered' = 0
        /\ closed' = closed /\ interrupted' = interrupted /\ pending' = pending /\ pg' = pg
        /\ finished_process_count' = finished_process_count
        /\ OwnSummaries' = OwnSummaries + buffered
        /\ summaries' \in Nat
    BY <1>13 DEF RemoveAndExit, work
  <2> QED BY <2>1
<1>14. ASSUME NEW p \in Procs, ProgramStep(p) \/ Terminate(p) PROVE SummaryInv'
  <2>1. /\ sch' = sch /\ pg' = pg /\ pending' \subseteq pending
        /\ buffered' = buffered /\ closed' = closed /\ interrupted' = interrupted
        /\ finished_process_count' = finished_process_count
        /\ received' = received
        /\ summaries' \in Nat
    BY <1>14 DEF ProgramStep, Exec, CreateOwnSemaphore, HandleAsScheduler, Killed,
                 Terminate, work, output
  <2>2. OwnSummaries' = OwnSummaries
    BY <1>14 DEF ProgramStep
  <2> QED BY <2>1, <2>2
<1>15. CASE Start
  BY <1>15 DEF Start, AtLoop, work, output
<1>16. CASE HandleAtStart
  BY <1>16 DEF HandleAtStart, work, output
<1>17. CASE UNCHANGED vars
  BY <1>17 DEF vars, work, output
<1> QED
  BY <1>1, <1>2, <1>3, <1>4, <1>5, <1>6, <1>7, <1>8, <1>9, <1>10, <1>11, <1>12, <1>13,
     <1>14, <1>15, <1>16, <1>17
  DEF Next, Generator, SchedulerStep, SchedulerLoop, SchedulerHandler

\* The count is tested right after SJF_Algo has set it to its own count.
LEMMA CountStaysCompleteIsKept ==
  ASSUME IInv, [Next]_vars
  PROVE  CountStaysComplete'
<1> USE ConstantsAssumption DEF IInv, TypeOK, CountStaysComplete, Loop
<1>1. CASE UserInterrupt \/ Generator \/ Cleanup
  BY <1>1 DEF UserInterrupt, Generator, SignalGroup, ClearResources, Cleanup, work, output
<1>2. CASE Start
  BY <1>2 DEF Start, AtLoop, work, output, SummaryInv
<1>3. CASE Fork
  BY <1>3 DEF Fork, AtLoop, output
<1>4. CASE CreateSemaphore
  BY <1>4 DEF CreateSemaphore, AtLoop, output
<1>5. CASE Algorithm
  <2>1. CASE SJF_Algo
    BY <1>5, <2>1 DEF Algorithm, SJF_Algo, AtLoop, output
  <2>2. CASE OtherAlgo
    BY <1>5, <2>2 DEF Algorithm, OtherAlgo, AtLoop, output
  <2> QED BY <1>5, <2>1, <2>2 DEF Algorithm
<1>6. CASE Test
  BY <1>6 DEF Test, AtLoop, work, output
<1>7. CASE Write \/ Close \/ Kill
  BY <1>7 DEF Write, Close, Kill, AtLoop, work, output
<1>8. CASE SchedulerHandler
  BY <1>8 DEF SchedulerHandler, Handle, RemoveAndExit, HandleAtStart, work, output
<1>9. ASSUME NEW p \in Procs, ProgramStep(p) \/ Terminate(p)
      PROVE  CountStaysComplete'
  BY <1>9 DEF ProgramStep, Exec, CreateOwnSemaphore, HandleAsScheduler, Killed,
              Terminate, work, output
<1>10. CASE UNCHANGED vars
  BY <1>10 DEF vars, work, output
<1> QED BY <1>1, <1>2, <1>3, <1>4, <1>5, <1>6, <1>7, <1>8, <1>9, <1>10
        DEF Next, SchedulerStep, SchedulerLoop

LEMMA IInvIsKept == IInv /\ [Next]_vars => IInv'
<1> SUFFICES ASSUME IInv, [Next]_vars PROVE IInv'
  OBVIOUS
<1>1. SummaryInv'
  BY SummaryInvIsKept
<1>2. summaries' \in 0 .. Count_OF_Processes + 1
  <2>1. Cardinality(Copied') \in 0 .. Count_OF_Processes
    BY CopiesAreFinite DEF Copied
  <2>2. summaries' \in Nat /\ summaries' - Cardinality(Copied') \in {0, 1}
    BY <1>1 DEF SummaryInv, OwnSummaries
  <2> QED BY <2>1, <2>2, ConstantsAssumption
<1>3. TypeOK'
  BY <1>2, TypesAreKept
<1> QED
  BY <1>1, <1>3, ReceivedIsKept, CountedIsKept, StartersAreCaughtIsKept, ClearedIsKept,
     CountStaysCompleteIsKept
  DEF IInv

LEMMA Invariance == Spec => []IInv
BY InitIInv, IInvIsKept, PTL DEF Spec

-----------------------------------------------------------------------------
\* The variables of the ending keep their types; in particular no more
\* processes are counted as finished than were received, and there are no more
\* summaries than the scheduler and every child could write.
THEOREM TypeCorrect == Spec => []TypeOK
<1>1. IInv => TypeOK
  BY DEF IInv
<1> QED BY <1>1, Invariance, PTL

\* clearResources, cleanup and handler release all they know of: nothing of it
\* is left, or made again, when everybody is gone.
THEOREM ResourcesAreCleared == Spec => []ResourcesCleared
<1>1. IInv => ResourcesCleared
  <2>1. AllGone => pg = "gone" /\ clk = "gone"
    BY DEF AllGone, Alive
  <2> QED BY <2>1 DEF IInv, Cleared, ResourcesCleared
<1> QED BY <1>1, Invariance, PTL

\* The main loop and the handler between them write scheduler.perf once, or not
\* at all if ^C came when the count had become complete or before the scheduler
\* was ready.
THEOREM OneSummaryIsWritten == Spec => []OneSummary
<1>1. IInv => OneSummary
  BY DEF IInv, TypeOK, SummaryInv, OneSummary
<1> QED BY <1>1, Invariance, PTL
=============================================================================
