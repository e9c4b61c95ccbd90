------------------------------ MODULE Shutdown ------------------------------
(***************************************************************************)
(* How the system ends.  All its processes are in one process group and    *)
(* end by SIGINT: the scheduler sends it to the generator when the work is *)
(* done, the generator sends it on to the group, and a user may send it to *)
(* the group at any time.  Each handler releases some of what would        *)
(* outlive the processes: the message queue, the shared memory of the      *)
(* clock and the semaphores; the scheduler's also writes the summary       *)
(* (scheduler.perf) unless it takes the work for done.                     *)
(*                                                                         *)
(* Of the scheduling only what the end depends on is kept: processes are   *)
(* received and their programs forked, some are refused memory, the others *)
(* finish in some order, and finished_process_count counts them, in SJF by *)
(* way of a second count.  A signal that is pending is taken before the    *)
(* next step of the program that it is for, and no other signal during its *)
(* handler.                                                                *)
(***************************************************************************)
EXTENDS FiniteSets, Integers

CONSTANTS
  Modes,               \* the algorithms that may be chosen
  Count_OF_Processes,
  HandlerRemoves,      \* how many semaphores the handler removes: 8
  UserInterrupts       \* the user may type ^C

VARIABLES
  pg,           \* the process generator: "runs", "removes", "gone"
  clk,          \* the clock: "runs" or "gone"
  sch,          \* where the scheduler is
  prog,         \* where each program is
  pending,      \* the processes a SIGINT is pending for
  mode,         \* the algorithm
  received,
  refused,      \* history: how many processes were refused memory
  finished_process_count,
  process_count,  \* SJF_Algo's own count of the processes that finished
  semaphore_IDs,  \* the processes for which the scheduler has set this array
  queue,        \* the message queue exists
  shm,          \* the shared memory exists
  semaphores,   \* the processes whose semaphore exists
  buffered,     \* summaries written by fputs and not yet in the file
  summaries,    \* summaries in scheduler.perf
  closed,       \* the scheduler has closed its files
  interrupted   \* history: the user has typed ^C

releases == <<queue, shm, semaphores>>
output == <<buffered, summaries, closed>>
work ==
  <<mode, received, refused, finished_process_count, process_count, semaphore_IDs>>
vars == <<pg, clk, sch, prog, pending, work, releases, output, interrupted>>

ASSUME ConstantsAssumption ==
  /\ Modes \subseteq {"SJF", "HPF", "RR", "MLFL"}
  /\ Count_OF_Processes \in Nat \ {0}
  /\ HandlerRemoves \in Nat
  /\ UserInterrupts \in BOOLEAN

Procs == 1 .. Count_OF_Processes
PG == <<"generator", 0>>
CLK == <<"clock", 0>>
SCH == <<"scheduler", 0>>
Program(p) == <<"program", p>>

\* The scheduler before it has opened its files and made its array, its main
\* loop, its handler, and its two ends.
Loop == {"poll", "create", "test", "write", "close", "kill"}
SchStates == Loop \cup {"starts", "removes", "gone", "aborted"}

Alive ==
  {a \in {PG} : pg # "gone"} \cup {a \in {CLK} : clk # "gone"}
    \cup {a \in {SCH} : sch \notin {"gone", "aborted"}}
    \cup {Program(p) : p \in {x \in Procs : prog[x] \notin {"none", "gone", "copied"}}}

AllGone == Alive = {}

Init ==
  /\ pg = "runs"
  /\ clk = "runs"
  /\ sch = "starts"
  /\ prog = [p \in Procs |-> "none"]
  /\ pending = {}
  /\ mode \in Modes
  /\ received = 0
  /\ refused = 0
  /\ finished_process_count = 0
  /\ process_count = 0
  /\ semaphore_IDs = {}
  /\ queue = TRUE
  /\ shm = TRUE
  /\ semaphores = {}
  /\ buffered = 0
  /\ summaries = 0
  /\ closed = FALSE
  /\ interrupted = FALSE

-----------------------------------------------------------------------------
\* The terminal signals the whole group.
UserInterrupt ==
  /\ UserInterrupts
  /\ ~interrupted
  /\ ~AllGone
  /\ interrupted' = TRUE
  /\ pending' = Alive
  /\ UNCHANGED <<pg, clk, sch, prog, work, releases, output>>

\* clearResources: killpg by destroyClk(true), which the generator itself does
\* not live to take.
SignalGroup ==
  /\ pg = "runs"
  /\ PG \in pending
  /\ pg' = "removes"
  /\ pending' = Alive \ {PG}
  /\ UNCHANGED <<clk, sch, prog, work, releases, output, interrupted>>

\* Mutant of ClearResources: the message queue is left.
ClearNothing ==
  /\ pg = "removes"
  /\ pg' = "gone"
  /\ UNCHANGED <<clk, sch, prog, pending, work, releases, output, interrupted>>

\* msgctl.  The two kill() that follow have their arguments swapped and signal
\* nobody: SIGKILL and SIGINT are no processes of this user, a pid no signal.
ClearResources ==
  /\ pg = "removes"
  /\ queue' = FALSE
  /\ pg' = "gone"
  /\ UNCHANGED <<clk, sch, prog, pending, work, shm, semaphores, output, interrupted>>

\* cleanup of the clock
Cleanup ==
  /\ clk = "runs"
  /\ CLK \in pending
  /\ shm' = FALSE
  /\ clk' = "gone"
  /\ pending' = pending \ {CLK}
  /\ UNCHANGED <<pg, sch, prog, work, queue, semaphores, output, interrupted>>

-----------------------------------------------------------------------------
\* The main loop of the scheduler.

AtLoop(step) == sch = step /\ SCH \notin pending

\* fopen, Count_OF_Processes and malloc
Start ==
  /\ AtLoop("starts")
  /\ sch' = "poll"
  /\ UNCHANGED <<pg, clk, prog, pending, work, releases, output, interrupted>>

Fork ==
  /\ AtLoop("poll")
  /\ queue
  /\ received < Count_OF_Processes
  /\ received' = received + 1
  /\ prog' = [prog EXCEPT ![received + 1] = "forked"]
  /\ sch' = "create"
  /\ UNCHANGED <<pg, clk, pending, mode, refused, finished_process_count,
                 process_count, semaphore_IDs, releases, output, interrupted>>

\* Its semaphore; if there is no memory for it, it work as finished.
CreateSemaphore ==
  /\ AtLoop("create")
  /\ semaphores' = semaphores \cup {received}
  /\ semaphore_IDs' = semaphore_IDs \cup {received}
  /\ \/ UNCHANGED <<finished_process_count, refused>>
     \/ /\ finished_process_count' = finished_process_count + 1
        /\ refused' = refused + 1
  /\ sch' = "poll"
  /\ UNCHANGED <<pg, clk, prog, pending, mode, received, process_count, queue, shm,
                 output, interrupted>>

\* In SJF_Algo the count is what that of the algorithm was before this turn,
\* whatever was added to it for processes that were refused.
SJF_Algo ==
  /\ mode = "SJF"
  /\ finished_process_count' = process_count
  /\ \/ UNCHANGED process_count
     \/ process_count + refused < received /\ process_count' = process_count + 1

OtherAlgo ==
  /\ mode # "SJF"
  /\ \/ UNCHANGED finished_process_count
     \/ /\ finished_process_count < received
        /\ finished_process_count' = finished_process_count + 1
  /\ UNCHANGED process_count

\* Mutant of Algorithm: in SJF a process may finish that was refused memory.
AlgorithmOfAny ==
  /\ AtLoop("poll")
  /\ \/ OtherAlgo
     \/ /\ mode = "SJF"
        /\ finished_process_count' = process_count
        /\ process_count' \in {process_count, process_count + 1}
  /\ sch' = "test"
  /\ UNCHANGED <<pg, clk, prog, pending, mode, received, refused, semaphore_IDs,
                 releases, output, interrupted>>

\* The algorithm, in which at most one process finishes.
Algorithm ==
  /\ AtLoop("poll")
  /\ SJF_Algo \/ OtherAlgo
  /\ sch' = "test"
  /\ UNCHANGED <<pg, clk, prog, pending, mode, received, refused, semaphore_IDs,
                 releases, output, interrupted>>

Test ==
  /\ AtLoop("test")
  /\ sch' = IF finished_process_count = Count_OF_Processes THEN "write" ELSE "poll"
  /\ UNCHANGED <<pg, clk, prog, pending, work, releases, output, interrupted>>

\* fputs.  In a further pass the file is closed: whatever the build makes of it.
Write ==
  /\ AtLoop("write")
  /\ IF closed
     THEN sch' \in {"close", "aborted"} /\ UNCHANGED buffered
     ELSE sch' = "close" /\ buffered' = buffered + 1
  /\ UNCHANGED <<pg, clk, prog, pending, work, releases, summaries, closed, interrupted>>

\* fclose, of closed files in a further pass.
Close ==
  /\ AtLoop("close")
  /\ sch' \in IF closed THEN {"kill", "aborted"} ELSE {"kill"}
  /\ closed' = TRUE
  /\ summaries' = summaries + buffered
  /\ buffered' = 0
  /\ UNCHANGED <<pg, clk, prog, pending, work, releases, interrupted>>

\* Mutant of Kill: the signal goes to nobody.
KillNobody ==
  /\ AtLoop("kill")
  /\ sch' = "poll"
  /\ UNCHANGED <<pg, clk, prog, pending, work, releases, output, interrupted>>

\* kill(getppid(), SIGINT), and the loop goes on.  Without the generator the
\* parent is another process, which the scheduler may not signal.
Kill ==
  /\ AtLoop("kill")
  /\ pending' = pending \cup ({PG} \cap Alive)
  /\ sch' = "poll"
  /\ UNCHANGED <<pg, clk, prog, work, releases, output, interrupted>>

SchedulerLoop ==
  Start \/ Fork \/ CreateSemaphore \/ Algorithm \/ Test \/ Write \/ Close \/ Kill

-----------------------------------------------------------------------------
\* What the handler finds in the IDs it removes: those that were set, and,
\* where the array is not set or ends, whatever is there in memory.
Removable(known) ==
  LET set   == known \cap 1 .. HandlerRemoves
      stray == IF 1 .. HandlerRemoves \subseteq set THEN {{}} ELSE SUBSET semaphores
  IN  {set \cup s : s \in stray}

\* Mutant of Handle: the count is not looked at.
HandleAlways ==
  /\ sch \in Loop
  /\ SCH \in pending
  /\ sch' = "removes"
  /\ pending' = pending \ {SCH}
  /\ summaries' = summaries + 1
  /\ buffered' = 0
  /\ closed' = TRUE
  /\ UNCHANGED <<pg, clk, prog, work, releases, interrupted>>

\* handler, up to the semaphores
Handle ==
  /\ sch \in Loop
  /\ SCH \in pending
  /\ sch' = "removes"
  /\ pending' = pending \ {SCH}
  /\ IF finished_process_count # Count_OF_Processes
     THEN /\ summaries' = summaries + buffered + 1
          /\ buffered' = 0
          /\ closed' = TRUE
     ELSE UNCHANGED output
  /\ UNCHANGED <<pg, clk, prog, work, releases, interrupted>>

\* The semaphores; exit writes what is still buffered.
RemoveAndExit ==
  /\ sch = "removes"
  /\ \E ids \in Removable(semaphore_IDs) : semaphores' = semaphores \ ids
  /\ summaries' = summaries + buffered
  /\ buffered' = 0
  /\ sch' = "gone"
  /\ UNCHANGED <<pg, clk, prog, pending, work, queue, shm, closed, interrupted>>

\* The handler is installed before anything else is done.  Without the array of
\* semaphores it aborts; before that it finds both counts 0 and writes nothing,
\* or, with Count_OF_Processes just set, writes the summary of nothing.
HandleAtStart ==
  /\ sch = "starts"
  /\ SCH \in pending
  /\ sch' = "aborted"
  /\ pending' = pending \ {SCH}
  /\ \/ UNCHANGED output
     \/ summaries' = summaries + 1 /\ closed' = TRUE /\ UNCHANGED buffered
  /\ UNCHANGED <<pg, clk, prog, work, releases, interrupted>>

SchedulerHandler == Handle \/ RemoveAndExit \/ HandleAtStart

-----------------------------------------------------------------------------
\* The programs.

Exec(p) ==
  /\ prog[p] = "forked"
  /\ Program(p) \notin pending
  /\ prog' = [prog EXCEPT ![p] = "started"]
  /\ UNCHANGED <<pg, clk, sch, pending, work, releases, output, interrupted>>

CreateOwnSemaphore(p) ==
  /\ prog[p] = "started"
  /\ Program(p) \notin pending
  /\ prog' = [prog EXCEPT ![p] = "loop"]
  /\ semaphores' = semaphores \cup {p}
  /\ UNCHANGED <<pg, clk, sch, pending, work, queue, shm, output, interrupted>>

\* It has counted down its time, or its semaphore was removed under it.
Terminate(p) ==
  /\ prog[p] = "loop"
  /\ Program(p) \notin pending
  /\ prog' = [prog EXCEPT ![p] = "gone"]
  /\ UNCHANGED <<pg, clk, sch, pending, work, releases, output, interrupted>>

\* Until execv a child is a copy of the scheduler, handler included: it writes
\* a summary of its own to the same file, removes the semaphores and is gone
\* ("copied").
HandleAsScheduler(p) ==
  /\ prog[p] = "forked"
  /\ Program(p) \in pending
  /\ prog' = [prog EXCEPT ![p] = "copied"]
  /\ pending' = pending \ {Program(p)}
  /\ summaries' = summaries + 1
  /\ \E ids \in Removable(semaphore_IDs \cap 1 .. p - 1) : semaphores' = semaphores \ ids
  /\ UNCHANGED <<pg, clk, sch, work, queue, shm, buffered, closed, interrupted>>

\* process.c has no handler.
Killed(p) ==
  /\ prog[p] \in {"started", "loop"}
  /\ Program(p) \in pending
  /\ prog' = [prog EXCEPT ![p] = "gone"]
  /\ pending' = pending \ {Program(p)}
  /\ UNCHANGED <<pg, clk, sch, work, releases, output, interrupted>>

ProgramStep(p) ==
  Exec(p) \/ CreateOwnSemaphore(p) \/ HandleAsScheduler(p) \/ Killed(p)

-----------------------------------------------------------------------------
Generator == SignalGroup \/ ClearResources
SchedulerStep == SchedulerLoop \/ SchedulerHandler

Next ==
  \/ UserInterrupt
  \/ Generator
  \/ Cleanup
  \/ SchedulerStep
  \/ \E p \in Procs : ProgramStep(p) \/ Terminate(p)

Spec == Init /\ [][Next]_vars

\* The operating system lets every process go on and delivers its signals.
FairSpec ==
  /\ Spec
  /\ WF_vars(Generator)
  /\ WF_vars(Cleanup)
  /\ WF_vars(SchedulerStep)
  /\ \A p \in Procs : WF_vars(ProgramStep(p))

-----------------------------------------------------------------------------
TypeOK ==
  /\ pg \in {"runs", "removes", "gone"}
  /\ clk \in {"runs", "gone"}
  /\ sch \in SchStates
  /\ prog \in [Procs -> {"none", "forked", "started", "loop", "gone", "copied"}]
  /\ pending \subseteq {PG, CLK, SCH} \cup {Program(p) : p \in Procs}
  /\ mode \in Modes
  /\ received \in 0 .. Count_OF_Processes
  /\ refused \in 0 .. received
  /\ finished_process_count \in 0 .. received
  /\ process_count \in 0 .. received - refused
  /\ semaphore_IDs \subseteq 1 .. received
  /\ semaphores \subseteq 1 .. received
  /\ queue \in BOOLEAN /\ shm \in BOOLEAN
  /\ buffered \in {0, 1}
  /\ summaries \in 0 .. Count_OF_Processes + 1
  /\ closed \in BOOLEAN /\ interrupted \in BOOLEAN

\* "Clears all resources in case of interruption or finished": when everybody
\* is gone so are the message queue and the shared memory; and so are the
\* semaphores that the handler knows of, none of which comes back by a program
\* that was still starting.  An abort in a further pass leaves them behind.
ResourcesCleared ==
  /\ AllGone => ~queue /\ ~shm
  /\ sch = "gone" => semaphores \cap semaphore_IDs \cap 1 .. HandlerRemoves = {}

\* The summaries in scheduler.perf that the scheduler itself has written; the
\* others are those of children that SIGINT found before they became their
\* program.
Copied == {p \in Procs : prog[p] = "copied"}
OwnSummaries == summaries - Cardinality(Copied)

\* Whatever passes the scheduler still makes, it writes one summary; none only
\* if the user's ^C came when the count had just become complete, or before the
\* scheduler was ready.
OneSummary ==
  sch \in {"gone", "aborted"} =>
    /\ OwnSummaries \in {0, 1}
    /\ OwnSummaries = 0 =>
         /\ interrupted
         /\ \/ finished_process_count = Count_OF_Processes
            \/ sch = "aborted" /\ received = 0

\* All processes are finished or were refused memory.
WorkIsDone ==
  IF mode = "SJF"
  THEN process_count + refused = Count_OF_Processes
  ELSE finished_process_count = Count_OF_Processes

\* The algorithm takes back what was counted for a refusal (line 494 of
\* scheduler.c), and the count cannot become complete any more.
RefusalIsForgotten == mode = "SJF" /\ refused > 0

\* Somebody who is to be interrupted does not end alone: everybody does.  And
\* so they do, with nobody interrupting them, once the work is done, but for
\* SJF after a refusal, where only ^C ends them.
EverybodyEnds ==
  (pending # {} \/ (WorkIsDone /\ ~RefusalIsForgotten)) ~> AllGone
=============================================================================
