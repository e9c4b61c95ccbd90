----------------------------- MODULE Scheduler -----------------------------
(***************************************************************************)
(* The part of scheduler.c that the four algorithms share: the main loop,  *)
(* the reception of processes with their memory, and the accounts.  One    *)
(* turn of the loop for a new clock value is                               *)
(*                                                                         *)
(*    Tick ; Receive or Refuse, once per message ; one step of the         *)
(*    algorithm, ending with the test for termination.                     *)
(*                                                                         *)
(* The clock, the process generator and the message queue are inputs: they *)
(* choose how far the clock went since the last pass, and which process    *)
(* comes out of the queue and how late.  SJF, HPF, RoundRobin and MLFL     *)
(* extend this module, each with its ready queue and its algorithm.        *)
(***************************************************************************)
EXTENDS MainMemory, SequencesExt

CONSTANTS
  mode,                \* the algorithm: "SJF", "HPF", "RR" or "MLFL"
  Count_OF_Processes,  \* how many processes the file lists
  RunTimes,            \* the running times in the file
  Priorities,          \* the priorities in the file
  StartTime,           \* the clock when the scheduler starts
  Lags,                \* how many ticks after its arrival time a process may
                       \*   be received (-1: the clock ticked while receiving)
  LastReceipt,         \* bound: at this clock all processes have been received
  MaxMissed,           \* bound: how many ticks of the clock may pass without a
                       \*   pass of the loop
  MaxTime              \* bound: no pass begins after this clock

VARIABLES
  follow,                  \* the clock value of this pass
  phase,                   \* where the main loop is: polling the clock,
                           \*   receiving, or stopped by the end of the work
  received,                \* the processes received so far are 1 .. received
  proc,                    \* the Process record of each of them
  finished_process_count,
  cpu_waiting_time,
  total_waiting_time,
  ups,                     \* how often up() was called on p's semaphore
  log,                     \* the states of p's lines in scheduler.log
  delay,                   \* history: clock ticks since p arrived that passed
                           \*   before its receipt or without a pass
  missed                   \* history: clock ticks without a pass

files == <<ups, log>>
history == <<delay, missed>>
sharedVars == <<follow, phase, received, proc, mem, finished_process_count,
                cpu_waiting_time, total_waiting_time, files, history>>

ASSUME CountAssumption == Count_OF_Processes \in Nat \ {0}

\* test_generator.c writes running times of 1 to 30.
ASSUME RunTimesAssumption == RunTimes \subseteq Nat \ {0}

ASSUME PrioritiesAssumption == Priorities \subseteq 0 .. 10

ASSUME TimesAssumption ==
  /\ StartTime \in Nat
  /\ MaxMissed \in Nat
  /\ LastReceipt \in Nat
  /\ MaxTime \in Nat
  /\ Lags \subseteq Int

Procs == 1 .. Count_OF_Processes
None == 0

States == {"STARTED", "FINISHED", "STOPPED", "RESUMED"}
Phases == {"poll", "receive", "stopped"}

-----------------------------------------------------------------------------
\* The process that comes out of the message queue, as Read_file fills its
\* record in, with the place mem_alloc returns for it.
Message(lag, run, priority, b) ==
  [Arrival_time   |-> follow - lag,
   Running_time   |-> run,
   Remaining_time |-> run,
   Waiting_time   |-> 0,
   TA             |-> 0,
   Priority       |-> IF mode = "SJF" THEN run ELSE priority,
   no_of_blocks   |-> b,
   memindex       |-> MemAlloc(mem, b),
   State          |-> "STOPPED"]

Messages ==
  {Message(lag, run, priority, b) :
     lag \in Lags, run \in RunTimes, priority \in Priorities, b \in BlockCounts}

\* A record that no process has yet.
Unborn ==
  [Arrival_time |-> 0, Running_time |-> 0, Remaining_time |-> 0,
   Waiting_time |-> 0, TA |-> 0, Priority |-> 0,
   no_of_blocks |-> 0, memindex |-> NoPlace, State |-> "STOPPED"]

SharedInit ==
  /\ follow = StartTime
  /\ phase = "poll"
  /\ received = 0
  /\ proc = [p \in Procs |-> Unborn]
  /\ mem = {}
  /\ finished_process_count = 0
  /\ cpu_waiting_time = StartTime
  /\ total_waiting_time = 0
  /\ ups = [p \in Procs |-> 0]
  /\ log = [p \in Procs |-> <<>>]
  /\ delay = [p \in Procs |-> 0]
  /\ missed = 0

\* p has been received with memory and is not finished.
Holds(p) == proc[p].memindex # NoPlace /\ proc[p].State # "FINISHED"
Holders == {p \in Procs : Holds(p)}

-----------------------------------------------------------------------------
\* The clock has changed since the last pass: follow = x.
Tick ==
  /\ phase = "poll"
  /\ follow < MaxTime
  /\ \E gap \in 1 .. MaxMissed + 1 - missed :
       /\ follow' = follow + gap
       /\ delay' = [p \in Procs |-> IF Holds(p) THEN delay[p] + gap - 1 ELSE delay[p]]
       /\ missed' = missed + gap - 1
  /\ phase' = "receive"
  /\ UNCHANGED <<received, proc, mem, finished_process_count,
                 cpu_waiting_time, total_waiting_time, files>>

\* One message is received and asks for its memory.  The generator sends the
\* processes in the order of their arrival times.
Receive(n) ==
  /\ phase = "receive"
  /\ received < Count_OF_Processes
  /\ n \in Messages
  /\ received > 0 => proc[received].Arrival_time <= n.Arrival_time
  /\ received' = received + 1
  /\ mem' = Reserve(mem, n.memindex, n.no_of_blocks)
  /\ delay' = [delay EXCEPT ![received + 1] = follow - n.Arrival_time]
  /\ UNCHANGED <<follow, phase, cpu_waiting_time, total_waiting_time, files, missed>>

\* Mutant of Refuse: a refused process is not counted as finished.
RefuseUncounted ==
  \E n \in Messages :
    /\ n.memindex = NoPlace
    /\ Receive(n)
    /\ proc' = [proc EXCEPT ![received + 1] = n]
    /\ UNCHANGED finished_process_count

\* There is no memory for it: it enters no queue and counts as finished.
Refuse ==
  \E n \in Messages :
    /\ n.memindex = NoPlace
    /\ Receive(n)
    /\ proc' = [proc EXCEPT ![received + 1] = n]
    /\ finished_process_count' = finished_process_count + 1

\* There is: it enters the ready queue, which each algorithm adds.
Accept(n) ==
  /\ n.memindex # NoPlace
  /\ Receive(n)
  /\ UNCHANGED finished_process_count

\* The message queue is empty, so the algorithm has its turn.
Turn ==
  /\ phase = "receive"
  /\ received = Count_OF_Processes \/ follow < LastReceipt

\* Mutant of EndOfPass: the count is compared with the processes received.
EndOfPassAllReceived ==
  /\ phase' = IF finished_process_count' = received THEN "stopped" ELSE "poll"
  /\ UNCHANGED <<follow, received, history>>

\* What ends every pass: the scheduler stops if all have finished.
EndOfPass ==
  /\ phase' = IF finished_process_count' = Count_OF_Processes THEN "stopped" ELSE "poll"
  /\ UNCHANGED <<follow, received, history>>

-----------------------------------------------------------------------------
\* What the algorithms do to the records, the semaphores and the log.

\* Mutant of Charge: nobody is charged for waiting.
ChargeNoWaiting(procs, r, S) ==
  [procs EXCEPT ![r].Remaining_time = @ - 1]

\* The tick is run by r and waited by the processes in S.
Charge(procs, r, S) ==
  [p \in Procs |->
     IF p = r      THEN [procs[p] EXCEPT !.Remaining_time = @ - 1]
     ELSE IF p \in S THEN [procs[p] EXCEPT !.Waiting_time = @ + 1]
     ELSE procs[p]]

SetState(procs, p, s) == [procs EXCEPT ![p].State = s]

\* Mutant of Finish: the state is not set.
FinishUnmarked(procs, p, time) ==
  [procs EXCEPT ![p].TA = time - procs[p].Arrival_time]

\* Mutant of Finish: the last tick is also charged as waiting.
FinishWaiting(procs, p, time) ==
  [procs EXCEPT ![p].State = "FINISHED", ![p].TA = time - procs[p].Arrival_time,
                ![p].Waiting_time = @ + 1]

\* PRINT_CURR_PROCESS for a finished process also sets its turnaround time.
Finish(procs, p, time) ==
  [procs EXCEPT ![p].State = "FINISHED", ![p].TA = time - procs[p].Arrival_time]

FreeMemoryOf(n) == MemDealloc(mem, n.no_of_blocks, n.memindex)

\* Mutant of Up: the sign of sem_op is the one of down().
UpIsDown(counts, p) == [counts EXCEPT ![p] = @ - 1]

\* Mutant of Up: the call is missing.
NoUp(counts, p) == counts

Up(counts, p) == [counts EXCEPT ![p] = @ + 1]

\* Mutant of PrintLine: the table of the names is in another order than the
\* states.
PrintLineSwapped(lines, p, s) ==
  [lines EXCEPT ![p] = Append(@, CASE s = "FINISHED" -> "STOPPED"
                                   [] s = "STOPPED"  -> "FINISHED"
                                   [] OTHER          -> s)]

PrintLine(lines, p, s) == [lines EXCEPT ![p] = Append(@, s)]

-----------------------------------------------------------------------------
\* Properties that the algorithms share.

Executed(p) == proc[p].Running_time - proc[p].Remaining_time
Finished == {p \in Procs : proc[p].State = "FINISHED"}
Refused == {p \in 1 .. received : proc[p].memindex = NoPlace}
Owned(p) == IF Holds(p) THEN Region(proc[p].memindex, proc[p].no_of_blocks) ELSE {}

SharedTypeOK ==
  /\ follow \in Nat
  /\ phase \in Phases
  /\ received \in 0 .. Count_OF_Processes
  /\ proc \in [Procs -> [Arrival_time : Int, Running_time : Nat, Remaining_time : Int,
                         Waiting_time : Nat, TA : Int, Priority : Nat,
                         no_of_blocks : BlockCounts \cup {0},
                         memindex : Blocks \cup {NoPlace}, State : States]]
  /\ mem \subseteq Blocks
  /\ finished_process_count \in Nat
  /\ cpu_waiting_time \in Nat
  /\ total_waiting_time \in Nat
  /\ ups \in [Procs -> Nat]
  /\ log \in [Procs -> Seq(States)]
  /\ delay \in [Procs -> Int]
  /\ missed \in Nat

\* The flags of mem are exactly the blocks of the processes that were received
\* with memory and are not finished, and no block serves two of them: the
\* place and size kept in the records, which are copied from node to node,
\* always give back what mem_alloc reserved.
MemoryIsOwned ==
  /\ mem = UNION {Owned(p) : p \in Procs}
  /\ \A p, x \in Procs : p # x => Owned(p) \cap Owned(x) = {}

\* Every pass since a process was received has charged it with exactly one
\* tick, run or waited: together with the ticks no pass saw, they make up the
\* time since its arrival.
ChargedFor(p) ==
  Holds(p) =>
    proc[p].Waiting_time + Executed(p) + delay[p] =
      follow - proc[p].Arrival_time + IF phase = "receive" THEN 0 ELSE 1
Charged == \A p \in Procs : ChargedFor(p)

\* The turnaround time in the log is the running time plus the waiting time
\* plus the ticks no pass saw.
TurnaroundOf(p) ==
  proc[p].State = "FINISHED" =>
    proc[p].TA = proc[p].Running_time + proc[p].Waiting_time + delay[p]
Turnaround == \A p \in Procs : TurnaroundOf(p)

\* What scheduler.perf prints as the busy time, follow - cpu_waiting_time, is
\* the time the processes ran (and the ticks no pass saw): a tick is counted
\* as idle exactly if nothing ran in it.
Utilization ==
  phase # "receive" =>
    follow - cpu_waiting_time = SumFunction([p \in Procs |-> Executed(p)]) + missed

\* The total behind "Avg Waiting" has every finished process once.
WaitingTotal ==
  total_waiting_time = SumFunction([p \in Finished |-> proc[p].Waiting_time])

\* The numbers in scheduler.log and scheduler.perf.
Accounts == Charged /\ Turnaround /\ Utilization /\ WaitingTotal

\* The scheduler stops only when every process was received and none is left.
StopsOnlyWhenDone ==
  phase = "stopped" => received = Count_OF_Processes /\ Holders = {}

\* Every up() lets the process's own program count down one tick: it is at
\* most one tick ahead of or behind the scheduler's count, and once the
\* process is finished it has all it needs to terminate by itself.
Lockstep ==
  /\ \A p \in Holders : ups[p] \in Executed(p) - 1 .. Executed(p) + 1
  /\ \A p \in Finished : ups[p] >= proc[p].Running_time

\* After line s of a process, scheduler.log may have line t for it.
Follows(s, t) ==
  CASE s = "STARTED"  -> t \in {"STOPPED", "FINISHED"}
    [] s = "STOPPED"  -> t = "RESUMED"
    [] s = "RESUMED"  -> t \in {"STOPPED", "FINISHED"}
    [] s = "FINISHED" -> FALSE

\* The lines of a process tell a possible life: started once, stopped and
\* resumed in turn, finished once and last.
LogTellsLife ==
  \A p \in Procs :
    /\ log[p] # <<>> => log[p][1] = "STARTED"
    /\ \A i \in 1 .. Len(log[p]) - 1 : Follows(log[p][i], log[p][i + 1])
    /\ p \in Finished <=> (log[p] # <<>> /\ Last(log[p]) = "FINISHED")

\* The algorithm serves the processes that hold memory: one tick of one of
\* them in every pass while there is any with time remaining, none beyond its
\* running time, and each leaves as soon as its time is up.
Served == INSTANCE Processor
            WITH Clients <- Procs,
                 open <- (phase = "receive"),
                 resident <- Holders,
                 left <- [p \in Procs |-> IF proc[p].memindex = NoPlace
                                         THEN 0 ELSE proc[p].Remaining_time]
ImplementsProcessor == Served!ProcessorSpec
=============================================================================
