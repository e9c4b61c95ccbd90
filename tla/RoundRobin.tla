----------------------------- MODULE RoundRobin -----------------------------
(***************************************************************************)
(* Round robin (Round_Robin in scheduler.c, the circular queue of          *)
(* headers_m.h and headers_amin.h).  The circular list is represented by   *)
(* the sequence of its processes from front to rear; curr_Proc moves       *)
(* around it, and new processes enter behind rear, that is before front.   *)
(*                                                                         *)
(* The process that used up its time is found at the beginning of the next *)
(* pass, after the processes of that tick have been received.              *)
(***************************************************************************)
EXTENDS Scheduler

CONSTANT q  \* the quantum given on the command line

VARIABLES
  circular_Queue_RR,
  curr_Proc,
  quanta,             \* how many more ticks curr_Proc may run
  waited              \* history: passes since p was last charged as running

rrVars == <<circular_Queue_RR, curr_Proc, quanta, waited>>
vars == <<sharedVars, rrVars>>

ASSUME ModeAssumption == mode = "RR"
ASSUME QuantumAssumption == q \in Nat \ {0}

\* quanta = q is executed before q is read, when q is still 0.
Init ==
  /\ SharedInit
  /\ circular_Queue_RR = <<>>
  /\ curr_Proc = None
  /\ quanta = 0
  /\ waited = [p \in Procs |-> 0]

Empty == circular_Queue_RR = <<>>
Alone == Len(circular_Queue_RR) = 1

\* Mutant of Successor: curr_Proc is not moved.
NoSuccessor(p) == p

\* The node of p, as remove_From_Circular finds it.
Position(p) == CHOOSE i \in 1 .. Len(circular_Queue_RR) : circular_Queue_RR[i] = p

\* curr_Proc->Next
Successor(p) ==
  circular_Queue_RR[IF Position(p) = Len(circular_Queue_RR) THEN 1 ELSE Position(p) + 1]

\* Insert_Circular_Queue; the first process of an empty queue is the current one.
ReceiveProcess ==
  \E n \in Messages :
    /\ Accept(n)
    /\ proc' = [proc EXCEPT ![received + 1] = n]
    /\ circular_Queue_RR' = Append(circular_Queue_RR, received + 1)
    /\ curr_Proc' = IF Empty THEN received + 1 ELSE curr_Proc
    /\ UNCHANGED <<quanta, waited>>

RefuseProcess == Refuse /\ UNCHANGED rrVars

-----------------------------------------------------------------------------
NotYetRun(procs, p) == procs[p].Remaining_time = procs[p].Running_time

\* Round_Robin begins by starting a process that has not run, whether or not
\* it is about to be switched.
Begun == IF NotYetRun(proc, curr_Proc) THEN SetState(proc, curr_Proc, "STARTED") ELSE proc
BegunLog == IF NotYetRun(proc, curr_Proc) THEN PrintLine(log, curr_Proc, "STARTED") ELSE log

Begin ==
  /\ Turn
  /\ ~Empty
  /\ ups' = Up(ups, curr_Proc)

\* The process switched to: it starts, or it resumes.
StateOfNext(p) == IF NotYetRun(proc, p) THEN "STARTED" ELSE "RESUMED"

\* The end of Round_Robin, when a process r runs in this tick.
Run(r, procs, queue) ==
  /\ circular_Queue_RR' = queue
  /\ curr_Proc' = r
  /\ proc' = Charge(procs, r, Range(queue))
  /\ waited' = [p \in Procs |-> IF p \in Range(queue) \ {r} THEN waited[p] + 1 ELSE 0]
  /\ UNCHANGED cpu_waiting_time

\* Mutant of Expired: the quantum is not looked at.
ExpiredByTime == proc[curr_Proc].Remaining_time = 0

Expired == quanta = 0 \/ proc[curr_Proc].Remaining_time = 0

KeepRunning ==
  /\ Begin
  /\ ~Expired
  /\ log' = BegunLog
  /\ Run(curr_Proc, Begun, circular_Queue_RR)
  /\ quanta' = quanta - 1
  /\ UNCHANGED <<mem, finished_process_count, total_waiting_time>>
  /\ EndOfPass

\* The quantum is over but there is no other process.
KeepAlone ==
  /\ Begin
  /\ Expired
  /\ Alone
  /\ proc[curr_Proc].Remaining_time # 0
  /\ log' = BegunLog
  /\ Run(curr_Proc, Begun, circular_Queue_RR)
  /\ quanta' = q - 1
  /\ UNCHANGED <<mem, finished_process_count, total_waiting_time>>
  /\ EndOfPass

\* The quantum is over: the process stops and the next one runs.
Switch ==
  LET next    == Successor(curr_Proc)
      stopped == SetState(Begun, curr_Proc, "STOPPED")
  IN
    /\ Begin
    /\ Expired
    /\ ~Alone
    /\ proc[curr_Proc].Remaining_time # 0
    /\ log' = PrintLine(PrintLine(BegunLog, curr_Proc, "STOPPED"), next, StateOfNext(next))
    /\ Run(next, SetState(stopped, next, StateOfNext(next)), circular_Queue_RR)
    /\ quanta' = q - 1
    /\ UNCHANGED <<mem, finished_process_count, total_waiting_time>>
    /\ EndOfPass

\* What the end of a process changes, in a queue of any length.
EndOfProcess ==
  /\ Begin
  /\ proc[curr_Proc].Remaining_time = 0
  /\ finished_process_count' = finished_process_count + 1
  /\ mem' = FreeMemoryOf(proc[curr_Proc])
  /\ total_waiting_time' = total_waiting_time + proc[curr_Proc].Waiting_time
  /\ quanta' = q - 1

FinishAndSwitch ==
  LET next     == Successor(curr_Proc)
      finished == Finish(proc, curr_Proc, follow)
  IN
    /\ EndOfProcess
    /\ ~Alone
    /\ log' = PrintLine(PrintLine(log, curr_Proc, "FINISHED"), next, StateOfNext(next))
    /\ Run(next, SetState(finished, next, StateOfNext(next)),
           RemoveAt(circular_Queue_RR, Position(curr_Proc)))
    /\ EndOfPass

FinishLast ==
  /\ EndOfProcess
  /\ Alone
  /\ log' = PrintLine(log, curr_Proc, "FINISHED")
  /\ proc' = Finish(proc, curr_Proc, follow)
  /\ circular_Queue_RR' = <<>>
  /\ curr_Proc' = None
  /\ cpu_waiting_time' = cpu_waiting_time + 1
  /\ UNCHANGED waited
  /\ EndOfPass

Idle ==
  /\ Turn
  /\ Empty
  /\ cpu_waiting_time' = cpu_waiting_time + 1
  /\ UNCHANGED <<proc, mem, finished_process_count, total_waiting_time, files, rrVars>>
  /\ EndOfPass

Algorithm == KeepRunning \/ KeepAlone \/ Switch \/ FinishAndSwitch \/ FinishLast \/ Idle

Next ==
  \/ Tick /\ UNCHANGED rrVars
  \/ ReceiveProcess
  \/ RefuseProcess
  \/ Algorithm

Spec == Init /\ [][Next]_vars

\* The clock keeps ticking, the generator keeps its schedule and the
\* scheduler's loop polls without blocking.
FairSpec == Spec /\ WF_vars(Next)

-----------------------------------------------------------------------------
TypeOK ==
  /\ SharedTypeOK
  /\ \A p \in Procs : proc[p].Remaining_time >= 0
  /\ circular_Queue_RR \in Seq(Procs)
  /\ curr_Proc \in Procs \cup {None}
  /\ quanta \in 0 .. q - 1
  /\ waited \in [Procs -> Nat]

\* The circular queue has every process that holds memory once, and curr_Proc
\* points into it: not to a node that was freed, and NULL only if it is empty.
NoneLost ==
  /\ IsInjective(circular_Queue_RR)
  /\ Holders = Range(circular_Queue_RR)
  /\ IF Empty THEN curr_Proc = None ELSE curr_Proc \in Range(circular_Queue_RR)

\* No process is lost; nor is the memory of any, and the scheduler does not
\* stop before they are all through.
NothingLost == NoneLost /\ MemoryIsOwned /\ StopsOnlyWhenDone

\* Between two of its turns a process waits for at most one quantum of every
\* other process, whoever arrives, finishes or is still alone in between.
BoundedWait ==
  \A p \in Holders : waited[p] <= (Count_OF_Processes - 1) * q

\* The lines of a process tell a possible life, except that it may be started
\* more than once.
LogTellsRestarts ==
  \A p \in Procs :
    /\ log[p] # <<>> => log[p][1] = "STARTED"
    /\ \A i \in 1 .. Len(log[p]) - 1 :
         \/ Follows(log[p][i], log[p][i + 1])
         \/ i = 2 /\ log[p][i] = "STOPPED" /\ log[p][i + 1] = "STARTED"
    /\ p \in Finished <=> (log[p] # <<>> /\ Last(log[p]) = "FINISHED")

\* What the output files say of the processes is so.
Reports == Accounts /\ LogTellsRestarts

\* The scheduler gets through all the work and stops.
EventuallyStops == <>(phase = "stopped")
=============================================================================
