-------------------------------- MODULE HPF --------------------------------
(***************************************************************************)
(* Highest priority first, preemptive (HPF_Algo in scheduler.c): the front *)
(* of the list runs; the least number is the highest priority.  A process  *)
(* that used up its time stays on the list until it is found at the front  *)
(* at the beginning of a pass, after the processes of that tick have been  *)
(* received.                                                               *)
(***************************************************************************)
EXTENDS PriorityList

VARIABLES
  P_state,  \* the state printed last, whoever it was
  startt    \* a process was started and none has finished since

vars == <<sharedVars, listVars, P_state, startt>>

ASSUME ModeAssumption == mode = "HPF"

Init ==
  /\ SharedInit
  /\ Priority_List_HPF_SJF = <<>>
  /\ curr_Proc = None
  /\ P_state = "STOPPED"
  /\ startt = FALSE

Empty == Priority_List_HPF_SJF = <<>>

ReceiveProcess ==
  \E n \in Messages :
    /\ Accept(n)
    /\ PushIntoPriorityQueue(n)
    /\ curr_Proc' = IF Empty THEN received + 1 ELSE curr_Proc
    /\ UNCHANGED <<P_state, startt>>

RefuseProcess == Refuse /\ UNCHANGED <<listVars, P_state, startt>>

-----------------------------------------------------------------------------
\* The front f runs in this tick.  Its state is set, and printed only if it
\* differs from the state printed last; shown and started are P_state and
\* startt as the steps before have left them.
RunFront(f, list, procs, lines, shown, started) ==
  LET state == IF procs[f].Remaining_time = procs[f].Running_time THEN "STARTED"
               ELSE IF started THEN procs[f].State
               ELSE "RESUMED"
      sets  == procs[f].Remaining_time = procs[f].Running_time \/ ~started
  IN
    /\ Priority_List_HPF_SJF' = list
    /\ proc' = Charge(SetState(procs, f, state), f, Range(list))
    /\ log' = IF sets /\ state # shown THEN PrintLine(lines, f, state) ELSE lines
    /\ P_state' = IF sets THEN state ELSE shown
    /\ startt' = (started \/ state = "STARTED")
    /\ UNCHANGED cpu_waiting_time

Begin == Turn /\ ~Empty

\* Another process has come to the front while curr_Proc had time left.
Preempts == curr_Proc # front /\ proc[curr_Proc].Remaining_time # 0

PreemptedProc == IF Preempts THEN SetState(proc, curr_Proc, "STOPPED") ELSE proc
PreemptedLog == IF Preempts THEN PrintLine(log, curr_Proc, "STOPPED") ELSE log

RunHighest ==
  /\ Begin
  /\ proc[front].Remaining_time # 0
  /\ ups' = Up(ups, front)
  /\ curr_Proc' = IF Preempts THEN front ELSE curr_Proc
  /\ RunFront(front, Priority_List_HPF_SJF, PreemptedProc, PreemptedLog,
              IF Preempts THEN "STOPPED" ELSE P_state, startt)
  /\ UNCHANGED <<mem, finished_process_count, total_waiting_time>>
  /\ EndOfPass

\* The front has used up its time: it finishes and leaves the list.
EndOfFront ==
  /\ Begin
  /\ proc[front].Remaining_time = 0
  /\ ups' = Up(Up(ups, front), front)
  /\ finished_process_count' = finished_process_count + 1
  /\ mem' = FreeMemoryOf(proc[front])
  /\ total_waiting_time' = total_waiting_time + proc[front].Waiting_time

FinishAndRunNext ==
  LET rest == Tail(Priority_List_HPF_SJF) IN
    /\ EndOfFront
    /\ rest # <<>>
    /\ curr_Proc' = Head(rest)
    /\ RunFront(Head(rest), rest, Finish(PreemptedProc, front, follow),
                PrintLine(PreemptedLog, front, "FINISHED"), "FINISHED", FALSE)
    /\ EndOfPass

FinishLast ==
  /\ EndOfFront
  /\ Tail(Priority_List_HPF_SJF) = <<>>
  /\ Priority_List_HPF_SJF' = <<>>
  /\ curr_Proc' = None
  /\ proc' = Finish(PreemptedProc, front, follow)
  /\ log' = PrintLine(PreemptedLog, front, "FINISHED")
  /\ P_state' = "FINISHED"
  /\ startt' = FALSE
  /\ cpu_waiting_time' = cpu_waiting_time + 1
  /\ EndOfPass

Idle ==
  /\ Turn
  /\ Empty
  /\ cpu_waiting_time' = cpu_waiting_time + 1
  /\ UNCHANGED <<proc, mem, finished_process_count, total_waiting_time, files,
                 listVars, P_state, startt>>
  /\ EndOfPass

Algorithm == RunHighest \/ FinishAndRunNext \/ FinishLast \/ Idle

Next ==
  \/ Tick /\ UNCHANGED <<listVars, P_state, startt>>
  \/ ReceiveProcess
  \/ RefuseProcess
  \/ Algorithm

Spec == Init /\ [][Next]_vars

\* The clock keeps ticking, the generator keeps its schedule and the
\* scheduler's loop polls without blocking.
FairSpec == Spec /\ WF_vars(Next)

-----------------------------------------------------------------------------
TypeOK ==
  /\ SharedTypeOK
  /\ Priority_List_HPF_SJF \in Seq(Procs)
  /\ curr_Proc \in Procs \cup {None}
  /\ P_state \in States
  /\ startt \in BOOLEAN

\* Every process that holds memory is on the list once, in the order of the
\* priorities, and curr_Proc points into the list: never to a freed node, and
\* NULL only if the list is empty.
NoneLost ==
  /\ NoDuplicates
  /\ Sorted
  /\ Holders = Range(Priority_List_HPF_SJF)
  /\ IF Empty THEN curr_Proc = None ELSE curr_Proc \in Range(Priority_List_HPF_SJF)

\* No process is lost; nor is the memory of any, and the scheduler does not
\* stop before they are all through.
NothingLost == NoneLost /\ MemoryIsOwned /\ StopsOnlyWhenDone

\* The lines of p that repeat the line before them.
Repeated(p) == {i \in 2 .. Len(log[p]) : log[p][i] = log[p][i - 1]}

\* A process that is preempted has a line before: it was started or resumed,
\* although HPF prints a state only if it differs from the one printed last for
\* any process.  The last line of a process, and no other, says FINISHED.  Only
\* a process that runs beyond its time may be resumed twice in a row, and once:
\* it was displaced with no time left, without a line.
LogTellsStops ==
  \A p \in Procs :
    /\ \A i \in 2 .. Len(log[p]) :
         /\ log[p][i] = "STOPPED" => log[p][i - 1] \in {"STARTED", "RESUMED"}
         /\ log[p][i - 1] # "FINISHED"
    /\ \A i \in Repeated(p) :
         /\ Repeated(p) = {i} /\ log[p][i] = "RESUMED"
         /\ proc[p].Remaining_time < 0
    /\ p \in Finished <=> (log[p] # <<>> /\ Last(log[p]) = "FINISHED")

\* A process that comes to the front because the one before it finished runs
\* its tick without an up(): its program may be behind by as many seconds as
\* other processes have finished, and by no more.
UpsExceptPops ==
  /\ \A p \in Holders :
       ups[p] \in Executed(p) - Cardinality(Finished) .. Executed(p)
  /\ \A p \in Finished :
       ups[p] \in proc[p].Running_time + 2 - Cardinality(Finished \ {p})
                   .. proc[p].Running_time + 2

\* What the output files say of the processes is so, and up() keeps pace.
Reports == Accounts /\ LogTellsStops /\ UpsExceptPops

\* Whatever runs in a tick has the highest priority of all the processes that
\* hold memory, those received in the same tick included.
HighestRuns ==
  [][\A p, x \in Holders :
       /\ proc'[p].Remaining_time < proc[p].Remaining_time
       /\ proc'[x].State # "FINISHED"
       => proc[p].Priority <= proc[x].Priority]_vars

\* "Every clock checks on the remaining time and if it equals 0, change the
\* process state to be FINISHED": no process is still there to run beyond it.
NoOverrun == \A p \in Procs : proc[p].Remaining_time >= 0

\* The scheduler gets through all the work and stops, unless a process ran
\* beyond its time (see NoOverrun): its remaining time is never 0 again.
EventuallyStops ==
  <>(phase = "stopped" \/ \E p \in Procs : proc[p].Remaining_time < 0)
=============================================================================
