-------------------------------- MODULE SJF --------------------------------
(***************************************************************************)
(* Shortest job first (SJF_Algo in scheduler.c, RUN_CURR_PROCESS in        *)
(* headers_saad.h).  The process that runs is a copy of a node that was    *)
(* taken off the list; it keeps its place in curr_Proc after it finished,  *)
(* until another one replaces it.                                          *)
(***************************************************************************)
EXTENDS PriorityList

VARIABLES
  process_count,  \* how many processes SJF_Algo has seen finish
  last_up         \* the last process may need one more up()

vars == <<sharedVars, listVars, process_count, last_up>>

ASSUME ModeAssumption == mode = "SJF"

Init ==
  /\ SharedInit
  /\ Priority_List_HPF_SJF = <<>>
  /\ curr_Proc = None
  /\ process_count = 0
  /\ last_up = TRUE

ReceiveProcess ==
  \E n \in Messages :
    /\ Accept(n)
    /\ PushIntoPriorityQueue(n)
    /\ UNCHANGED <<curr_Proc, process_count, last_up>>

RefuseProcess == Refuse /\ UNCHANGED <<listVars, process_count, last_up>>

-----------------------------------------------------------------------------
\* Mutant of NothingRuns: the state of the current process is not looked at.
NothingEverRuns == TRUE

NothingRuns == curr_Proc # None => proc[curr_Proc].State = "FINISHED"

\* RUN_CURR_PROCESS and what its caller adds up.  The caller passes what has
\* changed before: the list, the records, the semaphores and the log.
RunCurrProcess(r, list, procs, counts, lines) ==
  LET charged == Charge(procs, r, Range(list))
      done    == charged[r].Remaining_time = 0
  IN
    /\ curr_Proc' = r
    /\ Priority_List_HPF_SJF' = list
    /\ ups' = Up(counts, r)
    /\ proc' = IF done THEN Finish(charged, r, follow + 1) ELSE charged
    /\ log' = IF done THEN PrintLine(lines, r, "FINISHED") ELSE lines
    /\ mem' = IF done THEN FreeMemoryOf(charged[r]) ELSE mem
    /\ process_count' = IF done THEN process_count + 1 ELSE process_count
    /\ total_waiting_time' =
         IF done THEN total_waiting_time + charged[r].Waiting_time ELSE total_waiting_time
    /\ UNCHANGED cpu_waiting_time

\* Mutant of Begin: the common count is left alone.
BeginUncounted == Turn /\ UNCHANGED finished_process_count

\* Whatever the branch, SJF_Algo first resets the common count to its own.
Begin == Turn /\ finished_process_count' = process_count

Idle ==
  /\ Begin
  /\ Priority_List_HPF_SJF = <<>>
  /\ NothingRuns
  /\ IF curr_Proc # None /\ last_up
     THEN last_up' = FALSE /\ ups' = Up(ups, curr_Proc)
     ELSE UNCHANGED <<last_up, ups>>
  /\ cpu_waiting_time' = cpu_waiting_time + 1
  /\ UNCHANGED <<proc, mem, total_waiting_time, log, listVars, process_count>>
  /\ EndOfPass

Dispatch ==
  /\ Begin
  /\ Priority_List_HPF_SJF # <<>>
  /\ NothingRuns
  /\ RunCurrProcess(front, Tail(Priority_List_HPF_SJF),
                    SetState(proc, front, "STARTED"),
                    IF curr_Proc = None THEN ups ELSE Up(ups, curr_Proc),
                    PrintLine(log, front, "STARTED"))
  /\ last_up' = (curr_Proc # None \/ last_up)
  /\ EndOfPass

Continue ==
  /\ Begin
  /\ ~NothingRuns
  /\ RunCurrProcess(curr_Proc, Priority_List_HPF_SJF, proc, ups, log)
  /\ UNCHANGED last_up
  /\ EndOfPass

Algorithm == Idle \/ Dispatch \/ Continue

Next ==
  \/ Tick /\ UNCHANGED <<listVars, process_count, last_up>>
  \/ ReceiveProcess
  \/ RefuseProcess
  \/ Algorithm

Spec == Init /\ [][Next]_vars

\* The clock keeps ticking, the generator keeps its schedule and the
\* scheduler's loop polls without blocking.
FairSpec == Spec /\ WF_vars(Next)

-----------------------------------------------------------------------------
TypeOK ==
  /\ SharedTypeOK
  /\ \A p \in Procs : proc[p].Remaining_time >= 0
  /\ Priority_List_HPF_SJF \in Seq(Procs)
  /\ curr_Proc \in Procs \cup {None}
  /\ process_count \in Nat
  /\ last_up \in BOOLEAN

\* Every process that holds memory is either on the list, once, or the one
\* that runs: none is lost or duplicated by the copies that are made of it.
NoneLost ==
  /\ NoDuplicates
  /\ Holders = Range(Priority_List_HPF_SJF) \cup (IF NothingRuns THEN {} ELSE {curr_Proc})
  /\ ~NothingRuns => curr_Proc \notin Range(Priority_List_HPF_SJF)

\* No process is lost; nor is the memory of any, and the scheduler does not
\* stop before they are all through.
NothingLost == NoneLost /\ MemoryIsOwned /\ StopsOnlyWhenDone

\* What the output files say of the processes is so, and up() keeps pace with
\* it, although the last one of a process is called passes after its end.
Reports == Accounts /\ LogTellsLife /\ Lockstep

\* Whatever runs, no other process is half-way; and a process that begins is
\* one of the shortest of those that wait, however the arrivals were inserted
\* between the dispatches.
ShortestFirst ==
  [][\A p, x \in Holders :
       proc'[p].Remaining_time < proc[p].Remaining_time /\ p # x =>
         /\ Executed(x) = 0
         /\ Executed(p) = 0 => proc[p].Running_time <= proc[x].Running_time]_vars

\* A pass that finds every process received and none left stops the
\* scheduler ("IF Schedular finished its job it Terminates").
TerminatesWhenFinished ==
  [][phase = "receive" /\ phase' # "receive"
       /\ received = Count_OF_Processes /\ Holders = {} => phase' = "stopped"]_vars

\* The scheduler gets through all the work and stops, unless a process was
\* refused memory (see TerminatesWhenFinished).
EventuallyStops == <>(phase = "stopped" \/ Refused # {})
=============================================================================
