----------------------------- MODULE Processor -----------------------------
(***************************************************************************)
(* What every scheduling algorithm promises, whatever its order: in each   *)
(* pass one of the processes that have work left is served one tick, so    *)
(* that the processor idles only if there is no work; and a process leaves *)
(* when its work is done: in the pass that served its last tick or in the  *)
(* next one, and never before.                                             *)
(***************************************************************************)
EXTENDS Integers

CONSTANT Clients

VARIABLES
  open,      \* a pass has begun and its arrivals may come in
  resident,  \* the processes that are in the system
  left       \* how many ticks of work each has left

processorVars == <<open, resident, left>>

ProcessorInit ==
  /\ open = FALSE
  /\ resident = {}
  /\ left = [p \in Clients |-> 0]

Begin ==
  /\ ~open
  /\ open' = TRUE
  /\ UNCHANGED <<resident, left>>

Arrive(p) ==
  /\ open
  /\ p \notin resident
  /\ resident' = resident \cup {p}
  /\ left'[p] > 0
  /\ left' = [left EXCEPT ![p] = left'[p]]
  /\ UNCHANGED open

\* The processes that have no work left leave: all that had none when the
\* pass began, and possibly the one that has been served.
Leave ==
  /\ resident' \subseteq resident
  /\ \A p \in resident :
       /\ p \in resident' => left[p] > 0
       /\ p \notin resident' => left'[p] = 0

Serve(p) ==
  /\ open
  /\ p \in resident
  /\ left[p] > 0
  /\ left' = [left EXCEPT ![p] = @ - 1]
  /\ Leave
  /\ open' = FALSE

Rest ==
  /\ open
  /\ \A p \in resident : left[p] = 0
  /\ Leave
  /\ open' = FALSE
  /\ UNCHANGED left

ProcessorNext ==
  \/ Begin
  \/ \E p \in Clients : Arrive(p) \/ Serve(p)
  \/ Rest

ProcessorSpec == ProcessorInit /\ [][ProcessorNext]_processorVars
=============================================================================
