------------------------------ MODULE Programs ------------------------------
(***************************************************************************)
(* The simulated processes (process.c) and their semaphores (Semaphore.h). *)
(* The scheduler forks a program when it receives a process, before it     *)
(* knows whether there is memory, and calls up() once for each second the  *)
(* program is to count down; the program calls down() once for each second *)
(* in which it runs.  Both sides create the semaphore and set it to 0.     *)
(***************************************************************************)
EXTENDS Scheduler

CONSTANT
  PunctualPrograms  \* TRUE: a program has created its semaphore when the
                    \*   scheduler begins its next pass

VARIABLES
  prog,           \* where each program is
  sem,            \* the value of its semaphore
  remainingtime,  \* its own count
  seen            \* it has seen the present clock value (follow = *shmaddr)

programVars == <<prog, sem, remainingtime, seen>>

ASSUME ProgramsAssumption == PunctualPrograms \in BOOLEAN

ProgramStates == {"none", "forked", "started", "loop", "down", "ended"}

ProgramsInit ==
  /\ prog = [p \in Procs |-> "none"]
  /\ sem = [p \in Procs |-> 0]
  /\ remainingtime = [p \in Procs |-> 0]
  /\ seen = [p \in Procs |-> FALSE]

-----------------------------------------------------------------------------
\* The scheduler's side.

\* fork, semget and SETVAL for the process that is received.
Fork ==
  LET p == received + 1 IN
    /\ prog' = [prog EXCEPT ![p] = "forked"]
    /\ sem' = [sem EXCEPT ![p] = 0]
    /\ remainingtime' = [remainingtime EXCEPT ![p] = proc'[p].Running_time]
    /\ UNCHANGED seen

\* Its up() calls of this pass.
Ups ==
  /\ sem' = [p \in Procs |-> sem[p] + ups'[p] - ups[p]]
  /\ UNCHANGED <<prog, remainingtime, seen>>

-----------------------------------------------------------------------------
\* The program of p.

\* execv; x = getClk(); follow = x.
Start(p) ==
  /\ prog[p] = "forked"
  /\ prog' = [prog EXCEPT ![p] = "started"]
  /\ seen' = [seen EXCEPT ![p] = TRUE]
  /\ UNCHANGED <<sem, remainingtime>>

\* semget finds the scheduler's semaphore, and SETVAL resets it.
CreateSemaphore(p) ==
  /\ prog[p] = "started"
  /\ prog' = [prog EXCEPT ![p] = "loop"]
  /\ sem' = [sem EXCEPT ![p] = 0]
  /\ UNCHANGED <<remainingtime, seen>>

\* A new second: the program calls down().
CallDown(p) ==
  /\ prog[p] = "loop"
  /\ ~seen[p]
  /\ prog' = [prog EXCEPT ![p] = "down"]
  /\ seen' = [seen EXCEPT ![p] = TRUE]
  /\ UNCHANGED <<sem, remainingtime>>

\* Mutant of PassDown: the semaphore is not waited for.
PassDownAnyway(p) ==
  /\ prog[p] = "down"
  /\ sem' = [sem EXCEPT ![p] = IF @ > 0 THEN @ - 1 ELSE 0]
  /\ remainingtime' = [remainingtime EXCEPT ![p] = @ - 1]
  /\ prog' = [prog EXCEPT ![p] = IF remainingtime[p] = 1 THEN "ended" ELSE "loop"]
  /\ UNCHANGED seen

\* down() gets through.
PassDown(p) ==
  /\ prog[p] = "down"
  /\ sem[p] > 0
  /\ sem' = [sem EXCEPT ![p] = @ - 1]
  /\ remainingtime' = [remainingtime EXCEPT ![p] = @ - 1]
  /\ prog' = [prog EXCEPT ![p] = IF remainingtime[p] = 1 THEN "ended" ELSE "loop"]
  /\ UNCHANGED seen

Program(p) == Start(p) \/ CreateSemaphore(p) \/ CallDown(p) \/ PassDown(p)

\* The scheduler may begin another pass.
ProgramsReady == PunctualPrograms => \A p \in Procs : prog[p] \notin {"forked", "started"}

\* The clock has gone on, so nobody has seen its value.
NewSecond ==
  /\ seen' = [p \in Procs |-> FALSE]
  /\ UNCHANGED <<prog, sem, remainingtime>>

-----------------------------------------------------------------------------
ProgramsTypeOK ==
  /\ prog \in [Procs -> ProgramStates]
  /\ sem \in [Procs -> Nat]
  /\ remainingtime \in [Procs -> Nat]
  /\ seen \in [Procs -> BOOLEAN]

\* A program runs only in step with the scheduler: it is never more than one
\* second ahead of the scheduler's own count of the process.
NeverAhead ==
  \A p \in 1 .. received :
    proc[p].Running_time - remainingtime[p] <= Executed(p) + 1

\* "When a process finishes its running time ... its process.c program
\* terminates by itself": no down() it has left to call can block.
CanEnd == \A p \in Finished : remainingtime[p] <= sem[p]

\* "as both scheduler and process are synchronized": the up() calls keep pace
\* with the scheduler's count, and the program with both.
Synchronized == Lockstep /\ NeverAhead /\ CanEnd
=============================================================================
