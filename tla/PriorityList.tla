---------------------------- MODULE PriorityList ----------------------------
(***************************************************************************)
(* The ready queue of SJF and HPF (pushIntoPriorityQueue, popFromQueue in  *)
(* headers_ali.h): a linked list kept in the order of its nodes' priority, *)
(* the least number first.  It is represented by the sequence of its       *)
(* processes from the front to the last.                                   *)
(***************************************************************************)
EXTENDS Scheduler

VARIABLES
  Priority_List_HPF_SJF,
  curr_Proc               \* SJF: the process that runs or ran last;
                          \* HPF: the front of the list some steps ago

listVars == <<Priority_List_HPF_SJF, curr_Proc>>

front == IF Priority_List_HPF_SJF = <<>> THEN None ELSE Head(Priority_List_HPF_SJF)

\* Mutant of PushPosition: the new node goes behind the last.
PushLast(list, priority) == Len(list) + 1

\* Mutant of PushPosition: the new node goes right behind the front, if it
\* does not displace it.
PushSecond(list, priority) ==
  IF list = <<>> \/ proc[Head(list)].Priority > priority THEN 1 ELSE 2

\* The new node goes before the front only if the front's number is greater;
\* otherwise behind the front, before the first node whose number is not less.
PushPosition(list, priority) ==
  IF list = <<>> \/ proc[Head(list)].Priority > priority
  THEN 1
  ELSE Min({i \in 2 .. Len(list) : proc[list[i]].Priority >= priority}
             \cup {Len(list) + 1})

Displaces(list, priority) == list # <<>> /\ PushPosition(list, priority) = 1

PushIntoPriorityQueue(n) ==
  /\ Priority_List_HPF_SJF' =
       InsertAt(Priority_List_HPF_SJF,
                PushPosition(Priority_List_HPF_SJF, n.Priority), received + 1)
  /\ proc' = [(IF Displaces(Priority_List_HPF_SJF, n.Priority)
               THEN SetState(proc, front, "STOPPED") ELSE proc)
                EXCEPT ![received + 1] = n]

-----------------------------------------------------------------------------
\* The list is in the order of the priorities, with no process twice.
Sorted ==
  \A i, j \in 1 .. Len(Priority_List_HPF_SJF) :
    i < j => proc[Priority_List_HPF_SJF[i]].Priority <= proc[Priority_List_HPF_SJF[j]].Priority

NoDuplicates == IsInjective(Priority_List_HPF_SJF)
=============================================================================
