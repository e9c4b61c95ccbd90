----------------------------- MODULE MLFLProofs -----------------------------
(***************************************************************************)
(* Under MLFL no process and no memory is ever lost on its way down the    *)
(* levels, not even in the buffer that is level 10, the scheduler does not *)
(* stop before all are through, what it reports is so, and it keeps the    *)
(* promise of Processor.                                                   *)
(***************************************************************************)
EXTENDS MLFL, SchedulerProofs

\* The current process has part of its quantum left.
QuantumLeft == currentProcess # None => quantamsLeft # 0

IInv ==
  SharedInv /\ TypeOK /\ NoneLost /\ WorkLeft /\ QuantumLeft

-----------------------------------------------------------------------------
LEMMA LevelTypes == LastLevel \in Levels /\ Levels \subseteq Nat
BY DEF LastLevel, Levels

\* The queues of the levels have the processes of H, each on one level, once.
QueuesOK(queues, H) ==
  /\ queues \in [Levels -> Seq(Procs)]
  /\ \A i \in Levels : IsInjective(queues[i])
  /\ \A i, j \in Levels : i # j => Range(queues[i]) \cap Range(queues[j]) = {}
  /\ H = UNION {Range(queues[i]) : i \in Levels}

LEMMA AppendedToLevel ==
  ASSUME NEW queues, NEW H, QueuesOK(queues, H), NEW l \in Levels,
         NEW e \in Procs, e \notin H
  PROVE  QueuesOK([queues EXCEPT ![l] = Append(@, e)], H \cup {e})
<1> DEFINE new == [queues EXCEPT ![l] = Append(@, e)]
<1>1. /\ queues[l] \in Seq(Procs) /\ IsInjective(queues[l])
      /\ \A i \in Levels : Range(queues[i]) \subseteq H
  BY DEF QueuesOK
<1>2. /\ Append(queues[l], e) \in Seq(Procs)
      /\ Range(Append(queues[l], e)) = Range(queues[l]) \cup {e}
      /\ IsInjective(Append(queues[l], e))
  <2>1. e \notin Range(queues[l])
    BY <1>1
  <2> QED BY <1>1, <2>1, AppendedToQueue
<1>3. new[l] = Append(queues[l], e) /\ \A i \in Levels \ {l} : new[i] = queues[i]
  BY DEF QueuesOK
<1>4. new \in [Levels -> Seq(Procs)]
  BY <1>2 DEF QueuesOK
<1> HIDE DEF new
<1>5. \A i \in Levels : Range(new[i]) = IF i = l THEN Range(queues[i]) \cup {e} ELSE Range(queues[i])
  BY <1>2, <1>3
<1>6. \A i \in Levels : IsInjective(new[i])
  BY <1>2, <1>3 DEF QueuesOK
<1>7. \A i, j \in Levels : i # j => Range(new[i]) \cap Range(new[j]) = {}
  <2>1. \A i, j \in Levels : i # j => Range(queues[i]) \cap Range(queues[j]) = {}
    BY DEF QueuesOK
  <2>2. \A i \in Levels : e \notin Range(queues[i])
    BY <1>1
  <2> QED BY <1>5, <2>1, <2>2
<1>8. H \cup {e} = UNION {Range(new[i]) : i \in Levels}
  <2>1. H = UNION {Range(queues[i]) : i \in Levels}
    BY DEF QueuesOK
  <2> QED BY <1>5, <2>1
<1> QED BY <1>4, <1>6, <1>7, <1>8 DEF QueuesOK, new

LEMMA PoppedLevel ==
  ASSUME NEW queues, NEW H, QueuesOK(queues, H), NEW l \in Levels, queues[l] # <<>>,
         NEW e, e = Head(queues[l])
  PROVE  /\ QueuesOK([queues EXCEPT ![l] = Tail(@)], H \ {e})
         /\ e \in H /\ e \in Procs
<1> DEFINE new == [queues EXCEPT ![l] = Tail(@)]
<1>1. queues[l] \in Seq(Procs) /\ IsInjective(queues[l])
  BY DEF QueuesOK
<1>2. /\ e \in Range(queues[l]) /\ Tail(queues[l]) \in Seq(Procs)
      /\ Range(queues[l]) = Range(Tail(queues[l])) \cup {e}
      /\ IsInjective(Tail(queues[l])) /\ e \notin Range(Tail(queues[l]))
  BY <1>1, PoppedQueue
<1>3. e \in H /\ e \in Procs
  BY <1>1, <1>2, RangeOfQueue DEF QueuesOK
<1>4. new[l] = Tail(queues[l]) /\ \A i \in Levels \ {l} : new[i] = queues[i]
  BY DEF QueuesOK
<1>5. new \in [Levels -> Seq(Procs)]
  BY <1>2 DEF QueuesOK
<1> HIDE DEF new
<1>6. \A i, j \in Levels : i # j => Range(queues[i]) \cap Range(queues[j]) = {}
  BY DEF QueuesOK
<1>7. \A i \in Levels : Range(new[i]) = Range(queues[i]) \ {e}
  <2>1. ASSUME NEW i \in Levels PROVE Range(new[i]) = Range(queues[i]) \ {e}
    <3>1. CASE i = l
      BY <1>2, <1>4, <3>1
    <3>2. CASE i # l
      BY <1>2, <1>4, <1>6, <3>2
    <3> QED BY <3>1, <3>2
  <2> QED BY <2>1
<1>8. \A i \in Levels : IsInjective(new[i])
  BY <1>2, <1>4 DEF QueuesOK
<1>9. \A i, j \in Levels : i # j => Range(new[i]) \cap Range(new[j]) = {}
  BY <1>6, <1>7
<1>10. H \ {e} = UNION {Range(new[i]) : i \in Levels}
  <2>1. H = UNION {Range(queues[i]) : i \in Levels}
    BY DEF QueuesOK
  <2>2. \A x : x \in H \ {e} <=> \E i \in Levels : x \in Range(new[i])
    <3>1. ASSUME NEW x \in H \ {e} PROVE \E i \in Levels : x \in Range(new[i])
      <4>1. PICK i \in Levels : x \in Range(queues[i])
        BY <2>1
      <4> QED BY <1>7, <4>1
    <3>2. ASSUME NEW i \in Levels, NEW x \in Range(new[i]) PROVE x \in H \ {e}
      BY <1>7, <2>1
    <3> QED BY <3>1, <3>2
  <2> QED BY <2>2
<1> QED BY <1>3, <1>5, <1>8, <1>9, <1>10 DEF QueuesOK, new

\* Putting the process down and then popping it is popping it first.
LEMMA PushedIsMoved ==
  ASSUME NEW queues, NEW H, QueuesOK(queues, H), NEW l \in Levels, queues[l] # <<>>,
         NEW e, e = Head(queues[l])
  PROVE  PushIntoNextLevel(queues, l, e) =
           [[queues EXCEPT ![l] = Tail(@)]
              EXCEPT ![IF l = LastLevel THEN LastLevel ELSE l + 1] = Append(@, e)]
<1> DEFINE next == IF l = LastLevel THEN LastLevel ELSE l + 1
           popped == [queues EXCEPT ![l] = Tail(@)]
           moved == [popped EXCEPT ![next] = Append(@, e)]
           pushed == PushIntoNextLevel(queues, l, e)
<1>1. e \in Procs
  BY PoppedLevel
<1>2. next \in Levels
  BY DEF Levels, LastLevel
<1>4. queues \in [Levels -> Seq(Procs)] /\ queues[l] \in Seq(Procs)
  BY DEF QueuesOK
<1>5. Tail(Append(queues[l], e)) = Append(Tail(queues[l]), e)
  BY <1>1, <1>4, TailOfAppended
<1>6. pushed = [[queues EXCEPT ![next] = Append(@, e)] EXCEPT ![l] = Tail(@)]
  BY DEF PushIntoNextLevel
<1> HIDE DEF next
<1>7. ASSUME NEW i \in Levels PROVE pushed[i] = moved[i]
  <2>1. CASE next = l
    BY <1>4, <1>5, <1>6, <2>1
  <2>2. CASE next # l
    BY <1>2, <1>4, <1>6, <2>2
  <2> QED BY <2>1, <2>2
<1>8. pushed = moved
  <2>1. DOMAIN pushed = Levels /\ DOMAIN moved = Levels
    BY <1>4, <1>6
  <2>2. pushed = [i \in Levels |-> pushed[i]] /\ moved = [i \in Levels |-> moved[i]]
    BY <1>4, <1>6
  <2> HIDE DEF pushed, moved
  <2> QED BY <1>7, <2>2
<1> QED BY <1>8 DEF pushed, moved, popped, next

\* Going down loses nobody: on the last level the process goes to the end of
\* the list whose front it was.
LEMMA PushedIntoNextLevel ==
  ASSUME NEW queues, NEW H, QueuesOK(queues, H), NEW l \in Levels, queues[l] # <<>>,
         NEW e, e = Head(queues[l])
  PROVE  QueuesOK(PushIntoNextLevel(queues, l, e), H)
<1> DEFINE next == IF l = LastLevel THEN LastLevel ELSE l + 1
           popped == [queues EXCEPT ![l] = Tail(@)]
           moved == [popped EXCEPT ![next] = Append(@, e)]
           pushed == PushIntoNextLevel(queues, l, e)
<1>1. QueuesOK(popped, H \ {e}) /\ e \in H /\ e \in Procs
  BY PoppedLevel
<1>2. next \in Levels
  BY DEF Levels, LastLevel
<1>3. QueuesOK(moved, (H \ {e}) \cup {e})
  <2> HIDE DEF popped, next
  <2> QED BY <1>1, <1>2, AppendedToLevel
<1>4. pushed = moved
  BY PushedIsMoved
<1>5. (H \ {e}) \cup {e} = H
  BY <1>1
<1> HIDE DEF pushed, moved
<1>6. QueuesOK(pushed, H)
  BY <1>3, <1>4, <1>5
<1> QED BY <1>6 DEF pushed

-----------------------------------------------------------------------------
\* Which processes are on which level after a process came, left or went down.

Appended(queues, l, e) == [queues EXCEPT ![l] = Append(@, e)]
Popped(queues, l) == [queues EXCEPT ![l] = Tail(@)]
Below(l) == IF l = LastLevel THEN LastLevel ELSE l + 1

LEMMA AppendedRanges ==
  ASSUME NEW queues, NEW H, QueuesOK(queues, H), NEW l \in Levels,
         NEW e \in Procs, e \notin H
  PROVE  /\ Range(Appended(queues, l, e)[l]) = Range(queues[l]) \cup {e}
         /\ \A i \in Levels \ {l} : Appended(queues, l, e)[i] = queues[i]
<1>1. /\ queues \in [Levels -> Seq(Procs)] /\ queues[l] \in Seq(Procs)
      /\ IsInjective(queues[l]) /\ e \notin Range(queues[l])
  BY DEF QueuesOK
<1>2. Range(Append(queues[l], e)) = Range(queues[l]) \cup {e}
  BY <1>1, AppendedToQueue
<1>3. /\ Appended(queues, l, e)[l] = Append(queues[l], e)
      /\ \A i \in Levels \ {l} : Appended(queues, l, e)[i] = queues[i]
  BY <1>1 DEF Appended
<1> QED BY <1>2, <1>3

LEMMA PoppedRanges ==
  ASSUME NEW queues, NEW H, QueuesOK(queues, H), NEW l \in Levels, queues[l] # <<>>,
         NEW e, e = Head(queues[l])
  PROVE  \A i \in Levels : Range(Popped(queues, l)[i]) = Range(queues[i]) \ {e}
<1>1. /\ queues \in [Levels -> Seq(Procs)]
      /\ queues[l] \in Seq(Procs) /\ IsInjective(queues[l])
      /\ \A i, j \in Levels : i # j => Range(queues[i]) \cap Range(queues[j]) = {}
  BY DEF QueuesOK
<1>2. /\ Range(queues[l]) = Range(Tail(queues[l])) \cup {e}
      /\ e \notin Range(Tail(queues[l])) /\ e \in Range(queues[l])
  BY <1>1, PoppedQueue
<1>3. /\ Popped(queues, l)[l] = Tail(queues[l])
      /\ \A i \in Levels \ {l} : Popped(queues, l)[i] = queues[i]
  BY <1>1 DEF Popped
<1>4. ASSUME NEW i \in Levels PROVE Range(Popped(queues, l)[i]) = Range(queues[i]) \ {e}
  <2>1. CASE i = l
    BY <1>2, <1>3, <2>1
  <2>2. CASE i # l
    BY <1>1, <1>2, <1>3, <2>2
  <2> QED BY <2>1, <2>2
<1> QED BY <1>4

LEMMA PushedRanges ==
  ASSUME NEW queues, NEW H, QueuesOK(queues, H), NEW l \in Levels, queues[l] # <<>>,
         NEW e, e = Head(queues[l])
  PROVE  \A i \in Levels : \A x \in Range(PushIntoNextLevel(queues, l, e)[i]) :
           IF x = e THEN i = Below(l) ELSE x \in Range(queues[i])
<1>1. PICK popped : popped = Popped(queues, l)
  OBVIOUS
<1>2. PICK down \in Levels : down = Below(l)
  BY DEF Below, Levels, LastLevel
<1>3. PICK moved : moved = Appended(popped, down, e)
  OBVIOUS
<1>4. QueuesOK(popped, H \ {e}) /\ e \in H /\ e \in Procs
  BY <1>1, PoppedLevel DEF Popped
<1>5. \A i \in Levels : Range(popped[i]) = Range(queues[i]) \ {e}
  BY <1>1, PoppedRanges
<1>6. \A i \in Levels :
        Range(moved[i]) = IF i = down THEN Range(popped[i]) \cup {e} ELSE Range(popped[i])
  <2>1. PICK G : G = H \ {e}
    OBVIOUS
  <2>2. QueuesOK(popped, G) /\ e \notin G /\ e \in Procs
    BY <1>4, <2>1
  <2>3. /\ Range(Appended(popped, down, e)[down]) = Range(popped[down]) \cup {e}
        /\ \A i \in Levels \ {down} : Appended(popped, down, e)[i] = popped[i]
    BY <2>2, AppendedRanges
  <2> QED BY <1>3, <2>3
<1>7. PushIntoNextLevel(queues, l, e) = moved
  <2>1. popped = [queues EXCEPT ![l] = Tail(@)]
    BY <1>1 DEF Popped
  <2>2. moved = [popped EXCEPT ![down] = Append(@, e)]
    BY <1>3 DEF Appended
  <2>3. down = IF l = LastLevel THEN LastLevel ELSE l + 1
    BY <1>2 DEF Below
  <2>4. PushIntoNextLevel(queues, l, e) =
          [[queues EXCEPT ![l] = Tail(@)]
             EXCEPT ![IF l = LastLevel THEN LastLevel ELSE l + 1] = Append(@, e)]
    BY PushedIsMoved
  <2> QED BY <2>1, <2>2, <2>3, <2>4
<1> QED BY <1>2, <1>5, <1>6, <1>7

LEMMA InitIInv == Init => IInv
<1> SUFFICES ASSUME Init PROVE IInv
  OBVIOUS
<1>1. SharedInv /\ Holders = {} /\ Done = {}
  BY SharedInitInv DEF Init
<1>2. Range(<<>>) = {} /\ IsInjective(<<>>) /\ <<>> \in Seq(Procs)
  BY EmptyQueue
<1>3. WorkLeft
  BY <1>1, UnbornType DEF Init, SharedInit, WorkLeft
<1>4. TypeOK
  BY <1>1, <1>2, <1>3, QuantumAssumption DEF Init, TypeOK, SharedInv, WorkLeft, Levels, LastLevel
<1>5. Queued = {}
  BY <1>2 DEF Init, Queued
<1>6. NoneLost
  BY <1>1, <1>2, <1>5 DEF Init, NoneLost
<1>7. QuantumLeft
  BY DEF Init, QuantumLeft
<1> QED BY <1>1, <1>3, <1>4, <1>6, <1>7 DEF IInv

\* A step that leaves the queues and the current process alone, and the
\* holders too.
LEMMA QueuesUnchanged ==
  ASSUME IInv, UNCHANGED levelVars, SharedInv', WorkLeft', Holders' = Holders
  PROVE  IInv'
<1>1. UNCHANGED <<listOfQueues, currentProcess, currentLevel, quantamsLeft>>
  BY DEF levelVars
<1>2. NoneLost'
  BY <1>1 DEF IInv, NoneLost, Queued
<1>3. TypeOK' /\ QuantumLeft'
  BY <1>1 DEF IInv, TypeOK, QuantumLeft, SharedInv, WorkLeft
<1> QED BY <1>2, <1>3 DEF IInv

LEMMA TickIInv ==
  ASSUME IInv, Tick, UNCHANGED levelVars
  PROVE  IInv'
<1>1. SharedInv' /\ Holders' = Holders /\ proc' = proc
  BY TickInv DEF IInv, Tick
<1>2. WorkLeft'
  BY <1>1 DEF IInv, WorkLeft
<1> QED BY <1>1, <1>2, QueuesUnchanged

LEMMA StutterIInv ==
  ASSUME IInv, UNCHANGED vars
  PROVE  IInv'
<1>1. SharedInv' /\ Holders' = Holders /\ proc' = proc /\ UNCHANGED levelVars
  BY StutterInv DEF IInv, vars
<1>2. WorkLeft'
  BY <1>1 DEF IInv, WorkLeft
<1> QED BY <1>1, <1>2, QueuesUnchanged

LEMMA RefuseIInv ==
  ASSUME IInv, RefuseProcess
  PROVE  IInv'
<1>1. PICK r : r = received'
  OBVIOUS
<1>2. /\ SharedInv' /\ Holders' = Holders /\ r \in Procs
      /\ proc'[r].Remaining_time \in Nat \ {0} /\ proc'[r].memindex = NoPlace
      /\ \A p \in Procs \ {r} : proc'[p] = proc[p]
      /\ UNCHANGED levelVars
  BY <1>1, RefuseInv DEF IInv, RefuseProcess
<1>3. WorkLeft'
  BY RefuseLeavesWork DEF IInv, RefuseProcess
<1> QED BY <1>2, <1>3, QueuesUnchanged

LEMMA ReceiveIInv ==
  ASSUME IInv, ReceiveProcess
  PROVE  IInv'
<1>1. PICK n \in Messages :
        /\ Accept(n)
        /\ proc' = [proc EXCEPT ![received + 1] = n]
        /\ listOfQueues' = [listOfQueues EXCEPT ![n.Priority] = Append(@, received + 1)]
        /\ UNCHANGED <<currentProcess, currentLevel, quantamsLeft>>
  BY DEF ReceiveProcess
<1>2. PICK r : r = received + 1
  OBVIOUS
<1>3. /\ r \in Procs /\ proc' \in [Procs -> ProcessRecords] /\ proc'[r] = n
      /\ \A p \in Procs \ {r} : proc'[p] = proc[p] /\ SameMemory(p)
  BY <1>1, <1>2, ReceivedRecords DEF IInv, Accept
<1>4. /\ SharedInv' /\ r \notin Holders /\ Holders' = Holders \cup {r}
  BY <1>1, <1>2, <1>3, AcceptInv DEF IInv
<1>5. n.Priority \in Levels
  BY MessagePriority, ModeAssumption DEF Levels, LastLevel
<1>6. PICK l \in Levels : l = n.Priority
  BY <1>5
<1>7. /\ listOfQueues \in [Levels -> Seq(Procs)] /\ Holders = Queued
      /\ \A i \in Levels : IsInjective(listOfQueues[i])
      /\ \A i, j \in Levels : i # j => Range(listOfQueues[i]) \cap Range(listOfQueues[j]) = {}
  BY DEF IInv, TypeOK, NoneLost
<1>8. listOfQueues' = [listOfQueues EXCEPT ![l] = Append(@, r)]
  BY <1>1, <1>2, <1>6
<1>9. QueuesOK(listOfQueues', Holders \cup {r})
  <2>1. QueuesOK(listOfQueues, Holders)
    BY <1>7 DEF QueuesOK, Queued
  <2>2. QueuesOK([listOfQueues EXCEPT ![l] = Append(@, r)], Holders \cup {r})
    BY <1>3, <1>4, <2>1, AppendedToLevel
  <2> QED BY <1>8, <2>2
<1>10. ASSUME currentProcess # None
       PROVE  /\ listOfQueues'[currentLevel] # <<>>
              /\ currentProcess = Head(listOfQueues'[currentLevel])
  <2>1. /\ currentLevel \in Levels /\ listOfQueues[currentLevel] # <<>>
        /\ currentProcess = Head(listOfQueues[currentLevel])
    BY <1>10 DEF IInv, TypeOK, NoneLost
  <2>2. CASE currentLevel = l
    BY <1>3, <1>7, <1>8, <2>1, <2>2, AppendedToQueue
  <2>3. CASE currentLevel # l
    BY <1>7, <1>8, <2>1, <2>3
  <2> QED BY <2>2, <2>3
<1>11. NoneLost'
  BY <1>1, <1>4, <1>9, <1>10 DEF NoneLost, QueuesOK, Queued
<1>12. WorkLeft'
  BY <1>3, <1>4, AcceptLeavesWork DEF IInv
<1>13. TypeOK' /\ QuantumLeft'
  BY <1>1, <1>4, <1>9, <1>12 DEF IInv, TypeOK, QuantumLeft, QueuesOK, SharedInv, WorkLeft
<1> QED BY <1>4, <1>11, <1>12, <1>13 DEF IInv

-----------------------------------------------------------------------------
\* The turn of process p of a level, which has quantum ticks left.
ReadyToRun(p, level, quantum, procs) ==
  /\ level \in Levels /\ listOfQueues[level] # <<>> /\ p = Head(listOfQueues[level])
  /\ quantum \in 1 .. q
  /\ SameWork(procs) /\ procs[p].State # "FINISHED"

LEMMA ExecutesRecords ==
  ASSUME NEW procs \in [Procs -> ProcessRecords], NEW r \in Procs
  PROVE  /\ Executes(procs, r) \in [Procs -> ProcessRecords]
         /\ \A x \in Procs :
              /\ Executes(procs, r)[x].memindex = procs[x].memindex
              /\ Executes(procs, r)[x].no_of_blocks = procs[x].no_of_blocks
              /\ Executes(procs, r)[x].State = procs[x].State
              /\ Executes(procs, r)[x].Priority = procs[x].Priority
              /\ Executes(procs, r)[x].Running_time = procs[x].Running_time
              /\ Executes(procs, r)[x].Remaining_time =
                   procs[x].Remaining_time - IF x = r THEN 1 ELSE 0
<1> DEFINE ran == Executes(procs, r)
           ticks(x) == IF x \in Queued THEN TicksWaited(x, r) ELSE 0
<1>1. ASSUME NEW x \in Procs
      PROVE  /\ ran[x] \in ProcessRecords
             /\ ran[x].memindex = procs[x].memindex
             /\ ran[x].no_of_blocks = procs[x].no_of_blocks
             /\ ran[x].State = procs[x].State
             /\ ran[x].Priority = procs[x].Priority
             /\ ran[x].Running_time = procs[x].Running_time
             /\ ran[x].Remaining_time = procs[x].Remaining_time - IF x = r THEN 1 ELSE 0
  <2>1. ticks(x) \in Nat
    BY DEF TicksWaited
  <2>2. PICK t \in Nat : t = ticks(x)
    BY <2>1
  <2>3. ran[x] = [procs[x] EXCEPT !.Waiting_time = @ + t,
                                  !.Remaining_time = @ - (IF x = r THEN 1 ELSE 0)]
    BY <2>2 DEF Executes
  <2>4. /\ procs[x] \in ProcessRecords
        /\ procs[x].Waiting_time + t \in Nat
        /\ procs[x].Remaining_time - (IF x = r THEN 1 ELSE 0) \in Int
    BY DEF ProcessRecords
  <2> HIDE DEF ran, ticks
  <2> QED BY <2>3, <2>4 DEF ProcessRecords
<1>2. ran = [x \in Procs |-> ran[x]]
  BY DEF Executes
<1> HIDE DEF ran
<1>3. ran \in [Procs -> ProcessRecords]
  BY <1>1, <1>2
<1> QED BY <1>1, <1>3 DEF ran

LEMMA RunRecords ==
  ASSUME IInv, NEW p, NEW level, NEW quantum, NEW procs, NEW lines,
         ReadyToRun(p, level, quantum, procs),
         RunMultiLevelProcess(p, level, quantum, procs, lines)
  PROVE  /\ Ran(p) /\ p \in Holders /\ p \in Procs
         /\ proc[p].Remaining_time \in Nat \ {0}
         /\ QueuesOK(listOfQueues, Holders)
         /\ Executes(procs, p) \in [Procs -> ProcessRecords]
         /\ Executes(procs, p)[p].Remaining_time = 0 <=> proc[p].Remaining_time = 1
<1> DEFINE ran == Executes(procs, p)
<1>1. QueuesOK(listOfQueues, Holders)
  BY DEF IInv, TypeOK, NoneLost, QueuesOK, Queued
<1>2. p \in Holders /\ p \in Procs
  BY <1>1, PoppedLevel DEF ReadyToRun
<1>3. proc[p].Remaining_time \in Nat \ {0}
  BY <1>2 DEF IInv, SharedInv, SharedTypeOK, WorkLeft
<1>4. /\ procs \in [Procs -> ProcessRecords] /\ procs[p].State # "FINISHED"
      /\ \A x \in Procs : /\ procs[x].memindex = proc[x].memindex
                          /\ procs[x].no_of_blocks = proc[x].no_of_blocks
                          /\ procs[x].Remaining_time = proc[x].Remaining_time
                          /\ procs[x].State = "FINISHED" <=> proc[x].State = "FINISHED"
  BY DEF ReadyToRun, SameWork
<1>5. /\ ran \in [Procs -> ProcessRecords]
      /\ \A x \in Procs :
           /\ ran[x].memindex = procs[x].memindex
           /\ ran[x].no_of_blocks = procs[x].no_of_blocks
           /\ ran[x].State = procs[x].State
           /\ ran[x].Remaining_time = procs[x].Remaining_time - IF x = p THEN 1 ELSE 0
  BY <1>2, <1>4, ExecutesRecords
<1>6. /\ proc' = IF ran[p].Remaining_time = 0 THEN Finish(ran, p, follow + 1)
                 ELSE IF quantum = 1 THEN SetState(ran, p, "STOPPED")
                 ELSE ran
      /\ mem' = IF ran[p].Remaining_time = 0 THEN FreeMemoryOf(ran[p]) ELSE mem
  BY DEF RunMultiLevelProcess
<1> HIDE DEF ran
<1>7. /\ ran[p].Remaining_time = 0 <=> proc[p].Remaining_time = 1
      /\ ran[p].Remaining_time = proc[p].Remaining_time - 1
      /\ ran[p].State # "FINISHED"
  BY <1>2, <1>3, <1>4, <1>5
<1>8. \A x \in Procs : /\ ran[x].memindex = proc[x].memindex
                       /\ ran[x].no_of_blocks = proc[x].no_of_blocks
                       /\ ran[x].State = "FINISHED" <=> proc[x].State = "FINISHED"
  BY <1>4, <1>5
<1>9. ASSUME NEW x \in Procs \ {p} PROVE ran[x].Remaining_time = proc[x].Remaining_time
  <2>1. proc[x].Remaining_time \in Int
    BY DEF IInv, SharedInv, SharedTypeOK
  <2> QED BY <1>4, <1>5, <2>1
<1>10. CASE ran[p].Remaining_time = 0
  <2>1. PICK time \in Int : time = follow + 1
    BY DEF IInv, SharedInv, SharedTypeOK
  <2>2. proc' = Finish(ran, p, time)
    BY <1>6, <1>10, <2>1
  <2>3. /\ proc' \in [Procs -> ProcessRecords]
        /\ \A x \in Procs : /\ proc'[x].memindex = ran[x].memindex
                            /\ proc'[x].no_of_blocks = ran[x].no_of_blocks
                            /\ proc'[x].Remaining_time = ran[x].Remaining_time
                            /\ proc'[x].State = IF x = p THEN "FINISHED" ELSE ran[x].State
    BY <1>2, <1>5, <2>2, FinishRecords
  <2>4. mem' = FreeMemoryOf(proc[p])
    BY <1>2, <1>6, <1>8, <1>10 DEF FreeMemoryOf
  <2>5. Ran(p)
    BY <1>2, <1>7, <1>8, <1>9, <1>10, <2>3, <2>4 DEF Ran
  <2> QED BY <1>1, <1>2, <1>3, <1>5, <1>7, <2>5 DEF ran
<1>11. CASE ran[p].Remaining_time # 0
  <2>1. /\ proc' \in [Procs -> ProcessRecords]
        /\ \A x \in Procs : /\ proc'[x].memindex = ran[x].memindex
                            /\ proc'[x].no_of_blocks = ran[x].no_of_blocks
                            /\ proc'[x].Remaining_time = ran[x].Remaining_time
                            /\ proc'[x].State =
                                 IF x = p /\ quantum = 1 THEN "STOPPED" ELSE ran[x].State
    <3>1. CASE quantum = 1
      <4>1. proc' = SetState(ran, p, "STOPPED") /\ "STOPPED" \in States
        BY <1>6, <1>11, <3>1 DEF States
      <4> QED BY <1>2, <1>5, <3>1, <4>1, SetStateRecords
    <3>2. CASE quantum # 1
      <4>1. proc' = ran
        BY <1>6, <1>11, <3>2
      <4> QED BY <1>5, <3>2, <4>1
    <3> QED BY <3>1, <3>2
  <2>2. mem' = mem
    BY <1>6, <1>11
  <2>3. Ran(p)
    BY <1>2, <1>7, <1>8, <1>9, <1>11, <2>1, <2>2 DEF Ran
  <2> QED BY <1>1, <1>2, <1>3, <1>5, <1>7, <2>3 DEF ran
<1> QED BY <1>10, <1>11

\* The queues after the turn: the process has left, gone down or stayed.
LEMMA RunQueues ==
  ASSUME IInv, NEW p, NEW level, NEW quantum, NEW procs, NEW lines,
         ReadyToRun(p, level, quantum, procs),
         RunMultiLevelProcess(p, level, quantum, procs, lines), EndOfPass
  PROVE  /\ QueuesOK(listOfQueues', Holders')
         /\ currentLevel' \in Levels /\ quantamsLeft' \in 0 .. q
         /\ currentProcess' \in Procs \cup {None}
         /\ currentProcess' # None =>
              /\ listOfQueues'[currentLevel'] # <<>>
              /\ currentProcess' = Head(listOfQueues'[currentLevel'])
              /\ quantamsLeft' # 0
<1>1. /\ Ran(p) /\ p \in Holders /\ p \in Procs
      /\ proc[p].Remaining_time \in Nat \ {0}
      /\ QueuesOK(listOfQueues, Holders)
      /\ Executes(procs, p)[p].Remaining_time = 0 <=> proc[p].Remaining_time = 1
  BY RunRecords
<1>2. Holders' = IF proc[p].Remaining_time = 1 THEN Holders \ {p} ELSE Holders
  BY <1>1, RanHolders DEF IInv
<1>3. /\ level \in Levels /\ listOfQueues[level] # <<>> /\ p = Head(listOfQueues[level])
      /\ quantum \in 1 .. q
  BY DEF ReadyToRun
<1>4. /\ currentLevel' = level
      /\ currentProcess' = IF proc[p].Remaining_time = 1 \/ quantum = 1 THEN None ELSE p
      /\ quantamsLeft' = IF quantum = 1 /\ proc[p].Remaining_time # 1 THEN q ELSE quantum - 1
      /\ listOfQueues' = IF proc[p].Remaining_time = 1
                         THEN [listOfQueues EXCEPT ![level] = Tail(@)]
                         ELSE IF quantum = 1 THEN PushIntoNextLevel(listOfQueues, level, p)
                         ELSE listOfQueues
  BY <1>1 DEF RunMultiLevelProcess
<1>5. quantamsLeft' \in 0 .. q /\ (currentProcess' # None => quantamsLeft' # 0)
  BY <1>3, <1>4, QuantumAssumption
<1>6. QueuesOK(listOfQueues', Holders')
  <2>1. CASE proc[p].Remaining_time = 1
    <3>1. QueuesOK([listOfQueues EXCEPT ![level] = Tail(@)], Holders \ {p})
      BY <1>1, <1>3, PoppedLevel
    <3> QED BY <1>2, <1>4, <2>1, <3>1
  <2>2. CASE proc[p].Remaining_time # 1 /\ quantum = 1
    <3>1. QueuesOK(PushIntoNextLevel(listOfQueues, level, p), Holders)
      BY <1>1, <1>3, PushedIntoNextLevel
    <3> QED BY <1>2, <1>4, <2>2, <3>1
  <2>3. CASE proc[p].Remaining_time # 1 /\ quantum # 1
    BY <1>1, <1>2, <1>4, <2>3
  <2> QED BY <2>1, <2>2, <2>3
<1> QED BY <1>1, <1>3, <1>4, <1>5, <1>6

LEMMA RunIInv ==
  ASSUME IInv, NEW p, NEW level, NEW quantum, NEW procs, NEW lines \in [Procs -> Seq(States)],
         ReadyToRun(p, level, quantum, procs),
         RunMultiLevelProcess(p, level, quantum, procs, lines), EndOfPass
  PROVE  IInv'
<1> DEFINE ran == Executes(procs, p)
<1>1. /\ Ran(p) /\ p \in Holders /\ p \in Procs
      /\ proc[p].Remaining_time \in Nat \ {0}
      /\ ran \in [Procs -> ProcessRecords]
      /\ ran[p].Remaining_time = 0 <=> proc[p].Remaining_time = 1
  BY RunRecords
<1>2. /\ RecordsFilled' /\ MemoryIsOwned' /\ mem' \subseteq Blocks
      /\ Holders' = IF proc[p].Remaining_time = 1 THEN Holders \ {p} ELSE Holders
      /\ Cardinality(Done') = Cardinality(Done) + IF proc[p].Remaining_time = 1 THEN 1 ELSE 0
  BY <1>1, RanHolders DEF IInv
<1>3. /\ ups' = IF procs[p].Remaining_time > 1 THEN Up(ups, p) ELSE ups
      /\ log' = IF ran[p].Remaining_time = 0 THEN PrintLine(lines, p, "FINISHED")
                ELSE IF quantum = 1 THEN PrintLine(lines, p, "STOPPED")
                ELSE lines
      /\ finished_process_count' =
           finished_process_count + IF ran[p].Remaining_time = 0 THEN 1 ELSE 0
      /\ total_waiting_time' =
           total_waiting_time + IF ran[p].Remaining_time = 0 THEN ran[p].Waiting_time ELSE 0
      /\ cpu_waiting_time' = cpu_waiting_time
  BY DEF RunMultiLevelProcess
<1> HIDE DEF ran
<1>4. ran[p].Waiting_time \in Nat
  BY <1>1 DEF ProcessRecords
<1>5. /\ total_waiting_time' \in Nat /\ cpu_waiting_time' \in Nat
      /\ finished_process_count' \in Nat /\ finished_process_count' <= Cardinality(Done')
  <2>1. /\ total_waiting_time \in Nat /\ cpu_waiting_time \in Nat
        /\ finished_process_count \in Nat /\ finished_process_count <= Cardinality(Done)
    BY DEF IInv, SharedInv, SharedTypeOK, CountIsOfDone
  <2>2. Cardinality(Done) \in Nat
    BY SetsOfReceived, ConstantTypes DEF IInv, SharedInv, SharedTypeOK, Done
  <2> QED BY <1>1, <1>2, <1>3, <1>4, <2>1, <2>2
<1>6. ups' \in [Procs -> Nat] /\ log' \in [Procs -> Seq(States)]
  <2>1. ups \in [Procs -> Nat] /\ {"FINISHED", "STOPPED"} \subseteq States
    BY DEF IInv, SharedInv, SharedTypeOK, States
  <2>2. /\ Up(ups, p) \in [Procs -> Nat]
        /\ PrintLine(lines, p, "FINISHED") \in [Procs -> Seq(States)]
        /\ PrintLine(lines, p, "STOPPED") \in [Procs -> Seq(States)]
    BY <1>1, <2>1, UpTypes, PrintTypes
  <2> QED BY <1>3, <2>1, <2>2
<1>7. SharedInv'
  BY <1>1, <1>2, <1>5, <1>6, TurnInv DEF IInv, Ran
<1>8. WorkLeft'
  BY <1>1, RanLeavesWork DEF IInv
<1>9. /\ QueuesOK(listOfQueues', Holders')
      /\ currentLevel' \in Levels /\ quantamsLeft' \in 0 .. q
      /\ currentProcess' \in Procs \cup {None}
      /\ currentProcess' # None =>
           /\ listOfQueues'[currentLevel'] # <<>>
           /\ currentProcess' = Head(listOfQueues'[currentLevel'])
           /\ quantamsLeft' # 0
  BY RunQueues
<1>10. NoneLost' /\ QuantumLeft'
  BY <1>9 DEF NoneLost, QueuesOK, Queued, QuantumLeft
<1>11. TypeOK'
  BY <1>7, <1>8, <1>9 DEF TypeOK, QueuesOK, SharedInv, WorkLeft
<1> QED BY <1>7, <1>8, <1>10, <1>11 DEF IInv

-----------------------------------------------------------------------------
\* The process chosen from the first level that is not empty may run.
LEMMA NextIsReady ==
  ASSUME IInv, NonEmpty # {},
         NEW level, level = NextLevel, NEW p, p = Head(listOfQueues[level]),
         NEW state \in {"STARTED", "RESUMED"}
  PROVE  /\ ReadyToRun(p, level, q, SetState(proc, p, state))
         /\ PrintLine(log, p, state) \in [Procs -> Seq(States)]
<1> DEFINE procs == SetState(proc, p, state)
<1>1. level \in NonEmpty
  <2>1. NonEmpty \subseteq Nat
    BY LevelTypes DEF NonEmpty
  <2> QED BY <2>1, MinIsLeast DEF NextLevel
<1>2. level \in Levels /\ listOfQueues[level] # <<>>
  BY <1>1 DEF NonEmpty
<1>3. QueuesOK(listOfQueues, Holders)
  BY DEF IInv, TypeOK, NoneLost, QueuesOK, Queued
<1>4. p \in Holders /\ p \in Procs
  BY <1>2, <1>3, PoppedLevel
<1>5. /\ proc \in [Procs -> ProcessRecords] /\ log \in [Procs -> Seq(States)]
      /\ ups \in [Procs -> Nat] /\ state \in States /\ state # "FINISHED"
  BY DEF IInv, SharedInv, SharedTypeOK, ProcessRecords, States
<1>6. SameWork(procs)
  BY <1>4, <1>5, NothingSet, SetStateIsSameWork DEF IInv
<1>7. PrintLine(log, p, state) \in [Procs -> Seq(States)]
  BY <1>4, <1>5, UpTypes, PrintTypes
<1>8. proc[p].State # "FINISHED" /\ q \in 1 .. q
  BY <1>4, QuantumAssumption DEF Holders, Holds
<1>9. procs[p].State # "FINISHED"
  <2> HIDE DEF procs
  <2> QED BY <1>4, <1>6, <1>8 DEF SameWork
<1> QED BY <1>2, <1>6, <1>7, <1>8, <1>9 DEF ReadyToRun

\* What ChooseNext runs.
LEMMA Chosen ==
  ASSUME IInv, ChooseNext
  PROVE  \E p, level, procs : \E lines \in [Procs -> Seq(States)] :
           /\ ReadyToRun(p, level, q, procs)
           /\ RunMultiLevelProcess(p, level, q, procs, lines)
<1>1. PICK level : level = NextLevel
  OBVIOUS
<1>2. PICK p : p = Head(listOfQueues[level])
  OBVIOUS
<1>3. PICK state \in {"STARTED", "RESUMED"} :
        state = IF proc[p].Remaining_time = proc[p].Running_time THEN "STARTED" ELSE "RESUMED"
  OBVIOUS
<1>4. /\ NonEmpty # {}
      /\ RunMultiLevelProcess(p, level, q, SetState(proc, p, state), PrintLine(log, p, state))
  BY <1>1, <1>2, <1>3 DEF ChooseNext
<1>5. /\ ReadyToRun(p, level, q, SetState(proc, p, state))
      /\ PrintLine(log, p, state) \in [Procs -> Seq(States)]
  BY <1>1, <1>2, <1>4, NextIsReady
<1> QED BY <1>4, <1>5

\* The current process may go on.
LEMMA CurrentIsReady ==
  ASSUME IInv, currentProcess # None
  PROVE  /\ ReadyToRun(currentProcess, currentLevel, quantamsLeft, proc)
         /\ log \in [Procs -> Seq(States)]
<1>1. /\ currentLevel \in Levels /\ listOfQueues[currentLevel] # <<>>
      /\ currentProcess = Head(listOfQueues[currentLevel]) /\ quantamsLeft \in 1 .. q
  BY QuantumAssumption DEF IInv, TypeOK, NoneLost, QuantumLeft
<1>2. QueuesOK(listOfQueues, Holders)
  BY DEF IInv, TypeOK, NoneLost, QueuesOK, Queued
<1>3. PICK p : p = currentProcess
  OBVIOUS
<1>4. p \in Holders
  BY <1>1, <1>2, <1>3, PoppedLevel
<1>5. proc[currentProcess].State # "FINISHED"
  BY <1>3, <1>4 DEF Holders, Holds
<1>6. proc \in [Procs -> ProcessRecords] /\ log \in [Procs -> Seq(States)]
  BY DEF IInv, SharedInv, SharedTypeOK, ProcessRecords
<1> QED BY <1>1, <1>5, <1>6 DEF ReadyToRun, SameWork

LEMMA IdleIInv ==
  ASSUME IInv, Idle
  PROVE  IInv'
<1>1. /\ SharedInv' /\ Holders' = Holders /\ proc' = proc /\ UNCHANGED levelVars
  BY IdleTurn DEF IInv, Idle
<1>2. WorkLeft'
  BY <1>1 DEF IInv, WorkLeft
<1> QED BY <1>1, <1>2, QueuesUnchanged

LEMMA NextIInv == IInv /\ [Next]_vars => IInv'
<1> SUFFICES ASSUME IInv, [Next]_vars PROVE IInv'
  OBVIOUS
<1>1. CASE Tick /\ UNCHANGED levelVars
  BY <1>1, TickIInv
<1>2. CASE ReceiveProcess
  BY <1>2, ReceiveIInv
<1>3. CASE RefuseProcess
  BY <1>3, RefuseIInv
<1>4. CASE ChooseNext
  BY <1>4, Chosen, RunIInv DEF ChooseNext
<1>5. CASE Continue
  BY <1>5, CurrentIsReady, RunIInv DEF Continue
<1>6. CASE Idle
  BY <1>6, IdleIInv
<1>7. CASE UNCHANGED vars
  BY <1>7, StutterIInv
<1> QED BY <1>1, <1>2, <1>3, <1>4, <1>5, <1>6, <1>7 DEF Next, Algorithm

LEMMA InvariantHolds == Spec => []IInv
BY InitIInv, NextIInv, PTL DEF Spec

-----------------------------------------------------------------------------
\* The levels, the records and the counters keep their types and their ranges:
\* no process runs below zero ticks and no quantum is less than nothing.
THEOREM TypeCorrect == Spec => []TypeOK
<1>1. IInv => TypeOK
  BY DEF IInv
<1> QED BY <1>1, InvariantHolds, PTL

\* On its way down the levels, and around the last one, no process is lost or
\* put on two levels; the blocks that are taken are exactly those of the
\* processes on the levels; the scheduler does not stop before all are through.
THEOREM NothingIsLost == Spec => []NothingLost
<1>1. IInv => NothingLost
  BY DEF IInv, SharedInv, NothingLost
<1> QED BY <1>1, InvariantHolds, PTL

-----------------------------------------------------------------------------
\* The level of a process follows from what it has run.

\* What it has run of the quantum it is in.
QuantumUsed(p) == IF p = currentProcess THEN q - quantamsLeft ELSE 0

\* i is the level of a process of this priority that has executed so many
\* ticks, the last part of them in a quantum that is not over.
RightLevel(i, priority, executed, part) ==
  /\ i >= priority
  /\ i < LastLevel => executed = (i - priority) * q + part
  /\ i = LastLevel => executed >= (i - priority) * q

LevelInv ==
  \A i \in Levels : \A p \in Range(listOfQueues[i]) :
    RightLevel(i, proc[p].Priority, Executed(p), QuantumUsed(p))

\* The numbers of a process that is on a level.
LEMMA LevelNumbers ==
  ASSUME IInv, NEW i \in Levels, NEW p \in Range(listOfQueues[i])
  PROVE  /\ p \in Procs /\ p \in Holders /\ p # None
         /\ proc[p].Priority \in Nat /\ Executed(p) \in Int
         /\ proc[p].Running_time \in Nat /\ proc[p].Remaining_time \in Int
         /\ QuantumUsed(p) \in 0 .. q - 1
<1>1. p \in Procs /\ p \in Holders /\ p # None
  <2>1. p \in Holders
    BY DEF IInv, NoneLost, Queued
  <2> QED BY <2>1, ConstantTypes DEF Holders, Procs, None
<1>2. /\ proc[p].Priority \in Nat
      /\ proc[p].Running_time \in Nat /\ proc[p].Remaining_time \in Int
  BY <1>1 DEF IInv, SharedInv, SharedTypeOK
<1>3. QuantumUsed(p) \in 0 .. q - 1
  BY <1>1, QuantumAssumption DEF IInv, TypeOK, QuantumLeft, QuantumUsed
<1> QED BY <1>1, <1>2, <1>3 DEF Executed

\* One more tick: in the same quantum, or at its end, which is a level.
LEMMA RightLevelNext ==
  ASSUME NEW i \in Levels, NEW priority \in Nat, NEW executed \in Int,
         NEW quantum \in 1 .. q, RightLevel(i, priority, executed, q - quantum)
  PROVE  /\ RightLevel(i, priority, executed + 1, q - (quantum - 1))
         /\ quantum = 1 =>
              RightLevel(IF i = LastLevel THEN LastLevel ELSE i + 1, priority, executed + 1, 0)
<1>1. i \in Nat /\ q \in Nat /\ (i - priority) * q \in Int /\ i >= priority
  BY LevelTypes, QuantumAssumption DEF RightLevel
<1>2. ((i + 1) - priority) * q = (i - priority) * q + q
  BY <1>1
<1>3. RightLevel(i, priority, executed + 1, q - (quantum - 1))
  BY <1>1 DEF RightLevel
<1>4. ASSUME quantum = 1, i = LastLevel
      PROVE  RightLevel(LastLevel, priority, executed + 1, 0)
  BY <1>1, <1>4 DEF RightLevel
<1>5. ASSUME quantum = 1, i # LastLevel
      PROVE  RightLevel(i + 1, priority, executed + 1, 0)
  <2>1. i < LastLevel /\ executed = (i - priority) * q + (q - 1)
    BY <1>1, <1>5 DEF RightLevel, Levels, LastLevel
  <2>2. executed + 1 = ((i + 1) - priority) * q + 0
    BY <1>1, <1>2, <2>1
  <2> QED BY <1>1, <2>2 DEF RightLevel
<1> QED BY <1>3, <1>4, <1>5

\* A step that leaves the queues and the records of the processes on them.
LEMMA LevelsUnchanged ==
  ASSUME IInv, LevelInv, UNCHANGED levelVars, \A p \in Holders : proc'[p] = proc[p]
  PROVE  LevelInv'
<1>1. UNCHANGED <<listOfQueues, currentProcess, quantamsLeft>>
  BY DEF levelVars
<1>2. ASSUME NEW i \in Levels, NEW p \in Range(listOfQueues[i])
      PROVE  /\ proc'[p] = proc[p]
             /\ RightLevel(i, proc[p].Priority, Executed(p), QuantumUsed(p))
  BY LevelNumbers DEF LevelInv
<1> QED BY <1>1, <1>2 DEF LevelInv, Executed, QuantumUsed, RightLevel

LEMMA RemainsToExecute ==
  ASSUME SharedInv, NEW n \in Messages
  PROVE  n.Remaining_time \in Nat
<1>1. n.Remaining_time = n.Running_time /\ n.Running_time \in RunTimes
  BY MessageTypes DEF SharedInv
<1> QED BY <1>1, RunTimesAssumption

LEMMA HasNotExecuted ==
  ASSUME SharedInv, NEW n \in Messages
  PROVE  n.Running_time - n.Remaining_time = 0
<1>1. n.Remaining_time = n.Running_time /\ n.Running_time \in RunTimes
  BY MessageTypes DEF SharedInv
<1>2. n.Running_time \in Nat
  BY <1>1, RunTimesAssumption
<1> QED BY <1>1, <1>2

LEMMA ReceiveLevels ==
  ASSUME IInv, LevelInv, ReceiveProcess
  PROVE  LevelInv'
<1>1. PICK n \in Messages :
        /\ Accept(n)
        /\ proc' = [proc EXCEPT ![received + 1] = n]
        /\ listOfQueues' = [listOfQueues EXCEPT ![n.Priority] = Append(@, received + 1)]
        /\ UNCHANGED <<currentProcess, currentLevel, quantamsLeft>>
  BY DEF ReceiveProcess
<1>2. PICK r : r = received + 1
  OBVIOUS
<1>3. /\ r \in Procs /\ proc' \in [Procs -> ProcessRecords] /\ proc'[r] = n
      /\ \A p \in Procs \ {r} : proc'[p] = proc[p] /\ SameMemory(p)
  BY <1>1, <1>2, ReceivedRecords DEF IInv, Accept
<1>4. r \notin Holders
  BY <1>1, <1>2, <1>3, AcceptInv DEF IInv
<1>5. n.Priority \in Levels
  BY MessagePriority, ModeAssumption DEF Levels, LastLevel
<1>6. PICK l \in Levels : l = n.Priority
  BY <1>5
<1>7. QueuesOK(listOfQueues, Holders)
  BY DEF IInv, TypeOK, NoneLost, QueuesOK, Queued
<1>8. \A i \in Levels : Range(listOfQueues'[i]) =
                        IF i = l THEN Range(listOfQueues[i]) \cup {r} ELSE Range(listOfQueues[i])
  <2>1. PICK new : new = Appended(listOfQueues, l, r)
    OBVIOUS
  <2>2. /\ Range(new[l]) = Range(listOfQueues[l]) \cup {r}
        /\ \A i \in Levels \ {l} : new[i] = listOfQueues[i]
    BY <1>3, <1>4, <1>7, <2>1, AppendedRanges
  <2>3. listOfQueues' = new
    BY <1>1, <1>2, <1>6, <2>1 DEF Appended
  <2> QED BY <2>2, <2>3
<1>9. RightLevel(l, l, 0, 0)
  BY LevelTypes, QuantumAssumption DEF RightLevel
<1>10. ASSUME NEW i \in Levels, NEW p \in Range(listOfQueues'[i])
       PROVE  RightLevel(i, proc'[p].Priority,
                         proc'[p].Running_time - proc'[p].Remaining_time,
                         IF p = currentProcess THEN q - quantamsLeft ELSE 0)
  <2>1. CASE p = r
    <3>1. r # currentProcess
      <4>1. currentProcess # None => currentProcess \in Holders
        BY <1>7, PoppedLevel DEF IInv, TypeOK, NoneLost
      <4>2. r # None
        BY <1>3, ConstantTypes DEF Procs, None
      <4> QED BY <1>4, <4>1, <4>2
    <3>2. i = l
      <4>1. Range(listOfQueues[i]) \subseteq Holders
        BY <1>7 DEF QueuesOK
      <4> QED BY <1>4, <1>8, <2>1, <4>1
    <3>3. n.Running_time - n.Remaining_time = 0
      BY HasNotExecuted DEF IInv
    <3> QED BY <1>3, <1>6, <1>9, <2>1, <3>1, <3>2, <3>3
  <2>2. CASE p # r
    <3>1. p \in Range(listOfQueues[i])
      BY <1>8, <2>2
    <3>2. proc'[p] = proc[p]
      BY <1>3, <2>2, <3>1, LevelNumbers
    <3>3. RightLevel(i, proc[p].Priority, Executed(p), QuantumUsed(p))
      BY <3>1 DEF LevelInv
    <3> QED BY <3>2, <3>3 DEF Executed, QuantumUsed
  <2> QED BY <2>1, <2>2
<1> QED BY <1>1, <1>10 DEF LevelInv, Executed, QuantumUsed, RightLevel

\* What a turn of p leaves of the numbers a level follows from.
LEMMA RunNumbers ==
  ASSUME IInv, NEW p \in Procs, NEW level, NEW quantum, NEW procs, NEW lines,
         SameWork(procs), RunMultiLevelProcess(p, level, quantum, procs, lines)
  PROVE  /\ \A x \in Procs : /\ proc'[x].Priority = proc[x].Priority
                             /\ proc'[x].Running_time = proc[x].Running_time
         /\ \A x \in Procs \ {p} : proc'[x].Remaining_time = proc[x].Remaining_time
         /\ proc'[p].Remaining_time = proc[p].Remaining_time - 1
<1> DEFINE ran == Executes(procs, p)
<1>1. /\ procs \in [Procs -> ProcessRecords]
      /\ \A x \in Procs : /\ procs[x].Priority = proc[x].Priority
                          /\ procs[x].Running_time = proc[x].Running_time
                          /\ procs[x].Remaining_time = proc[x].Remaining_time
                          /\ proc[x].Remaining_time \in Int
  BY DEF SameWork, IInv, SharedInv, SharedTypeOK
<1>2. /\ ran \in [Procs -> ProcessRecords]
      /\ \A x \in Procs :
           /\ ran[x].Priority = procs[x].Priority
           /\ ran[x].Running_time = procs[x].Running_time
           /\ ran[x].Remaining_time = procs[x].Remaining_time - IF x = p THEN 1 ELSE 0
  BY <1>1, ExecutesRecords
<1>3. PICK time \in Int : time = follow + 1
  BY DEF IInv, SharedInv, SharedTypeOK
<1>4. \/ proc' = Finish(ran, p, time)
      \/ proc' = SetState(ran, p, "STOPPED")
      \/ proc' = ran
  BY <1>3 DEF RunMultiLevelProcess
<1> HIDE DEF ran
<1>5. PICK after : after = proc'
  OBVIOUS
<1>6. \A x \in Procs : /\ after[x].Priority = ran[x].Priority
                       /\ after[x].Running_time = ran[x].Running_time
                       /\ after[x].Remaining_time = ran[x].Remaining_time
  <2>1. CASE after = Finish(ran, p, time)
    BY <1>2, <2>1, FinishRecords
  <2>2. CASE after = SetState(ran, p, "STOPPED")
    <3>1. "STOPPED" \in States
      BY DEF States
    <3> QED BY <1>2, <2>2, <3>1, SetStateRecords
  <2>3. CASE after = ran
    BY <2>3
  <2> QED BY <1>4, <1>5, <2>1, <2>2, <2>3
<1> QED BY <1>1, <1>2, <1>5, <1>6

\* The quantum with which p begins its turn is the rest of the one it is in,
\* and nobody else is in one.
QuantumOf(p, quantum) ==
  /\ QuantumUsed(p) = q - quantum
  /\ currentProcess \in {p, None}

LEMMA RunLevels ==
  ASSUME IInv, LevelInv, NEW p, NEW level, NEW quantum, NEW procs, NEW lines,
         ReadyToRun(p, level, quantum, procs), QuantumOf(p, quantum),
         RunMultiLevelProcess(p, level, quantum, procs, lines)
  PROVE  LevelInv'
<1>1. /\ QueuesOK(listOfQueues, Holders) /\ p \in Holders /\ p \in Procs
      /\ Executes(procs, p)[p].Remaining_time = 0 <=> proc[p].Remaining_time = 1
  BY RunRecords
<1>2. /\ level \in Levels /\ listOfQueues[level] # <<>> /\ p = Head(listOfQueues[level])
      /\ quantum \in 1 .. q
  BY DEF ReadyToRun
<1>3. p \in Range(listOfQueues[level])
  BY <1>1, <1>2, PoppedQueue DEF QueuesOK
<1>4. /\ \A x \in Procs : /\ proc'[x].Priority = proc[x].Priority
                          /\ proc'[x].Running_time = proc[x].Running_time
      /\ \A x \in Procs \ {p} : proc'[x].Remaining_time = proc[x].Remaining_time
      /\ proc'[p].Remaining_time = proc[p].Remaining_time - 1
  BY <1>1, RunNumbers DEF ReadyToRun
<1>5. /\ currentProcess' = IF proc[p].Remaining_time = 1 \/ quantum = 1 THEN None ELSE p
      /\ quantamsLeft' = IF quantum = 1 /\ proc[p].Remaining_time # 1 THEN q ELSE quantum - 1
      /\ listOfQueues' = IF proc[p].Remaining_time = 1 THEN Popped(listOfQueues, level)
                         ELSE IF quantum = 1 THEN PushIntoNextLevel(listOfQueues, level, p)
                         ELSE listOfQueues
  BY <1>1 DEF RunMultiLevelProcess, Popped
<1>6. \A i \in Levels : Range(Popped(listOfQueues, level)[i]) = Range(listOfQueues[i]) \ {p}
  BY <1>1, <1>2, PoppedRanges
<1>7. PICK pushed : pushed = PushIntoNextLevel(listOfQueues, level, p)
  OBVIOUS
<1>8. \A i \in Levels : \A x \in Range(pushed[i]) :
         IF x = p THEN i = Below(level) ELSE x \in Range(listOfQueues[i])
  <2>1. \A i \in Levels : \A x \in Range(PushIntoNextLevel(listOfQueues, level, p)[i]) :
          IF x = p THEN i = Below(level) ELSE x \in Range(listOfQueues[i])
    BY <1>1, <1>2, PushedRanges
  <2> QED BY <1>7, <2>1
<1>9. /\ proc[p].Priority \in Nat /\ Executed(p) \in Int /\ p # None
      /\ RightLevel(level, proc[p].Priority, Executed(p), q - quantum)
  BY <1>2, <1>3, LevelNumbers DEF LevelInv, QuantumOf
<1>10. /\ RightLevel(level, proc[p].Priority, Executed(p) + 1, q - (quantum - 1))
       /\ quantum = 1 => RightLevel(Below(level), proc[p].Priority, Executed(p) + 1, 0)
  BY <1>2, <1>9, RightLevelNext DEF Below
<1>11. proc'[p].Running_time - proc'[p].Remaining_time = Executed(p) + 1
  <2>1. proc[p].Running_time \in Nat /\ proc[p].Remaining_time \in Int
    BY <1>1 DEF IInv, SharedInv, SharedTypeOK
  <2> QED BY <1>1, <1>4, <2>1 DEF Executed
<1>12. \A i \in Levels : \A x \in Range(listOfQueues[i]) \ {p} :
        /\ proc'[x].Priority = proc[x].Priority
        /\ proc'[x].Running_time - proc'[x].Remaining_time = Executed(x)
        /\ x # currentProcess /\ x # currentProcess'
        /\ RightLevel(i, proc[x].Priority, Executed(x), 0)
  <2> SUFFICES ASSUME NEW i \in Levels, NEW x \in Range(listOfQueues[i]) \ {p}
               PROVE  /\ proc'[x].Priority = proc[x].Priority
                      /\ proc'[x].Running_time - proc'[x].Remaining_time = Executed(x)
                      /\ x # currentProcess /\ x # currentProcess'
                      /\ RightLevel(i, proc[x].Priority, Executed(x), 0)
    OBVIOUS
  <2>1. x \in Procs /\ x # None
    BY LevelNumbers
  <2>2. x # currentProcess /\ x # currentProcess'
    BY <1>5, <2>1 DEF QuantumOf
  <2>3. RightLevel(i, proc[x].Priority, Executed(x), QuantumUsed(x))
    BY DEF LevelInv
  <2> QED BY <1>4, <2>1, <2>2, <2>3 DEF Executed, QuantumUsed
<1>13. ASSUME NEW i \in Levels, NEW x \in Range(listOfQueues'[i]), x # p
       PROVE  x \in Range(listOfQueues[i])
  <2>1. CASE proc[p].Remaining_time = 1
    BY <1>5, <1>6, <1>13, <2>1
  <2>2. CASE proc[p].Remaining_time # 1 /\ quantum = 1
    BY <1>5, <1>7, <1>8, <1>13, <2>2
  <2>3. CASE proc[p].Remaining_time # 1 /\ quantum # 1
    BY <1>5, <2>3
  <2> QED BY <2>1, <2>2, <2>3
<1>14. ASSUME NEW i \in Levels, p \in Range(listOfQueues'[i])
       PROVE  RightLevel(i, proc[p].Priority, Executed(p) + 1,
                         IF p = currentProcess' THEN q - quantamsLeft' ELSE 0)
  <2>1. proc[p].Remaining_time # 1
    BY <1>5, <1>6, <1>14
  <2>2. CASE quantum = 1
    <3>1. i = Below(level)
      BY <1>5, <1>7, <1>8, <1>14, <2>1, <2>2
    <3>2. p # currentProcess'
      BY <1>5, <1>9, <2>2
    <3>3. (IF p = currentProcess' THEN q - quantamsLeft' ELSE 0) = 0
      BY <3>2
    <3>4. RightLevel(i, proc[p].Priority, Executed(p) + 1, 0)
      BY <1>10, <2>2, <3>1
    <3> QED BY <3>3, <3>4
  <2>3. CASE quantum # 1
    <3>1. i = level
      BY <1>1, <1>2, <1>3, <1>5, <1>14, <2>1, <2>3 DEF QueuesOK
    <3>2. p = currentProcess' /\ quantamsLeft' = quantum - 1
      BY <1>5, <2>1, <2>3
    <3>3. (IF p = currentProcess' THEN q - quantamsLeft' ELSE 0) = q - (quantum - 1)
      BY <3>2
    <3>4. RightLevel(i, proc[p].Priority, Executed(p) + 1, q - (quantum - 1))
      BY <1>10, <3>1
    <3> QED BY <3>3, <3>4
  <2> QED BY <2>2, <2>3
<1>15. ASSUME NEW i \in Levels, NEW x \in Range(listOfQueues'[i])
       PROVE  RightLevel(i, proc'[x].Priority, proc'[x].Running_time - proc'[x].Remaining_time,
                         IF x = currentProcess' THEN q - quantamsLeft' ELSE 0)
  <2>1. CASE x = p
    BY <1>1, <1>4, <1>11, <1>14, <1>15, <2>1
  <2>2. CASE x # p
    BY <1>12, <1>13, <2>2
  <2> QED BY <2>1, <2>2
<1> QED BY <1>15 DEF LevelInv, Executed, QuantumUsed, RightLevel

\* A process that was not received has no time remaining.
NothingYet == \A p \in Procs : p > received => proc[p].Remaining_time = 0

LEMMA InitLevels == Init => LevelInv /\ NothingYet
<1> SUFFICES ASSUME Init PROVE LevelInv /\ NothingYet
  OBVIOUS
<1>1. \A i \in Levels : Range(listOfQueues[i]) = {}
  BY EmptyQueue DEF Init
<1>2. NothingYet
  BY DEF Init, SharedInit, NothingYet, Unborn
<1> QED BY <1>1, <1>2 DEF LevelInv

\* In a turn, only the process that runs has fewer ticks remaining.
LEMMA RunNothingYet ==
  ASSUME IInv, NothingYet, NEW p, NEW level, NEW quantum, NEW procs, NEW lines,
         ReadyToRun(p, level, quantum, procs),
         RunMultiLevelProcess(p, level, quantum, procs, lines), EndOfPass
  PROVE  /\ NothingYet'
         /\ \A x \in Procs : proc'[x].Remaining_time < proc[x].Remaining_time => x = p
<1>1. p \in Holders /\ p \in Procs
  BY RunRecords
<1>2. \A x \in Procs \ {p} : proc'[x].Remaining_time = proc[x].Remaining_time
  BY <1>1, RunNumbers DEF ReadyToRun
<1>3. received' = received
  BY DEF EndOfPass
<1>4. p <= received
  <2>1. ~(p > received)
    BY <1>1 DEF IInv, SharedInv, RecordsFilled, Holders, Holds
  <2>2. p \in Nat /\ received \in Nat
    BY <1>1, ConstantTypes DEF IInv, SharedInv, SharedTypeOK, Procs
  <2> QED BY <2>1, <2>2
<1>5. \A x \in Procs : proc[x].Remaining_time \in Int
  BY DEF IInv, SharedInv, SharedTypeOK
<1>6. NothingYet'
  <2> SUFFICES ASSUME NEW x \in Procs, x > received PROVE proc'[x].Remaining_time = 0
    BY <1>3 DEF NothingYet
  <2>1. x # p
    <3>1. p \in Nat /\ received \in Nat
      BY <1>1, ConstantTypes DEF IInv, SharedInv, SharedTypeOK, Procs
    <3> QED BY <1>4, <3>1
  <2> QED BY <1>2, <2>1 DEF NothingYet
<1> QED BY <1>2, <1>5, <1>6

\* What a reception changes: the record of the next process, from nothing.
LEMMA ReceiptNothingYet ==
  ASSUME IInv, NothingYet, NEW r \in Procs, r = received + 1, received' = r,
         proc'[r].Remaining_time \in Nat,
         \A p \in Procs \ {r} : proc'[p] = proc[p]
  PROVE  /\ NothingYet'
         /\ \A x \in Procs : ~(proc'[x].Remaining_time < proc[x].Remaining_time)
<1>1. received \in Nat /\ Procs \subseteq Nat
  BY ConstantTypes DEF IInv, SharedInv, SharedTypeOK, Procs
<1>2. \A x \in Procs : proc[x].Remaining_time \in Int
  BY DEF IInv, SharedInv, SharedTypeOK
<1>3. proc[r].Remaining_time = 0
  BY <1>1 DEF NothingYet
<1>4. NothingYet'
  <2> SUFFICES ASSUME NEW x \in Procs, x > r PROVE proc'[x].Remaining_time = 0
    BY DEF NothingYet
  <2> QED BY <1>1 DEF NothingYet
<1> QED BY <1>2, <1>3, <1>4

\* What runs: the current process, or one of the first level with a process.
LevelsDecide(p) ==
  \/ p = currentProcess
  \/ /\ currentProcess = None
     /\ \A x \in Holders :
          Min({LastLevel, proc[p].Priority + Executed(p) \div q})
            <= proc[x].Priority + Executed(x) \div q

RunsLowest ==
  \A p \in Procs :
    phase = "receive" /\ proc'[p].Remaining_time < proc[p].Remaining_time => LevelsDecide(p)

LEMMA MinOfTwo ==
  ASSUME NEW a \in Nat, NEW b \in Nat
  PROVE  Min({a, b}) = IF a <= b THEN a ELSE b
<1>1. Min({a, b}) \in {a, b} /\ \A y \in {a, b} : Min({a, b}) =< y
  BY MinIsLeast
<1> QED BY <1>1

LEMMA Quotient ==
  ASSUME NEW e \in Nat, NEW n \in Nat \ {0}, NEW k \in Nat, k * n <= e
  PROVE  /\ e \div n \in Nat /\ e \div n >= k
         /\ e < k * n + n => e \div n = k
OBVIOUS

\* One tick more does not make fewer quanta.
LEMMA QuotientGrows ==
  ASSUME NEW e \in Nat, NEW n \in Nat \ {0}
  PROVE  e \div n \in Nat /\ (e + 1) \div n \in Nat /\ (e + 1) \div n >= e \div n
<1>1. PICK d : d = e \div n
  OBVIOUS
<1>2. d \in Nat /\ d * n <= e
  BY <1>1
<1>3. d * n <= e + 1
  <2>1. d * n \in Int
    BY <1>2
  <2> QED BY <1>2, <2>1
<1>4. (e + 1) \div n \in Nat /\ (e + 1) \div n >= d
  BY <1>2, <1>3, Quotient
<1> QED BY <1>1, <1>2, <1>4

\* The level a process is on, computed from its priority and its ticks.
LEMMA LevelIsRight ==
  ASSUME NEW i \in Levels, NEW priority \in Nat, NEW executed \in Int,
         NEW part \in 0 .. q - 1, RightLevel(i, priority, executed, part)
  PROVE  /\ i <= priority + executed \div q
         /\ i = Min({LastLevel, priority + executed \div q})
<1>1. /\ i \in Nat /\ q \in Nat \ {0} /\ i >= priority /\ i <= LastLevel /\ LastLevel \in Nat
  BY QuantumAssumption DEF RightLevel, Levels, LastLevel
<1>2. PICK k \in Nat : k = i - priority
  BY <1>1
<1>3. k * q \in Nat
  BY <1>1
<1>4. CASE i < LastLevel
  <2>1. executed = k * q + part
    BY <1>2, <1>4 DEF RightLevel
  <2>2. executed \in Nat /\ k * q <= executed /\ executed < k * q + q
    BY <1>1, <1>3, <2>1
  <2>3. executed \div q = k
    BY <1>1, <2>2, Quotient
  <2>4. priority + executed \div q = i
    BY <1>1, <1>2, <2>3
  <2> QED BY <1>1, <1>4, <2>4, MinOfTwo
<1>5. CASE i = LastLevel
  <2>1. executed \in Nat /\ k * q <= executed
    BY <1>2, <1>3, <1>5 DEF RightLevel
  <2>2. executed \div q \in Nat /\ executed \div q >= k
    BY <1>1, <2>1, Quotient
  <2>3. PICK d \in Nat : d = executed \div q
    BY <2>2
  <2>4. priority + d \in Nat /\ priority + d >= i
    BY <1>1, <1>2, <2>2, <2>3
  <2>5. Min({LastLevel, priority + d}) = LastLevel
    BY <1>1, <1>5, <2>4, MinOfTwo
  <2> QED BY <1>5, <2>3, <2>4, <2>5
<1> QED BY <1>1, <1>4, <1>5

LEMMA LevelsFollow ==
  ASSUME IInv, LevelInv, NEW i \in Levels, NEW p \in Range(listOfQueues[i])
  PROVE  /\ i <= proc[p].Priority + Executed(p) \div q
         /\ i = Min({LastLevel, proc[p].Priority + Executed(p) \div q})
<1>1. RightLevel(i, proc[p].Priority, Executed(p), QuantumUsed(p))
  BY DEF LevelInv
<1>2. /\ proc[p].Priority \in Nat /\ Executed(p) \in Int /\ QuantumUsed(p) \in 0 .. q - 1
  BY LevelNumbers
<1> QED BY <1>1, <1>2, LevelIsRight

\* The process ChooseNext chooses is one of the first level with a process.
LEMMA ChosenIsLowest ==
  ASSUME IInv, LevelInv, NonEmpty # {}, NEW level, level = NextLevel,
         NEW p, p = Head(listOfQueues[level])
  PROVE  \A x \in Holders :
           Min({LastLevel, proc[p].Priority + Executed(p) \div q})
             <= proc[x].Priority + Executed(x) \div q
<1>1. /\ level \in NonEmpty /\ \A i \in NonEmpty : level =< i
      /\ NonEmpty \subseteq Nat
  <2>1. NonEmpty \subseteq Nat
    BY LevelTypes DEF NonEmpty
  <2> QED BY <2>1, MinIsLeast DEF NextLevel
<1>2. level \in Levels /\ listOfQueues[level] # <<>>
  BY <1>1 DEF NonEmpty
<1>3. /\ QueuesOK(listOfQueues, Holders)
      /\ listOfQueues[level] \in Seq(Procs) /\ IsInjective(listOfQueues[level])
  BY <1>2 DEF IInv, TypeOK, NoneLost, QueuesOK, Queued
<1>4. p \in Range(listOfQueues[level])
  BY <1>2, <1>3, PoppedQueue
<1>5. level = Min({LastLevel, proc[p].Priority + Executed(p) \div q})
  BY <1>2, <1>4, LevelsFollow
<1>6. ASSUME NEW x \in Holders PROVE level <= proc[x].Priority + Executed(x) \div q
  <2>1. PICK i \in Levels : x \in Range(listOfQueues[i])
    BY <1>3 DEF QueuesOK
  <2>2. i <= proc[x].Priority + Executed(x) \div q
    BY <2>1, LevelsFollow
  <2>3. level =< i
    BY <1>1, <2>1, EmptyQueue DEF NonEmpty
  <2>4. proc[x].Priority + Executed(x) \div q \in Int /\ i \in Int /\ level \in Int
    <3>1. proc[x].Priority \in Nat /\ Executed(x) \in Int
      BY <2>1, LevelNumbers
    <3> QED BY <1>1, <2>1, <3>1, LevelTypes, QuantumAssumption
  <2> QED BY <2>2, <2>3, <2>4
<1> QED BY <1>5, <1>6

\* The turns: what they run, and the levels after them.
LEMMA TurnLevels ==
  ASSUME IInv, LevelInv, NothingYet, ChooseNext \/ Continue
  PROVE  LevelInv' /\ NothingYet' /\ RunsLowest
<1>1. ASSUME NEW p, NEW level, NEW quantum, NEW procs, NEW lines,
             ReadyToRun(p, level, quantum, procs), QuantumOf(p, quantum),
             RunMultiLevelProcess(p, level, quantum, procs, lines), LevelsDecide(p)
      PROVE  LevelInv' /\ NothingYet' /\ RunsLowest
  <2>1. LevelInv'
    BY <1>1, RunLevels
  <2>2. /\ NothingYet'
        /\ \A x \in Procs : proc'[x].Remaining_time < proc[x].Remaining_time => x = p
    BY <1>1, RunNothingYet DEF ChooseNext, Continue
  <2> QED BY <1>1, <2>1, <2>2 DEF RunsLowest
<1>2. CASE ChooseNext
  <2>1. PICK level : level = NextLevel
    OBVIOUS
  <2>2. PICK p : p = Head(listOfQueues[level])
    OBVIOUS
  <2>3. PICK state \in {"STARTED", "RESUMED"} :
          state = IF proc[p].Remaining_time = proc[p].Running_time THEN "STARTED" ELSE "RESUMED"
    OBVIOUS
  <2>4. /\ NonEmpty # {} /\ currentProcess = None
        /\ RunMultiLevelProcess(p, level, q, SetState(proc, p, state), PrintLine(log, p, state))
    BY <1>2, <2>1, <2>2, <2>3 DEF ChooseNext
  <2>5. ReadyToRun(p, level, q, SetState(proc, p, state))
    BY <2>1, <2>2, <2>4, NextIsReady
  <2>6. QuantumOf(p, q)
    <3>1. p \in Procs
      BY <2>4, <2>5, RunRecords
    <3>2. p # None
      BY <3>1, ConstantTypes DEF Procs, None
    <3> QED BY <2>4, <3>2, QuantumAssumption DEF QuantumOf, QuantumUsed
  <2>7. LevelsDecide(p)
    BY <2>1, <2>2, <2>4, ChosenIsLowest DEF LevelsDecide
  <2> QED BY <1>1, <2>4, <2>5, <2>6, <2>7
<1>3. CASE Continue
  <2>1. /\ currentProcess # None
        /\ RunMultiLevelProcess(currentProcess, currentLevel, quantamsLeft, proc, log)
    BY <1>3 DEF Continue
  <2>2. ReadyToRun(currentProcess, currentLevel, quantamsLeft, proc)
    BY <2>1, CurrentIsReady
  <2>3. QuantumOf(currentProcess, quantamsLeft) /\ LevelsDecide(currentProcess)
    BY DEF QuantumOf, QuantumUsed, LevelsDecide
  <2> QED BY <1>1, <2>1, <2>2, <2>3
<1> QED BY <1>2, <1>3

LEMMA NextLevels ==
  ASSUME IInv, LevelInv, NothingYet, [Next]_vars
  PROVE  LevelInv' /\ NothingYet' /\ [RunsLowest]_vars
<1>1. ASSUME UNCHANGED levelVars, proc' = proc, received' = received
      PROVE  LevelInv' /\ NothingYet' /\ RunsLowest
  <2>1. LevelInv'
    BY <1>1, LevelsUnchanged
  <2>2. \A p \in Procs : proc[p].Remaining_time \in Int
    BY DEF IInv, SharedInv, SharedTypeOK
  <2> QED BY <1>1, <2>1, <2>2 DEF NothingYet, RunsLowest
<1>2. CASE Tick /\ UNCHANGED levelVars
  BY <1>1, <1>2 DEF Tick
<1>3. CASE ReceiveProcess
  <2>1. LevelInv'
    BY <1>3, ReceiveLevels
  <2>2. PICK n \in Messages : Accept(n) /\ proc' = [proc EXCEPT ![received + 1] = n]
    BY <1>3 DEF ReceiveProcess
  <2>3. PICK r : r = received + 1
    OBVIOUS
  <2>4. /\ r \in Procs /\ proc'[r] = n /\ received' = r
        /\ \A p \in Procs \ {r} : proc'[p] = proc[p]
    BY <2>2, <2>3, ReceivedRecords DEF IInv, Accept
  <2>5. n.Remaining_time \in Nat
    BY RemainsToExecute DEF IInv
  <2>6. NothingYet' /\ \A x \in Procs : ~(proc'[x].Remaining_time < proc[x].Remaining_time)
    BY <2>3, <2>4, <2>5, ReceiptNothingYet
  <2> QED BY <2>1, <2>6 DEF RunsLowest
<1>4. CASE RefuseProcess
  <2>1. PICK r : r = received'
    OBVIOUS
  <2>2. /\ r \in Procs /\ r = received + 1 /\ Holders' = Holders
        /\ proc'[r].Remaining_time \in Nat \ {0} /\ proc'[r].memindex = NoPlace
        /\ \A p \in Procs \ {r} : proc'[p] = proc[p]
        /\ UNCHANGED levelVars
    BY <1>4, <2>1, RefuseInv DEF IInv, RefuseProcess
  <2>3. \A p \in Holders : proc'[p] = proc[p]
    BY <2>2 DEF Holders, Holds
  <2>4. LevelInv'
    BY <2>2, <2>3, LevelsUnchanged
  <2>5. NothingYet' /\ \A x \in Procs : ~(proc'[x].Remaining_time < proc[x].Remaining_time)
    BY <2>1, <2>2, ReceiptNothingYet
  <2> QED BY <2>4, <2>5 DEF RunsLowest
<1>5. CASE ChooseNext \/ Continue
  BY <1>5, TurnLevels
<1>6. CASE Idle
  BY <1>1, <1>6 DEF Idle, EndOfPass
<1>7. CASE UNCHANGED vars
  BY <1>1, <1>7 DEF vars, sharedVars
<1> QED BY <1>2, <1>3, <1>4, <1>5, <1>6, <1>7 DEF Next, Algorithm

LEMMA LevelsHold == Spec => [](LevelInv /\ NothingYet)
BY InitLevels, NextLevels, InvariantHolds, PTL DEF Spec

\* A process goes down exactly one level with each full quantum it has run: no
\* turn of another process, arrival, or idle pass adds to it or takes from it.
THEOREM QuantaMakeLevels == Spec => []LevelTracksQuanta
<1>1. IInv /\ LevelInv => LevelTracksQuanta
  BY LevelsFollow DEF LevelTracksQuanta
<1> QED BY <1>1, InvariantHolds, LevelsHold, PTL

\* A process keeps the processor for its quantum, and after it a process of the
\* first level that has one runs.
THEOREM LowestLevelRuns == Spec => LowestLevelFirst
<1>1. IInv /\ LevelInv /\ NothingYet /\ [Next]_vars => [RunsLowest]_vars
  BY NextLevels
<1> QED BY <1>1, InvariantHolds, LevelsHold, PTL
        DEF Spec, LowestLevelFirst, RunsLowest, LevelsDecide

-----------------------------------------------------------------------------
\* Every step of MLFL is one of Processor, or none.

LEMMA RunServes ==
  ASSUME IInv, NEW p, NEW level, NEW quantum, NEW procs, NEW lines,
         ReadyToRun(p, level, quantum, procs),
         RunMultiLevelProcess(p, level, quantum, procs, lines), Turn, EndOfPass
  PROVE  Served!ProcessorNext
<1>1. Ran(p) /\ p \in Holders /\ p \in Procs
  BY RunRecords
<1>2. Served!Serve(p)
  BY <1>1, RanServes DEF IInv, Turn
<1> QED BY <1>1, <1>2 DEF Served!ProcessorNext

LEMMA NextServes ==
  ASSUME IInv, [Next]_vars
  PROVE  [Served!ProcessorNext]_(Served!processorVars)
<1>1. CASE Tick /\ UNCHANGED levelVars
  <2>1. Served!Begin
    BY <1>1, TickServes
  <2> QED BY <2>1 DEF Served!ProcessorNext
<1>2. CASE ReceiveProcess
  <2>1. PICK n \in Messages : Accept(n) /\ proc' = [proc EXCEPT ![received + 1] = n]
    BY <1>2 DEF ReceiveProcess
  <2>2. PICK r : r = received + 1
    OBVIOUS
  <2>3. /\ r \in Procs /\ proc' \in [Procs -> ProcessRecords] /\ proc'[r] = n
        /\ \A p \in Procs \ {r} : proc'[p] = proc[p] /\ SameMemory(p)
    BY <2>1, <2>2, ReceivedRecords DEF IInv, Accept
  <2>4. Served!Arrive(r)
    BY <2>1, <2>2, <2>3, AcceptServes DEF IInv
  <2> QED BY <2>3, <2>4 DEF Served!ProcessorNext
<1>3. CASE RefuseProcess
  BY <1>3, RefuseStutters DEF IInv, RefuseProcess
<1>4. CASE ChooseNext
  <2>1. Served!ProcessorNext
    BY <1>4, Chosen, RunServes DEF ChooseNext
  <2> QED BY <2>1
<1>5. CASE Continue
  <2>1. Served!ProcessorNext
    BY <1>5, CurrentIsReady, RunServes DEF Continue
  <2> QED BY <2>1
<1>6. CASE Idle
  <2>1. phase = "receive" /\ phase' # "receive" /\ proc' = proc
    BY <1>6 DEF Idle, Turn, EndOfPass
  <2>2. Holders = {}
    BY <1>6, EmptyQueue DEF Idle, NonEmpty, IInv, NoneLost, Queued
  <2>3. Served!Rest
    BY <2>1, <2>2, IdleServes
  <2> QED BY <2>3 DEF Served!ProcessorNext
<1>7. CASE UNCHANGED vars
  BY <1>7, StutterServes DEF vars, sharedVars
<1> QED BY <1>1, <1>2, <1>3, <1>4, <1>5, <1>6, <1>7 DEF Next, Algorithm

\* MLF_Algo serves the processes that hold memory as Processor promises: one
\* tick of one of them in every pass while there is any, none beyond its
\* running time, and each leaves in the pass that runs its last tick.
THEOREM Refinement == Spec => ImplementsProcessor
<1>1. Init => Served!ProcessorInit
  BY ServedInit DEF Init
<1>2. IInv /\ [Next]_vars => [Served!ProcessorNext]_(Served!processorVars)
  BY NextServes
<1> QED BY <1>1, <1>2, InvariantHolds, PTL DEF Spec, ImplementsProcessor, Served!ProcessorSpec
-----------------------------------------------------------------------------
\* The reports.  A process that has not come to the last level is charged with
\* every tick; who is current has been started or resumed, who has run and is
\* not has been stopped; and up() was called for every tick but the last.
Books == Ledger /\ \A p \in Procs : ~CameToLastLevel(p) => AccountOf(p)

LineOf(p) ==
  /\ Tells(log[p], {})
  /\ ups[p] = Executed(p) - IF p \in Finished THEN 1 ELSE 0
  /\ p = currentProcess => Executed(p) # 0
  /\ p \in Finished => log[p] # <<>> /\ Last(log[p]) = "FINISHED"
  /\ p \notin Finished =>
       /\ Executed(p) = 0 => log[p] = <<>>
       /\ Executed(p) # 0 =>
            /\ log[p] # <<>>
            /\ p = currentProcess => Last(log[p]) \in {"STARTED", "RESUMED"}
            /\ p # currentProcess => Last(log[p]) = "STOPPED"

Lines == \A p \in Procs : LineOf(p)

LEMMA InitLines == Init => Lines
<1> SUFFICES ASSUME Init, NEW p \in Procs PROVE LineOf(p)
  BY DEF Lines
<1>1. /\ proc[p].State = "STOPPED" /\ proc[p].Running_time = 0 /\ proc[p].Remaining_time = 0
      /\ log[p] = <<>> /\ ups[p] = 0 /\ p # currentProcess
  BY ConstantTypes DEF Init, SharedInit, Unborn, Procs, None
<1>2. p \notin Finished /\ Executed(p) = 0
  BY <1>1 DEF Finished, Executed
<1>3. Tells(log[p], {})
  BY <1>1, NoLinesTell
<1>4. ups[p] = Executed(p) - IF p \in Finished THEN 1 ELSE 0
  <2>1. ups[p] = Executed(p) - 0
    BY <1>1, <1>2
  <2> QED BY <1>2, <2>1
<1> QED BY <1>1, <1>2, <1>3, <1>4 DEF LineOf

\* A step that neither runs p nor prints anything about it.
LEMMA LineKept ==
  ASSUME NEW p \in Procs, LineOf(p), log'[p] = log[p], ups'[p] = ups[p],
         Executed(p)' = Executed(p), p = currentProcess' <=> p = currentProcess,
         proc'[p].State = "FINISHED" <=> proc[p].State = "FINISHED"
  PROVE  LineOf(p)'
BY DEF LineOf, Finished

\* What a process waits, and what running it leaves of the other times.
LEMMA ExecutesTimes ==
  ASSUME NEW procs \in [Procs -> ProcessRecords], NEW r \in Procs
  PROVE  \A x \in Procs :
           /\ Executes(procs, r)[x].Arrival_time = procs[x].Arrival_time
           /\ Executes(procs, r)[x].TA = procs[x].TA
           /\ Executes(procs, r)[x].Waiting_time =
                procs[x].Waiting_time + IF x \in Queued THEN TicksWaited(x, r) ELSE 0
BY DEF Executes, ProcessRecords

\* On every level but the last, waiting is counted once.
LEMMA WaitsOnce ==
  ASSUME IInv, LevelInv, NEW r \in Holders, NEW p \in Procs, ~CameToLastLevel(p)
  PROVE  (IF p \in Queued THEN TicksWaited(p, r) ELSE 0)
           = IF p # r /\ p \in Holders THEN 1 ELSE 0
<1>1. Holders = Queued
  BY DEF IInv, NoneLost
<1>2. LastLevel \in Levels /\ LastLevel \in Nat
  BY LevelTypes
<1>3. p \notin Range(listOfQueues[LastLevel])
  <2> SUFFICES ASSUME p \in Range(listOfQueues[LastLevel]) PROVE FALSE
    OBVIOUS
  <2>1. LastLevel <= proc[p].Priority + Executed(p) \div q
    BY <1>2, LevelsFollow
  <2>2. PICK l : l = proc[p].Priority + Executed(p) \div q
    OBVIOUS
  <2>3. l \in Int
    <3>1. proc[p].Priority \in Nat /\ Executed(p) \in Int
      BY <1>2, LevelNumbers
    <3> QED BY <2>2, <3>1, QuantumAssumption
  <2> QED BY <1>2, <2>1, <2>2, <2>3 DEF CameToLastLevel
<1> QED BY <1>1, <1>3 DEF TicksWaited

\* What a run adds to the times, the total, the lines and the counts.
LEMMA RunEnds ==
  ASSUME IInv, NEW p, NEW level, NEW quantum, NEW procs, NEW lines,
         ReadyToRun(p, level, quantum, procs), KeptTimes(procs, {}, follow),
         RunMultiLevelProcess(p, level, quantum, procs, lines)
  PROVE  /\ RanToEnd(p) /\ cpu_waiting_time' = cpu_waiting_time
         /\ \A x \in Procs :
              proc'[x].Waiting_time =
                proc[x].Waiting_time + IF x \in Queued THEN TicksWaited(x, p) ELSE 0
         /\ total_waiting_time' = total_waiting_time
              + IF proc'[p].Remaining_time = 0 THEN proc'[p].Waiting_time ELSE 0
         /\ ups' = IF proc'[p].Remaining_time = 0 THEN ups ELSE Up(ups, p)
         /\ currentProcess' = IF proc'[p].Remaining_time = 0 \/ quantum = 1 THEN None ELSE p
         /\ log' = IF proc'[p].Remaining_time = 0 THEN PrintLine(lines, p, "FINISHED")
                   ELSE IF quantum = 1 THEN PrintLine(lines, p, "STOPPED")
                   ELSE lines
<1>1. /\ p \in Procs /\ proc[p].Remaining_time \in Nat \ {0}
      /\ procs \in [Procs -> ProcessRecords]
  <2>1. p \in Procs /\ proc[p].Remaining_time \in Nat \ {0}
    BY RunRecords
  <2>2. procs \in [Procs -> ProcessRecords]
    BY DEF ReadyToRun, SameWork
  <2> QED BY <2>1, <2>2
<1>2. \A x \in Procs : /\ procs[x].memindex = proc[x].memindex
                       /\ procs[x].Remaining_time = proc[x].Remaining_time
                       /\ procs[x].Running_time = proc[x].Running_time
                       /\ procs[x].State = "FINISHED" <=> proc[x].State = "FINISHED"
                       /\ procs[x].Arrival_time = proc[x].Arrival_time
                       /\ procs[x].Waiting_time = proc[x].Waiting_time
                       /\ procs[x].TA = proc[x].TA
  BY DEF ReadyToRun, SameWork, KeptTimes
<1>3. PICK ran : ran = Executes(procs, p)
  OBVIOUS
<1>4. PICK time \in Int : time = follow + 1
  BY DEF IInv, SharedInv, SharedTypeOK
<1>5. /\ ran \in [Procs -> ProcessRecords]
      /\ \A x \in Procs :
           /\ ran[x].memindex = procs[x].memindex
           /\ ran[x].State = procs[x].State
           /\ ran[x].Running_time = procs[x].Running_time
           /\ ran[x].Remaining_time = procs[x].Remaining_time - IF x = p THEN 1 ELSE 0
  BY <1>1, <1>3, ExecutesRecords
<1>6. \A x \in Procs :
        /\ ran[x].Arrival_time = procs[x].Arrival_time
        /\ ran[x].TA = procs[x].TA
        /\ ran[x].Waiting_time =
             procs[x].Waiting_time + IF x \in Queued THEN TicksWaited(x, p) ELSE 0
  BY <1>1, <1>3, ExecutesTimes
<1>7. /\ proc' = IF ran[p].Remaining_time = 0 THEN Finish(ran, p, time)
                 ELSE IF quantum = 1 THEN SetState(ran, p, "STOPPED")
                 ELSE ran
      /\ log' = IF ran[p].Remaining_time = 0 THEN PrintLine(lines, p, "FINISHED")
                ELSE IF quantum = 1 THEN PrintLine(lines, p, "STOPPED")
                ELSE lines
      /\ total_waiting_time' =
           total_waiting_time + IF ran[p].Remaining_time = 0 THEN ran[p].Waiting_time ELSE 0
      /\ ups' = IF procs[p].Remaining_time > 1 THEN Up(ups, p) ELSE ups
      /\ currentProcess' = IF ran[p].Remaining_time = 0 \/ quantum = 1 THEN None ELSE p
      /\ cpu_waiting_time' = cpu_waiting_time
  BY <1>3, <1>4 DEF RunMultiLevelProcess
<1>8. ran[p].State # "FINISHED"
  BY <1>1, <1>5 DEF ReadyToRun
<1>9. /\ proc' \in [Procs -> ProcessRecords]
      /\ \A x \in Procs :
           /\ proc'[x].memindex = ran[x].memindex
           /\ proc'[x].Arrival_time = ran[x].Arrival_time
           /\ proc'[x].Running_time = ran[x].Running_time
           /\ proc'[x].Remaining_time = ran[x].Remaining_time
           /\ proc'[x].Waiting_time = ran[x].Waiting_time
           /\ proc'[x].State = "FINISHED" <=>
                (x = p /\ ran[x].Remaining_time = 0) \/ ran[x].State = "FINISHED"
           /\ proc'[x].TA = IF x = p /\ ran[x].Remaining_time = 0
                            THEN time - ran[x].Arrival_time ELSE ran[x].TA
  <2>1. CASE ran[p].Remaining_time = 0
    <3>1. PICK set : set = Finish(ran, p, time)
      OBVIOUS
    <3>2. /\ set \in [Procs -> ProcessRecords]
          /\ \A x \in Procs :
               /\ set[x].memindex = ran[x].memindex
               /\ set[x].Remaining_time = ran[x].Remaining_time
               /\ set[x].Running_time = ran[x].Running_time
               /\ set[x].State = IF x = p THEN "FINISHED" ELSE ran[x].State
      BY <1>1, <1>5, <3>1, FinishRecords
    <3>3. \A x \in Procs :
            /\ set[x].Arrival_time = ran[x].Arrival_time
            /\ set[x].Waiting_time = ran[x].Waiting_time
            /\ set[x].TA = IF x = p THEN time - ran[x].Arrival_time ELSE ran[x].TA
      BY <1>1, <1>5, <3>1, FinishTimes
    <3>4. proc' = set
      BY <1>7, <2>1, <3>1
    <3> QED BY <2>1, <3>2, <3>3, <3>4
  <2>2. CASE ran[p].Remaining_time # 0 /\ quantum = 1
    <3>1. PICK set : set = SetState(ran, p, "STOPPED")
      OBVIOUS
    <3>2. "STOPPED" \in States
      BY DEF States
    <3>3. /\ set \in [Procs -> ProcessRecords]
          /\ \A x \in Procs :
               /\ set[x].memindex = ran[x].memindex
               /\ set[x].Remaining_time = ran[x].Remaining_time
               /\ set[x].Running_time = ran[x].Running_time
               /\ set[x].State = IF x = p THEN "STOPPED" ELSE ran[x].State
      BY <1>1, <1>5, <3>1, <3>2, SetStateRecords
    <3>4. \A x \in Procs :
            /\ set[x].Arrival_time = ran[x].Arrival_time
            /\ set[x].Waiting_time = ran[x].Waiting_time
            /\ set[x].TA = ran[x].TA
      BY <1>1, <1>5, <3>1, <3>2, SetStateTimes
    <3>5. proc' = set
      BY <1>7, <2>2, <3>1
    <3> QED BY <1>8, <2>2, <3>3, <3>4, <3>5
  <2>3. CASE ran[p].Remaining_time # 0 /\ quantum # 1
    <3>1. proc' = ran
      BY <1>7, <2>3
    <3> QED BY <1>5, <2>3, <3>1
  <2> QED BY <2>1, <2>2, <2>3
<1>10. RanToEnd(p)
  <2>1. ASSUME NEW x \in Procs, x = p, proc'[x].Remaining_time = 0
        PROVE  proc'[x].TA = follow + 1 - proc[x].Arrival_time
    <3>1. ran[x].Remaining_time = 0
      BY <1>9, <2>1
    <3>2. proc'[x].TA = time - ran[x].Arrival_time
      BY <1>9, <2>1, <3>1
    <3>3. ran[x].Arrival_time = proc[x].Arrival_time
      BY <1>2, <1>6, <2>1
    <3>4. proc'[x].TA = time - proc[x].Arrival_time
      BY <3>2, <3>3
    <3>5. follow \in Int /\ proc[x].Arrival_time \in Int
      BY TimesAreNumbers DEF IInv, SharedInv, SharedTypeOK
    <3> QED BY <1>4, <3>4, <3>5
  <2> QED BY <1>2, <1>5, <1>6, <1>9, <2>1 DEF RanToEnd
<1>11. /\ ran[p].Remaining_time = proc'[p].Remaining_time
       /\ ran[p].Waiting_time = proc'[p].Waiting_time
       /\ procs[p].Remaining_time > 1 <=> proc'[p].Remaining_time # 0
  <2>1. ran[p].Remaining_time = procs[p].Remaining_time - 1
    BY <1>1, <1>5
  <2>2. procs[p].Remaining_time \in Nat \ {0}
    BY <1>1, <1>2
  <2>3. ran[p].Remaining_time = proc'[p].Remaining_time
    BY <1>1, <1>9
  <2>4. procs[p].Remaining_time > 1 <=> ran[p].Remaining_time # 0
    BY <2>1, <2>2
  <2> QED BY <1>1, <1>9, <2>3, <2>4
<1>12. \A x \in Procs :
         proc'[x].Waiting_time =
           proc[x].Waiting_time + IF x \in Queued THEN TicksWaited(x, p) ELSE 0
  BY <1>2, <1>6, <1>9
<1> QED BY <1>7, <1>10, <1>11, <1>12

\* p runs, after it has been started or resumed at some time; lines are those
\* that the caller passes.
LEMMA RunReports ==
  ASSUME IInv, LevelInv, IInv', Books, Lines, Turn, EndOfPass,
         NEW p, NEW level, NEW quantum, NEW procs, NEW lines \in [Procs -> Seq(States)],
         ReadyToRun(p, level, quantum, procs), KeptTimes(procs, {}, follow),
         RunMultiLevelProcess(p, level, quantum, procs, lines),
         currentProcess \in {p, None},
         \A x \in Procs \ {p} : lines[x] = log[x],
         lines[p] # <<>>, Last(lines[p]) \in {"STARTED", "RESUMED"}, Tells(lines[p], {})
  PROVE  Books' /\ Lines'
<1>1. /\ RanToEnd(p) /\ cpu_waiting_time' = cpu_waiting_time
      /\ \A x \in Procs :
           proc'[x].Waiting_time =
             proc[x].Waiting_time + IF x \in Queued THEN TicksWaited(x, p) ELSE 0
      /\ total_waiting_time' = total_waiting_time
           + IF proc'[p].Remaining_time = 0 THEN proc'[p].Waiting_time ELSE 0
      /\ ups' = IF proc'[p].Remaining_time = 0 THEN ups ELSE Up(ups, p)
      /\ currentProcess' = IF proc'[p].Remaining_time = 0 \/ quantum = 1 THEN None ELSE p
      /\ log' = IF proc'[p].Remaining_time = 0 THEN PrintLine(lines, p, "FINISHED")
                ELSE IF quantum = 1 THEN PrintLine(lines, p, "STOPPED")
                ELSE lines
  BY RunEnds
<1>2. /\ SharedInv /\ SharedTypeOK /\ SharedTypeOK' /\ Ledger /\ phase = "receive"
      /\ ups \in [Procs -> Nat]
  BY DEF IInv, SharedInv, SharedTypeOK, Books, Turn
<1>3. p \in Holders /\ p \in Procs /\ p \notin Finished
  <2>1. p \in Holders /\ p \in Procs
    BY RunRecords
  <2> QED BY <2>1 DEF Holders, Holds, Finished
<1>4. Ledger'
  <2>1. Holders = Queued
    BY DEF IInv, NoneLost
  <2>2. \A x \in Finished : proc'[x].Waiting_time = proc[x].Waiting_time
    BY <1>1, <1>2, <2>1, TimesAreNumbers DEF Finished, Holders, Holds
  <2> QED BY <1>1, <1>2, <1>3, <2>2, RanToEndLedger
<1>5. Executed(p)' = Executed(p) + 1 /\ Executed(p) \in Nat
  <2>1. /\ proc[p].Remaining_time \in Int /\ proc[p].Running_time \in Nat
        /\ proc[p].Remaining_time <= proc[p].Running_time
    BY <1>2, <1>3, TimesAreNumbers DEF Ledger, ExecutedIsNat
  <2>2. /\ proc'[p].Remaining_time = proc[p].Remaining_time - 1
        /\ proc'[p].Running_time = proc[p].Running_time
    BY <1>1, <1>3 DEF RanToEnd
  <2> QED BY <2>1, <2>2 DEF Executed
<1>6. \A x \in Procs \ {p} : /\ Executed(x)' = Executed(x)
                             /\ proc'[x].State = "FINISHED" <=> proc[x].State = "FINISHED"
  <2>1. \A x \in Procs \ {p} : proc'[x].Remaining_time = proc[x].Remaining_time
    BY <1>1, <1>2, TimesAreNumbers DEF RanToEnd
  <2> QED BY <1>1, <2>1 DEF RanToEnd, Executed
<1>7. \A x \in Procs : ~CameToLastLevel(x)' => ~CameToLastLevel(x)
  <2> SUFFICES ASSUME NEW x \in Procs, CameToLastLevel(x) PROVE CameToLastLevel(x)'
    OBVIOUS
  <2>1. proc'[x].Priority = proc[x].Priority /\ proc[x].Priority \in Nat
    BY <1>2, <1>3, RunNumbers DEF ReadyToRun, SharedTypeOK
  <2>2. CASE x = p
    <3>1. PICK e \in Nat : e = Executed(p)
      BY <1>5
    <3>2. PICK d \in Nat : d = e \div q
      BY QuantumAssumption, QuotientGrows
    <3>3. (e + 1) \div q >= d /\ (e + 1) \div q \in Nat
      BY <3>2, QuantumAssumption, QuotientGrows
    <3>4. proc[p].Priority + d >= LastLevel
      BY <2>2, <3>1, <3>2 DEF CameToLastLevel
    <3>5. Executed(p)' \div q = (e + 1) \div q
      BY <1>5, <3>1
    <3> QED BY <2>1, <2>2, <3>3, <3>4, <3>5 DEF CameToLastLevel, LastLevel
  <2>3. CASE x # p
    <3>1. Executed(x)' = Executed(x)
      BY <1>6, <2>3
    <3> QED BY <2>1, <3>1 DEF CameToLastLevel
  <2> QED BY <2>2, <2>3
<1>8. ASSUME NEW x \in Procs, ~CameToLastLevel(x)' PROVE AccountOf(x)'
  <2>1. ~CameToLastLevel(x) /\ AccountOf(x)
    BY <1>7, <1>8 DEF Books
  <2>2. (IF x \in Queued THEN TicksWaited(x, p) ELSE 0)
          = IF x # p /\ x \in Holders THEN 1 ELSE 0
    BY <1>3, <2>1, WaitsOnce
  <2>3. proc'[x].Waiting_time =
          proc[x].Waiting_time + IF x # p /\ x \in Holders THEN 1 ELSE 0
    BY <1>1, <2>2
  <2> QED BY <1>1, <1>2, <1>3, <2>1, <2>3, RanToEndAccount
<1>9. p \in Finished' <=> proc'[p].Remaining_time = 0
  BY <1>1, <1>3 DEF RanToEnd, Finished
<1>10. ups'[p] = Executed(p)' - IF p \in Finished' THEN 1 ELSE 0
  <2>1. ups[p] = Executed(p) - 0
    BY <1>3 DEF Lines, LineOf
  <2>2. CASE proc'[p].Remaining_time = 0
    <3>1. ups'[p] = ups[p]
      BY <1>1, <2>2
    <3> QED BY <1>5, <1>9, <2>1, <2>2, <3>1
  <2>3. CASE proc'[p].Remaining_time # 0
    <3>1. ups'[p] = ups[p] + 1
      BY <1>1, <1>2, <1>3, <2>3 DEF Up
    <3>2. ups'[p] = Executed(p)' - 0
      BY <1>5, <2>1, <3>1
    <3> QED BY <1>9, <2>3, <3>2
  <2> QED BY <2>2, <2>3
<1>11. PICK s \in {"FINISHED", "STOPPED"} :
         s = IF proc'[p].Remaining_time = 0 THEN "FINISHED" ELSE "STOPPED"
  OBVIOUS
<1>12. PICK more : more = PrintLine(lines, p, s)
  OBVIOUS
<1>13. s \in States
  BY DEF States
<1>14. /\ more[p] = Append(lines[p], s)
       /\ \A x \in Procs \ {p} : more[x] = lines[x]
  BY <1>3, <1>12, <1>13, PrintedLine
<1>15. Append(lines[p], s) # <<>> /\ Last(Append(lines[p], s)) = s /\ Tells(Append(lines[p], s), {})
  <2>1. lines[p] \in Seq(States) /\ Follows(Last(lines[p]), s)
    BY <1>3, FollowingLines
  <2> QED BY <1>13, <2>1, TellsOneMore
<1>16. /\ ups'[p] = Executed(p)' - IF p \in Finished' THEN 1 ELSE 0
       /\ Executed(p)' # 0 /\ p # None
  BY <1>3, <1>5, <1>10, ConstantTypes DEF Procs, None
<1>17. LineOf(p)'
  <2>1. CASE proc'[p].Remaining_time = 0 \/ quantum = 1
    <3>1. log' = more /\ currentProcess' = None
      BY <1>1, <1>11, <1>12, <2>1
    <3>2. log'[p] # <<>> /\ Last(log'[p]) = s /\ Tells(log'[p], {}) /\ p # currentProcess'
      BY <1>14, <1>15, <1>16, <3>1
    <3>3. /\ p \in Finished' => Last(log'[p]) = "FINISHED"
          /\ p \notin Finished' => Last(log'[p]) = "STOPPED"
      BY <1>9, <1>11, <3>2
    <3> QED BY <1>16, <3>2, <3>3 DEF LineOf
  <2>2. CASE ~(proc'[p].Remaining_time = 0 \/ quantum = 1)
    <3>1. log' = lines /\ currentProcess' = p /\ p \notin Finished'
      BY <1>1, <1>9, <2>2
    <3> QED BY <1>16, <3>1 DEF LineOf
  <2> QED BY <2>1, <2>2
<1>18. ASSUME NEW x \in Procs \ {p} PROVE LineOf(x)'
  <2>1. log'[x] = log[x]
    BY <1>1, <1>11, <1>12, <1>14
  <2>2. ups'[x] = ups[x]
    BY <1>1, <1>2, <1>3 DEF Up
  <2>3. x # currentProcess' /\ x # currentProcess
    BY <1>1, ConstantTypes DEF Procs, None
  <2> QED BY <1>6, <2>1, <2>2, <2>3, LineKept DEF Lines
<1> QED BY <1>4, <1>8, <1>17, <1>18 DEF Books, Lines

LEMMA ChooseReports ==
  ASSUME IInv, LevelInv, Books, Lines, ChooseNext
  PROVE  Books' /\ Lines'
<1>1. PICK level : level = NextLevel
  OBVIOUS
<1>2. PICK p : p = Head(listOfQueues[level])
  OBVIOUS
<1>3. PICK state \in {"STARTED", "RESUMED"} :
        state = IF proc[p].Remaining_time = proc[p].Running_time THEN "STARTED" ELSE "RESUMED"
  OBVIOUS
<1>4. PICK procs, lines : procs = SetState(proc, p, state) /\ lines = PrintLine(log, p, state)
  OBVIOUS
<1>5. /\ Turn /\ EndOfPass /\ NonEmpty # {} /\ currentProcess = None
      /\ RunMultiLevelProcess(p, level, q, procs, lines)
  BY <1>1, <1>2, <1>3, <1>4 DEF ChooseNext
<1>6. ReadyToRun(p, level, q, procs) /\ lines \in [Procs -> Seq(States)]
  BY <1>1, <1>2, <1>4, <1>5, NextIsReady
<1>7. /\ IInv' /\ p \in Holders /\ p \in Procs
  BY <1>5, <1>6, RunRecords, RunIInv
<1>8. /\ SharedTypeOK /\ state \in States /\ log \in [Procs -> Seq(States)]
      /\ proc \in [Procs -> ProcessRecords]
  BY DEF IInv, SharedInv, SharedTypeOK, States, ProcessRecords
<1>9. KeptTimes(procs, {}, follow)
  <2>1. KeptTimes(proc, {}, follow)
    BY NothingKept
  <2> QED BY <1>4, <1>7, <1>8, <2>1, SetStateKeepsTimes
<1>10. lines[p] = Append(log[p], state) /\ \A x \in Procs \ {p} : lines[x] = log[x]
  <2>1. p \in Procs /\ lines = PrintLine(log, p, state)
    BY <1>4, <1>7
  <2>2. log \in [Procs -> Seq(States)] /\ state \in States
    BY <1>8
  <2> QED BY <2>1, <2>2, PrintedLine
<1>11. /\ log[p] \in Seq(States) /\ Tells(log[p], {})
       /\ \/ log[p] = <<>> /\ state = "STARTED"
          \/ log[p] # <<>> /\ Follows(Last(log[p]), state)
  <2>1. p \notin Finished /\ p # currentProcess
    BY <1>5, <1>7, ConstantTypes DEF Holders, Holds, Finished, Procs, None
  <2>2. Executed(p) = 0 <=> proc[p].Remaining_time = proc[p].Running_time
    BY <1>7, <1>8, TimesAreNumbers DEF Executed
  <2>3. CASE Executed(p) = 0
    BY <1>3, <1>7, <1>8, <2>1, <2>2, <2>3 DEF Lines, LineOf
  <2>4. CASE Executed(p) # 0
    <3>1. log[p] # <<>> /\ Last(log[p]) = "STOPPED" /\ state = "RESUMED"
      BY <1>3, <1>7, <2>1, <2>2, <2>4 DEF Lines, LineOf
    <3>2. Follows("STOPPED", "RESUMED")
      BY FollowingLines
    <3> QED BY <1>7, <1>8, <3>1, <3>2 DEF Lines, LineOf
  <2> QED BY <2>3, <2>4
<1>12. /\ Append(log[p], state) # <<>> /\ Last(Append(log[p], state)) = state
       /\ Tells(Append(log[p], state), {})
  BY <1>8, <1>11, TellsOneMore
<1> QED BY <1>5, <1>6, <1>7, <1>9, <1>10, <1>12, RunReports

LEMMA ContinueReports ==
  ASSUME IInv, LevelInv, Books, Lines, Continue
  PROVE  Books' /\ Lines'
<1>1. PICK p, level, quantum, procs :
        p = currentProcess /\ level = currentLevel /\ quantum = quantamsLeft /\ procs = proc
  OBVIOUS
<1>2. /\ Turn /\ EndOfPass /\ p # None
      /\ RunMultiLevelProcess(p, level, quantum, procs, log)
  BY <1>1 DEF Continue
<1>3. ReadyToRun(p, level, quantum, procs) /\ log \in [Procs -> Seq(States)]
  BY <1>1, <1>2, CurrentIsReady
<1>4. IInv' /\ p \in Holders /\ p \in Procs
  BY <1>2, <1>3, RunRecords, RunIInv
<1>5. KeptTimes(procs, {}, follow)
  BY <1>1, NothingKept
<1>6. log[p] # <<>> /\ Last(log[p]) \in {"STARTED", "RESUMED"} /\ Tells(log[p], {})
  <2>1. p \notin Finished
    BY <1>4 DEF Holders, Holds, Finished
  <2> QED BY <1>1, <1>4, <2>1 DEF Lines, LineOf
<1> QED BY <1>1, <1>2, <1>3, <1>4, <1>5, <1>6, RunReports

LEMMA ReceiveReports ==
  ASSUME IInv, LevelInv, Books, Lines, ReceiveProcess \/ RefuseProcess
  PROVE  Books' /\ Lines'
<1>1. PICK n \in Messages, r \in Procs :
        /\ Receive(n) /\ r = received + 1 /\ proc'[r] = n
        /\ \A p \in Procs \ {r} : proc'[p] = proc[p] /\ SameMemory(p)
        /\ currentProcess' = currentProcess
  <2>1. PICK n \in Messages :
          /\ Receive(n) /\ proc' = [proc EXCEPT ![received + 1] = n]
          /\ currentProcess' = currentProcess
    BY DEF ReceiveProcess, RefuseProcess, Accept, Refuse, levelVars
  <2>2. PICK r : r = received + 1
    OBVIOUS
  <2>3. /\ r \in Procs /\ proc'[r] = n
        /\ \A p \in Procs \ {r} : proc'[p] = proc[p] /\ SameMemory(p)
    BY <2>1, <2>2, ReceivedRecords DEF IInv
  <2> QED BY <2>1, <2>2, <2>3
<1>2. SharedInv /\ SharedTypeOK /\ Ledger /\ SharedTypeOK'
  BY ReceiveIInv, RefuseIInv DEF IInv, SharedInv, Books
<1>3. \A p \in Procs \ {r} : SameTimes(p) /\ SameMemory(p)
  BY <1>1 DEF SameTimes
<1>4. Ledger' /\ \A p \in Procs : p = r \/ AccountOf(p) => AccountOf(p)'
  BY <1>1, <1>2, <1>3, ReceiveAccounts
<1>5. \A p \in Procs \ {r} : ~CameToLastLevel(p)' => ~CameToLastLevel(p)
  BY <1>1 DEF CameToLastLevel, Executed
<1>6. Books'
  BY <1>4, <1>5 DEF Books
<1>7. log' = log /\ ups' = ups
  BY <1>1 DEF Receive, files
<1>8. LineOf(r)'
  <2>1. r > received
    BY <1>1, <1>2 DEF SharedTypeOK
  <2>2. r \notin Finished /\ proc[r].Remaining_time = proc[r].Running_time
    BY <1>2, <2>1 DEF SharedInv, RecordsFilled, Finished, Ledger, ExecutedIsNat
  <2>3. /\ n.State = "STOPPED" /\ n.Remaining_time = n.Running_time /\ n.Running_time \in Nat
    BY MessageTypes, RunTimesAssumption DEF IInv, SharedInv
  <2>4. Executed(r) = 0 /\ Executed(r)' = 0
    BY <1>1, <1>2, <2>2, <2>3, TimesAreNumbers DEF Executed
  <2>5. r \notin Finished'
    BY <1>1, <2>3 DEF Finished
  <2>6. LineOf(r) /\ r # currentProcess
    BY <2>4 DEF Lines, LineOf
  <2>7. ups[r] = 0 - 0
    BY <2>2, <2>4, <2>6 DEF LineOf
  <2>8. ups'[r] = Executed(r)' - 0
    BY <1>7, <2>4, <2>7
  <2>9. ups'[r] = Executed(r)' - IF r \in Finished' THEN 1 ELSE 0
    BY <2>5, <2>8
  <2> QED BY <1>1, <1>7, <2>2, <2>4, <2>5, <2>6, <2>9 DEF LineOf
<1>9. ASSUME NEW p \in Procs, p # r PROVE LineOf(p)'
  <2>1. proc'[p] = proc[p]
    BY <1>1, <1>9
  <2> QED BY <1>1, <1>7, <2>1, LineKept DEF Lines, Executed
<1> QED BY <1>6, <1>8, <1>9 DEF Lines

\* A step that changes nothing that is reported, but for the tick.
LEMMA NothingReported ==
  ASSUME Books, Lines, Ledger', \A p \in Procs : AccountOf(p) => AccountOf(p)',
         UNCHANGED <<proc, log, ups, currentProcess>>
  PROVE  Books' /\ Lines'
<1>1. \A p \in Procs : CameToLastLevel(p)' <=> CameToLastLevel(p)
  BY DEF CameToLastLevel, Executed
<1> QED BY <1>1 DEF Books, Lines, LineOf, Finished, Executed

LEMMA NextReports == IInv /\ LevelInv /\ Books /\ Lines /\ [Next]_vars => Books' /\ Lines'
<1> SUFFICES ASSUME IInv, LevelInv, Books, Lines, [Next]_vars PROVE Books' /\ Lines'
  OBVIOUS
<1>1. SharedInv /\ Ledger
  BY DEF IInv, Books
<1>2. CASE Tick /\ UNCHANGED levelVars
  <2>1. Ledger' /\ \A p \in Procs : AccountOf(p) => AccountOf(p)'
    BY <1>1, <1>2, TickAccounts
  <2>2. UNCHANGED <<proc, log, ups, currentProcess>>
    BY <1>2 DEF Tick, files, levelVars
  <2> QED BY <2>1, <2>2, NothingReported
<1>3. CASE ReceiveProcess \/ RefuseProcess
  BY <1>3, ReceiveReports
<1>4. CASE Idle
  <2>1. /\ phase = "receive" /\ EndOfPass /\ cpu_waiting_time' = cpu_waiting_time + 1
        /\ UNCHANGED <<proc, total_waiting_time, log, ups, currentProcess>>
    BY <1>4 DEF Idle, Turn, files, levelVars
  <2>2. Holders = {}
    BY <1>4, EmptyQueue DEF Idle, NonEmpty, IInv, NoneLost, Queued
  <2>3. SharedTypeOK'
    BY <1>4, IdleIInv DEF IInv, SharedInv
  <2>4. Ledger' /\ \A p \in Procs : AccountOf(p) => AccountOf(p)'
    BY <1>1, <2>1, <2>2, <2>3, IdleAccounts
  <2> QED BY <2>1, <2>4, NothingReported
<1>5. CASE ChooseNext
  BY <1>5, ChooseReports
<1>6. CASE Continue
  BY <1>6, ContinueReports
<1>7. CASE UNCHANGED vars
  <2>1. UNCHANGED sharedVars /\ UNCHANGED <<proc, log, ups, currentProcess>>
    BY <1>7 DEF vars, sharedVars, files, levelVars
  <2>2. Ledger' /\ \A p \in Procs : AccountOf(p) => AccountOf(p)'
    BY <1>1, <2>1, AccountsStutter
  <2> QED BY <2>1, <2>2, NothingReported
<1> QED BY <1>2, <1>3, <1>4, <1>5, <1>6, <1>7 DEF Next, Algorithm

LEMMA LinesTell == Lines => LogTellsLife /\ UpsButLast
<1> SUFFICES ASSUME Lines PROVE LogTellsLife /\ UpsButLast
  OBVIOUS
<1>1. ASSUME NEW p \in Procs
      PROVE  /\ log[p] # <<>> => log[p][1] = "STARTED"
             /\ \A i \in 1 .. Len(log[p]) - 1 : Follows(log[p][i], log[p][i + 1])
             /\ p \in Finished <=> (log[p] # <<>> /\ Last(log[p]) = "FINISHED")
             /\ ups[p] = Executed(p) - IF p \in Finished THEN 1 ELSE 0
  BY DEF Lines, LineOf, Tells
<1> QED BY <1>1 DEF LogTellsLife, UpsButLast

\* Of the output files only the waiting times of the processes that came to the
\* last level, and with them the waiting time in the turnaround, can be wrong:
\* the charges of all the others, the busy time, the total of what was printed
\* and the order of the lines are right, and up() is called for every tick a
\* process runs but its last.
THEOREM ReportsAreTrue == Spec => []Reports
<1>1. Init => IInv /\ LevelInv /\ Books /\ Lines
  BY InitIInv, InitLevels, InitAccounts, InitLines DEF Init, Books
<1>2. (IInv /\ LevelInv /\ Books /\ Lines) /\ [Next]_vars => (Books /\ Lines)'
  BY NextReports
<1>3. IInv /\ Books /\ Lines => Reports
  <2> SUFFICES ASSUME IInv, Books, Lines PROVE Reports
    OBVIOUS
  <2>1. SharedTypeOK /\ Ledger /\ WaitingTotal
    BY DEF IInv, SharedInv, Books, Ledger
  <2>2. Utilization
    BY <2>1, LedgerIsUtilization
  <2> QED BY <2>1, <2>2, LinesTell DEF Books, AccountOf, Reports
<1> QED BY <1>1, <1>2, <1>3, InvariantHolds, LevelsHold, PTL DEF Spec
=============================================================================
