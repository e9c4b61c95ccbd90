-------------------------- MODULE RoundRobinLinked --------------------------
(***************************************************************************)
(* Round robin over the nodes of its circular list (Insert_Circular_Queue  *)
(* of headers_m.h, remove_From_Circular of headers_amin.h).  A node is     *)
(* named by its process; the domain of Next is the set of the nodes that   *)
(* were allocated and are not freed, so that a pointer outside it dangles. *)
(***************************************************************************)
EXTENDS RoundRobin

VARIABLE ring  \* front, rear, and what each node's Next points to

linkedVars == <<vars, ring>>

NoRing == [front |-> None, rear |-> None, Next |-> [n \in {} |-> None]]
Live(r) == DOMAIN r.Next

LinkedInit == Init /\ ring = NoRing

-----------------------------------------------------------------------------
\* The pointers after malloc of node n: rear's goes to n, and n's to front.
InsertCircularQueue(r, n) ==
  LET first == IF r.front = None THEN n ELSE r.front
  IN  [front |-> first, rear |-> n,
       Next |-> [m \in Live(r) \cup {n} |->
                   IF m = n THEN first ELSE IF m = r.rear THEN n ELSE r.Next[m]]]

\* free
FreeNode(next, n) == Restrict(next, DOMAIN next \ {n})

\* The nodes that the search for a node meets, one after the other.
Met(r) ==
  LET node[k \in 0 .. Cardinality(Live(r))] == IF k = 0 THEN r.front ELSE r.Next[node[k - 1]]
  IN  node

RemoveFront(r) ==
  LET second == r.Next[r.front]
  IN  [front |-> second, rear |-> r.rear,
       Next |-> FreeNode([r.Next EXCEPT ![r.rear] = second], r.front)]

\* Mutant of RemoveBehind: rear stays where it is.
RemoveBehindKeepRear(r, k) ==
  LET node == Met(r)[k]
      prev == Met(r)[k - 1]
  IN  [r EXCEPT !.Next = FreeNode([r.Next EXCEPT ![prev] = r.Next[node]], node)]

\* The k-th node after front.
RemoveBehind(r, k) ==
  LET node == Met(r)[k]
      prev == Met(r)[k - 1]
  IN  [front |-> r.front, rear |-> IF node = r.rear THEN prev ELSE r.rear,
       Next |-> FreeNode([r.Next EXCEPT ![prev] = r.Next[node]], node)]

RemoveFromCircular(r, id) ==
  LET found == {k \in 1 .. Cardinality(Live(r)) - 1 : Met(r)[k] = id}
  IN  CASE r.front = None                          -> r
        [] r.front = id /\ r.front = r.rear        -> NoRing
        [] r.front = id /\ r.front # r.rear        -> RemoveFront(r)
        [] r.front \notin {None, id} /\ found = {}  -> r
        [] OTHER                                   -> RemoveBehind(r, Min(found))

-----------------------------------------------------------------------------
ReceiveAndLink == ReceiveProcess /\ ring' = InsertCircularQueue(ring, received + 1)

FinishAndUnlink ==
  /\ FinishAndSwitch \/ FinishLast
  /\ ring' = RemoveFromCircular(ring, curr_Proc)

\* Nothing else changes a pointer of the list.
Traverse ==
  /\ \/ Tick /\ UNCHANGED rrVars
     \/ RefuseProcess
     \/ KeepRunning \/ KeepAlone \/ Switch \/ Idle
  /\ UNCHANGED ring

LinkedNext == ReceiveAndLink \/ FinishAndUnlink \/ Traverse

LinkedSpec == LinkedInit /\ [][LinkedNext]_linkedVars
FairLinkedSpec == LinkedSpec /\ WF_linkedVars(LinkedNext)

-----------------------------------------------------------------------------
\* The list goes round the queue: front and rear are its ends, every node but
\* those of the queue has been freed, none of those has been, and rear points
\* back to front.
RingIsQueue ==
  /\ IF Empty
     THEN ring.front = None /\ ring.rear = None
     ELSE ring.front = Head(circular_Queue_RR) /\ ring.rear = Last(circular_Queue_RR)
  /\ ring.Next = [p \in Range(circular_Queue_RR) |-> Successor(p)]

\* No process is lost, no node of the list is leaked and no pointer dangles:
\* neither the list's nor curr_Proc.
NothingLostOnRing == NothingLost /\ RingIsQueue
=============================================================================
