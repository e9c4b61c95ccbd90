-------------------------- MODULE SchedulerProofs --------------------------
(***************************************************************************)
(* What the four algorithms share: the memory of the processes and the     *)
(* count of those that have finished, whatever a step does to the ready    *)
(* queue, and the accounts and lines that are reported of them.  The lemmas *)
(* look at a step through what it leaves alone in the records (SameMemory, *)
(* SameTimes) and through the process that it runs, ends or receives.      *)
(***************************************************************************)
EXTENDS Scheduler, MainMemoryProofs, SequenceTheorems, FiniteSetTheorems

-----------------------------------------------------------------------------
\* The inductive invariant of the shared part.

ProcessRecords ==
  [Arrival_time : Int, Running_time : Nat, Remaining_time : Int,
   Waiting_time : Nat, TA : Int, Priority : Nat,
   no_of_blocks : BlockCounts \cup {0},
   memindex : Blocks \cup {NoPlace}, State : States]

\* A record is filled in when its process is received, and its size is one
\* that was asked for.
RecordsFilled ==
  \A p \in Procs :
    /\ p > received => proc[p].memindex = NoPlace /\ proc[p].State # "FINISHED"
    /\ proc[p].memindex # NoPlace => proc[p].no_of_blocks \in BlockCounts

\* The processes the main loop may count: refused, or finished.
Done == {p \in 1 .. received : ~Holds(p)}

CountIsOfDone == finished_process_count <= Cardinality(Done)

SharedInv ==
  SharedTypeOK /\ RecordsFilled /\ MemoryIsOwned /\ CountIsOfDone /\ StopsOnlyWhenDone

\* No process runs below zero, and whoever holds memory has work left.
WorkLeft ==
  /\ \A p \in Procs : proc[p].Remaining_time >= 0
  /\ \A p \in Holders : proc[p].Remaining_time > 0

\* A step leaves alone what the memory of p depends on.
SameMemory(p) ==
  /\ proc'[p].memindex = proc[p].memindex
  /\ proc'[p].no_of_blocks = proc[p].no_of_blocks
  /\ proc'[p].State = "FINISHED" <=> proc[p].State = "FINISHED"

-----------------------------------------------------------------------------
LEMMA ConstantTypes ==
  /\ Count_OF_Processes \in Nat \ {0}
  /\ NoPlace \notin Blocks
  /\ BlockCounts \subseteq Nat \ {0}
BY CountAssumption, MemBlocksAssumption, MemSizesAssumption DEF NoPlace, Blocks

\* A set of processes that have been received, and the case that it has all of
\* the file.
LEMMA SetsOfReceived ==
  ASSUME NEW r \in 0 .. Count_OF_Processes, NEW D, D \subseteq 1 .. r
  PROVE  /\ D \subseteq Procs
         /\ IsFiniteSet(D)
         /\ Cardinality(D) \in 0 .. r
         /\ Cardinality(D) >= Count_OF_Processes => r = Count_OF_Processes /\ D = Procs
<1>1. IsFiniteSet(1 .. r) /\ Cardinality(1 .. r) = r
  BY FS_Interval, ConstantTypes
<1>2. IsFiniteSet(D) /\ Cardinality(D) <= r /\ (Cardinality(D) = r => D = 1 .. r)
  BY <1>1, FS_Subset
<1>3. Cardinality(D) \in Nat
  BY <1>2, FS_CardinalityType
<1> QED BY <1>2, <1>3, ConstantTypes DEF Procs

LEMMA StopsAtEndOfPass ==
  ASSUME SharedTypeOK', RecordsFilled', CountIsOfDone', EndOfPass
  PROVE  StopsOnlyWhenDone'
<1> SUFFICES ASSUME phase' = "stopped"
             PROVE  received' = Count_OF_Processes /\ Holders' = {}
  BY DEF StopsOnlyWhenDone
<1>1. finished_process_count' = Count_OF_Processes
  BY DEF EndOfPass
<1>2. received' \in 0 .. Count_OF_Processes
  BY DEF SharedTypeOK
<1>3. Done' \subseteq 1 .. received'
  BY DEF Done
<1>4. Cardinality(Done') >= Count_OF_Processes
  BY <1>1, <1>2, <1>3, SetsOfReceived, ConstantTypes DEF CountIsOfDone
<1>5. received' = Count_OF_Processes /\ Done' = Procs
  BY <1>2, <1>3, <1>4, SetsOfReceived
<1> QED BY <1>5 DEF Holders, Done

-----------------------------------------------------------------------------
\* The three things that a step does to the memory and the count.

LEMMA SameMemoryOwned ==
  ASSUME NEW p \in Procs, SameMemory(p)
  PROVE  Holds(p)' = Holds(p) /\ Owned(p)' = Owned(p)
BY DEF SameMemory, Holds, Owned

\* Nobody is received and nobody finishes.
LEMMA MemoryUnchanged ==
  ASSUME SharedInv, received' = received, mem' = mem, \A p \in Procs : SameMemory(p)
  PROVE  RecordsFilled' /\ MemoryIsOwned' /\ Holders' = Holders /\ Done' = Done
<1>1. \A p \in Procs : Holds(p)' = Holds(p) /\ Owned(p)' = Owned(p)
  BY SameMemoryOwned
<1>2. RecordsFilled'
  BY DEF SharedInv, RecordsFilled, SameMemory
<1>3. MemoryIsOwned'
  BY <1>1 DEF SharedInv, MemoryIsOwned
<1>4. Holders' = Holders
  BY <1>1 DEF Holders
<1>5. Done' = Done
  <2>1. 1 .. received \subseteq Procs
    BY SetsOfReceived DEF SharedInv, SharedTypeOK
  <2> QED BY <1>1, <2>1 DEF Done
<1> QED BY <1>2, <1>3, <1>4, <1>5

\* r finishes and its memory is freed.
LEMMA MemoryFreed ==
  ASSUME SharedInv, received' = received,
         NEW r \in Holders,
         mem' = FreeMemoryOf(proc[r]),
         proc'[r].memindex = proc[r].memindex,
         proc'[r].no_of_blocks = proc[r].no_of_blocks,
         proc'[r].State = "FINISHED",
         \A p \in Procs \ {r} : SameMemory(p)
  PROVE  /\ RecordsFilled' /\ MemoryIsOwned'
         /\ Holders' = Holders \ {r}
         /\ Done' = Done \cup {r}
         /\ Cardinality(Done') = Cardinality(Done) + 1
<1>1. r \in Procs /\ Holds(r)
  BY DEF Holders
<1>2. ~Holds(r)' /\ Owned(r)' = {}
  BY DEF Holds, Owned
<1>3. \A p \in Procs \ {r} : Holds(p)' = Holds(p) /\ Owned(p)' = Owned(p)
  BY SameMemoryOwned
<1>4. r \in 1 .. received /\ 1 .. received \subseteq Procs
  <2>1. received \in 0 .. Count_OF_Processes
    BY DEF SharedInv, SharedTypeOK
  <2>2. ~(r > received)
    BY <1>1 DEF SharedInv, RecordsFilled, Holds
  <2> QED BY <1>1, <2>1, <2>2, ConstantTypes DEF Procs
<1>5. RecordsFilled'
  <2>1. ASSUME NEW p \in Procs
        PROVE  /\ p > received' => proc'[p].memindex = NoPlace /\ proc'[p].State # "FINISHED"
               /\ proc'[p].memindex # NoPlace => proc'[p].no_of_blocks \in BlockCounts
    <3>1. CASE p = r
      BY <1>4, <3>1, ConstantTypes DEF SharedInv, SharedTypeOK, RecordsFilled
    <3>2. CASE p # r
      BY <2>1, <3>2 DEF SharedInv, RecordsFilled, SameMemory
    <3> QED BY <3>1, <3>2
  <2> QED BY <2>1 DEF RecordsFilled
<1>6. MemoryIsOwned'
  <2>1. mem' = mem \ Owned(r)
    BY <1>1 DEF FreeMemoryOf, MemDealloc, Owned
  <2>2. \A p \in Procs \ {r} : Owned(p) \cap Owned(r) = {}
    BY <1>1 DEF SharedInv, MemoryIsOwned
  <2>3. mem' = UNION {Owned(p) : p \in Procs \ {r}}
    BY <1>1, <2>1, <2>2 DEF SharedInv, MemoryIsOwned
  <2>4. mem' = UNION {Owned(p)' : p \in Procs}
    BY <1>1, <1>2, <1>3, <2>3
  <2>5. \A p, x \in Procs : p # x => Owned(p)' \cap Owned(x)' = {}
    BY <1>2, <1>3 DEF SharedInv, MemoryIsOwned
  <2> QED BY <2>4, <2>5 DEF MemoryIsOwned
<1>7. Holders' = Holders \ {r}
  BY <1>2, <1>3 DEF Holders
<1>8. Done' = Done \cup {r} /\ r \notin Done
  BY <1>1, <1>2, <1>3, <1>4 DEF Done
<1>9. Cardinality(Done') = Cardinality(Done) + 1
  <2>1. IsFiniteSet(Done)
    BY SetsOfReceived DEF SharedInv, SharedTypeOK, Done
  <2> QED BY <1>8, <2>1, FS_AddElement
<1> QED BY <1>5, <1>6, <1>7, <1>8, <1>9

\* A message has the types of a record, and its place is that of mem_alloc.
LEMMA MessageTypes ==
  ASSUME SharedTypeOK, NEW n \in Messages
  PROVE  /\ n \in ProcessRecords
         /\ n.no_of_blocks \in BlockCounts
         /\ n.memindex = MemAlloc(mem, n.no_of_blocks)
         /\ n.State = "STOPPED"
         /\ n.Running_time \in RunTimes
         /\ n.Remaining_time = n.Running_time
         /\ n.Waiting_time = 0
         /\ n.Arrival_time \in Int
<1>1. PICK lag \in Lags, run \in RunTimes, priority \in Priorities, b \in BlockCounts :
        n = Message(lag, run, priority, b)
  BY DEF Messages
<1>2. MemAlloc(mem, b) \in Blocks \cup {NoPlace}
  BY MemAllocGrantsFreeBlocks
<1>3. follow - lag \in Int
  BY TimesAssumption DEF SharedTypeOK
<1>4. run \in Nat /\ priority \in Nat
  BY RunTimesAssumption, PrioritiesAssumption
<1>5. n \in ProcessRecords
  BY <1>1, <1>2, <1>3, <1>4 DEF Message, ProcessRecords, States
<1> QED BY <1>1, <1>3, <1>5 DEF Message

\* A process is received: with memory it becomes a holder, without it is done.
LEMMA MemoryGranted ==
  ASSUME SharedInv, NEW n \in Messages, Receive(n),
         NEW r, r = received + 1,
         proc'[r] = n,
         \A p \in Procs \ {r} : SameMemory(p)
  PROVE  /\ RecordsFilled' /\ MemoryIsOwned' /\ mem' \subseteq Blocks
         /\ r \in Procs /\ r \notin Holders
         /\ n.memindex # NoPlace => Holders' = Holders \cup {r} /\ Done' = Done
         /\ n.memindex = NoPlace =>
              /\ Holders' = Holders
              /\ Cardinality(Done') = Cardinality(Done) + 1
<1> DEFINE b == n.no_of_blocks
<1>1. /\ r \in Procs /\ received \in Nat /\ received' = r /\ r \in Nat
      /\ received' \in 0 .. Count_OF_Processes
      /\ mem' = Reserve(mem, n.memindex, b)
  BY ConstantTypes DEF SharedInv, SharedTypeOK, Receive, Procs
<1>2. /\ b \in BlockCounts /\ n.memindex = MemAlloc(mem, b) /\ n.State = "STOPPED"
  BY MessageTypes DEF SharedInv
<1>3. ~Holds(r) /\ Owned(r) = {} /\ proc[r].State # "FINISHED"
  BY <1>1 DEF SharedInv, RecordsFilled, Holds, Owned
<1>4. Holds(r)' <=> n.memindex # NoPlace
  BY <1>2 DEF Holds
<1>5. Owned(r)' = IF n.memindex = NoPlace THEN {} ELSE Region(n.memindex, b)
  BY <1>4 DEF Owned
<1>6. \A p \in Procs \ {r} : Holds(p)' = Holds(p) /\ Owned(p)' = Owned(p)
  BY SameMemoryOwned
<1>7. RecordsFilled'
  <2>1. ASSUME NEW p \in Procs
        PROVE  /\ p > received' => proc'[p].memindex = NoPlace /\ proc'[p].State # "FINISHED"
               /\ proc'[p].memindex # NoPlace => proc'[p].no_of_blocks \in BlockCounts
    <3>1. CASE p = r
      BY <1>1, <1>2, <3>1
    <3>2. CASE p # r
      BY <1>1, <2>1, <3>2 DEF SharedInv, RecordsFilled, SameMemory, Procs
    <3> QED BY <3>1, <3>2
  <2> QED BY <2>1 DEF RecordsFilled
<1>8. mem' = mem \cup Owned(r)'
  BY <1>1, <1>5 DEF Reserve
<1>9. Owned(r)' \subseteq Blocks /\ Owned(r)' \cap mem = {}
  BY <1>2, <1>5, MemAllocGrantsFreeBlocks
<1>10. MemoryIsOwned'
  <2>1. mem' = UNION {Owned(p)' : p \in Procs}
    BY <1>1, <1>3, <1>6, <1>8 DEF SharedInv, MemoryIsOwned
  <2>2. \A p \in Procs : Owned(p) \subseteq mem
    BY DEF SharedInv, MemoryIsOwned
  <2>3. \A p, x \in Procs : p # x => Owned(p)' \cap Owned(x)' = {}
    BY <1>1, <1>6, <1>9, <2>2 DEF SharedInv, MemoryIsOwned
  <2> QED BY <2>1, <2>3 DEF MemoryIsOwned
<1>11. mem' \subseteq Blocks
  BY <1>8, <1>9 DEF SharedInv, SharedTypeOK
<1>12. 1 .. r = (1 .. received) \cup {r} /\ r \notin 1 .. received /\ 1 .. received \subseteq Procs
  BY <1>1, ConstantTypes DEF Procs
<1>13. CASE n.memindex # NoPlace
  <2>1. Holders' = Holders \cup {r} /\ r \notin Holders
    BY <1>1, <1>3, <1>4, <1>6, <1>13 DEF Holders
  <2>2. Done' = Done
    BY <1>1, <1>4, <1>6, <1>12, <1>13 DEF Done
  <2> QED BY <1>1, <1>7, <1>10, <1>11, <1>13, <2>1, <2>2
<1>14. CASE n.memindex = NoPlace
  <2>1. Holders' = Holders /\ r \notin Holders
    BY <1>1, <1>3, <1>4, <1>6, <1>14 DEF Holders
  <2>2. Done' = Done \cup {r} /\ r \notin Done
    BY <1>1, <1>4, <1>6, <1>12, <1>14 DEF Done
  <2>3. IsFiniteSet(Done)
    BY SetsOfReceived DEF SharedInv, SharedTypeOK, Done
  <2>4. Cardinality(Done') = Cardinality(Done) + 1
    BY <2>2, <2>3, FS_AddElement
  <2> QED BY <1>1, <1>7, <1>10, <1>11, <1>14, <2>1, <2>4
<1> QED BY <1>13, <1>14

-----------------------------------------------------------------------------
\* The ready queues.

LEMMA RangeOfQueue ==
  ASSUME NEW s \in Seq(Procs)
  PROVE  /\ Range(s) \subseteq Procs
         /\ \A p : p \in Range(s) <=> \E i \in 1 .. Len(s) : s[i] = p
         /\ s = <<>> <=> Len(s) = 0
         /\ s = <<>> <=> Range(s) = {}
<1>1. /\ Len(s) \in Nat /\ DOMAIN s = 1 .. Len(s)
      /\ \A i \in 1 .. Len(s) : s[i] \in Procs
  BY LenProperties, ElementOfSeq
<1>2. s = <<>> <=> Len(s) = 0
  BY EmptySeq
<1>3. \A p : p \in Range(s) <=> \E i \in 1 .. Len(s) : s[i] = p
  BY <1>1 DEF Range
<1>4. Range(s) \subseteq Procs
  BY <1>1, <1>3
<1>5. Len(s) # 0 => s[1] \in Range(s)
  BY <1>1, <1>3
<1>6. Len(s) = 0 => Range(s) = {}
  BY <1>3
<1> QED BY <1>2, <1>3, <1>4, <1>5, <1>6

LEMMA EmptyQueue == <<>> \in Seq(Procs) /\ Range(<<>>) = {} /\ IsInjective(<<>>)
<1>1. <<>> \in Seq(Procs) /\ Len(<<>>) = 0
  BY EmptySeq
<1>2. DOMAIN <<>> = {}
  BY <1>1, LenProperties
<1> QED BY <1>1, <1>2 DEF Range, IsInjective

LEMMA InsertedInQueue ==
  ASSUME NEW s \in Seq(Procs), NEW e \in Procs, NEW i \in 1 .. Len(s) + 1
  PROVE  /\ InsertAt(s, i, e) \in Seq(Procs)
         /\ Len(InsertAt(s, i, e)) = Len(s) + 1
         /\ \A j \in 1 .. Len(s) + 1 :
              InsertAt(s, i, e)[j] = IF j < i THEN s[j] ELSE IF j = i THEN e ELSE s[j - 1]
         /\ Range(InsertAt(s, i, e)) = Range(s) \cup {e}
         /\ IsInjective(s) /\ e \notin Range(s) => IsInjective(InsertAt(s, i, e))
<1> DEFINE a == SubSeq(s, 1, i - 1)
           b == SubSeq(s, i, Len(s))
           t == InsertAt(s, i, e)
<1>0. Len(s) \in Nat /\ i \in Int
  BY LenProperties
<1>1. /\ a \in Seq(Procs) /\ Len(a) = i - 1
      /\ \A j \in 1 .. i - 1 : a[j] = s[j]
  BY SubSeqProperties
<1>2. /\ b \in Seq(Procs) /\ Len(b) = Len(s) + 1 - i
      /\ \A j \in 1 .. Len(s) + 1 - i : b[j] = s[i + j - 1]
  BY SubSeqProperties
<1>3. <<e>> \in Seq(Procs) /\ Len(<<e>>) = 1 /\ <<e>>[1] = e
  OBVIOUS
<1>4. /\ t \in Seq(Procs) /\ Len(t) = Len(s) + 1
      /\ \A j \in 1 .. Len(s) + 1 :
           t[j] = IF j < i THEN s[j] ELSE IF j = i THEN e ELSE s[j - 1]
  <2> DEFINE c == a \o <<e>>
  <2> HIDE DEF a, b
  <2>1. /\ c \in Seq(Procs) /\ Len(c) = i
        /\ \A j \in 1 .. i : c[j] = IF j <= i - 1 THEN a[j] ELSE <<e>>[j - (i - 1)]
    BY <1>1, <1>3, ConcatProperties
  <2> HIDE DEF c
  <2>2. /\ c \o b \in Seq(Procs) /\ Len(c \o b) = Len(s) + 1
        /\ \A j \in 1 .. Len(s) + 1 : (c \o b)[j] = IF j <= i THEN c[j] ELSE b[j - i]
    <3>1. Len(c) = i /\ Len(c) + Len(b) = Len(s) + 1
      BY <1>0, <1>2, <2>1
    <3>2. /\ c \o b \in Seq(Procs) /\ Len(c \o b) = Len(c) + Len(b)
          /\ \A j \in 1 .. Len(c) + Len(b) :
               (c \o b)[j] = IF j <= Len(c) THEN c[j] ELSE b[j - Len(c)]
      BY <1>2, <2>1, ConcatProperties
    <3> QED BY <3>1, <3>2
  <2>3. t = c \o b
    BY DEF InsertAt, a, b, c
  <2>4. ASSUME NEW j \in 1 .. Len(s) + 1
        PROVE  (c \o b)[j] = IF j < i THEN s[j] ELSE IF j = i THEN e ELSE s[j - 1]
    <3>1. CASE j < i
      BY <1>1, <2>1, <2>2, <3>1
    <3>2. CASE j = i
      BY <1>1, <1>3, <2>1, <2>2, <3>2
    <3>3. CASE j > i
      <4>1. j - i \in 1 .. Len(s) + 1 - i /\ i + (j - i) - 1 = j - 1 /\ ~(j <= i) /\ ~(j < i) /\ j # i
        BY <3>3, LenProperties
      <4>2. b[j - i] = s[i + (j - i) - 1]
        BY <1>2, <4>1
      <4>3. (c \o b)[j] = b[j - i]
        BY <2>2, <4>1
      <4> QED BY <3>3, <4>1, <4>2, <4>3
    <3>4. j < i \/ j = i \/ j > i
      BY <1>0
    <3> QED BY <3>1, <3>2, <3>3, <3>4, Zenon
  <2> QED BY <2>2, <2>3, <2>4
<1> HIDE DEF t
<1>5. Range(t) = Range(s) \cup {e}
  <2>1. ASSUME NEW p \in Range(t) PROVE p \in Range(s) \cup {e}
    <3>1. PICK j \in 1 .. Len(s) + 1 : t[j] = p
      BY <1>4, RangeOfQueue
    <3>2. j < i => j \in 1 .. Len(s)
      OBVIOUS
    <3>3. j > i => j - 1 \in 1 .. Len(s)
      OBVIOUS
    <3> QED BY <1>4, <3>1, <3>2, <3>3, RangeOfQueue
  <2>2. ASSUME NEW p \in Range(s) PROVE p \in Range(t)
    <3>1. PICK j \in 1 .. Len(s) : s[j] = p
      BY RangeOfQueue
    <3>2. t[IF j < i THEN j ELSE j + 1] = p
      BY <1>4, <3>1
    <3>3. (IF j < i THEN j ELSE j + 1) \in 1 .. Len(t)
      BY <1>4
    <3> QED BY <1>4, <3>2, <3>3, RangeOfQueue
  <2>3. e \in Range(t)
    BY <1>4, RangeOfQueue
  <2> QED BY <2>1, <2>2, <2>3
<1>6. ASSUME IsInjective(s), e \notin Range(s) PROVE IsInjective(t)
  <2>1. \A j \in 1 .. Len(s) : s[j] # e
    BY <1>6, RangeOfQueue
  <2>2. \A j, k \in 1 .. Len(s) : s[j] = s[k] => j = k
    BY <1>6 DEF IsInjective
  <2>3. ASSUME NEW j \in 1 .. Len(s) + 1, NEW k \in 1 .. Len(s) + 1, t[j] = t[k]
        PROVE  j = k
    <3>1. t[j] = IF j < i THEN s[j] ELSE IF j = i THEN e ELSE s[j - 1]
      BY <1>4
    <3>2. t[k] = IF k < i THEN s[k] ELSE IF k = i THEN e ELSE s[k - 1]
      BY <1>4
    <3> DEFINE old(x) == IF x < i THEN x ELSE x - 1
    <3>3. \A x \in 1 .. Len(s) + 1 : x # i => old(x) \in 1 .. Len(s)
      BY <1>0
    <3>4. j # i => t[j] = s[old(j)] /\ t[j] # e
      BY <2>1, <3>1, <3>3
    <3>5. k # i => t[k] = s[old(k)] /\ t[k] # e
      BY <2>1, <3>2, <3>3
    <3>6. j = i => t[j] = e
      BY <3>1
    <3>7. k = i => t[k] = e
      BY <3>2
    <3>8. CASE j # i /\ k # i
      <4>1. old(j) = old(k)
        BY <2>2, <2>3, <3>3, <3>4, <3>5, <3>8
      <4> QED BY <1>0, <3>8, <4>1
    <3> QED BY <2>3, <3>4, <3>5, <3>6, <3>7, <3>8
  <2> QED BY <1>4, <2>3 DEF IsInjective
<1> QED BY <1>4, <1>5, <1>6 DEF t

LEMMA PoppedQueue ==
  ASSUME NEW s \in Seq(Procs), s # <<>>
  PROVE  /\ Head(s) \in Range(s)
         /\ Tail(s) \in Seq(Procs)
         /\ Len(Tail(s)) = Len(s) - 1
         /\ \A i \in 1 .. Len(Tail(s)) : Tail(s)[i] = s[i + 1]
         /\ Range(s) = Range(Tail(s)) \cup {Head(s)}
         /\ IsInjective(s) => IsInjective(Tail(s)) /\ Head(s) \notin Range(Tail(s))
<1>1. /\ Tail(s) \in Seq(Procs) /\ Len(Tail(s)) = Len(s) - 1 /\ Len(s) >= 1
      /\ \A i \in 1 .. Len(Tail(s)) : Tail(s)[i] = s[i + 1]
      /\ Head(s) = s[1]
  BY HeadTailProperties, RangeOfQueue
<1>2. Head(s) \in Range(s)
  BY <1>1, RangeOfQueue
<1>3. Range(s) = Range(Tail(s)) \cup {Head(s)}
  <2>1. ASSUME NEW p \in Range(s) PROVE p \in Range(Tail(s)) \cup {Head(s)}
    <3>1. PICK i \in 1 .. Len(s) : s[i] = p
      BY RangeOfQueue
    <3>2. i # 1 => i - 1 \in 1 .. Len(Tail(s)) /\ Tail(s)[i - 1] = p
      BY <1>1, <3>1
    <3> QED BY <1>1, <3>1, <3>2, RangeOfQueue
  <2>2. Range(Tail(s)) \subseteq Range(s)
    <3>1. ASSUME NEW i \in 1 .. Len(Tail(s)) PROVE Tail(s)[i] \in Range(s)
      <4>1. i + 1 \in 1 .. Len(s)
        BY <1>1, LenProperties
      <4> QED BY <1>1, <4>1, RangeOfQueue
    <3>2. \A p \in Range(Tail(s)) : \E i \in 1 .. Len(Tail(s)) : Tail(s)[i] = p
      BY <1>1, RangeOfQueue
    <3> QED BY <3>1, <3>2
  <2> QED BY <1>2, <2>1, <2>2
<1>4. ASSUME IsInjective(s) PROVE IsInjective(Tail(s)) /\ Head(s) \notin Range(Tail(s))
  <2>1. \A i, j \in 1 .. Len(s) : s[i] = s[j] => i = j
    BY <1>4 DEF IsInjective
  <2>2. IsInjective(Tail(s))
    BY <1>1, <2>1 DEF IsInjective
  <2>3. \A i \in 1 .. Len(Tail(s)) : Tail(s)[i] # Head(s)
    BY <1>1, <2>1
  <2> QED BY <1>1, <2>2, <2>3, RangeOfQueue
<1> QED BY <1>1, <1>2, <1>3, <1>4

LEMMA AppendedToQueue ==
  ASSUME NEW s \in Seq(Procs), NEW e \in Procs
  PROVE  /\ Append(s, e) \in Seq(Procs)
         /\ Append(s, e) # <<>>
         /\ Range(Append(s, e)) = Range(s) \cup {e}
         /\ IsInjective(s) /\ e \notin Range(s) => IsInjective(Append(s, e))
         /\ s # <<>> => Head(Append(s, e)) = Head(s)
<1> DEFINE t == Append(s, e)
<1>1. /\ t \in Seq(Procs) /\ Len(t) = Len(s) + 1
      /\ \A i \in 1 .. Len(s) : t[i] = s[i]
      /\ t[Len(s) + 1] = e /\ Len(s) \in Nat
  BY AppendProperties, LenProperties
<1> HIDE DEF t
<1>2. Range(t) = Range(s) \cup {e}
  <2>1. ASSUME NEW p \in Range(t) PROVE p \in Range(s) \cup {e}
    BY <1>1, RangeOfQueue
  <2>2. ASSUME NEW p \in Range(s) PROVE p \in Range(t)
    <3>1. PICK i \in 1 .. Len(s) : s[i] = p
      BY RangeOfQueue
    <3> QED BY <1>1, <3>1, RangeOfQueue
  <2>3. e \in Range(t)
    BY <1>1, RangeOfQueue
  <2> QED BY <2>1, <2>2, <2>3
<1>3. ASSUME IsInjective(s), e \notin Range(s) PROVE IsInjective(t)
  <2>1. \A i \in 1 .. Len(s) : s[i] # e
    BY <1>3, RangeOfQueue
  <2>2. \A i, j \in 1 .. Len(s) : s[i] = s[j] => i = j
    BY <1>3 DEF IsInjective
  <2> QED BY <1>1, <2>1, <2>2 DEF IsInjective
<1>4. s # <<>> => Head(t) = Head(s)
  BY <1>1, RangeOfQueue
<1>5. t # <<>>
  BY <1>1, RangeOfQueue
<1> QED BY <1>1, <1>2, <1>3, <1>4, <1>5 DEF t

\* What is left of a queue keeps its order.
LEMMA ElementsOfRemoved ==
  ASSUME NEW s \in Seq(Procs), NEW i \in 1 .. Len(s)
  PROVE  /\ RemoveAt(s, i) \in Seq(Procs) /\ Len(RemoveAt(s, i)) = Len(s) - 1
         /\ \A j \in 1 .. Len(s) - 1 :
              RemoveAt(s, i)[j] = s[IF j < i THEN j ELSE j + 1]
<1> DEFINE a == SubSeq(s, 1, i - 1)
           b == SubSeq(s, i + 1, Len(s))
           t == RemoveAt(s, i)
           old(j) == IF j < i THEN j ELSE j + 1
<1>1. Len(s) \in Nat /\ i \in Int /\ 1 <= i /\ i <= Len(s)
  BY LenProperties
<1>2. /\ a \in Seq(Procs) /\ Len(a) = i - 1
      /\ \A j \in 1 .. i - 1 : a[j] = s[j]
  BY <1>1, SubSeqProperties
<1>3. /\ b \in Seq(Procs) /\ Len(b) = Len(s) - i
      /\ \A j \in 1 .. Len(s) - i : b[j] = s[i + j]
  <2>1. /\ b \in Seq(Procs)
        /\ Len(b) = IF i + 1 <= Len(s) THEN Len(s) - (i + 1) + 1 ELSE 0
        /\ \A j \in 1 .. Len(s) - (i + 1) + 1 : b[j] = s[i + 1 + j - 1]
    BY <1>1, SubSeqProperties
  <2> HIDE DEF b
  <2> QED BY <1>1, <2>1
<1>4. t = a \o b
  BY DEF RemoveAt
<1> HIDE DEF a, b, t
<1>5. /\ t \in Seq(Procs) /\ Len(t) = Len(s) - 1
      /\ \A j \in 1 .. Len(s) - 1 : t[j] = IF j <= i - 1 THEN a[j] ELSE b[j - (i - 1)]
  <2>1. /\ a \o b \in Seq(Procs) /\ Len(a \o b) = Len(a) + Len(b)
        /\ \A j \in 1 .. Len(a) + Len(b) :
             (a \o b)[j] = IF j <= Len(a) THEN a[j] ELSE b[j - Len(a)]
    BY <1>2, <1>3, ConcatProperties
  <2>2. Len(a) + Len(b) = Len(s) - 1
    BY <1>1, <1>2, <1>3
  <2> QED BY <1>2, <1>4, <2>1, <2>2
<1>6. ASSUME NEW j \in 1 .. Len(s) - 1
      PROVE  t[j] = s[old(j)]
  <2>1. CASE j < i
    <3>1. j \in 1 .. i - 1 /\ j <= i - 1 /\ old(j) = j
      BY <1>1, <2>1
    <3>2. t[j] = a[j]
      BY <1>5, <3>1
    <3> HIDE DEF old
    <3> QED BY <1>2, <3>1, <3>2
  <2>2. CASE j >= i
    <3>1. j - (i - 1) \in 1 .. Len(s) - i /\ ~(j <= i - 1) /\ i + (j - (i - 1)) = j + 1
      BY <1>1, <2>2
    <3>2. t[j] = s[i + (j - (i - 1))]
      BY <1>3, <1>5, <3>1
    <3>3. t[j] = s[j + 1]
      BY <3>1, <3>2
    <3> QED BY <1>1, <2>2, <3>3
  <2> QED BY <1>1, <2>1, <2>2
<1> QED BY <1>5, <1>6 DEF t

LEMMA RemovedFromQueue ==
  ASSUME NEW s \in Seq(Procs), IsInjective(s), NEW i \in 1 .. Len(s), NEW e, e = s[i]
  PROVE  /\ RemoveAt(s, i) \in Seq(Procs)
         /\ Range(RemoveAt(s, i)) = Range(s) \ {e}
         /\ IsInjective(RemoveAt(s, i))
<1> DEFINE t == RemoveAt(s, i)
           old(j) == IF j < i THEN j ELSE j + 1
<1>1. Len(s) \in Nat /\ i \in Int /\ 1 <= i /\ i <= Len(s)
  BY LenProperties
<1>2. t \in Seq(Procs) /\ Len(t) = Len(s) - 1
  BY ElementsOfRemoved
<1>3. ASSUME NEW j \in 1 .. Len(s) - 1
      PROVE  t[j] = s[old(j)] /\ old(j) \in 1 .. Len(s) /\ old(j) # i
  BY <1>1, ElementsOfRemoved
<1> HIDE DEF t
<1>4. \A j, k \in 1 .. Len(s) : s[j] = s[k] => j = k
  BY DEF IsInjective
<1>5. Range(t) = Range(s) \ {e}
  <2>1. ASSUME NEW p \in Range(t) PROVE p \in Range(s) \ {e}
    <3>1. PICK j \in 1 .. Len(s) - 1 : t[j] = p
      BY <1>2, RangeOfQueue
    <3>2. p = s[old(j)] /\ old(j) \in 1 .. Len(s) /\ old(j) # i
      BY <1>3, <3>1
    <3> HIDE DEF old
    <3> QED BY <1>4, <3>2, RangeOfQueue
  <2>2. ASSUME NEW p \in Range(s) \ {e} PROVE p \in Range(t)
    <3>1. PICK k \in 1 .. Len(s) : s[k] = p
      BY RangeOfQueue
    <3>2. PICK j \in Int : j = IF k < i THEN k ELSE k - 1
      BY <1>1
    <3>3. j \in 1 .. Len(s) - 1 /\ old(j) = k
      BY <1>1, <2>2, <3>1, <3>2
    <3>4. t[j] = p
      BY <1>3, <3>1, <3>3
    <3> QED BY <1>2, <3>3, <3>4, RangeOfQueue
  <2> QED BY <2>1, <2>2
<1>6. IsInjective(t)
  <2>1. ASSUME NEW j \in 1 .. Len(s) - 1, NEW k \in 1 .. Len(s) - 1, t[j] = t[k]
        PROVE  j = k
    <3>1. old(j) = old(k)
      BY <1>3, <1>4, <2>1
    <3> QED BY <1>1, <3>1
  <2>2. DOMAIN t = 1 .. Len(s) - 1
    BY <1>2, LenProperties
  <2> QED BY <2>1, <2>2 DEF IsInjective
<1> QED BY <1>2, <1>5, <1>6 DEF t

LEMMA TailOfAppended ==
  ASSUME NEW s \in Seq(Procs), s # <<>>, NEW e \in Procs
  PROVE  Tail(Append(s, e)) = Append(Tail(s), e)
<1> DEFINE a == Tail(Append(s, e))
           b == Append(Tail(s), e)
<1>1. /\ Append(s, e) \in Seq(Procs) /\ Append(s, e) # <<>> /\ Len(Append(s, e)) = Len(s) + 1
      /\ \A i \in 1 .. Len(s) : Append(s, e)[i] = s[i]
      /\ Append(s, e)[Len(s) + 1] = e
      /\ Len(s) \in Nat /\ Len(s) # 0
  BY AppendProperties, AppendedToQueue, LenProperties, RangeOfQueue
<1>2. /\ a \in Seq(Procs) /\ Len(a) = Len(s)
      /\ \A i \in 1 .. Len(s) : a[i] = Append(s, e)[i + 1]
  BY <1>1, PoppedQueue
<1>3. /\ Tail(s) \in Seq(Procs) /\ Len(Tail(s)) = Len(s) - 1
      /\ \A i \in 1 .. Len(s) - 1 : Tail(s)[i] = s[i + 1]
  BY PoppedQueue
<1>4. /\ b \in Seq(Procs) /\ Len(b) = Len(s)
      /\ \A i \in 1 .. Len(s) - 1 : b[i] = Tail(s)[i]
      /\ b[Len(s)] = e
  BY <1>1, <1>3, AppendProperties
<1>5. ASSUME NEW i \in 1 .. Len(s) PROVE a[i] = b[i]
  <2>1. CASE i = Len(s)
    BY <1>1, <1>2, <1>4, <2>1
  <2>2. CASE i # Len(s)
    <3>1. i \in 1 .. Len(s) - 1 /\ i + 1 \in 1 .. Len(s)
      BY <1>1, <2>2
    <3> QED BY <1>1, <1>2, <1>3, <1>4, <3>1
  <2> QED BY <2>1, <2>2
<1> HIDE DEF a, b
<1>6. a = b
  BY <1>2, <1>4, <1>5, SeqEqual
<1> QED BY <1>6 DEF a, b

-----------------------------------------------------------------------------
\* Queues in the order of a rank, as the priority list is.

Ordered(s, rank) == \A i, j \in 1 .. Len(s) : i < j => rank[s[i]] <= rank[s[j]]

\* The place of e in the list s, as pushIntoPriorityQueue finds it.
PlaceOf(e, s, rank) ==
  IF s = <<>> \/ rank[Head(s)] > rank[e]
  THEN 1
  ELSE Min({i \in 2 .. Len(s) : rank[s[i]] >= rank[e]} \cup {Len(s) + 1})

\* What is before that place has no greater rank, and what is behind it no
\* lesser one.
LEMMA PlaceIsInOrder ==
  ASSUME NEW s \in Seq(Procs), NEW rank \in [Procs -> Nat], Ordered(s, rank), NEW e \in Procs
  PROVE  /\ PlaceOf(e, s, rank) \in 1 .. Len(s) + 1
         /\ \A j \in 1 .. Len(s) :
              IF j < PlaceOf(e, s, rank) THEN rank[s[j]] <= rank[e] ELSE rank[e] <= rank[s[j]]
<1> DEFINE S == {i \in 2 .. Len(s) : rank[s[i]] >= rank[e]} \cup {Len(s) + 1}
           at == PlaceOf(e, s, rank)
<1>1. /\ Len(s) \in Nat /\ rank[e] \in Nat
      /\ \A j \in 1 .. Len(s) : s[j] \in Procs /\ rank[s[j]] \in Nat
      /\ \A i, j \in 1 .. Len(s) : i < j => rank[s[i]] <= rank[s[j]]
  BY LenProperties, ElementOfSeq DEF Ordered
<1>2. CASE s = <<>>
  BY <1>1, <1>2, RangeOfQueue DEF PlaceOf
<1>3. CASE s # <<>> /\ rank[Head(s)] > rank[e]
  <2>1. at = 1 /\ Head(s) = s[1] /\ Len(s) # 0
    BY <1>1, <1>3, HeadTailProperties, RangeOfQueue DEF PlaceOf
  <2>2. ASSUME NEW j \in 1 .. Len(s) PROVE rank[e] <= rank[s[j]]
    <3>1. 1 \in 1 .. Len(s) /\ (j = 1 \/ 1 < j)
      BY <1>1, <2>1
    <3>2. rank[s[1]] <= rank[s[j]] /\ rank[s[1]] \in Nat /\ rank[s[j]] \in Nat
      BY <1>1, <3>1
    <3> QED BY <1>1, <1>3, <2>1, <3>2
  <2> HIDE DEF at
  <2>3. /\ \A j \in 1 .. Len(s) : ~(j < at)
        /\ at \in 1 .. Len(s) + 1
    BY <1>1, <2>1
  <2> QED BY <2>2, <2>3 DEF at
<1>4. CASE s # <<>> /\ ~(rank[Head(s)] > rank[e])
  <2>1. at = Min(S) /\ Head(s) = s[1] /\ Len(s) # 0
    BY <1>1, <1>4, HeadTailProperties, RangeOfQueue DEF PlaceOf
  <2>2. S \subseteq 2 .. Len(s) + 1 /\ S \subseteq Nat /\ S # {}
    BY <1>1, <2>1
  <2>3. at \in S /\ \A i \in S : at <= i
    BY <2>1, <2>2, MinIsLeast
  <2> HIDE DEF at
  <2>4. at \in 2 .. Len(s) + 1
    BY <2>2, <2>3
  <2>5. ASSUME NEW j \in 1 .. Len(s), j < at PROVE rank[s[j]] <= rank[e]
    <3>1. CASE j = 1
      BY <1>1, <1>4, <2>1, <3>1
    <3>2. CASE j # 1
      <4>1. j \in 2 .. Len(s) /\ j \notin S
        BY <1>1, <2>3, <2>4, <2>5, <3>2
      <4> QED BY <1>1, <4>1
    <3> QED BY <3>1, <3>2
  <2>6. ASSUME NEW j \in 1 .. Len(s), ~(j < at) PROVE rank[e] <= rank[s[j]]
    <3>1. at \in 1 .. Len(s) /\ at # Len(s) + 1
      BY <1>1, <2>4, <2>6
    <3>2. rank[s[at]] >= rank[e]
      BY <2>3, <3>1
    <3>3. rank[s[at]] <= rank[s[j]]
      <4>1. CASE j = at
        BY <1>1, <4>1
      <4>2. CASE at < j
        BY <1>1, <3>1, <4>2
      <4> QED BY <1>1, <2>6, <3>1, <4>1, <4>2
    <3>4. rank[s[at]] \in Nat /\ rank[s[j]] \in Nat
      BY <1>1, <3>1
    <3> QED BY <1>1, <3>2, <3>3, <3>4
  <2>7. at \in 1 .. Len(s) + 1
    BY <1>1, <2>4
  <2> QED BY <2>5, <2>6, <2>7 DEF at
<1> QED BY <1>2, <1>3, <1>4

LEMMA InsertedInOrder ==
  ASSUME NEW s \in Seq(Procs), NEW rank \in [Procs -> Nat], Ordered(s, rank),
         NEW e \in Procs, NEW at, at = PlaceOf(e, s, rank),
         NEW grown, grown = InsertAt(s, at, e)
  PROVE  at \in 1 .. Len(s) + 1 /\ Ordered(grown, rank)
<1>1. /\ Len(s) \in Nat /\ at \in 1 .. Len(s) + 1
      /\ \A j \in 1 .. Len(s) : IF j < at THEN rank[s[j]] <= rank[e] ELSE rank[e] <= rank[s[j]]
      /\ \A i, j \in 1 .. Len(s) : i < j => rank[s[i]] <= rank[s[j]]
  BY PlaceIsInOrder, LenProperties DEF Ordered
<1>2. /\ grown \in Seq(Procs) /\ Len(grown) = Len(s) + 1
      /\ \A j \in 1 .. Len(s) + 1 :
           grown[j] = IF j < at THEN s[j] ELSE IF j = at THEN e ELSE s[j - 1]
  <2>1. at \in 1 .. Len(s) + 1
    BY <1>1
  <2>2. /\ InsertAt(s, at, e) \in Seq(Procs) /\ Len(InsertAt(s, at, e)) = Len(s) + 1
        /\ \A j \in 1 .. Len(s) + 1 :
             InsertAt(s, at, e)[j] = IF j < at THEN s[j] ELSE IF j = at THEN e ELSE s[j - 1]
    BY <2>1, InsertedInQueue
  <2> QED BY <2>2
<1>3. ASSUME NEW i \in 1 .. Len(grown), NEW j \in 1 .. Len(grown), i < j
      PROVE  rank[grown[i]] <= rank[grown[j]]
  <2>1. CASE j < at
    <3>1. i \in 1 .. Len(s) /\ j \in 1 .. Len(s) /\ grown[i] = s[i] /\ grown[j] = s[j]
      BY <1>1, <1>2, <1>3, <2>1
    <3> QED BY <1>1, <1>3, <3>1
  <2>2. CASE j = at
    <3>1. i \in 1 .. Len(s) /\ i < at /\ grown[i] = s[i] /\ grown[j] = e
      BY <1>1, <1>2, <1>3, <2>2
    <3> QED BY <1>1, <3>1
  <2>3. CASE at < j
    <3>1. j - 1 \in 1 .. Len(s) /\ grown[j] = s[j - 1] /\ ~(j - 1 < at)
      BY <1>1, <1>2, <1>3, <2>3
    <3>2. CASE i < at
      <4>1. i \in 1 .. Len(s) /\ i < j - 1 /\ grown[i] = s[i]
        BY <1>1, <1>2, <1>3, <2>3, <3>2
      <4> QED BY <1>1, <3>1, <4>1
    <3>3. CASE i = at
      <4>1. grown[i] = e
        BY <1>1, <1>2, <3>3
      <4> QED BY <1>1, <3>1, <4>1
    <3>4. CASE at < i
      <4>1. i - 1 \in 1 .. Len(s) /\ i - 1 < j - 1 /\ grown[i] = s[i - 1]
        BY <1>1, <1>2, <1>3, <3>4
      <4> QED BY <1>1, <3>1, <4>1
    <3>5. i < at \/ i = at \/ at < i
      BY <1>1
    <3> QED BY <3>2, <3>3, <3>4, <3>5
  <2>4. j < at \/ j = at \/ at < j
    BY <1>1
  <2> QED BY <2>1, <2>2, <2>3, <2>4
<1> QED BY <1>1, <1>3 DEF Ordered

LEMMA PoppedInOrder ==
  ASSUME NEW s \in Seq(Procs), s # <<>>, NEW rank \in [Procs -> Nat], Ordered(s, rank)
  PROVE  /\ \A x \in Range(s) : rank[Head(s)] <= rank[x]
         /\ Ordered(Tail(s), rank)
<1>1. /\ Len(s) \in Nat /\ Len(s) # 0 /\ Head(s) = s[1]
      /\ \A i \in 1 .. Len(s) : rank[s[i]] \in Nat
      /\ \A i, j \in 1 .. Len(s) : i < j => rank[s[i]] <= rank[s[j]]
  BY LenProperties, ElementOfSeq, HeadTailProperties, RangeOfQueue DEF Ordered
<1>2. ASSUME NEW x \in Range(s) PROVE rank[Head(s)] <= rank[x]
  <2>1. PICK i \in 1 .. Len(s) : s[i] = x
    BY RangeOfQueue
  <2>2. 1 \in 1 .. Len(s) /\ (i = 1 \/ 1 < i)
    BY <1>1
  <2> QED BY <1>1, <2>1, <2>2
<1>3. PICK rest : rest = Tail(s)
  OBVIOUS
<1>4. Len(rest) = Len(s) - 1 /\ \A i \in 1 .. Len(rest) : rest[i] = s[i + 1]
  BY <1>3, PoppedQueue
<1>5. ASSUME NEW i \in 1 .. Len(rest), NEW j \in 1 .. Len(rest), i < j
      PROVE  rank[rest[i]] <= rank[rest[j]]
  <2>1. i + 1 \in 1 .. Len(s) /\ j + 1 \in 1 .. Len(s) /\ i + 1 < j + 1
    BY <1>1, <1>4, <1>5
  <2> QED BY <1>1, <1>4, <2>1
<1> QED BY <1>2, <1>3, <1>5 DEF Ordered

-----------------------------------------------------------------------------
\* The sum of a function with natural values, which is defined by choosing one
\* element after the other: it counts the pairs of an element and one of its
\* units, so it does not depend on the choices.

\* The units that a sum over S counts.
Units(f, S) == UNION {{p} \X (1 .. f[p]) : p \in S}

\* One element contributes as many units as its value.
LEMMA UnitsOfOne ==
  ASSUME NEW f, NEW x, f[x] \in Nat
  PROVE  IsFiniteSet({x} \X (1 .. f[x])) /\ Cardinality({x} \X (1 .. f[x])) = f[x]
<1>1. \A n \in Nat : IsFiniteSet(1 .. n) /\ Cardinality(1 .. n) = n
  <2>1. \A n \in Nat : 1 \in Int /\ n \in Int /\ ((IF 1 > n THEN 0 ELSE n - 1 + 1) = n)
    OBVIOUS
  <2>2. QED BY <2>1, FS_Interval
<1>2. IsFiniteSet({x}) /\ Cardinality({x}) = 1
  BY FS_Singleton, Zenon
<1>3. IsFiniteSet(1 .. f[x]) /\ Cardinality(1 .. f[x]) = f[x]
  BY <1>1
<1>4. IsFiniteSet({x} \X (1 .. f[x])) /\ Cardinality({x} \X (1 .. f[x])) = 1 * f[x]
  BY <1>2, <1>3, FS_Product, Zenon
<1>5. QED BY <1>4

\* A finite set has finitely many units.
LEMMA UnitsAreFinite ==
  ASSUME NEW S, IsFiniteSet(S), NEW f, \A p \in S : f[p] \in Nat
  PROVE  IsFiniteSet(Units(f, S)) /\ Cardinality(Units(f, S)) \in Nat
<1> DEFINE units == [p \in S |-> {p} \X (1 .. f[p])]
           T == {units[p] : p \in S}
<1>1. IsFiniteSet(T)
  <2>1. units \in Surjection(S, T)
    BY DEF Surjection
  <2>2. QED BY <2>1, FS_Surjection, Zenon
<1>2. \A t \in T : IsFiniteSet(t)
  <2>1. ASSUME NEW p \in S PROVE IsFiniteSet(units[p])
    BY UnitsOfOne
  <2>2. QED BY <2>1
<1>3. IsFiniteSet(UNION T)
  BY <1>1, <1>2, FS_UNION, Zenon
<1>4. UNION T = Units(f, S)
  BY DEF Units
<1>5. QED BY <1>3, <1>4, FS_CardinalityType, Zenon

\* An element more adds its value to the number of units.
LEMMA UnitsOfOneMore ==
  ASSUME NEW S, IsFiniteSet(S), NEW f, NEW x, x \notin S, \A p \in S \cup {x} : f[p] \in Nat
  PROVE  Cardinality(Units(f, S \cup {x})) = Cardinality(Units(f, S)) + f[x]
<1> DEFINE new == {x} \X (1 .. f[x])
<1>1. IsFiniteSet(new) /\ Cardinality(new) = f[x]
  BY UnitsOfOne
<1> HIDE DEF new
<1>2. Units(f, S \cup {x}) = Units(f, S) \cup new
  BY DEF Units, new
<1>3. Units(f, S) \cap new = {}
  BY DEF Units, new
<1>4. IsFiniteSet(Units(f, S)) /\ Cardinality(Units(f, S)) \in Nat
  BY UnitsAreFinite
<1>5. Cardinality(Units(f, S) \cup new)
        = Cardinality(Units(f, S)) + Cardinality(new) - Cardinality(Units(f, S) \cap new)
  BY <1>1, <1>4, FS_Union, Zenon
<1>6. Cardinality(Units(f, S) \cap new) = 0
  <2>1. PICK common : common = Units(f, S) \cap new
    OBVIOUS
  <2>2. common = {}
    BY <1>3, <2>1
  <2>3. Cardinality(common) = 0
    BY <2>2, FS_EmptySet, Zenon
  <2>4. QED BY <2>1, <2>3
<1>7. Cardinality(Units(f, S \cup {x})) = Cardinality(Units(f, S) \cup new)
  BY <1>2, Zenon
<1>8. f[x] \in Nat
  OBVIOUS
<1>9. QED BY <1>1, <1>4, <1>5, <1>6, <1>7, <1>8

Iteration(f, S, iter) ==
  iter = [s \in SUBSET S |-> IF s = {} THEN 0
                             ELSE f[CHOOSE x \in s : TRUE] + iter[s \ {CHOOSE x \in s : TRUE}]]

\* The sum, as the community modules define it.
LEMMA SumIsIteration ==
  ASSUME NEW f, NEW S
  PROVE  SumFunctionOnSet(f, S) = (CHOOSE iter : Iteration(f, S, iter))[S]
BY DEF SumFunctionOnSet, FoldFunctionOnSet, MapThenFoldSet, Iteration

\* The sum of natural values over a finite set is the number of its units.
LEMMA SumCountsUnits ==
  ASSUME NEW S, IsFiniteSet(S), NEW f, \A p \in S : f[p] \in Nat
  PROVE  SumFunctionOnSet(f, S) = Cardinality(Units(f, S))
<1> DEFINE count == [s \in SUBSET S |-> Cardinality(Units(f, s))]
           iter == CHOOSE i : Iteration(f, S, i)
           x(s) == CHOOSE y \in s : TRUE
<1>1. ASSUME NEW s \in SUBSET S
      PROVE  /\ IsFiniteSet(s)
             /\ Cardinality(s) \in Nat
             /\ Cardinality(Units(f, s)) \in Nat
             /\ s = {} => Cardinality(Units(f, s)) = 0
             /\ s # {} => /\ x(s) \in s
                          /\ Cardinality(s \ {x(s)}) = Cardinality(s) - 1
                          /\ Cardinality(Units(f, s)) = f[x(s)] + Cardinality(Units(f, s \ {x(s)}))
  <2>1. IsFiniteSet(s) /\ Cardinality(s) \in Nat
    BY FS_Subset, FS_CardinalityType, Zenon
  <2>2. Cardinality(Units(f, s)) \in Nat
    BY <2>1, UnitsAreFinite
  <2>3. ASSUME s = {} PROVE Cardinality(Units(f, s)) = 0
    <3>1. Units(f, s) = {}
      BY <2>3 DEF Units
    <3>2. QED BY <3>1, FS_EmptySet
  <2>4. ASSUME s # {}
        PROVE  /\ x(s) \in s
               /\ Cardinality(s \ {x(s)}) = Cardinality(s) - 1
               /\ Cardinality(Units(f, s)) = f[x(s)] + Cardinality(Units(f, s \ {x(s)}))
    <3>1. PICK y : y = x(s) /\ y \in s
      BY <2>4
    <3>2. IsFiniteSet(s \ {y}) /\ Cardinality(s \ {y}) = Cardinality(s) - 1
      BY <2>1, <3>1, FS_RemoveElement, Zenon
    <3>3. s = (s \ {y}) \cup {y} /\ y \notin s \ {y}
      BY <3>1
    <3> DEFINE rest == s \ {y}
    <3>0. (\A p \in rest \cup {y} : f[p] \in Nat) /\ y \notin rest /\ IsFiniteSet(rest)
      BY <3>1, <3>2
    <3>4. Cardinality(Units(f, rest \cup {y})) = Cardinality(Units(f, rest)) + f[y]
      <4> HIDE DEF rest
      <4> QED BY <3>0, UnitsOfOneMore
    <3>5. Cardinality(Units(f, rest)) \in Nat /\ f[y] \in Nat
      <4> HIDE DEF rest
      <4>1. \A p \in rest : f[p] \in Nat
        BY <3>0
      <4>2. Cardinality(Units(f, rest)) \in Nat
        BY <3>0, <4>1, UnitsAreFinite
      <4>3. f[y] \in Nat
        BY <3>0
      <4> QED BY <4>2, <4>3
    <3>6. Cardinality(Units(f, s)) = Cardinality(Units(f, rest \cup {y}))
      BY <3>3, Zenon
    <3>7. Cardinality(Units(f, s)) = f[y] + Cardinality(Units(f, rest))
      BY <3>4, <3>5, <3>6
    <3>8. QED BY <3>1, <3>2, <3>7, Zenon
  <2>5. QED BY <2>1, <2>2, <2>3, <2>4
<1> HIDE DEF x
<1>2. Iteration(f, S, count)
  <2>1. ASSUME NEW s \in SUBSET S, s # {}
        PROVE  count[s] = f[x(s)] + count[s \ {x(s)}]
    BY <2>1, <1>1
  <2>2. ASSUME NEW s \in SUBSET S, s = {}
        PROVE  count[s] = 0
    BY <2>2, <1>1
  <2>3. count = [s \in SUBSET S |-> IF s = {} THEN 0 ELSE f[x(s)] + count[s \ {x(s)}]]
    BY <2>1, <2>2
  <2>4. QED BY <2>3 DEF Iteration, x
<1>3. Iteration(f, S, iter)
  BY <1>2
<1> HIDE DEF count, iter
<1>4. ASSUME NEW s \in SUBSET S
      PROVE  iter[s] = IF s = {} THEN 0 ELSE f[x(s)] + iter[s \ {x(s)}]
  BY <1>3 DEF Iteration, x
<1> DEFINE wrong == {s \in SUBSET S : iter[s] # Cardinality(Units(f, s))}
           sizes == {Cardinality(s) : s \in wrong}
<1>5. ASSUME wrong # {} PROVE FALSE
  <2>1. sizes \subseteq Nat /\ sizes # {}
    BY <1>1, <1>5
  <2> HIDE DEF sizes
  <2>7. Min(sizes) \in sizes /\ \A y \in sizes : Min(sizes) <= y
    BY <2>1, MinIsLeast
  <2>2. PICK s \in wrong : Cardinality(s) = Min(sizes)
    BY <2>7 DEF sizes
  <2>3. s # {}
    BY <1>1, <1>4
  <2>4. s \ {x(s)} \notin wrong
    <3>1. SUFFICES ASSUME s \ {x(s)} \in wrong PROVE FALSE
      OBVIOUS
    <3>2. Cardinality(s \ {x(s)}) \in sizes
      BY <3>1 DEF sizes
    <3>3. Min(sizes) <= Cardinality(s \ {x(s)})
      BY <2>7, <3>2
    <3>4. QED BY <1>1, <2>2, <2>3, <3>3
  <2>5. iter[s \ {x(s)}] = Cardinality(Units(f, s \ {x(s)}))
    BY <2>4
  <2>6. QED BY <1>1, <1>4, <2>3, <2>5
<1>6. iter[S] = Cardinality(Units(f, S))
  BY <1>5
<1>7. QED BY <1>6, SumIsIteration DEF iter

\* The same for the sum of a function over its domain.
LEMMA SumCounts ==
  ASSUME NEW S, IsFiniteSet(S), NEW f \in [S -> Nat]
  PROVE  SumFunction(f) = Cardinality(Units(f, S)) /\ SumFunction(f) \in Nat
<1>1. DOMAIN f = S /\ \A p \in S : f[p] \in Nat
  OBVIOUS
<1>2. SumFunction(f) = SumFunctionOnSet(f, S)
  BY <1>1 DEF SumFunction
<1>3. SumFunctionOnSet(f, S) = Cardinality(Units(f, S)) /\ Cardinality(Units(f, S)) \in Nat
  BY <1>1, SumCountsUnits, UnitsAreFinite
<1> QED BY <1>2, <1>3

\* A function with one argument more has a sum greater by its value.
LEMMA SumOfOneMore ==
  ASSUME NEW S, IsFiniteSet(S), NEW x, x \notin S,
         NEW f \in [S -> Nat], NEW g \in [S \cup {x} -> Nat], \A p \in S : g[p] = f[p]
  PROVE  SumFunction(g) = SumFunction(f) + g[x]
<1>1. IsFiniteSet(S \cup {x})
  BY FS_AddElement, Zenon
<1>2. /\ SumFunction(f) = Cardinality(Units(f, S))
      /\ SumFunction(g) = Cardinality(Units(g, S \cup {x}))
  BY <1>1, SumCounts, Zenon
<1>3. \A p \in S \cup {x} : g[p] \in Nat
  OBVIOUS
<1>4. Cardinality(Units(g, S \cup {x})) = Cardinality(Units(g, S)) + g[x]
  BY <1>3, UnitsOfOneMore
<1>5. Units(g, S) = Units(f, S)
  BY DEF Units
<1>6. Cardinality(Units(g, S)) = Cardinality(Units(f, S))
  BY <1>5, Zenon
<1> QED BY <1>2, <1>4, <1>6

\* The value of one argument changes.
LEMMA SumOfOneChanged ==
  ASSUME NEW S, IsFiniteSet(S), NEW r \in S,
         NEW f \in [S -> Nat], NEW g \in [S -> Nat], \A p \in S \ {r} : g[p] = f[p]
  PROVE  SumFunction(g) = SumFunction(f) + g[r] - f[r]
<1>1. PICK rest : rest = S \ {r}
  OBVIOUS
<1>2. IsFiniteSet(rest) /\ r \notin rest /\ S = rest \cup {r}
  BY <1>1, FS_RemoveElement, Zenon
<1>3. PICK h : h = [p \in rest |-> f[p]]
  OBVIOUS
<1>4. h \in [rest -> Nat] /\ \A p \in rest : h[p] = f[p] /\ h[p] = g[p]
  BY <1>1, <1>3
<1>5. f \in [rest \cup {r} -> Nat] /\ g \in [rest \cup {r} -> Nat]
  BY <1>2, Zenon
<1>6. SumFunction(f) = SumFunction(h) + f[r]
  BY <1>2, <1>4, <1>5, SumOfOneMore
<1>7. SumFunction(g) = SumFunction(h) + g[r]
  BY <1>2, <1>4, <1>5, SumOfOneMore
<1>8. SumFunction(h) \in Nat /\ f[r] \in Nat /\ g[r] \in Nat
  BY <1>2, <1>4, SumCounts
<1> QED BY <1>6, <1>7, <1>8

\* Functions with the same values have the same sum.
LEMMA SumOfSame ==
  ASSUME NEW S, IsFiniteSet(S), NEW f \in [S -> Nat], NEW g \in [S -> Nat],
         \A p \in S : g[p] = f[p]
  PROVE  SumFunction(g) = SumFunction(f)
<1>1. g = f
  OBVIOUS
<1> QED BY <1>1, Zenon

\* Where all values are 0 the sum is 0.
LEMMA SumOfNothing ==
  ASSUME NEW S, IsFiniteSet(S), NEW f \in [S -> Nat], \A p \in S : f[p] = 0
  PROVE  SumFunction(f) = 0
<1>1. Units(f, S) = {}
  <2>1. \A p \in S : 1 .. f[p] = {}
    OBVIOUS
  <2> QED BY <2>1 DEF Units
<1>2. SumFunction(f) = Cardinality(Units(f, S))
  BY SumCounts
<1> QED BY <1>1, <1>2, FS_EmptySet, Zenon

-----------------------------------------------------------------------------
\* The steps of the main loop.

LEMMA UnbornType == Unborn \in ProcessRecords /\ Unborn.memindex = NoPlace
                    /\ Unborn.State = "STOPPED" /\ Unborn.Remaining_time = 0
BY DEF Unborn, ProcessRecords, States

\* Before the first pass nothing has been received.
LEMMA SharedInitInv == SharedInit => SharedInv /\ Holders = {} /\ Done = {}
<1> SUFFICES ASSUME SharedInit PROVE SharedInv /\ Holders = {} /\ Done = {}
  OBVIOUS
<1>1. \A p \in Procs : proc[p] = Unborn /\ ~Holds(p) /\ Owned(p) = {}
  BY UnbornType DEF SharedInit, Holds, Owned
<1>2. Holders = {} /\ Done = {}
  BY <1>1 DEF Holders, Done, SharedInit
<1>3. SharedTypeOK
  <2>1. proc \in [Procs -> ProcessRecords]
    BY UnbornType DEF SharedInit
  <2>2. /\ follow \in Nat /\ phase \in Phases /\ received \in 0 .. Count_OF_Processes
        /\ mem \subseteq Blocks /\ finished_process_count \in Nat
        /\ cpu_waiting_time \in Nat /\ total_waiting_time \in Nat /\ missed \in Nat
    BY TimesAssumption, ConstantTypes DEF SharedInit, Phases
  <2>3. ups \in [Procs -> Nat] /\ log \in [Procs -> Seq(States)] /\ delay \in [Procs -> Int]
    BY DEF SharedInit
  <2> QED BY <2>1, <2>2, <2>3 DEF SharedTypeOK, ProcessRecords
<1>4. RecordsFilled
  BY <1>1, UnbornType DEF RecordsFilled
<1>5. MemoryIsOwned
  BY <1>1 DEF MemoryIsOwned, SharedInit
<1>6. CountIsOfDone
  BY <1>2, FS_EmptySet DEF CountIsOfDone, SharedInit
<1>7. StopsOnlyWhenDone
  BY DEF StopsOnlyWhenDone, SharedInit
<1> QED BY <1>2, <1>3, <1>4, <1>5, <1>6, <1>7 DEF SharedInv

LEMMA TickInv ==
  ASSUME SharedInv, Tick
  PROVE  SharedInv' /\ Holders' = Holders /\ Done' = Done
<1>1. /\ received' = received /\ mem' = mem /\ proc' = proc /\ phase' = "receive"
      /\ finished_process_count' = finished_process_count
  BY DEF Tick
<1>2. RecordsFilled' /\ MemoryIsOwned' /\ Holders' = Holders /\ Done' = Done
  BY <1>1, MemoryUnchanged DEF SameMemory
<1>3. SharedTypeOK'
  <2>1. PICK gap \in 1 .. MaxMissed + 1 - missed :
          /\ follow' = follow + gap
          /\ delay' = [p \in Procs |-> IF Holds(p) THEN delay[p] + gap - 1 ELSE delay[p]]
          /\ missed' = missed + gap - 1
    BY DEF Tick
  <2>2. follow' \in Nat /\ missed' \in Nat
    BY <2>1 DEF SharedInv, SharedTypeOK
  <2>3. delay' \in [Procs -> Int]
    <3>1. \A p \in Procs : delay[p] \in Int /\ delay[p] + gap - 1 \in Int
      BY DEF SharedInv, SharedTypeOK
    <3> QED BY <2>1, <3>1
  <2>4. ups' = ups /\ log' = log /\ UNCHANGED <<cpu_waiting_time, total_waiting_time>>
    BY DEF Tick, files
  <2> QED BY <1>1, <2>2, <2>3, <2>4 DEF SharedInv, SharedTypeOK, Phases
<1>4. CountIsOfDone' /\ StopsOnlyWhenDone'
  BY <1>1, <1>2 DEF SharedInv, CountIsOfDone, StopsOnlyWhenDone
<1> QED BY <1>2, <1>3, <1>4 DEF SharedInv

\* What is common to a message with memory and one without.
LEMMA ReceiveTypes ==
  ASSUME SharedInv, NEW n \in Messages, Receive(n),
         proc' \in [Procs -> ProcessRecords], mem' \subseteq Blocks,
         finished_process_count' \in Nat
  PROVE  SharedTypeOK' /\ StopsOnlyWhenDone'
<1>1. /\ received' \in 0 .. Count_OF_Processes
      /\ phase' = "receive" /\ follow' = follow /\ missed' = missed
      /\ UNCHANGED <<cpu_waiting_time, total_waiting_time, ups, log>>
  BY ConstantTypes DEF Receive, SharedInv, SharedTypeOK, files
<1>2. delay' \in [Procs -> Int]
  <2>1. follow - n.Arrival_time \in Int
    BY MessageTypes DEF SharedInv, SharedTypeOK
  <2> QED BY <2>1 DEF Receive, SharedInv, SharedTypeOK
<1> QED BY <1>1, <1>2 DEF SharedInv, SharedTypeOK, ProcessRecords, Phases, StopsOnlyWhenDone

LEMMA AcceptInv ==
  ASSUME SharedInv, NEW n \in Messages, Accept(n),
         NEW r, r = received + 1,
         proc' \in [Procs -> ProcessRecords], proc'[r] = n,
         \A p \in Procs \ {r} : SameMemory(p)
  PROVE  /\ SharedInv' /\ r \in Procs /\ r \notin Holders
         /\ Holders' = Holders \cup {r} /\ Done' = Done
<1>1. n.memindex # NoPlace /\ Receive(n) /\ finished_process_count' = finished_process_count
  BY DEF Accept
<1>2. /\ RecordsFilled' /\ MemoryIsOwned' /\ mem' \subseteq Blocks
      /\ r \in Procs /\ r \notin Holders
      /\ Holders' = Holders \cup {r} /\ Done' = Done
  BY <1>1, MemoryGranted
<1>3. SharedTypeOK' /\ StopsOnlyWhenDone'
  BY <1>1, <1>2, ReceiveTypes DEF SharedInv, SharedTypeOK
<1>4. CountIsOfDone'
  BY <1>1, <1>2 DEF SharedInv, CountIsOfDone
<1> QED BY <1>2, <1>3, <1>4 DEF SharedInv

LEMMA RefuseInv ==
  ASSUME SharedInv, Refuse
  PROVE  /\ SharedInv' /\ Holders' = Holders
         /\ Cardinality(Done') = Cardinality(Done) + 1
         /\ received' = received + 1 /\ received' \in Procs
         /\ proc'[received'].memindex = NoPlace
         /\ proc'[received'].Remaining_time \in Nat \ {0}
         /\ \A p \in Procs \ {received'} : proc'[p] = proc[p]
<1>1. PICK n \in Messages :
        /\ n.memindex = NoPlace
        /\ Receive(n)
        /\ proc' = [proc EXCEPT ![received + 1] = n]
        /\ finished_process_count' = finished_process_count + 1
  BY DEF Refuse
<1>2. received' = received + 1 /\ received' \in Procs
  <2>1. received \in 0 .. Count_OF_Processes
    BY DEF SharedInv, SharedTypeOK
  <2>2. received < Count_OF_Processes /\ received' = received + 1
    BY <1>1 DEF Receive
  <2> QED BY <2>1, <2>2, ConstantTypes DEF Procs
<1>3. /\ n \in ProcessRecords /\ n.Remaining_time \in Nat \ {0}
      /\ proc' \in [Procs -> ProcessRecords]
      /\ proc'[received'] = n
      /\ \A p \in Procs \ {received'} : proc'[p] = proc[p]
  <2>1. n \in ProcessRecords /\ n.Remaining_time \in RunTimes
    BY <1>1, MessageTypes DEF SharedInv
  <2>2. n.Remaining_time \in Nat \ {0}
    BY <2>1, RunTimesAssumption
  <2>3. proc \in [Procs -> ProcessRecords]
    BY DEF SharedInv, SharedTypeOK, ProcessRecords
  <2> QED BY <1>1, <1>2, <2>1, <2>2, <2>3
<1>4. \A p \in Procs \ {received'} : SameMemory(p)
  BY <1>3 DEF SameMemory
<1>5. /\ RecordsFilled' /\ MemoryIsOwned' /\ mem' \subseteq Blocks
      /\ Holders' = Holders /\ Cardinality(Done') = Cardinality(Done) + 1
  BY <1>1, <1>2, <1>3, <1>4, MemoryGranted
<1>6. finished_process_count' \in Nat
  BY <1>1 DEF SharedInv, SharedTypeOK
<1>7. SharedTypeOK' /\ StopsOnlyWhenDone'
  BY <1>1, <1>3, <1>5, <1>6, ReceiveTypes
<1>8. CountIsOfDone'
  <2>1. Cardinality(Done) \in Nat
    BY SetsOfReceived, ConstantTypes DEF SharedInv, SharedTypeOK, Done
  <2> QED BY <1>1, <1>5, <2>1 DEF SharedInv, SharedTypeOK, CountIsOfDone
<1> QED BY <1>1, <1>2, <1>3, <1>5, <1>7, <1>8 DEF SharedInv

LEMMA TurnInv ==
  ASSUME SharedInv, EndOfPass,
         proc' \in [Procs -> ProcessRecords], mem' \subseteq Blocks,
         finished_process_count' \in Nat, finished_process_count' <= Cardinality(Done'),
         cpu_waiting_time' \in Nat, total_waiting_time' \in Nat,
         ups' \in [Procs -> Nat], log' \in [Procs -> Seq(States)],
         RecordsFilled', MemoryIsOwned'
  PROVE  SharedInv'
<1>1. UNCHANGED <<follow, received, delay, missed>> /\ phase' \in Phases
  BY DEF EndOfPass, history, Phases
<1>2. SharedTypeOK'
  BY <1>1 DEF SharedInv, SharedTypeOK, ProcessRecords
<1>3. CountIsOfDone'
  BY DEF CountIsOfDone
<1>4. StopsOnlyWhenDone'
  BY <1>2, <1>3, StopsAtEndOfPass
<1> QED BY <1>2, <1>3, <1>4 DEF SharedInv

-----------------------------------------------------------------------------
\* What the operators of the algorithms do to the records and files.

LEMMA SetStateRecords ==
  ASSUME NEW procs \in [Procs -> ProcessRecords], NEW p \in Procs, NEW s \in States
  PROVE  /\ SetState(procs, p, s) \in [Procs -> ProcessRecords]
         /\ \A x \in Procs :
              /\ SetState(procs, p, s)[x].memindex = procs[x].memindex
              /\ SetState(procs, p, s)[x].no_of_blocks = procs[x].no_of_blocks
              /\ SetState(procs, p, s)[x].Remaining_time = procs[x].Remaining_time
              /\ SetState(procs, p, s)[x].Priority = procs[x].Priority
              /\ SetState(procs, p, s)[x].Running_time = procs[x].Running_time
              /\ SetState(procs, p, s)[x].State = IF x = p THEN s ELSE procs[x].State
BY DEF SetState, ProcessRecords

LEMMA ChargeRecords ==
  ASSUME NEW procs \in [Procs -> ProcessRecords], NEW r \in Procs, NEW S
  PROVE  /\ Charge(procs, r, S) \in [Procs -> ProcessRecords]
         /\ \A x \in Procs :
              /\ Charge(procs, r, S)[x].memindex = procs[x].memindex
              /\ Charge(procs, r, S)[x].no_of_blocks = procs[x].no_of_blocks
              /\ Charge(procs, r, S)[x].State = procs[x].State
              /\ Charge(procs, r, S)[x].Priority = procs[x].Priority
              /\ Charge(procs, r, S)[x].Running_time = procs[x].Running_time
              /\ Charge(procs, r, S)[x].Remaining_time =
                   procs[x].Remaining_time - IF x = r THEN 1 ELSE 0
<1> DEFINE charged == Charge(procs, r, S)
<1>1. ASSUME NEW x \in Procs
      PROVE  /\ charged[x] \in ProcessRecords
             /\ charged[x].memindex = procs[x].memindex
             /\ charged[x].no_of_blocks = procs[x].no_of_blocks
             /\ charged[x].State = procs[x].State
             /\ charged[x].Priority = procs[x].Priority
             /\ charged[x].Running_time = procs[x].Running_time
             /\ charged[x].Remaining_time = procs[x].Remaining_time - IF x = r THEN 1 ELSE 0
  <2>1. CASE x = r
    BY <2>1 DEF Charge, ProcessRecords
  <2>2. CASE x # r /\ x \in S
    BY <2>2 DEF Charge, ProcessRecords
  <2>3. CASE x # r /\ x \notin S
    BY <2>3 DEF Charge, ProcessRecords
  <2> QED BY <2>1, <2>2, <2>3
<1>2. charged = [x \in Procs |-> charged[x]]
  BY DEF Charge
<1> HIDE DEF charged
<1>3. charged \in [Procs -> ProcessRecords]
  BY <1>1, <1>2
<1> QED BY <1>1, <1>3 DEF charged

LEMMA FinishRecords ==
  ASSUME NEW procs \in [Procs -> ProcessRecords], NEW p \in Procs, NEW time \in Int
  PROVE  /\ Finish(procs, p, time) \in [Procs -> ProcessRecords]
         /\ \A x \in Procs :
              /\ Finish(procs, p, time)[x].memindex = procs[x].memindex
              /\ Finish(procs, p, time)[x].no_of_blocks = procs[x].no_of_blocks
              /\ Finish(procs, p, time)[x].Remaining_time = procs[x].Remaining_time
              /\ Finish(procs, p, time)[x].Priority = procs[x].Priority
              /\ Finish(procs, p, time)[x].Running_time = procs[x].Running_time
              /\ Finish(procs, p, time)[x].State = IF x = p THEN "FINISHED" ELSE procs[x].State
<1>1. time - procs[p].Arrival_time \in Int
  BY DEF ProcessRecords
<1> QED BY <1>1 DEF Finish, ProcessRecords, States

LEMMA UpTypes ==
  ASSUME NEW counts \in [Procs -> Nat], NEW p \in Procs
  PROVE  Up(counts, p) \in [Procs -> Nat]
BY DEF Up

LEMMA PrintTypes ==
  ASSUME NEW lines \in [Procs -> Seq(States)], NEW p \in Procs, NEW s \in States
  PROVE  PrintLine(lines, p, s) \in [Procs -> Seq(States)]
BY DEF PrintLine

-----------------------------------------------------------------------------
\* The turns of the algorithms.

\* Records in which a process may be set to run: they differ from those of the
\* state in what tells the processes' history, but not in their memory and work.
SameWork(procs) ==
  /\ procs \in [Procs -> ProcessRecords]
  /\ \A p \in Procs : /\ procs[p].memindex = proc[p].memindex
                      /\ procs[p].no_of_blocks = proc[p].no_of_blocks
                      /\ procs[p].Remaining_time = proc[p].Remaining_time
                      /\ procs[p].Priority = proc[p].Priority
                      /\ procs[p].Running_time = proc[p].Running_time
                      /\ procs[p].State = "FINISHED" <=> proc[p].State = "FINISHED"

\* The same, but that f has been finished.
Ended(f, procs) ==
  /\ procs \in [Procs -> ProcessRecords]
  /\ \A p \in Procs : /\ procs[p].memindex = proc[p].memindex
                      /\ procs[p].no_of_blocks = proc[p].no_of_blocks
                      /\ procs[p].Remaining_time = proc[p].Remaining_time
                      /\ procs[p].Priority = proc[p].Priority
                      /\ procs[p].Running_time = proc[p].Running_time
                      /\ procs[p].State = "FINISHED" <=> p = f \/ proc[p].State = "FINISHED"

LEMMA NothingSet == SharedInv => SameWork(proc)
BY DEF SharedInv, SharedTypeOK, ProcessRecords, SameWork

LEMMA SetStateIsSameWork ==
  ASSUME NEW procs, SameWork(procs), NEW p \in Holders, NEW s \in States, s # "FINISHED"
  PROVE  SameWork(SetState(procs, p, s))
<1> DEFINE set == SetState(procs, p, s)
<1>1. p \in Procs /\ proc[p].State # "FINISHED" /\ procs \in [Procs -> ProcessRecords]
  BY DEF SameWork, Holders, Holds
<1>2. /\ set \in [Procs -> ProcessRecords]
      /\ \A x \in Procs : /\ set[x].memindex = procs[x].memindex
                          /\ set[x].no_of_blocks = procs[x].no_of_blocks
                          /\ set[x].Remaining_time = procs[x].Remaining_time
                          /\ set[x].Priority = procs[x].Priority
                          /\ set[x].Running_time = procs[x].Running_time
                          /\ set[x].State = IF x = p THEN s ELSE procs[x].State
  <2> HIDE DEF set
  <2>1. set = SetState(procs, p, s)
    BY DEF set
  <2> QED BY <1>1, <2>1, SetStateRecords
<1> HIDE DEF set
<1>3. SameWork(set)
  BY <1>1, <1>2 DEF SameWork
<1> QED BY <1>3 DEF set

LEMMA SetStateIsEnded ==
  ASSUME NEW f, NEW procs, Ended(f, procs), NEW p \in Holders \ {f},
         NEW s \in States, s # "FINISHED"
  PROVE  Ended(f, SetState(procs, p, s))
<1> DEFINE set == SetState(procs, p, s)
<1>1. p \in Procs /\ proc[p].State # "FINISHED" /\ procs \in [Procs -> ProcessRecords]
  BY DEF Ended, Holders, Holds
<1>2. /\ set \in [Procs -> ProcessRecords]
      /\ \A x \in Procs : /\ set[x].memindex = procs[x].memindex
                          /\ set[x].no_of_blocks = procs[x].no_of_blocks
                          /\ set[x].Remaining_time = procs[x].Remaining_time
                          /\ set[x].Priority = procs[x].Priority
                          /\ set[x].Running_time = procs[x].Running_time
                          /\ set[x].State = IF x = p THEN s ELSE procs[x].State
  <2> HIDE DEF set
  <2>1. set = SetState(procs, p, s)
    BY DEF set
  <2> QED BY <1>1, <2>1, SetStateRecords
<1> HIDE DEF set
<1>3. Ended(f, set)
  BY <1>1, <1>2 DEF Ended
<1> QED BY <1>3 DEF set

LEMMA FinishEnds ==
  ASSUME NEW f \in Procs, NEW procs, SameWork(procs), NEW time \in Int
  PROVE  Ended(f, Finish(procs, f, time))
<1> DEFINE set == Finish(procs, f, time)
<1>1. procs \in [Procs -> ProcessRecords]
  BY DEF SameWork
<1>2. /\ set \in [Procs -> ProcessRecords]
      /\ \A x \in Procs : /\ set[x].memindex = procs[x].memindex
                          /\ set[x].no_of_blocks = procs[x].no_of_blocks
                          /\ set[x].Remaining_time = procs[x].Remaining_time
                          /\ set[x].Priority = procs[x].Priority
                          /\ set[x].Running_time = procs[x].Running_time
                          /\ set[x].State = IF x = f THEN "FINISHED" ELSE procs[x].State
  <2> HIDE DEF set
  <2>1. set = Finish(procs, f, time)
    BY DEF set
  <2> QED BY <1>1, <2>1, FinishRecords
<1> HIDE DEF set
<1>3. Ended(f, set)
  BY <1>2 DEF Ended, SameWork
<1> QED BY <1>3 DEF set

\* A turn in which r runs and nobody finishes.
LEMMA ChargedTurn ==
  ASSUME SharedInv, EndOfPass, NEW r \in Holders, NEW procs, SameWork(procs), NEW S,
         proc' = Charge(procs, r, S),
         UNCHANGED <<mem, finished_process_count, total_waiting_time, cpu_waiting_time>>,
         ups' \in [Procs -> Nat], log' \in [Procs -> Seq(States)]
  PROVE  /\ SharedInv' /\ Holders' = Holders
         /\ \A p \in Procs :
              /\ proc'[p].memindex = proc[p].memindex
              /\ proc'[p].Priority = proc[p].Priority
              /\ proc'[p].Remaining_time = proc[p].Remaining_time - IF p = r THEN 1 ELSE 0
<1>1. r \in Procs /\ procs \in [Procs -> ProcessRecords]
  BY DEF Holders, SameWork
<1>2. /\ proc' \in [Procs -> ProcessRecords]
      /\ \A p \in Procs :
           /\ proc'[p].memindex = procs[p].memindex
           /\ proc'[p].no_of_blocks = procs[p].no_of_blocks
           /\ proc'[p].State = procs[p].State
           /\ proc'[p].Priority = procs[p].Priority
           /\ proc'[p].Remaining_time = procs[p].Remaining_time - IF p = r THEN 1 ELSE 0
  <2>1. PICK charged : charged = Charge(procs, r, S)
    OBVIOUS
  <2>2. /\ charged \in [Procs -> ProcessRecords]
        /\ \A p \in Procs :
             /\ charged[p].memindex = procs[p].memindex
             /\ charged[p].no_of_blocks = procs[p].no_of_blocks
             /\ charged[p].State = procs[p].State
             /\ charged[p].Priority = procs[p].Priority
             /\ charged[p].Remaining_time = procs[p].Remaining_time - IF p = r THEN 1 ELSE 0
    <3>1. /\ Charge(procs, r, S) \in [Procs -> ProcessRecords]
          /\ \A x \in Procs :
               /\ Charge(procs, r, S)[x].memindex = procs[x].memindex
               /\ Charge(procs, r, S)[x].no_of_blocks = procs[x].no_of_blocks
               /\ Charge(procs, r, S)[x].State = procs[x].State
               /\ Charge(procs, r, S)[x].Priority = procs[x].Priority
               /\ Charge(procs, r, S)[x].Remaining_time =
                    procs[x].Remaining_time - IF x = r THEN 1 ELSE 0
      BY <1>1, ChargeRecords
    <3> QED BY <2>1, <3>1
  <2> QED BY <2>1, <2>2
<1>3. /\ \A p \in Procs : SameMemory(p)
      /\ \A p \in Procs :
           /\ proc'[p].memindex = proc[p].memindex
           /\ proc'[p].Priority = proc[p].Priority
           /\ proc'[p].Remaining_time = proc[p].Remaining_time - IF p = r THEN 1 ELSE 0
  BY <1>2 DEF SameWork, SameMemory
<1>4. received' = received
  BY DEF EndOfPass
<1>5. RecordsFilled' /\ MemoryIsOwned' /\ Holders' = Holders /\ Done' = Done
  BY <1>3, <1>4, MemoryUnchanged
<1>6. /\ mem' \subseteq Blocks
      /\ finished_process_count' \in Nat /\ finished_process_count' <= Cardinality(Done')
      /\ cpu_waiting_time' \in Nat /\ total_waiting_time' \in Nat
  BY <1>5 DEF SharedInv, SharedTypeOK, CountIsOfDone
<1>7. SharedInv'
  BY <1>2, <1>5, <1>6, TurnInv
<1> QED BY <1>3, <1>5, <1>7

\* What the end of f at the beginning of a turn changes, whatever else happens
\* to the records.
LEMMA EndedTurn ==
  ASSUME SharedInv, EndOfPass, NEW f \in Holders, proc' \in [Procs -> ProcessRecords],
         \A p \in Procs :
           /\ proc'[p].memindex = proc[p].memindex
           /\ proc'[p].no_of_blocks = proc[p].no_of_blocks
           /\ proc'[p].State = "FINISHED" <=> p = f \/ proc[p].State = "FINISHED",
         mem' = FreeMemoryOf(proc[f]),
         finished_process_count' = finished_process_count + 1,
         total_waiting_time' = total_waiting_time + proc[f].Waiting_time,
         cpu_waiting_time' \in Nat,
         ups' \in [Procs -> Nat], log' \in [Procs -> Seq(States)]
  PROVE  SharedInv' /\ Holders' = Holders \ {f}
<1>1. f \in Procs /\ received' = received
  BY DEF Holders, EndOfPass
<1>2. \A p \in Procs \ {f} : SameMemory(p)
  BY DEF SameMemory
<1>3. /\ RecordsFilled' /\ MemoryIsOwned'
      /\ Holders' = Holders \ {f} /\ Cardinality(Done') = Cardinality(Done) + 1
  <2>1. /\ proc'[f].memindex = proc[f].memindex
        /\ proc'[f].no_of_blocks = proc[f].no_of_blocks
        /\ proc'[f].State = "FINISHED"
    BY <1>1
  <2> QED BY <1>1, <1>2, <2>1, MemoryFreed
<1>4. mem' \subseteq Blocks
  BY DEF SharedInv, SharedTypeOK, FreeMemoryOf, MemDealloc
<1>5. /\ finished_process_count' \in Nat /\ finished_process_count' <= Cardinality(Done')
  <2>1. Cardinality(Done) \in Nat
    BY SetsOfReceived, ConstantTypes DEF SharedInv, SharedTypeOK, Done
  <2> QED BY <1>3, <2>1 DEF SharedInv, SharedTypeOK, CountIsOfDone
<1>6. total_waiting_time' \in Nat
  <2>1. total_waiting_time \in Nat /\ proc[f].Waiting_time \in Nat
    BY <1>1 DEF SharedInv, SharedTypeOK
  <2> QED BY <2>1
<1>7. SharedInv'
  BY <1>3, <1>4, <1>5, <1>6, TurnInv
<1> QED BY <1>3, <1>7

\* Nothing runs and nobody finishes.
LEMMA IdleTurn ==
  ASSUME SharedInv, EndOfPass, cpu_waiting_time' = cpu_waiting_time + 1,
         UNCHANGED <<proc, mem, finished_process_count, total_waiting_time, files>>
  PROVE  SharedInv' /\ Holders' = Holders
<1>1. received' = received /\ UNCHANGED <<ups, log>>
  BY DEF EndOfPass, files
<1>2. RecordsFilled' /\ MemoryIsOwned' /\ Holders' = Holders /\ Done' = Done
  BY <1>1, MemoryUnchanged DEF SameMemory
<1>3. /\ proc' \in [Procs -> ProcessRecords] /\ mem' \subseteq Blocks
      /\ cpu_waiting_time' \in Nat /\ total_waiting_time' \in Nat
      /\ ups' \in [Procs -> Nat] /\ log' \in [Procs -> Seq(States)]
      /\ finished_process_count' \in Nat /\ finished_process_count' <= Cardinality(Done')
  BY <1>1, <1>2 DEF SharedInv, SharedTypeOK, ProcessRecords, CountIsOfDone
<1> QED BY <1>1, <1>2, <1>3, TurnInv

\* What a turn of r changes under SJF and MLFL, where a process finishes in the
\* pass that runs its last tick.
Ran(r) ==
  /\ proc' \in [Procs -> ProcessRecords]
  /\ \A p \in Procs : proc'[p].memindex = proc[p].memindex
  /\ \A p \in Procs : proc'[p].no_of_blocks = proc[p].no_of_blocks
  /\ \A p \in Procs \ {r} : /\ proc'[p].Remaining_time = proc[p].Remaining_time
                            /\ proc'[p].State = "FINISHED" <=> proc[p].State = "FINISHED"
  /\ proc'[r].Remaining_time = proc[r].Remaining_time - 1
  /\ IF proc[r].Remaining_time = 1
     THEN proc'[r].State = "FINISHED" /\ mem' = FreeMemoryOf(proc[r])
     ELSE proc'[r].State # "FINISHED" /\ mem' = mem

\* r finishes exactly when its last tick is run.
LEMMA RanHolders ==
  ASSUME SharedInv, EndOfPass, NEW r \in Holders, proc[r].Remaining_time \in Nat \ {0}, Ran(r)
  PROVE  /\ RecordsFilled' /\ MemoryIsOwned' /\ mem' \subseteq Blocks
         /\ Holders' = IF proc[r].Remaining_time = 1 THEN Holders \ {r} ELSE Holders
         /\ Cardinality(Done') =
              Cardinality(Done) + IF proc[r].Remaining_time = 1 THEN 1 ELSE 0
<1>1. r \in Procs /\ received' = received
  BY DEF Holders, EndOfPass
<1>2. \A p \in Procs \ {r} : SameMemory(p)
  BY DEF Ran, SameMemory
<1>3. CASE proc[r].Remaining_time = 1
  <2>1. /\ proc'[r].memindex = proc[r].memindex
        /\ proc'[r].no_of_blocks = proc[r].no_of_blocks
        /\ proc'[r].State = "FINISHED"
        /\ mem' = FreeMemoryOf(proc[r])
    BY <1>1, <1>3 DEF Ran
  <2>2. mem' \subseteq Blocks
    BY <2>1 DEF SharedInv, SharedTypeOK, FreeMemoryOf, MemDealloc
  <2> QED BY <1>1, <1>2, <1>3, <2>1, <2>2, MemoryFreed
<1>4. CASE proc[r].Remaining_time # 1
  <2>1. SameMemory(r)
    BY <1>1, <1>4 DEF Ran, SameMemory, Holders, Holds
  <2>2. mem' = mem /\ mem' \subseteq Blocks
    BY <1>4 DEF Ran, SharedInv, SharedTypeOK
  <2>3. Cardinality(Done) \in Nat
    BY SetsOfReceived, ConstantTypes DEF SharedInv, SharedTypeOK, Done
  <2> QED BY <1>1, <1>2, <1>4, <2>1, <2>2, <2>3, MemoryUnchanged
<1> QED BY <1>3, <1>4

LEMMA RanLeavesWork ==
  ASSUME SharedInv, WorkLeft, EndOfPass, NEW r \in Holders, Ran(r)
  PROVE  WorkLeft'
<1>1. r \in Procs /\ proc[r].Remaining_time \in Nat \ {0}
  BY DEF SharedInv, SharedTypeOK, WorkLeft, Holders
<1>2. Holders' = IF proc[r].Remaining_time = 1 THEN Holders \ {r} ELSE Holders
  BY <1>1, RanHolders
<1>3. ASSUME NEW p \in Procs
      PROVE  proc'[p].Remaining_time >= 0 /\ (p \in Holders' => proc'[p].Remaining_time > 0)
  <2>1. CASE p = r
    BY <1>1, <1>2, <2>1 DEF Ran
  <2>2. CASE p # r
    BY <1>1, <1>2, <2>2 DEF Ran, WorkLeft
  <2> QED BY <2>1, <2>2
<1>4. Holders' \subseteq Procs
  BY DEF Holders
<1> QED BY <1>3, <1>4 DEF WorkLeft

\* The record of a process that is received at the place of its own.
LEMMA ReceivedRecords ==
  ASSUME SharedInv, NEW n \in Messages, Receive(n), NEW r, r = received + 1,
         proc' = [proc EXCEPT ![received + 1] = n]
  PROVE  /\ r \in Procs /\ received \in Nat /\ received' = r
         /\ proc' \in [Procs -> ProcessRecords] /\ proc'[r] = n
         /\ \A p \in Procs \ {r} : proc'[p] = proc[p] /\ SameMemory(p)
<1>1. r \in Procs /\ received \in Nat /\ received' = r
  BY ConstantTypes DEF SharedInv, SharedTypeOK, Receive, Procs
<1>2. proc \in [Procs -> ProcessRecords] /\ n \in ProcessRecords
  BY MessageTypes DEF SharedInv, SharedTypeOK, ProcessRecords
<1>3. /\ proc' \in [Procs -> ProcessRecords] /\ proc'[r] = n
      /\ \A p \in Procs \ {r} : proc'[p] = proc[p]
  BY <1>1, <1>2
<1> QED BY <1>1, <1>3 DEF SameMemory

LEMMA MessagePriority ==
  ASSUME NEW n \in Messages, mode # "SJF"
  PROVE  n.Priority \in 0 .. 10
<1>1. PICK lag \in Lags, run \in RunTimes, priority \in Priorities, b \in BlockCounts :
        n = Message(lag, run, priority, b)
  BY DEF Messages
<1>2. n.Priority = priority
  BY <1>1 DEF Message
<1> QED BY <1>2, PrioritiesAssumption

LEMMA AcceptLeavesWork ==
  ASSUME SharedInv, WorkLeft, NEW n \in Messages, NEW r \in Procs,
         proc'[r] = n, Holders' = Holders \cup {r},
         \A p \in Procs \ {r} : proc'[p].Remaining_time = proc[p].Remaining_time
  PROVE  WorkLeft'
<1>1. n.Remaining_time \in Nat \ {0}
  BY MessageTypes, RunTimesAssumption DEF SharedInv
<1>2. ASSUME NEW p \in Procs
      PROVE  proc'[p].Remaining_time >= 0 /\ (p \in Holders' => proc'[p].Remaining_time > 0)
  <2>1. CASE p = r
    BY <1>1, <2>1
  <2>2. CASE p # r
    BY <2>2 DEF WorkLeft
  <2> QED BY <2>1, <2>2
<1> QED BY <1>2 DEF WorkLeft, Holders

LEMMA RefuseLeavesWork ==
  ASSUME SharedInv, WorkLeft, Refuse
  PROVE  WorkLeft'
<1>1. PICK r : r = received'
  OBVIOUS
<1>2. /\ Holders' = Holders /\ r \in Procs
      /\ proc'[r].memindex = NoPlace /\ proc'[r].Remaining_time \in Nat \ {0}
      /\ \A p \in Procs \ {r} : proc'[p] = proc[p]
  BY <1>1, RefuseInv
<1>3. ASSUME NEW p \in Procs
      PROVE  proc'[p].Remaining_time >= 0 /\ (p \in Holders' => proc'[p].Remaining_time > 0)
  <2>1. CASE p = r
    BY <1>2, <2>1
  <2>2. CASE p # r
    BY <1>2, <2>2 DEF WorkLeft
  <2> QED BY <2>1, <2>2
<1> QED BY <1>3 DEF WorkLeft, Holders

LEMMA StutterInv ==
  ASSUME SharedInv, UNCHANGED sharedVars
  PROVE  /\ SharedInv' /\ Holders' = Holders /\ Done' = Done
         /\ proc' = proc /\ received' = received
<1>1. UNCHANGED <<follow, phase, received, proc, mem, finished_process_count,
                  cpu_waiting_time, total_waiting_time, ups, log, delay, missed>>
  BY DEF sharedVars, files, history
<1>2. Holders' = Holders /\ Done' = Done
  BY <1>1 DEF Holders, Holds, Done
<1>3. RecordsFilled' /\ MemoryIsOwned'
  BY <1>1 DEF SharedInv, RecordsFilled, MemoryIsOwned, Owned, Holds
<1>4. SharedTypeOK'
  BY <1>1 DEF SharedInv, SharedTypeOK
<1> QED BY <1>1, <1>2, <1>3, <1>4 DEF SharedInv, CountIsOfDone, StopsOnlyWhenDone

-----------------------------------------------------------------------------
\* The accounts: what a step does to the numbers of scheduler.log and
\* scheduler.perf.

\* The account of a process, and the two totals.  During a pass the tick that
\* has begun is not charged yet.
AccountOf(p) == ChargedFor(p) /\ TurnaroundOf(p)

ExecutedTimes == [p \in Procs |-> Executed(p)]
WaitingTimes == [p \in Finished |-> proc[p].Waiting_time]

Busy ==
  follow - cpu_waiting_time =
    SumFunction(ExecutedTimes) + missed + IF phase = "receive" THEN 1 ELSE 0

\* Nobody runs before it is received, and time is never given back.
ExecutedIsNat ==
  /\ \A p \in Procs : proc[p].Remaining_time <= proc[p].Running_time
  /\ \A p \in Procs : p > received => proc[p].Remaining_time = proc[p].Running_time

Ledger == ExecutedIsNat /\ Busy /\ WaitingTotal

\* A step leaves the times of p alone.
SameTimes(p) ==
  /\ proc'[p].Arrival_time = proc[p].Arrival_time
  /\ proc'[p].Running_time = proc[p].Running_time
  /\ proc'[p].Remaining_time = proc[p].Remaining_time
  /\ proc'[p].Waiting_time = proc[p].Waiting_time
  /\ proc'[p].TA = proc[p].TA

\* A step charges p with so many ticks, run or waited.
ChargedTicks(p, ticks) ==
  /\ proc'[p].memindex = proc[p].memindex
  /\ proc'[p].Arrival_time = proc[p].Arrival_time
  /\ proc'[p].Running_time = proc[p].Running_time
  /\ proc'[p].Waiting_time - proc'[p].Remaining_time =
       proc[p].Waiting_time - proc[p].Remaining_time + ticks

\* What a turn may do to a process: nothing, unless it holds memory; charge it
\* with the tick; or end it, before the tick or after it.
Settled(p) ==
  \/ /\ p \notin Holders /\ SameTimes(p)
     /\ proc'[p].memindex = proc[p].memindex
     /\ proc'[p].State = "FINISHED" <=> proc[p].State = "FINISHED"
  \/ p \in Holders /\ ChargedTicks(p, 1) /\ proc'[p].State # "FINISHED"
  \/ \E ticks \in 0 .. 1 :
       /\ p \in Holders /\ ChargedTicks(p, ticks)
       /\ proc'[p].State = "FINISHED" /\ proc'[p].Remaining_time = 0
       /\ proc'[p].TA = follow + ticks - proc[p].Arrival_time

\* The types of the times, one by one.
LEMMA TimesAreNumbers ==
  ASSUME SharedTypeOK, NEW p \in Procs
  PROVE  /\ proc[p].Arrival_time \in Int /\ proc[p].Running_time \in Nat
         /\ proc[p].Remaining_time \in Int /\ proc[p].Waiting_time \in Nat
         /\ proc[p].TA \in Int /\ delay[p] \in Int
         /\ follow \in Nat /\ missed \in Nat /\ cpu_waiting_time \in Nat
         /\ total_waiting_time \in Nat
BY DEF SharedTypeOK

\* Whatever a turn does of this, the account of the process stays right.
LEMMA SettledAccount ==
  ASSUME SharedTypeOK, SharedTypeOK', NEW p \in Procs, AccountOf(p), Settled(p),
         phase = "receive", EndOfPass
  PROVE  AccountOf(p)'
<1>1. follow' = follow /\ delay' = delay /\ phase' # "receive"
  BY DEF EndOfPass, history
<1>2. /\ proc[p].Arrival_time \in Int /\ proc[p].Running_time \in Nat
      /\ proc[p].Remaining_time \in Int /\ proc[p].Waiting_time \in Nat
      /\ proc[p].TA \in Int /\ delay[p] \in Int /\ follow \in Nat
  BY TimesAreNumbers
<1>3. proc'[p].Remaining_time \in Int /\ proc'[p].Waiting_time \in Nat
  BY DEF SharedTypeOK
<1>4. CASE /\ p \notin Holders /\ SameTimes(p)
           /\ proc'[p].memindex = proc[p].memindex
           /\ proc'[p].State = "FINISHED" <=> proc[p].State = "FINISHED"
  BY <1>1, <1>4 DEF AccountOf, ChargedFor, TurnaroundOf, Executed, Holders, Holds, SameTimes
<1>5. CASE p \in Holders /\ ChargedTicks(p, 1) /\ proc'[p].State # "FINISHED"
  BY <1>1, <1>2, <1>3, <1>5
     DEF AccountOf, ChargedFor, TurnaroundOf, Executed, Holders, Holds, ChargedTicks
<1>6. ASSUME NEW ticks \in 0 .. 1,
             p \in Holders, ChargedTicks(p, ticks),
             proc'[p].State = "FINISHED", proc'[p].Remaining_time = 0,
             proc'[p].TA = follow + ticks - proc[p].Arrival_time
      PROVE  AccountOf(p)'
  <2>1. proc[p].Waiting_time + (proc[p].Running_time - proc[p].Remaining_time) + delay[p]
          = follow - proc[p].Arrival_time
    BY <1>2, <1>6 DEF AccountOf, ChargedFor, Executed, Holders, Holds
  <2>2. /\ proc'[p].Running_time = proc[p].Running_time
        /\ proc'[p].Waiting_time - 0 = proc[p].Waiting_time - proc[p].Remaining_time + ticks
    BY <1>6 DEF ChargedTicks
  <2>3. ticks \in Int
    BY <1>6
  <2>4. proc'[p].TA = proc'[p].Running_time + proc'[p].Waiting_time + delay[p]
    BY <1>2, <1>3, <1>6, <2>1, <2>2, <2>3
  <2> QED BY <1>1, <1>6, <2>4 DEF AccountOf, ChargedFor, TurnaroundOf, Holds
<1> QED BY <1>4, <1>5, <1>6 DEF Settled

\* The sums in the accounts are sums of natural values over finite sets.
LEMMA SumsAreOfFinite ==
  ASSUME SharedTypeOK, ExecutedIsNat
  PROVE  /\ IsFiniteSet(Procs) /\ IsFiniteSet(Finished)
         /\ ExecutedTimes \in [Procs -> Nat] /\ WaitingTimes \in [Finished -> Nat]
         /\ SumFunction(ExecutedTimes) \in Nat
<1>1. IsFiniteSet(Procs)
  BY ConstantTypes, FS_Interval DEF Procs
<1>2. IsFiniteSet(Finished)
  BY <1>1, FS_Subset DEF Finished
<1>3. \A p \in Procs : Executed(p) \in Nat /\ proc[p].Waiting_time \in Nat
  BY TimesAreNumbers DEF ExecutedIsNat, Executed
<1>4. ExecutedTimes \in [Procs -> Nat] /\ WaitingTimes \in [Finished -> Nat]
  BY <1>3 DEF ExecutedTimes, WaitingTimes, Finished
<1> QED BY <1>1, <1>2, <1>4, SumCounts

\* A step in which no process runs.
LEMMA ExecutedUnchanged ==
  ASSUME \A p \in Procs : /\ proc'[p].Running_time = proc[p].Running_time
                          /\ proc'[p].Remaining_time = proc[p].Remaining_time
  PROVE  ExecutedTimes' = ExecutedTimes
BY DEF ExecutedTimes, Executed

\* A step in which r runs for a tick.
LEMMA ExecutedOneMore ==
  ASSUME SharedTypeOK, ExecutedIsNat, SharedTypeOK', ExecutedIsNat', NEW r \in Procs,
         \A p \in Procs :
           /\ proc'[p].Running_time = proc[p].Running_time
           /\ proc'[p].Remaining_time = proc[p].Remaining_time - IF p = r THEN 1 ELSE 0
  PROVE  SumFunction(ExecutedTimes)' = SumFunction(ExecutedTimes) + 1
<1>1. PICK f, g : f = ExecutedTimes /\ g = ExecutedTimes'
  OBVIOUS
<1>2. IsFiniteSet(Procs) /\ f \in [Procs -> Nat]
  BY <1>1, SumsAreOfFinite
<1>3. g \in [Procs -> Nat]
  <2>1. \A p \in Procs : /\ proc'[p].Running_time \in Nat /\ proc'[p].Remaining_time \in Int
                         /\ proc'[p].Remaining_time <= proc'[p].Running_time
    BY DEF SharedTypeOK, ExecutedIsNat
  <2>2. \A p \in Procs : Executed(p)' \in Nat
    BY <2>1 DEF Executed
  <2> QED BY <1>1, <2>2 DEF ExecutedTimes
<1>4. \A p \in Procs : /\ f[p] = proc[p].Running_time - proc[p].Remaining_time
                       /\ g[p] = proc'[p].Running_time - proc'[p].Remaining_time
                       /\ proc[p].Running_time \in Nat /\ proc[p].Remaining_time \in Int
  BY <1>1, TimesAreNumbers DEF ExecutedTimes, Executed
<1>5. g[r] = f[r] + 1 /\ \A p \in Procs \ {r} : g[p] = f[p]
  BY <1>4
<1>6. SumFunction(g) = SumFunction(f) + g[r] - f[r]
  BY <1>2, <1>3, <1>5, SumOfOneChanged
<1>7. SumFunction(f) \in Nat /\ f[r] \in Nat
  BY <1>2, SumCounts
<1> QED BY <1>1, <1>5, <1>6, <1>7

\* The total of the waiting times, whether or not a process is ended.
LEMMA WaitingTotalKept ==
  ASSUME WaitingTotal, Finished' = Finished, total_waiting_time' = total_waiting_time,
         \A p \in Finished : proc'[p].Waiting_time = proc[p].Waiting_time
  PROVE  WaitingTotal'
<1>1. WaitingTimes' = WaitingTimes
  BY DEF WaitingTimes
<1> QED BY <1>1 DEF WaitingTotal, WaitingTimes

\* f is finished, and its waiting time is added to the total.
LEMMA WaitingTotalGrows ==
  ASSUME SharedTypeOK, ExecutedIsNat, SharedTypeOK', WaitingTotal,
         NEW f \in Procs \ Finished, Finished' = Finished \cup {f},
         total_waiting_time' = total_waiting_time + proc'[f].Waiting_time,
         \A p \in Finished : proc'[p].Waiting_time = proc[p].Waiting_time
  PROVE  WaitingTotal'
<1>1. PICK old, new, done : old = WaitingTimes /\ new = WaitingTimes' /\ done = Finished
  OBVIOUS
<1>2. IsFiniteSet(done) /\ old \in [done -> Nat] /\ f \notin done
  BY <1>1, SumsAreOfFinite
<1>3. new = [p \in done \cup {f} |-> proc'[p].Waiting_time]
  BY <1>1 DEF WaitingTimes
<1>4. \A p \in done \cup {f} : proc'[p].Waiting_time \in Nat
  BY <1>1 DEF SharedTypeOK, Finished
<1>5. new \in [done \cup {f} -> Nat] /\ new[f] = proc'[f].Waiting_time
  BY <1>3, <1>4
<1>6. \A p \in done : new[p] = old[p]
  BY <1>1, <1>3 DEF WaitingTimes
<1>7. SumFunction(new) = SumFunction(old) + new[f]
  BY <1>2, <1>5, <1>6, SumOfOneMore
<1> QED BY <1>1, <1>5, <1>7 DEF WaitingTotal, WaitingTimes

\* A step that runs processes that have been received.
LEMMA ExecutedIsNatKept ==
  ASSUME SharedTypeOK, ExecutedIsNat, received' = received,
         \A p \in Procs : /\ proc'[p].Running_time = proc[p].Running_time
                          /\ proc'[p].Remaining_time \in Int
                          /\ proc'[p].Remaining_time <= proc[p].Remaining_time,
         \A p \in Procs : p > received => proc'[p].Remaining_time = proc[p].Remaining_time
  PROVE  ExecutedIsNat'
<1>1. \A p \in Procs : proc[p].Running_time \in Nat /\ proc[p].Remaining_time \in Int
  BY TimesAreNumbers
<1> QED BY <1>1 DEF ExecutedIsNat

\* Before the first pass all accounts are empty.
LEMMA InitAccounts == SharedInit => Ledger /\ \A p \in Procs : AccountOf(p)
<1> SUFFICES ASSUME SharedInit PROVE Ledger /\ \A p \in Procs : AccountOf(p)
  OBVIOUS
<1>1. SharedTypeOK /\ Holders = {}
  BY SharedInitInv DEF SharedInv
<1>2. \A p \in Procs : proc[p] = Unborn
  BY DEF SharedInit
<1>3. \A p \in Procs : /\ proc[p].State = "STOPPED" /\ proc[p].memindex = NoPlace
                       /\ proc[p].Running_time = 0 /\ proc[p].Remaining_time = 0
  BY <1>2 DEF Unborn
<1>4. ExecutedIsNat
  BY <1>3 DEF ExecutedIsNat
<1>5. SumFunction(ExecutedTimes) = 0
  <2>1. PICK f : f = ExecutedTimes
    OBVIOUS
  <2>2. IsFiniteSet(Procs) /\ f \in [Procs -> Nat]
    BY <1>1, <1>4, <2>1, SumsAreOfFinite
  <2>3. \A p \in Procs : f[p] = 0
    BY <1>3, <2>1 DEF ExecutedTimes, Executed
  <2> QED BY <2>1, <2>2, <2>3, SumOfNothing
<1>6. Busy
  <2>1. follow = cpu_waiting_time /\ missed = 0 /\ phase # "receive" /\ follow \in Nat
    BY <1>1 DEF SharedInit, SharedTypeOK
  <2> QED BY <1>5, <2>1 DEF Busy
<1>7. WaitingTotal
  <2>1. PICK f, done : f = WaitingTimes /\ done = Finished
    OBVIOUS
  <2>2. IsFiniteSet(done) /\ f \in [done -> Nat]
    BY <1>1, <1>4, <2>1, SumsAreOfFinite
  <2>3. done = {}
    BY <1>3, <2>1 DEF Finished
  <2>4. SumFunction(f) = 0
    BY <2>2, <2>3, SumOfNothing
  <2> QED BY <2>1, <2>4 DEF WaitingTotal, WaitingTimes, SharedInit
<1>8. \A p \in Procs : AccountOf(p)
  BY <1>3 DEF AccountOf, ChargedFor, TurnaroundOf, Holds
<1> QED BY <1>4, <1>6, <1>7, <1>8 DEF Ledger

\* The clock goes on: one tick is to be charged, and those without a pass are
\* put down as delay.
LEMMA TickAccounts ==
  ASSUME SharedInv, Ledger, Tick
  PROVE  Ledger' /\ \A p \in Procs : AccountOf(p) => AccountOf(p)'
<1>1. PICK gap \in 1 .. MaxMissed + 1 - missed :
        /\ follow' = follow + gap
        /\ delay' = [p \in Procs |-> IF Holds(p) THEN delay[p] + gap - 1 ELSE delay[p]]
        /\ missed' = missed + gap - 1
  BY DEF Tick
<1>2. /\ phase = "poll" /\ phase' = "receive" /\ proc' = proc /\ received' = received
      /\ cpu_waiting_time' = cpu_waiting_time /\ total_waiting_time' = total_waiting_time
  BY DEF Tick
<1>3. SharedTypeOK /\ ExecutedIsNat /\ gap \in Int
  BY TimesAssumption DEF SharedInv, Ledger
<1>4. ExecutedIsNat'
  BY <1>2, <1>3 DEF ExecutedIsNat
<1>5. Busy'
  <2>1. ExecutedTimes' = ExecutedTimes
    BY <1>2, ExecutedUnchanged
  <2>2. SumFunction(ExecutedTimes) \in Nat
    BY <1>3, SumsAreOfFinite
  <2>3. follow \in Nat /\ missed \in Nat /\ cpu_waiting_time \in Nat
    BY <1>3 DEF SharedTypeOK
  <2>4. follow - cpu_waiting_time = SumFunction(ExecutedTimes) + missed
    BY <1>2, <2>2, <2>3 DEF Ledger, Busy
  <2>5. follow' - cpu_waiting_time' = SumFunction(ExecutedTimes) + missed' + 1
    BY <1>1, <1>2, <1>3, <2>2, <2>3, <2>4
  <2> QED BY <1>2, <2>1, <2>5 DEF Busy
<1>6. WaitingTotal'
  BY <1>2, WaitingTotalKept DEF Ledger, Finished
<1>7. ASSUME NEW p \in Procs, AccountOf(p) PROVE AccountOf(p)'
  <2>1. /\ proc[p].Arrival_time \in Int /\ proc[p].Running_time \in Nat
        /\ proc[p].Remaining_time \in Int /\ proc[p].Waiting_time \in Nat
        /\ delay[p] \in Int /\ follow \in Nat
    BY <1>3, TimesAreNumbers
  <2>2. delay'[p] = IF Holds(p) THEN delay[p] + gap - 1 ELSE delay[p]
    BY <1>1
  <2>3. CASE Holds(p)
    <3>1. proc[p].Waiting_time + Executed(p) + delay[p] = follow - proc[p].Arrival_time + 1
      BY <1>2, <1>7, <2>3 DEF AccountOf, ChargedFor
    <3>2. Executed(p) \in Int
      BY <2>1 DEF Executed
    <3>3. proc[p].Waiting_time + Executed(p) + delay'[p] = follow' - proc[p].Arrival_time
      <4>1. delay'[p] = delay[p] + gap - 1 /\ follow' = follow + gap
        BY <1>1, <2>2, <2>3
      <4>2. PICK w \in Int, e \in Int, a \in Int :
              w = proc[p].Waiting_time /\ e = Executed(p) /\ a = proc[p].Arrival_time
        BY <2>1, <3>2
      <4> QED BY <1>3, <2>1, <3>1, <4>1, <4>2
    <3>4. Executed(p)' = Executed(p)
      BY <1>2 DEF Executed
    <3>5. follow' - proc[p].Arrival_time + 0 = follow' - proc[p].Arrival_time
      BY <1>1, <1>3, <2>1
    <3> QED BY <1>2, <2>3, <3>3, <3>4, <3>5 DEF AccountOf, ChargedFor, TurnaroundOf, Holds
  <2>4. CASE ~Holds(p)
    BY <1>2, <1>7, <2>2, <2>4 DEF AccountOf, ChargedFor, TurnaroundOf, Holds
  <2> QED BY <2>3, <2>4
<1> QED BY <1>4, <1>5, <1>6, <1>7 DEF Ledger

\* A process is received, with memory or without: what it waited before its
\* receipt is delay.
LEMMA ReceiveAccounts ==
  ASSUME SharedInv, Ledger, NEW n \in Messages, Receive(n), NEW r \in Procs, r = received + 1,
         proc'[r] = n, SharedTypeOK',
         \A p \in Procs \ {r} : SameTimes(p) /\ SameMemory(p)
  PROVE  Ledger' /\ \A p \in Procs : p = r \/ AccountOf(p) => AccountOf(p)'
<1>1. /\ phase = "receive" /\ phase' = "receive" /\ received' = r /\ follow' = follow
      /\ cpu_waiting_time' = cpu_waiting_time /\ total_waiting_time' = total_waiting_time
      /\ missed' = missed /\ delay' = [delay EXCEPT ![r] = follow - n.Arrival_time]
  BY DEF Receive
<1>2. SharedTypeOK /\ ExecutedIsNat /\ received \in Nat /\ delay \in [Procs -> Int]
  <2>1. SharedTypeOK /\ ExecutedIsNat
    BY DEF SharedInv, Ledger
  <2>2. received \in Nat /\ delay \in [Procs -> Int]
    BY <2>1, ConstantTypes DEF SharedTypeOK
  <2> QED BY <2>1, <2>2
<1>3. /\ n.Remaining_time = n.Running_time /\ n.Waiting_time = 0 /\ n.State = "STOPPED"
      /\ n.Running_time \in Nat /\ n.Arrival_time \in Int
  BY MessageTypes, RunTimesAssumption DEF SharedInv
<1>4. proc[r].Remaining_time = proc[r].Running_time /\ proc[r].State # "FINISHED"
  <2>1. r > received
    BY <1>2
  <2> QED BY <2>1 DEF Ledger, ExecutedIsNat, SharedInv, RecordsFilled
<1>5. \A p \in Procs : Executed(p)' = Executed(p)
  <2>1. Executed(r) = 0 /\ Executed(r)' = 0
    BY <1>2, <1>3, <1>4, TimesAreNumbers DEF Executed
  <2> QED BY <2>1 DEF SameTimes, Executed
<1>6. ExecutedIsNat'
  <2>1. \A p \in Procs : p \in Nat
    BY DEF Procs
  <2>2. \A p \in Procs \ {r} : p > received' => p > received
    BY <1>1, <1>2, <2>1
  <2>3. r \in Nat /\ ~(r > received')
    BY <1>1, <2>1
  <2>4. ASSUME NEW p \in Procs
        PROVE  /\ proc'[p].Remaining_time <= proc'[p].Running_time
               /\ p > received' => proc'[p].Remaining_time = proc'[p].Running_time
    <3>1. CASE p = r
      BY <1>3, <2>3, <3>1
    <3>2. CASE p # r
      BY <1>2, <2>2, <3>2 DEF ExecutedIsNat, SameTimes
    <3> QED BY <3>1, <3>2
  <2> QED BY <2>4 DEF ExecutedIsNat
<1>7. Busy'
  <2>1. ExecutedTimes' = ExecutedTimes
    BY <1>5 DEF ExecutedTimes
  <2> QED BY <1>1, <2>1 DEF Ledger, Busy
<1>8. WaitingTotal'
  <2>1. Finished' = Finished /\ r \notin Finished
    BY <1>3, <1>4 DEF Finished, SameMemory
  <2>2. \A p \in Finished : proc'[p].Waiting_time = proc[p].Waiting_time
    BY <2>1 DEF Finished, SameTimes
  <2> QED BY <1>1, <2>1, <2>2, WaitingTotalKept DEF Ledger
<1>9. AccountOf(r)'
  <2>1. delay'[r] = follow - n.Arrival_time
    BY <1>1, <1>2
  <2>2. Executed(r)' = 0
    BY <1>3 DEF Executed
  <2>3. follow \in Nat
    BY <1>2 DEF SharedTypeOK
  <2> QED BY <1>1, <1>3, <2>1, <2>2, <2>3 DEF AccountOf, ChargedFor, TurnaroundOf
<1>10. ASSUME NEW p \in Procs, p # r, AccountOf(p) PROVE AccountOf(p)'
  <2>1. delay'[p] = delay[p]
    BY <1>1, <1>2, <1>10
  <2> QED BY <1>1, <1>5, <1>10, <2>1
          DEF AccountOf, ChargedFor, TurnaroundOf, Holds, SameTimes, SameMemory
<1> QED BY <1>6, <1>7, <1>8, <1>9, <1>10 DEF Ledger

\* A process without memory enters no account.
LEMMA RefuseAccounts ==
  ASSUME SharedInv, Ledger, Refuse
  PROVE  Ledger' /\ \A p \in Procs : AccountOf(p) => AccountOf(p)'
<1>1. PICK n \in Messages : Receive(n) /\ proc' = [proc EXCEPT ![received + 1] = n]
  BY DEF Refuse
<1>2. PICK r : r = received + 1
  OBVIOUS
<1>3. /\ r \in Procs /\ proc'[r] = n
      /\ \A p \in Procs \ {r} : proc'[p] = proc[p] /\ SameMemory(p)
  BY <1>1, <1>2, ReceivedRecords
<1>4. \A p \in Procs \ {r} : SameTimes(p) /\ SameMemory(p)
  BY <1>3 DEF SameTimes
<1>5. SharedTypeOK'
  BY RefuseInv DEF SharedInv
<1> QED BY <1>1, <1>2, <1>3, <1>4, <1>5, ReceiveAccounts

\* A turn in which r runs its tick keeps the time that was not idle.
LEMMA RanBusy ==
  ASSUME SharedTypeOK, SharedTypeOK', ExecutedIsNat, Busy, phase = "receive", EndOfPass,
         NEW r \in Procs, cpu_waiting_time' = cpu_waiting_time,
         \A p \in Procs :
           /\ proc'[p].Running_time = proc[p].Running_time
           /\ proc'[p].Remaining_time = proc[p].Remaining_time - IF p = r THEN 1 ELSE 0,
         r <= received
  PROVE  ExecutedIsNat' /\ Busy'
<1>1. follow' = follow /\ missed' = missed /\ phase' # "receive" /\ received' = received
  BY DEF EndOfPass, history
<1>2. /\ follow \in Nat /\ missed \in Nat /\ cpu_waiting_time \in Nat
      /\ SumFunction(ExecutedTimes) \in Nat
  BY SumsAreOfFinite DEF SharedTypeOK
<1>3. ExecutedIsNat'
  <2>1. \A p \in Procs : proc[p].Remaining_time \in Int
    BY TimesAreNumbers
  <2>2. \A p \in Procs : p > received => p # r
    BY ConstantTypes DEF SharedTypeOK, Procs
  <2>3. \A p \in Procs : /\ proc'[p].Remaining_time \in Int
                         /\ proc'[p].Remaining_time <= proc[p].Remaining_time
    BY <2>1
  <2>4. \A p \in Procs : p > received => proc'[p].Remaining_time = proc[p].Remaining_time
    BY <2>1, <2>2
  <2> QED BY <1>1, <2>3, <2>4, ExecutedIsNatKept
<1>4. SumFunction(ExecutedTimes)' = SumFunction(ExecutedTimes) + 1
  BY <1>3, ExecutedOneMore
<1>5. follow - cpu_waiting_time = SumFunction(ExecutedTimes) + missed + 1
  BY DEF Busy
<1>6. follow - cpu_waiting_time = (SumFunction(ExecutedTimes) + 1) + missed + 0
  BY <1>2, <1>5
<1> QED BY <1>1, <1>3, <1>4, <1>6 DEF Busy

\* A turn in which nothing runs is counted as idle.
LEMMA IdleBusy ==
  ASSUME SharedTypeOK, ExecutedIsNat, Busy, phase = "receive", EndOfPass,
         cpu_waiting_time' = cpu_waiting_time + 1,
         \A p \in Procs : /\ proc'[p].Running_time = proc[p].Running_time
                          /\ proc'[p].Remaining_time = proc[p].Remaining_time
  PROVE  ExecutedIsNat' /\ Busy'
<1>1. follow' = follow /\ missed' = missed /\ phase' # "receive" /\ received' = received
  BY DEF EndOfPass, history
<1>2. /\ follow \in Nat /\ missed \in Nat /\ cpu_waiting_time \in Nat
      /\ SumFunction(ExecutedTimes) \in Nat
  BY SumsAreOfFinite DEF SharedTypeOK
<1>3. ExecutedIsNat'
  BY <1>1 DEF ExecutedIsNat
<1>4. ExecutedTimes' = ExecutedTimes
  BY ExecutedUnchanged
<1>5. follow - cpu_waiting_time = SumFunction(ExecutedTimes) + missed + 1
  BY DEF Busy
<1>6. follow - (cpu_waiting_time + 1) = SumFunction(ExecutedTimes) + missed + 0
  BY <1>2, <1>5
<1> QED BY <1>1, <1>3, <1>4, <1>6 DEF Busy

\* An account that is right in every phase is what the reports say.
LEMMA LedgerIsUtilization ==
  ASSUME SharedTypeOK, Ledger
  PROVE  Utilization
<1>1. follow - cpu_waiting_time = SumFunction(ExecutedTimes) + missed + 0
       \/ phase = "receive"
  BY DEF Ledger, Busy
<1>2. SumFunction(ExecutedTimes) \in Nat /\ missed \in Nat
  BY SumsAreOfFinite DEF Ledger, SharedTypeOK
<1> QED BY <1>1, <1>2 DEF Utilization, ExecutedTimes

\* The accounts of the processes and the totals are all that is reported.
LEMMA LedgerIsAccounts ==
  ASSUME SharedTypeOK, Ledger, \A p \in Procs : AccountOf(p)
  PROVE  Accounts
BY LedgerIsUtilization DEF Ledger, AccountOf, Accounts, Charged, Turnaround

\* A step that changes nothing.
LEMMA AccountsStutter ==
  ASSUME UNCHANGED sharedVars, Ledger
  PROVE  Ledger' /\ \A p \in Procs : AccountOf(p) => AccountOf(p)'
BY DEF sharedVars, files, history, Ledger, ExecutedIsNat, Busy, WaitingTotal, ExecutedTimes,
       Executed, Finished, AccountOf, ChargedFor, TurnaroundOf, Holds

\* What the operators do to the times, apart from those that they charge.
LEMMA SetStateTimes ==
  ASSUME NEW procs \in [Procs -> ProcessRecords], NEW p \in Procs, NEW s \in States
  PROVE  \A x \in Procs :
           /\ SetState(procs, p, s)[x].Arrival_time = procs[x].Arrival_time
           /\ SetState(procs, p, s)[x].Waiting_time = procs[x].Waiting_time
           /\ SetState(procs, p, s)[x].TA = procs[x].TA
BY DEF SetState, ProcessRecords

\* Charge changes the waiting times of those that wait.
LEMMA ChargeTimes ==
  ASSUME NEW procs \in [Procs -> ProcessRecords], NEW r \in Procs, NEW S
  PROVE  \A x \in Procs :
           /\ Charge(procs, r, S)[x].Arrival_time = procs[x].Arrival_time
           /\ Charge(procs, r, S)[x].TA = procs[x].TA
           /\ Charge(procs, r, S)[x].Waiting_time =
                procs[x].Waiting_time + IF x # r /\ x \in S THEN 1 ELSE 0
<1> SUFFICES ASSUME NEW x \in Procs
             PROVE  /\ Charge(procs, r, S)[x].Arrival_time = procs[x].Arrival_time
                    /\ Charge(procs, r, S)[x].TA = procs[x].TA
                    /\ Charge(procs, r, S)[x].Waiting_time =
                         procs[x].Waiting_time + IF x # r /\ x \in S THEN 1 ELSE 0
  OBVIOUS
<1>1. CASE x = r
  BY <1>1 DEF Charge, ProcessRecords
<1>2. CASE x # r /\ x \in S
  BY <1>2 DEF Charge, ProcessRecords
<1>3. CASE x # r /\ x \notin S
  BY <1>3 DEF Charge, ProcessRecords
<1> QED BY <1>1, <1>2, <1>3

\* Finish sets the turnaround time of the process that is finished.
LEMMA FinishTimes ==
  ASSUME NEW procs \in [Procs -> ProcessRecords], NEW p \in Procs, NEW time \in Int
  PROVE  \A x \in Procs :
           /\ Finish(procs, p, time)[x].Arrival_time = procs[x].Arrival_time
           /\ Finish(procs, p, time)[x].Waiting_time = procs[x].Waiting_time
           /\ Finish(procs, p, time)[x].TA =
                IF x = p THEN time - procs[x].Arrival_time ELSE procs[x].TA
BY DEF Finish, ProcessRecords

\* Records with the times of the state, but for the turnaround times of the
\* processes in F, which are ended at that time.
KeptTimes(procs, F, time) ==
  \A p \in Procs :
    /\ procs[p].Arrival_time = proc[p].Arrival_time
    /\ procs[p].Waiting_time = proc[p].Waiting_time
    /\ procs[p].TA = IF p \in F THEN time - proc[p].Arrival_time ELSE proc[p].TA

\* The records of the state, with nobody ended.
LEMMA NothingKept ==
  ASSUME NEW time
  PROVE  KeptTimes(proc, {}, time)
BY DEF KeptTimes

\* A state that is set has no effect on the times.
LEMMA SetStateKeepsTimes ==
  ASSUME NEW procs \in [Procs -> ProcessRecords], NEW F, NEW time, KeptTimes(procs, F, time),
         NEW p \in Procs, NEW s \in States
  PROVE  KeptTimes(SetState(procs, p, s), F, time)
<1>1. PICK set : set = SetState(procs, p, s)
  OBVIOUS
<1>2. \A x \in Procs : /\ set[x].Arrival_time = procs[x].Arrival_time
                       /\ set[x].Waiting_time = procs[x].Waiting_time
                       /\ set[x].TA = procs[x].TA
  BY <1>1, SetStateTimes
<1>3. KeptTimes(set, F, time)
  BY <1>2 DEF KeptTimes
<1> QED BY <1>1, <1>3

\* Finish sets the turnaround time of p and no other time.
LEMMA FinishSetsTime ==
  ASSUME NEW procs \in [Procs -> ProcessRecords], NEW time \in Int, KeptTimes(procs, {}, time),
         NEW p \in Procs
  PROVE  KeptTimes(Finish(procs, p, time), {p}, time)
<1>1. PICK set : set = Finish(procs, p, time)
  OBVIOUS
<1>2. \A x \in Procs :
        /\ set[x].Arrival_time = procs[x].Arrival_time
        /\ set[x].Waiting_time = procs[x].Waiting_time
        /\ set[x].TA = IF x = p THEN time - procs[x].Arrival_time ELSE procs[x].TA
  BY <1>1, FinishTimes
<1>3. KeptTimes(set, {p}, time)
  BY <1>2 DEF KeptTimes
<1> QED BY <1>1, <1>3

\* The processes in F are ended before the tick, with no time left; r runs and
\* the others that hold memory wait.
ChargedAll(r, F) ==
  \A p \in Procs :
    /\ proc'[p].memindex = proc[p].memindex
    /\ proc'[p].State = "FINISHED" <=> p \in F \/ proc[p].State = "FINISHED"
    /\ proc'[p].Arrival_time = proc[p].Arrival_time
    /\ proc'[p].Running_time = proc[p].Running_time
    /\ proc'[p].Remaining_time = proc[p].Remaining_time - IF p = r THEN 1 ELSE 0
    /\ proc'[p].Waiting_time =
         proc[p].Waiting_time + IF p # r /\ p \in Holders \ F THEN 1 ELSE 0
    /\ proc'[p].TA = IF p \in F THEN follow - proc[p].Arrival_time ELSE proc[p].TA

\* Charge does that to records in which the processes in F are ended.
LEMMA ChargeChargesAll ==
  ASSUME SharedTypeOK, NEW procs \in [Procs -> ProcessRecords], NEW F,
         KeptTimes(procs, F, follow), NEW r \in Procs, NEW S, S \cup {r} = Holders \ F,
         \A p \in Procs :
           /\ procs[p].memindex = proc[p].memindex
           /\ procs[p].Running_time = proc[p].Running_time
           /\ procs[p].Remaining_time = proc[p].Remaining_time
           /\ procs[p].State = "FINISHED" <=> p \in F \/ proc[p].State = "FINISHED",
         proc' = Charge(procs, r, S)
  PROVE  ChargedAll(r, F)
<1>1. PICK charged : charged = Charge(procs, r, S)
  OBVIOUS
<1>2. \A p \in Procs :
        /\ charged[p].memindex = procs[p].memindex
        /\ charged[p].State = procs[p].State
        /\ charged[p].Running_time = procs[p].Running_time
        /\ charged[p].Remaining_time = procs[p].Remaining_time - IF p = r THEN 1 ELSE 0
  BY <1>1, ChargeRecords
<1>3. \A p \in Procs :
        /\ charged[p].Arrival_time = procs[p].Arrival_time
        /\ charged[p].TA = procs[p].TA
        /\ charged[p].Waiting_time =
             procs[p].Waiting_time + IF p # r /\ p \in S THEN 1 ELSE 0
  BY <1>1, ChargeTimes
<1>4. proc' = charged
  BY <1>1
<1>5. \A p \in Procs : p # r => (p \in S <=> p \in Holders \ F)
  OBVIOUS
<1> QED BY <1>2, <1>3, <1>4, <1>5 DEF ChargedAll, KeptTimes

\* All accounts stay right when the tick is charged so, or counted as idle when
\* nobody is left to run.
LEMMA ChargedAllAccounts ==
  ASSUME SharedInv, SharedTypeOK', Ledger, phase = "receive", EndOfPass,
         NEW f, NEW F, (F = {f} /\ f \in Holders) \/ F = {},
         NEW r, r \in Holders \ F \/ (r = None /\ Holders \ F = {}), ChargedAll(r, F),
         \A p \in F : proc[p].Remaining_time = 0,
         cpu_waiting_time' = cpu_waiting_time + IF r = None THEN 1 ELSE 0,
         total_waiting_time' =
           total_waiting_time + IF F = {} THEN 0 ELSE proc[f].Waiting_time
  PROVE  Ledger' /\ \A p \in Procs : AccountOf(p) => AccountOf(p)'
<1>1. /\ SharedTypeOK /\ ExecutedIsNat /\ Busy /\ WaitingTotal
      /\ F \subseteq Holders /\ Holders \subseteq Procs
  BY DEF SharedInv, Ledger, Holders
<1>2. None \notin Procs
  BY DEF None, Procs
<1>3. ExecutedIsNat' /\ Busy'
  <2>1. CASE r \in Holders \ F
    <3>1. r \in Procs /\ ~(r > received)
      BY <1>1, <2>1 DEF SharedInv, RecordsFilled, Holders, Holds
    <3>2. r <= received
      BY <1>1, <3>1, ConstantTypes DEF SharedTypeOK, Procs
    <3>3. cpu_waiting_time' = cpu_waiting_time
      BY <1>1, <1>2, <3>1 DEF SharedTypeOK
    <3> QED BY <1>1, <3>1, <3>2, <3>3, RanBusy DEF ChargedAll
  <2>2. CASE r = None
    <3>1. \A p \in Procs : /\ proc'[p].Running_time = proc[p].Running_time
                           /\ proc'[p].Remaining_time = proc[p].Remaining_time
      BY <1>1, <1>2, <2>2, TimesAreNumbers DEF ChargedAll
    <3> QED BY <1>1, <2>2, <3>1, IdleBusy
  <2> QED BY <2>1, <2>2
<1>4. WaitingTotal'
  <2>1. Finished' = Finished \cup F
    BY <1>1 DEF Finished, ChargedAll
  <2>2. \A p \in Finished : proc'[p].Waiting_time = proc[p].Waiting_time
    BY <1>1, TimesAreNumbers DEF ChargedAll, Finished, Holders, Holds
  <2>3. CASE F = {}
    <3>1. Finished' = Finished /\ total_waiting_time' = total_waiting_time
      BY <1>1, <2>1, <2>3 DEF SharedTypeOK
    <3> QED BY <1>1, <2>2, <3>1, WaitingTotalKept
  <2>4. CASE F = {f}
    <3>1. f \in Procs \ Finished /\ Finished' = Finished \cup {f}
      BY <1>1, <2>1, <2>4 DEF Holders, Holds, Finished
    <3>2. proc'[f].Waiting_time = proc[f].Waiting_time
      BY <1>1, <2>4, <3>1, TimesAreNumbers DEF ChargedAll
    <3>3. total_waiting_time' = total_waiting_time + proc'[f].Waiting_time
      BY <2>4, <3>2
    <3> QED BY <1>1, <2>2, <3>1, <3>3, WaitingTotalGrows
  <2> QED BY <2>3, <2>4
<1>5. ASSUME NEW p \in Procs, AccountOf(p) PROVE AccountOf(p)'
  <2>1. /\ proc[p].Waiting_time \in Nat /\ proc[p].Remaining_time \in Int
        /\ proc[p].Arrival_time \in Int /\ follow \in Nat
    BY <1>1, TimesAreNumbers
  <2>2. /\ proc'[p].memindex = proc[p].memindex
        /\ proc'[p].State = "FINISHED" <=> p \in F \/ proc[p].State = "FINISHED"
        /\ proc'[p].Arrival_time = proc[p].Arrival_time
        /\ proc'[p].Running_time = proc[p].Running_time
        /\ proc'[p].Remaining_time = proc[p].Remaining_time - IF p = r THEN 1 ELSE 0
        /\ proc'[p].Waiting_time =
             proc[p].Waiting_time + IF p # r /\ p \in Holders \ F THEN 1 ELSE 0
        /\ proc'[p].TA = IF p \in F THEN follow - proc[p].Arrival_time ELSE proc[p].TA
    BY DEF ChargedAll
  <2>3. Settled(p)
    <3>1. CASE p \notin Holders
      <4>1. p # r /\ p \notin F
        BY <1>1, <1>2, <3>1
      <4>2. SameTimes(p)
        BY <2>1, <2>2, <3>1, <4>1 DEF SameTimes
      <4> QED BY <2>2, <3>1, <4>1, <4>2 DEF Settled
    <3>2. CASE p \in F
      <4>1. p # r /\ p \in Holders /\ proc[p].Remaining_time = 0
        BY <1>1, <1>2, <3>2
      <4>2. ChargedTicks(p, 0)
        BY <2>1, <2>2, <3>2, <4>1 DEF ChargedTicks
      <4>3. proc'[p].Remaining_time = 0
        <5>1. proc'[p].Remaining_time = proc[p].Remaining_time - 0
          BY <2>2, <4>1
        <5> QED BY <4>1, <5>1
      <4>4. proc'[p].TA = follow - proc[p].Arrival_time
        BY <2>2, <3>2
      <4>5. follow - proc[p].Arrival_time = follow + 0 - proc[p].Arrival_time /\ 0 \in 0 .. 1
        BY <2>1
      <4> QED BY <2>2, <3>2, <4>1, <4>2, <4>3, <4>4, <4>5 DEF Settled
    <3>3. CASE p \in Holders \ F
      <4>1. ChargedTicks(p, 1)
        BY <2>1, <2>2, <3>3 DEF ChargedTicks
      <4>2. proc'[p].State # "FINISHED"
        BY <2>2, <3>3 DEF Holders, Holds
      <4> QED BY <3>3, <4>1, <4>2 DEF Settled
    <3> QED BY <3>1, <3>2, <3>3
  <2> QED BY <1>1, <1>5, <2>3, SettledAccount
<1> QED BY <1>3, <1>4, <1>5 DEF Ledger

\* r runs its tick, and is ended after it if its time is up.
RanToEnd(r) ==
  \A p \in Procs :
    /\ proc'[p].memindex = proc[p].memindex
    /\ proc'[p].Arrival_time = proc[p].Arrival_time
    /\ proc'[p].Running_time = proc[p].Running_time
    /\ proc'[p].Remaining_time = proc[p].Remaining_time - IF p = r THEN 1 ELSE 0
    /\ proc'[p].State = "FINISHED" <=>
         (p = r /\ proc'[p].Remaining_time = 0) \/ proc[p].State = "FINISHED"
    /\ proc'[p].TA = IF p = r /\ proc'[p].Remaining_time = 0
                     THEN follow + 1 - proc[p].Arrival_time ELSE proc[p].TA

\* The totals stay right, whatever the others are charged, if the process that
\* is ended adds what it waited.
LEMMA RanToEndLedger ==
  ASSUME SharedInv, SharedTypeOK', Ledger, phase = "receive", EndOfPass,
         NEW r \in Holders, RanToEnd(r), cpu_waiting_time' = cpu_waiting_time,
         \A p \in Finished : proc'[p].Waiting_time = proc[p].Waiting_time,
         total_waiting_time' = total_waiting_time
           + IF proc'[r].Remaining_time = 0 THEN proc'[r].Waiting_time ELSE 0
  PROVE  Ledger'
<1>1. /\ SharedTypeOK /\ ExecutedIsNat /\ Busy /\ WaitingTotal /\ r \in Procs
      /\ r \notin Finished /\ ~(r > received)
  BY DEF SharedInv, Ledger, Holders, Holds, Finished, RecordsFilled
<1>2. r <= received
  BY <1>1, ConstantTypes DEF SharedTypeOK, Procs
<1>3. ExecutedIsNat' /\ Busy'
  BY <1>1, <1>2, RanBusy DEF RanToEnd
<1>4. CASE proc'[r].Remaining_time = 0
  <2>1. Finished' = Finished \cup {r}
    BY <1>1, <1>4 DEF RanToEnd, Finished
  <2>2. r \in Procs \ Finished /\ total_waiting_time' = total_waiting_time + proc'[r].Waiting_time
    BY <1>1, <1>4
  <2> QED BY <1>1, <1>3, <2>1, <2>2, WaitingTotalGrows DEF Ledger
<1>5. CASE proc'[r].Remaining_time # 0
  <2>1. Finished' = Finished
    BY <1>5 DEF RanToEnd, Finished
  <2>2. total_waiting_time' = total_waiting_time
    BY <1>1, <1>5 DEF SharedTypeOK
  <2> QED BY <1>1, <1>3, <2>1, <2>2, WaitingTotalKept DEF Ledger
<1> QED BY <1>4, <1>5

\* The account of p stays right, if p waited the tick or ran it.
LEMMA RanToEndAccount ==
  ASSUME SharedInv, SharedTypeOK', phase = "receive", EndOfPass,
         NEW r \in Holders, RanToEnd(r), NEW p \in Procs, AccountOf(p),
         proc'[p].Waiting_time =
           proc[p].Waiting_time + IF p # r /\ p \in Holders THEN 1 ELSE 0
  PROVE  AccountOf(p)'
<1>1. SharedTypeOK
  BY DEF SharedInv
<1>2. /\ proc[p].Waiting_time \in Nat /\ proc[p].Remaining_time \in Int
      /\ proc[p].Arrival_time \in Int /\ follow \in Nat
  BY <1>1, TimesAreNumbers
<1>3. /\ proc'[p].memindex = proc[p].memindex
      /\ proc'[p].Arrival_time = proc[p].Arrival_time
      /\ proc'[p].Running_time = proc[p].Running_time
      /\ proc'[p].Remaining_time = proc[p].Remaining_time - IF p = r THEN 1 ELSE 0
      /\ proc'[p].State = "FINISHED" <=>
           (p = r /\ proc'[p].Remaining_time = 0) \/ proc[p].State = "FINISHED"
      /\ proc'[p].TA = IF p = r /\ proc'[p].Remaining_time = 0
                       THEN follow + 1 - proc[p].Arrival_time ELSE proc[p].TA
  BY DEF RanToEnd
<1>4. Settled(p)
  <2>1. CASE p \notin Holders
    <3>1. p # r
      BY <2>1
    <3>2. SameTimes(p)
      BY <1>2, <1>3, <2>1, <3>1 DEF SameTimes
    <3> QED BY <1>3, <2>1, <3>1, <3>2 DEF Settled
  <2>2. CASE p \in Holders
    <3>1. ChargedTicks(p, 1)
      BY <1>2, <1>3, <2>2 DEF ChargedTicks
    <3>2. CASE p = r /\ proc'[p].Remaining_time = 0
      <4>1. proc'[p].State = "FINISHED" /\ proc'[p].TA = follow + 1 - proc[p].Arrival_time
        BY <1>3, <3>2
      <4>2. 1 \in 0 .. 1
        OBVIOUS
      <4> QED BY <2>2, <3>1, <3>2, <4>1, <4>2 DEF Settled
    <3>3. CASE ~(p = r /\ proc'[p].Remaining_time = 0)
      <4>1. proc'[p].State # "FINISHED"
        BY <1>3, <2>2, <3>3 DEF Holders, Holds
      <4> QED BY <2>2, <3>1, <4>1 DEF Settled
    <3> QED BY <3>2, <3>3
  <2> QED BY <2>1, <2>2
<1> QED BY <1>1, <1>4, SettledAccount

\* Nothing runs and nobody is ended.
LEMMA IdleAccounts ==
  ASSUME SharedInv, SharedTypeOK', Ledger, phase = "receive", EndOfPass, Holders = {},
         cpu_waiting_time' = cpu_waiting_time + 1, UNCHANGED <<proc, total_waiting_time>>
  PROVE  Ledger' /\ \A p \in Procs : AccountOf(p) => AccountOf(p)'
<1>1. PICK F, r : F = {} /\ r = None
  OBVIOUS
<1>2. SharedTypeOK /\ None \notin Procs
  BY DEF SharedInv, None, Procs
<1>3. ChargedAll(r, F)
  BY <1>1, <1>2, TimesAreNumbers DEF ChargedAll
<1>4. total_waiting_time' = total_waiting_time + 0
  BY <1>2 DEF SharedTypeOK
<1> QED BY <1>1, <1>3, <1>4, ChargedAllAccounts

-----------------------------------------------------------------------------
\* The lines of a process in scheduler.log.

\* They begin with STARTED, and each may follow the one before it, or is the
\* i-th and the next of an exception <<i, s, t>>.
Tells(lines, exceptions) ==
  /\ lines # <<>> => lines[1] = "STARTED"
  /\ \A i \in 1 .. Len(lines) - 1 :
       \/ Follows(lines[i], lines[i + 1])
       \/ <<i, lines[i], lines[i + 1]>> \in exceptions

\* Nothing is printed yet.
LEMMA NoLinesTell ==
  ASSUME NEW exceptions
  PROVE  Tells(<<>>, exceptions)
BY DEF Tells

\* One line more, after the last one.
LEMMA TellsOneMore ==
  ASSUME NEW lines \in Seq(States), NEW s \in States, NEW exceptions,
         Tells(lines, exceptions),
         \/ lines = <<>> /\ s = "STARTED"
         \/ lines # <<>> /\ \/ Follows(Last(lines), s)
                            \/ <<Len(lines), Last(lines), s>> \in exceptions
  PROVE  /\ Append(lines, s) \in Seq(States) /\ Append(lines, s) # <<>>
         /\ Last(Append(lines, s)) = s
         /\ Tells(Append(lines, s), exceptions)
<1>1. PICK more : more = Append(lines, s)
  OBVIOUS
<1>2. /\ more \in Seq(States) /\ more # <<>> /\ Len(lines) \in Nat /\ Len(more) = Len(lines) + 1
      /\ \A i \in 1 .. Len(lines) : more[i] = lines[i]
      /\ more[Len(lines) + 1] = s
  BY <1>1
<1>3. Last(more) = s
  BY <1>2 DEF Last
<1>4. more[1] = "STARTED"
  <2>1. CASE lines = <<>>
    BY <1>2, <2>1
  <2>2. CASE lines # <<>>
    <3>1. 1 \in 1 .. Len(lines)
      BY <1>2, <2>2
    <3> QED BY <1>2, <2>2, <3>1 DEF Tells
  <2> QED BY <2>1, <2>2
<1>5. ASSUME NEW i \in 1 .. Len(more) - 1
      PROVE  Follows(more[i], more[i + 1]) \/ <<i, more[i], more[i + 1]>> \in exceptions
  <2>1. CASE i = Len(lines)
    <3>1. lines # <<>> /\ more[i] = Last(lines) /\ more[i + 1] = s
      BY <1>2, <2>1 DEF Last
    <3> QED BY <2>1, <3>1
  <2>2. CASE i # Len(lines)
    <3>1. i \in 1 .. Len(lines) - 1 /\ i \in 1 .. Len(lines) /\ i + 1 \in 1 .. Len(lines)
      BY <1>2, <2>2
    <3>2. more[i] = lines[i] /\ more[i + 1] = lines[i + 1]
      BY <1>2, <3>1
    <3> QED BY <3>1, <3>2 DEF Tells
  <2> QED BY <2>1, <2>2
<1>6. Tells(more, exceptions)
  BY <1>4, <1>5 DEF Tells
<1> QED BY <1>1, <1>2, <1>3, <1>6

\* What a line changes: it is the last one of its process.
LEMMA PrintedLine ==
  ASSUME NEW lines \in [Procs -> Seq(States)], NEW p \in Procs, NEW s \in States,
         NEW more, more = PrintLine(lines, p, s)
  PROVE  /\ more \in [Procs -> Seq(States)] /\ more[p] = Append(lines[p], s)
         /\ \A x \in Procs \ {p} : more[x] = lines[x]
BY DEF PrintLine

\* The lines that may follow another.
LEMMA FollowingLines ==
  ASSUME NEW s \in {"STARTED", "RESUMED"}
  PROVE  /\ Follows(s, "STOPPED") /\ Follows(s, "FINISHED")
         /\ Follows("STOPPED", "RESUMED")
<1>1. CASE s = "STARTED"
  BY <1>1 DEF Follows
<1>2. CASE s = "RESUMED"
  BY <1>2 DEF Follows
<1> QED BY <1>1, <1>2

-----------------------------------------------------------------------------
\* The steps of Processor, in the terms of the records.

LeftOf(p) == IF proc[p].memindex = NoPlace THEN 0 ELSE proc[p].Remaining_time

LEMMA ServedInit == SharedInit => Served!ProcessorInit
<1> SUFFICES ASSUME SharedInit PROVE Served!ProcessorInit
  OBVIOUS
<1>1. Holders = {} /\ phase # "receive" /\ proc = [p \in Procs |-> Unborn]
  BY SharedInitInv DEF SharedInit
<1>2. \A p \in Procs : proc[p].memindex = NoPlace
  BY <1>1, UnbornType
<1> QED BY <1>1, <1>2 DEF Served!ProcessorInit

LEMMA ServedBegin ==
  ASSUME phase = "poll", phase' = "receive", Holders' = Holders, proc' = proc
  PROVE  Served!Begin
BY DEF Served!Begin

LEMMA ServedArrive ==
  ASSUME NEW r \in Procs, phase = "receive", phase' = "receive",
         r \notin Holders, Holders' = Holders \cup {r},
         proc'[r].memindex # NoPlace, proc'[r].Remaining_time > 0,
         \A p \in Procs \ {r} : LeftOf(p)' = LeftOf(p)
  PROVE  Served!Arrive(r)
<1> DEFINE left == [p \in Procs |-> LeftOf(p)]
           leftNow == [p \in Procs |-> LeftOf(p)']
<1>1. leftNow[r] > 0
  BY DEF LeftOf
<1>2. leftNow = [left EXCEPT ![r] = leftNow[r]]
  OBVIOUS
<1> QED BY <1>1, <1>2 DEF Served!Arrive, LeftOf

LEMMA ServedServe ==
  ASSUME NEW r \in Holders, phase = "receive", phase' # "receive",
         proc[r].Remaining_time \in Nat \ {0},
         proc'[r].memindex # NoPlace,
         proc'[r].Remaining_time = proc[r].Remaining_time - 1,
         \A p \in Procs \ {r} : LeftOf(p)' = LeftOf(p),
         Holders' \subseteq Holders,
         \A p \in Holders' : LeftOf(p) > 0,
         \A p \in Holders \ Holders' : LeftOf(p)' = 0
  PROVE  Served!Serve(r)
<1> DEFINE left == [p \in Procs |-> LeftOf(p)]
           leftNow == [p \in Procs |-> LeftOf(p)']
<1>1. r \in Procs /\ proc[r].memindex # NoPlace /\ Holders \subseteq Procs
  BY DEF Holders, Holds
<1>2. LeftOf(r) > 0 /\ LeftOf(r)' = LeftOf(r) - 1
  BY <1>1 DEF LeftOf
<1>3. leftNow = [left EXCEPT ![r] = @ - 1]
  BY <1>1, <1>2
<1>4. Served!Leave
  BY <1>1 DEF Served!Leave, LeftOf
<1> QED BY <1>1, <1>2, <1>3, <1>4 DEF Served!Serve, LeftOf

LEMMA ServedRest ==
  ASSUME phase = "receive", phase' # "receive",
         \A p \in Procs : LeftOf(p)' = LeftOf(p),
         \A p \in Holders : LeftOf(p) = 0, Holders' = {}
  PROVE  Served!Rest
<1>1. Holders \subseteq Procs
  BY DEF Holders
<1>2. Served!Leave
  BY <1>1 DEF Served!Leave, LeftOf
<1>3. [p \in Procs |-> LeftOf(p)'] = [p \in Procs |-> LeftOf(p)]
  OBVIOUS
<1> QED BY <1>1, <1>2, <1>3 DEF Served!Rest, LeftOf

LEMMA ServedStutter ==
  ASSUME (phase = "receive") <=> (phase' = "receive"), Holders' = Holders,
         \A p \in Procs : LeftOf(p)' = LeftOf(p)
  PROVE  UNCHANGED Served!processorVars
<1>1. [p \in Procs |-> LeftOf(p)'] = [p \in Procs |-> LeftOf(p)]
  OBVIOUS
<1> QED BY <1>1 DEF Served!processorVars, LeftOf
-----------------------------------------------------------------------------
\* The steps of the main loop and of the algorithms are steps of Processor.

LEMMA TickServes ==
  ASSUME Tick
  PROVE  Served!Begin
<1>1. phase = "poll" /\ phase' = "receive" /\ proc' = proc
  BY DEF Tick
<1>2. Holders' = Holders
  BY <1>1 DEF Holders, Holds
<1> QED BY <1>1, <1>2, ServedBegin

LEMMA AcceptServes ==
  ASSUME SharedInv, NEW n \in Messages, Accept(n),
         NEW r, r = received + 1,
         proc' \in [Procs -> ProcessRecords], proc'[r] = n,
         \A p \in Procs \ {r} :
           SameMemory(p) /\ proc'[p].Remaining_time = proc[p].Remaining_time
  PROVE  Served!Arrive(r)
<1>1. r \in Procs /\ r \notin Holders /\ Holders' = Holders \cup {r}
  BY AcceptInv
<1>2. phase = "receive" /\ phase' = "receive" /\ n.memindex # NoPlace
  BY DEF Accept, Receive
<1>3. n.Remaining_time > 0
  <2>1. n.Remaining_time \in Nat \ {0}
    BY MessageTypes, RunTimesAssumption DEF SharedInv
  <2> QED BY <2>1
<1>4. \A p \in Procs \ {r} : LeftOf(p)' = LeftOf(p)
  BY DEF LeftOf, SameMemory
<1> QED BY <1>1, <1>2, <1>3, <1>4, ServedArrive

LEMMA RefuseStutters ==
  ASSUME SharedInv, Refuse
  PROVE  UNCHANGED Served!processorVars
<1>1. PICK r : r = received'
  OBVIOUS
<1>2. /\ Holders' = Holders /\ r = received + 1 /\ r \in Procs
      /\ proc'[r].memindex = NoPlace
      /\ \A p \in Procs \ {r} : proc'[p] = proc[p]
  BY <1>1, RefuseInv
<1>3. proc[r].memindex = NoPlace
  <2>1. r > received
    BY <1>2 DEF SharedInv, SharedTypeOK
  <2> QED BY <1>2, <2>1 DEF SharedInv, RecordsFilled
<1>4. LeftOf(r)' = LeftOf(r) /\ \A p \in Procs \ {r} : LeftOf(p)' = LeftOf(p)
  BY <1>2, <1>3 DEF LeftOf
<1>5. phase = "receive" /\ phase' = "receive"
  BY DEF Refuse, Receive
<1> QED BY <1>2, <1>4, <1>5, ServedStutter

LEMMA RanServes ==
  ASSUME SharedInv, WorkLeft, phase = "receive", EndOfPass, NEW r \in Holders, Ran(r)
  PROVE  Served!Serve(r)
<1>1. /\ r \in Procs /\ proc[r].memindex # NoPlace
      /\ proc[r].Remaining_time \in Nat \ {0} /\ phase' # "receive"
  BY DEF SharedInv, SharedTypeOK, WorkLeft, Holders, Holds, EndOfPass
<1>2. Holders' = IF proc[r].Remaining_time = 1 THEN Holders \ {r} ELSE Holders
  BY <1>1, RanHolders
<1>3. proc'[r].memindex # NoPlace /\ proc'[r].Remaining_time = proc[r].Remaining_time - 1
  BY <1>1 DEF Ran
<1>4. \A p \in Procs \ {r} : LeftOf(p)' = LeftOf(p)
  BY DEF Ran, LeftOf
<1>5. \A p \in Holders : LeftOf(p) > 0
  BY DEF WorkLeft, LeftOf, Holders, Holds
<1>6. \A p \in Holders \ Holders' : LeftOf(p)' = 0
  <2>1. proc[r].Remaining_time = 1 => LeftOf(r)' = 0
    BY <1>3 DEF LeftOf
  <2> QED BY <1>2, <2>1
<1> QED BY <1>1, <1>2, <1>3, <1>4, <1>5, <1>6, ServedServe

LEMMA IdleServes ==
  ASSUME phase = "receive", phase' # "receive", proc' = proc, Holders = {}
  PROVE  Served!Rest
<1>1. Holders' = {} /\ \A p \in Procs : LeftOf(p)' = LeftOf(p)
  BY DEF Holders, Holds, LeftOf
<1> QED BY <1>1, ServedRest

LEMMA StutterServes ==
  ASSUME proc' = proc, phase' = phase
  PROVE  UNCHANGED Served!processorVars
<1>1. Holders' = Holders /\ \A p \in Procs : LeftOf(p)' = LeftOf(p)
  BY DEF Holders, Holds, LeftOf
<1> QED BY <1>1, ServedStutter

=============================================================================
