------------------------ MODULE MemoryManagerProofs ------------------------
(***************************************************************************)
(* The flags of mem are exactly the blocks of the holders, no block has    *)
(* two holders, and mem_alloc and mem_dealloc implement BlockStore, for    *)
(* every size of the memory, every set of requests that divide it, and any *)
(* number of holders.  The loops of mem_alloc return the place that its    *)
(* one-step definition selects, and no vacant place has fewer vacant       *)
(* places beside it.                                                       *)
(***************************************************************************)
EXTENDS MemoryManager, MemAllocLoop, MainMemoryProofs, FiniteSetTheorems

\* The size kept in the record is one that was asked for, so the region that
\* is freed is the one that was reserved.
SizesKept == \A p \in Holders : memindex[p] # NoPlace => no_of_blocks[p] \in BlockCounts

\* The inductive invariant.
IInv == TypeOK /\ SizesKept /\ MemIsOwned /\ Disjoint

LEMMA NoPlaceIsNoBlock == NoPlace \notin Blocks
BY MemBlocksAssumption DEF NoPlace, Blocks

LEMMA InitIInv == Init => IInv
<1> SUFFICES ASSUME Init PROVE IInv
  OBVIOUS
<1>1. \A p \in Holders : Owned(p) = {}
  BY DEF Init, Owned
<1>2. TypeOK
  BY MemBlocksAssumption DEF Init, TypeOK, NoAnswer, Blocks
<1>3. SizesKept
  BY DEF Init, SizesKept
<1>4. MemIsOwned
  BY <1>1 DEF Init, MemIsOwned
<1>5. Disjoint
  BY <1>1 DEF Disjoint
<1> QED BY <1>2, <1>3, <1>4, <1>5 DEF IInv

\* What a call of mem_alloc changes in who owns what.
LEMMA AllocateOwns ==
  ASSUME IInv, NEW p \in Holders, NEW b \in BlockCounts, Allocate(p, b)
  PROVE  /\ Owned(p) = {}
         /\ \A x \in Holders : x # p => Owned(x)' = Owned(x)
         /\ mem' = mem \cup Owned(p)'
         /\ Owned(p)' \subseteq Blocks
         /\ Owned(p)' \cap mem = {}
<1> DEFINE i == MemAlloc(mem, b)
<1>1. /\ memindex[p] = NoPlace
      /\ mem' = Reserve(mem, i, b)
      /\ memindex' = [memindex EXCEPT ![p] = i]
      /\ no_of_blocks' = [no_of_blocks EXCEPT ![p] = b]
  BY DEF Allocate
<1>2. memindex'[p] = i /\ no_of_blocks'[p] = b
  BY <1>1 DEF IInv, TypeOK
<1>3. ASSUME NEW x \in Holders, x # p PROVE Owned(x)' = Owned(x)
  BY <1>1, <1>3 DEF Owned, IInv, TypeOK
<1>4. Owned(p)' = IF i = NoPlace THEN {} ELSE Region(i, b)
  BY <1>2 DEF Owned
<1>5. mem' = mem \cup Owned(p)'
  BY <1>1, <1>4 DEF Reserve
<1>6. Owned(p)' \subseteq Blocks /\ Owned(p)' \cap mem = {}
  BY <1>4, MemAllocGrantsFreeBlocks
<1> QED BY <1>1, <1>3, <1>5, <1>6 DEF Owned

\* What a call of mem_dealloc changes in who owns what.
LEMMA DeallocateOwns ==
  ASSUME IInv, NEW p \in Holders, Deallocate(p)
  PROVE  /\ Owned(p)' = {}
         /\ \A x \in Holders : x # p => Owned(x)' = Owned(x)
         /\ mem' = mem \ Owned(p)
<1>1. /\ memindex[p] # NoPlace
      /\ mem' = mem \ Region(memindex[p], no_of_blocks[p])
      /\ memindex' = [memindex EXCEPT ![p] = NoPlace]
      /\ no_of_blocks' = [no_of_blocks EXCEPT ![p] = 0]
  BY DEF Deallocate, MemDealloc
<1>2. memindex'[p] = NoPlace
  BY <1>1 DEF IInv, TypeOK
<1>3. ASSUME NEW x \in Holders, x # p PROVE Owned(x)' = Owned(x)
  BY <1>1, <1>3 DEF Owned, IInv, TypeOK
<1> QED BY <1>1, <1>2, <1>3 DEF Owned

LEMMA AllocateIInv ==
  ASSUME IInv, NEW p \in Holders, NEW b \in BlockCounts, Allocate(p, b)
  PROVE  IInv'
<1>1. /\ Owned(p) = {}
      /\ \A x \in Holders : x # p => Owned(x)' = Owned(x)
      /\ mem' = mem \cup Owned(p)'
      /\ Owned(p)' \subseteq Blocks
      /\ Owned(p)' \cap mem = {}
  BY AllocateOwns
<1>2. MemAlloc(mem, b) \in Blocks \cup {NoPlace}
  BY MemAllocGrantsFreeBlocks
<1>3. TypeOK'
  <2>1. mem' \subseteq Blocks
    BY <1>1 DEF IInv, TypeOK
  <2>2. /\ memindex' \in [Holders -> Blocks \cup {NoPlace}]
        /\ no_of_blocks' \in [Holders -> BlockCounts \cup {0}]
        /\ answer' \in [blocks : BlockCounts \cup {0}, place : Blocks \cup {NoPlace}]
    BY <1>2 DEF IInv, TypeOK, Allocate
  <2> QED BY <2>1, <2>2 DEF TypeOK
<1>4. SizesKept'
  BY DEF IInv, TypeOK, SizesKept, Allocate
<1>5. MemIsOwned'
  BY <1>1 DEF IInv, MemIsOwned
<1>6. Disjoint'
  <2>1. \A x \in Holders : Owned(x)' \subseteq Blocks
    BY <1>1 DEF IInv, Disjoint
  <2>2. ASSUME NEW x \in Holders, NEW y \in Holders, x # y
        PROVE  Owned(x)' \cap Owned(y)' = {}
    <3>1. Owned(x) \subseteq mem /\ Owned(y) \subseteq mem
      BY DEF IInv, MemIsOwned
    <3>2. CASE x # p /\ y # p
      BY <1>1, <2>2, <3>2 DEF IInv, Disjoint
    <3>3. CASE x = p
      BY <1>1, <2>2, <3>1, <3>3
    <3>4. CASE y = p
      BY <1>1, <2>2, <3>1, <3>4
    <3> QED BY <3>2, <3>3, <3>4
  <2> QED BY <2>1, <2>2 DEF Disjoint
<1> QED BY <1>3, <1>4, <1>5, <1>6 DEF IInv

LEMMA DeallocateIInv ==
  ASSUME IInv, NEW p \in Holders, Deallocate(p)
  PROVE  IInv'
<1>1. /\ Owned(p)' = {}
      /\ \A x \in Holders : x # p => Owned(x)' = Owned(x)
      /\ mem' = mem \ Owned(p)
  BY DeallocateOwns
<1>2. TypeOK'
  <2>1. mem' \subseteq Blocks
    BY <1>1 DEF IInv, TypeOK
  <2>2. /\ memindex' \in [Holders -> Blocks \cup {NoPlace}]
        /\ no_of_blocks' \in [Holders -> BlockCounts \cup {0}]
    BY DEF IInv, TypeOK, Deallocate
  <2>3. answer' \in [blocks : BlockCounts \cup {0}, place : Blocks \cup {NoPlace}]
    BY MemBlocksAssumption DEF Deallocate, NoAnswer, Blocks
  <2> QED BY <2>1, <2>2, <2>3 DEF TypeOK
<1>3. SizesKept'
  BY DEF IInv, TypeOK, SizesKept, Deallocate
<1>4. MemIsOwned'
  <2>1. \A x \in Holders : x # p => Owned(x) \cap Owned(p) = {}
    BY DEF IInv, Disjoint
  <2>2. mem' = UNION {Owned(x) : x \in Holders \ {p}}
    BY <1>1, <2>1 DEF IInv, MemIsOwned
  <2> QED BY <1>1, <2>2 DEF MemIsOwned
<1>5. Disjoint'
  BY <1>1 DEF IInv, Disjoint
<1> QED BY <1>2, <1>3, <1>4, <1>5 DEF IInv

LEMMA NextIInv == IInv /\ [Next]_vars => IInv'
<1> SUFFICES ASSUME IInv, [Next]_vars PROVE IInv'
  OBVIOUS
<1>1. CASE \E p \in Holders : \E b \in BlockCounts : Allocate(p, b)
  BY <1>1, AllocateIInv
<1>2. CASE \E p \in Holders : Deallocate(p)
  BY <1>2, DeallocateIInv
<1>3. CASE UNCHANGED vars
  BY <1>3 DEF vars, IInv, TypeOK, SizesKept, MemIsOwned, Disjoint, Owned
<1> QED BY <1>1, <1>2, <1>3 DEF Next

-----------------------------------------------------------------------------
\* The inductive invariant holds in every reachable state of the memory.
THEOREM InvariantHolds == Spec => []IInv
<1>1. Init => IInv
  BY InitIInv
<1>2. IInv /\ [Next]_vars => IInv'
  BY NextIInv
<1> QED BY <1>1, <1>2, PTL DEF Spec

\* The type invariant of the flags and of the records (mem, memindex,
\* no_of_blocks in scheduler.c and the Process struct).
THEOREM TypeCorrect == Spec => []TypeOK
<1>1. IInv => TypeOK
  BY DEF IInv
<1> QED BY <1>1, InvariantHolds, PTL

\* No flag stays set when a process has given its memory back, and none is
\* cleared while a process holds its block (mem_alloc, mem_dealloc).
THEOREM FlagsAreOwned == Spec => []MemIsOwned
<1>1. IInv => MemIsOwned
  BY DEF IInv
<1> QED BY <1>1, InvariantHolds, PTL

\* mem_alloc never hands out a block beyond the array or one that another
\* process holds.
THEOREM BlocksAreExclusive == Spec => []Disjoint
<1>1. IInv => Disjoint
  BY DEF IInv
<1> QED BY <1>1, InvariantHolds, PTL

\* mem_alloc answers -1 only if no place it scans is vacant.
THEOREM RefusesOnlyWhenFull == Spec => []RefusedOnlyWhenFull
<1>1. Init => RefusedOnlyWhenFull
  BY DEF Init, NoAnswer, RefusedOnlyWhenFull, NoPlace
<1>2. RefusedOnlyWhenFull /\ [Next]_vars => RefusedOnlyWhenFull'
  <2> SUFFICES ASSUME RefusedOnlyWhenFull, [Next]_vars PROVE RefusedOnlyWhenFull'
    OBVIOUS
  <2>1. ASSUME NEW p \in Holders, NEW b \in BlockCounts, Allocate(p, b)
        PROVE  RefusedOnlyWhenFull'
    <3>1. answer' = [blocks |-> b, place |-> MemAlloc(mem, b)]
      BY <2>1 DEF Allocate
    <3>2. answer'.place = NoPlace => mem' = mem /\ Vacant(mem, b) = {}
      BY <2>1, <3>1, MemAllocRefusesOnlyWhenFull DEF Allocate, Reserve
    <3> QED BY <3>1, <3>2 DEF RefusedOnlyWhenFull
  <2>2. ASSUME NEW p \in Holders, Deallocate(p) PROVE RefusedOnlyWhenFull'
    BY <2>2 DEF Deallocate, NoAnswer, RefusedOnlyWhenFull, NoPlace
  <2>3. CASE UNCHANGED vars
    BY <2>3 DEF vars, RefusedOnlyWhenFull
  <2> QED BY <2>1, <2>2, <2>3 DEF Next
<1> QED BY <1>1, <1>2, PTL DEF Spec

-----------------------------------------------------------------------------
\* A request that is granted is a Grant of the store.
LEMMA AllocateGrants ==
  ASSUME IInv, NEW p \in Holders, NEW b \in BlockCounts, Allocate(p, b)
  PROVE  [Store!StoreNext]_ownedBlocks
<1> DEFINE i == MemAlloc(mem, b)
<1>1. /\ Owned(p) = {}
      /\ \A x \in Holders : x # p => Owned(x)' = Owned(x)
      /\ Owned(p)' \cap mem = {}
  BY AllocateOwns
<1>2. Owned(p)' = IF i = NoPlace THEN {} ELSE Region(i, b)
  BY DEF Allocate, Owned, IInv, TypeOK
<1>3. CASE i = NoPlace
  <2>1. \A x \in Holders : Owned(x)' = Owned(x)
    BY <1>1, <1>2, <1>3
  <2>2. ownedBlocks' = ownedBlocks
    BY <2>1 DEF ownedBlocks
  <2> QED BY <2>2
<1>4. CASE i # NoPlace
  <2>1. ownedBlocks' = [ownedBlocks EXCEPT ![p] = Owned(p)']
    BY <1>1 DEF ownedBlocks
  <2>2. Owned(p)' \in Store!Runs
    <3>1. /\ i \in Blocks
          /\ Region(i, b) \subseteq Blocks
          /\ Region(i, b) # {}
      BY <1>4, MemAllocGrantsFreeBlocks
    <3>2. i + b - 1 \in Region(i, b)
      BY <3>1, BlockCountsDivide, MemBlocksAssumption DEF Region, Blocks
    <3>3. i + b - 1 \in Blocks
      BY <3>1, <3>2
    <3> QED BY <1>2, <1>4, <3>1, <3>3 DEF Store!Runs, Region
  <2>3. \A x \in Holders : Owned(x) \cap Owned(p)' = {}
    BY <1>1 DEF IInv, MemIsOwned
  <2>4. Store!Grant(p)
    BY <1>1, <2>1, <2>2, <2>3 DEF Store!Grant, ownedBlocks
  <2> QED BY <2>4 DEF Store!StoreNext
<1> QED BY <1>3, <1>4

\* Giving memory back is a Release of the store.
LEMMA DeallocateReleases ==
  ASSUME IInv, NEW p \in Holders, Deallocate(p)
  PROVE  Store!StoreNext
<1>1. /\ Owned(p)' = {}
      /\ \A x \in Holders : x # p => Owned(x)' = Owned(x)
  BY DeallocateOwns
<1>2. Owned(p) # {}
  <2>1. memindex[p] \in Blocks /\ no_of_blocks[p] \in Nat \ {0}
    BY BlockCountsDivide DEF Deallocate, IInv, TypeOK, SizesKept
  <2>2. memindex[p] \in Region(memindex[p], no_of_blocks[p])
    BY <2>1, MemBlocksAssumption DEF Region, Blocks
  <2> QED BY <2>2 DEF Deallocate, Owned
<1>3. ownedBlocks' = [ownedBlocks EXCEPT ![p] = {}]
  BY <1>1 DEF ownedBlocks
<1>4. Store!Release(p)
  BY <1>2, <1>3 DEF Store!Release, ownedBlocks
<1> QED BY <1>4 DEF Store!StoreNext

\* mem_alloc and mem_dealloc implement the abstract store: whatever the rule
\* that places a request, it only ever grants whole runs of free blocks and
\* takes back all that was granted.
THEOREM Refinement == Spec => ImplementsStore
<1>1. Init => Store!StoreInit
  BY DEF Init, Owned, ownedBlocks, Store!StoreInit
<1>2. IInv /\ [Next]_vars => [Store!StoreNext]_ownedBlocks
  <2> SUFFICES ASSUME IInv, [Next]_vars
               PROVE  [Store!StoreNext]_ownedBlocks
    OBVIOUS
  <2>1. CASE \E p \in Holders : \E b \in BlockCounts : Allocate(p, b)
    BY <2>1, AllocateGrants
  <2>2. CASE \E p \in Holders : Deallocate(p)
    BY <2>2, DeallocateReleases
  <2>3. CASE UNCHANGED vars
    <3>1. \A x \in Holders : Owned(x)' = Owned(x)
      BY <2>3 DEF vars, Owned
    <3> QED BY <3>1 DEF ownedBlocks
  <2> QED BY <2>1, <2>2, <2>3 DEF Next
<1> QED BY <1>1, <1>2, InvariantHolds, PTL DEF Spec, ImplementsStore, Store!StoreSpec

-----------------------------------------------------------------------------
\* One call of mem_alloc: the loops of MemAllocLoop.

\* The places of the scan and the end of it.
Stops(b) == Places(b) \cup {MemBlocks}

\* The scan goes from one place to the next by b and ends exactly at the end of
\* the memory.
LEMMA PlacesAreSteps ==
  ASSUME NEW b \in BlockCounts
  PROVE  /\ b \in Nat \ {0} /\ b <= MemBlocks /\ MemBlocks \in Nat
         /\ 0 \in Places(b) /\ MemBlocks - b \in Places(b)
         /\ \A i \in Places(b) : i \in Nat /\ i < MemBlocks
         /\ \A i \in Places(b) : i + b \in Stops(b)
         /\ \A i \in Places(b) : i # 0 => i - b \in Places(b)
         /\ \A i \in Stops(b) : i \in Nat /\ i <= MemBlocks
         /\ \A i, k \in Stops(b) : i < k => i + b <= k
<1>1. b \in Nat \ {0} /\ b <= MemBlocks /\ MemBlocks \in Nat /\ MemBlocks # 0
  BY BlockCountsDivide, MemSizesAssumption, MemBlocksAssumption
<1>2. PICK n \in Nat : MemBlocks = n * b /\ n <= MemBlocks /\ n # 0
  BY MemSizesAssumption, MemBlocksAssumption
<1>3. \A i : i \in Places(b) <=> i \in 0 .. MemBlocks - 1 /\ \E k \in 0 .. MemBlocks : i = k * b
  BY DEF Places, Blocks
<1>4. \A i \in Stops(b) : i \in Nat /\ i <= MemBlocks
  BY <1>1, <1>3 DEF Stops
<1>5. \A i \in Places(b) : i \in Nat /\ i < MemBlocks
  BY <1>1, <1>3
<1>6. \A i \in Stops(b) : \E k \in Nat : i = k * b
  <2>1. ASSUME NEW i \in Places(b) PROVE \E k \in Nat : i = k * b
    <3>1. PICK k \in 0 .. MemBlocks : i = k * b
      BY <1>3
    <3> QED BY <1>1, <3>1
  <2> QED BY <1>2, <2>1 DEF Stops
<1>7. ASSUME NEW k \in Nat, k * b < MemBlocks PROVE k * b \in Places(b)
  <2>1. k * b \in 0 .. MemBlocks - 1
    BY <1>1, <1>7
  <2>2. k \in 0 .. MemBlocks
    <3>1. k < n
      BY <1>1, <1>2, <1>7
    <3> QED BY <1>1, <1>2, <3>1
  <2> QED BY <1>3, <2>1, <2>2
<1>8. ASSUME NEW i \in Stops(b), NEW k \in Stops(b), i < k PROVE i + b <= k
  <2>1. PICK x \in Nat, y \in Nat : i = x * b /\ k = y * b
    BY <1>6
  <2>2. (x + 1) * b <= y * b
    BY <1>1, <1>8, <2>1, TimesMonotonic
  <2>3. (x + 1) * b = x * b + b
    BY <1>1
  <2> QED BY <2>1, <2>2, <2>3
<1>9. ASSUME NEW i \in Places(b) PROVE i + b \in Stops(b)
  <2>1. i + b <= MemBlocks /\ i \in Nat
    BY <1>5, <1>8 DEF Stops
  <2>2. PICK x \in Nat : i = x * b
    BY <1>6 DEF Stops
  <2>3. (x + 1) * b = i + b
    BY <1>1, <2>2
  <2>4. CASE i + b = MemBlocks
    BY <2>4 DEF Stops
  <2>5. CASE i + b < MemBlocks
    <3>1. x + 1 \in Nat /\ (x + 1) * b < MemBlocks
      BY <2>3, <2>5
    <3> QED BY <1>7, <2>3, <3>1 DEF Stops
  <2> QED BY <1>1, <2>1, <2>4, <2>5
<1>10. ASSUME NEW i \in Places(b), i # 0 PROVE i - b \in Places(b)
  <2>1. PICK x \in Nat : i = x * b
    BY <1>6 DEF Stops
  <2>2. x # 0 /\ x - 1 \in Nat
    BY <1>1, <1>10, <2>1
  <2>3. (x - 1) * b = i - b
    BY <1>1, <2>1, <2>2
  <2>4. i - b < MemBlocks
    BY <1>1, <1>5
  <2> QED BY <1>7, <2>2, <2>3, <2>4
<1>11. 0 \in Places(b)
  <2>1. 0 * b = 0 /\ 0 < MemBlocks
    BY <1>1
  <2> QED BY <1>7, <2>1
<1>12. MemBlocks - b \in Places(b)
  <2>1. n - 1 \in Nat /\ (n - 1) * b = MemBlocks - b
    BY <1>1, <1>2
  <2>2. (n - 1) * b < MemBlocks
    BY <1>1, <2>1
  <2> QED BY <1>7, <2>1, <2>2
<1> QED BY <1>1, <1>4, <1>5, <1>8, <1>9, <1>10, <1>11, <1>12

\* Min, when the least element is known.
LEMMA LeastIsMin ==
  ASSUME NEW S, S \subseteq Nat, NEW i \in S, \A k \in S : i <= k
  PROVE  Min(S) = i
<1>1. Min(S) \in S /\ \A k \in S : Min(S) <= k
  BY MinIsLeast
<1>2. Min(S) <= i /\ i <= Min(S) /\ i \in Nat /\ Min(S) \in Nat
  BY <1>1
<1> QED BY <1>2

\* The vacant places in the middle with a taken neighbour on one side only.
RightOnly(taken, b) ==
  {i \in Vacant(taken, b) : /\ ~AtStart(i) /\ ~AtEnd(i, b)
                            /\ RightTaken(taken, i, b) /\ ~LeftTaken(taken, i, b)}
LeftOnly(taken, b) ==
  {i \in Vacant(taken, b) : /\ ~AtStart(i) /\ ~AtEnd(i, b)
                            /\ LeftTaken(taken, i, b) /\ ~RightTaken(taken, i, b)}

\* The kinds of places that mem_alloc tells apart.
LEMMA ChosenPlaces ==
  ASSUME NEW taken, NEW b \in BlockCounts
  PROVE  /\ Vacant(taken, b) \subseteq Places(b)
         /\ Enclosed(taken, b) \subseteq Vacant(taken, b)
         /\ RightOnly(taken, b) \subseteq Vacant(taken, b) \ {0}
         /\ LeftOnly(taken, b) \subseteq Vacant(taken, b) \ {0}
         /\ HalfEnclosed(taken, b) = RightOnly(taken, b) \cup LeftOnly(taken, b)
         /\ \A i \in HalfEnclosed(taken, b) : i \in Vacant(taken, b)
<1>1. \A i \in Vacant(taken, b) : LeftTaken(taken, i, b) \in BOOLEAN /\ RightTaken(taken, i, b) \in BOOLEAN
  BY DEF LeftTaken, RightTaken
<1> QED BY <1>1 DEF Vacant, Enclosed, HalfEnclosed, RightOnly, LeftOnly, AtStart

\* MemAlloc by the first place of each kind.
LEMMA WhatMemAllocReturns ==
  ASSUME NEW taken, NEW b \in BlockCounts
  PROVE  /\ ~FirstFit(b) =>
              \A i \in Enclosed(taken, b) :
                (\A k \in Enclosed(taken, b) : i <= k) => MemAlloc(taken, b) = i
         /\ ~FirstFit(b) /\ Enclosed(taken, b) = {} =>
              \A i \in HalfEnclosed(taken, b) :
                (\A k \in HalfEnclosed(taken, b) : i <= k) => MemAlloc(taken, b) = i
         /\ FirstFit(b) \/ (Enclosed(taken, b) = {} /\ HalfEnclosed(taken, b) = {}) =>
              \A i \in Vacant(taken, b) :
                (\A k \in Vacant(taken, b) : i <= k) => MemAlloc(taken, b) = i
         /\ Vacant(taken, b) = {} => MemAlloc(taken, b) = NoPlace
<1>1. \A i \in Places(b) : i \in Nat
  BY PlacesAreSteps
<1>2. /\ Vacant(taken, b) \subseteq Nat /\ Enclosed(taken, b) \subseteq Nat
      /\ HalfEnclosed(taken, b) \subseteq Nat
  BY <1>1, ChosenPlaces
<1>3. ASSUME NEW i \in Enclosed(taken, b), \A k \in Enclosed(taken, b) : i <= k, ~FirstFit(b)
      PROVE  MemAlloc(taken, b) = i
  BY <1>2, <1>3, LeastIsMin DEF MemAlloc
<1>4. ASSUME NEW i \in HalfEnclosed(taken, b), \A k \in HalfEnclosed(taken, b) : i <= k,
             ~FirstFit(b), Enclosed(taken, b) = {}
      PROVE  MemAlloc(taken, b) = i
  BY <1>2, <1>4, LeastIsMin DEF MemAlloc
<1>5. ASSUME NEW i \in Vacant(taken, b), \A k \in Vacant(taken, b) : i <= k,
             FirstFit(b) \/ (Enclosed(taken, b) = {} /\ HalfEnclosed(taken, b) = {})
      PROVE  MemAlloc(taken, b) = i
  <2>1. FirstPlace(taken, b) = i
    BY <1>2, <1>5, LeastIsMin DEF FirstPlace, FirstOf
  <2> QED BY <1>5, <2>1 DEF MemAlloc
<1>6. ASSUME Vacant(taken, b) = {} PROVE MemAlloc(taken, b) = NoPlace
  <2>1. FirstPlace(taken, b) = NoPlace
    BY <1>6 DEF FirstPlace, FirstOf
  <2>2. Enclosed(taken, b) = {} /\ HalfEnclosed(taken, b) = {}
    BY <1>6, ChosenPlaces
  <2> QED BY <2>1, <2>2 DEF MemAlloc
<1> QED BY <1>3, <1>4, <1>5, <1>6

\* If a place is not in S then S begins behind it.
LEMMA ScanGoesOn ==
  ASSUME NEW b \in BlockCounts, NEW S \in SUBSET Places(b), NEW k \in Places(b),
         \A i \in S : i >= k, k \notin S
  PROVE  \A i \in S : i >= k + b
<1> SUFFICES ASSUME NEW i \in S PROVE i >= k + b
  OBVIOUS
<1>1. i \in Stops(b) /\ k \in Stops(b)
  BY DEF Stops
<1>2. i \in Nat /\ k \in Nat
  BY PlacesAreSteps
<1>3. k < i
  BY <1>2
<1>4. b \in Nat
  BY PlacesAreSteps
<1>5. k + b <= i
  BY <1>1, <1>3, PlacesAreSteps
<1> QED BY <1>2, <1>4, <1>5

\* op is the first place of S before k, or MemBlocks if there is none.
FirstSeen(op, S, k) ==
  IF op = MemBlocks THEN \A i \in S : i >= k
                    ELSE op \in S /\ op < k /\ \A i \in S : op <= i

\* How op1 and op2 keep the first place they have seen.
LEMMA SeenGoesOn ==
  ASSUME NEW b \in BlockCounts, NEW S \in SUBSET Places(b), NEW k \in Places(b), NEW op,
         FirstSeen(op, S, k)
  PROVE  /\ k \notin S => FirstSeen(op, S, k + b)
         /\ k \in S => FirstSeen(IF k < op THEN k ELSE op, S, k + b)
<1>1. /\ k \in Nat /\ b \in Nat /\ b # 0 /\ k < MemBlocks /\ MemBlocks \in Nat
      /\ \A i \in S : i \in Nat
  BY PlacesAreSteps
<1>2. CASE op = MemBlocks
  <2>1. k \notin S => \A i \in S : i >= k + b
    BY <1>2, ScanGoesOn DEF FirstSeen
  <2>2. \A i \in S : k <= i
    BY <1>1, <1>2 DEF FirstSeen
  <2>3. k \in S => k \in S /\ k < k + b /\ k # MemBlocks
    BY <1>1
  <2> QED BY <1>1, <1>2, <2>1, <2>2, <2>3 DEF FirstSeen
<1>3. CASE op # MemBlocks
  <2>1. op \in S /\ op \in Nat /\ op < k /\ \A i \in S : op <= i
    BY <1>1, <1>3 DEF FirstSeen
  <2>2. op < k + b /\ ~(k < op)
    BY <1>1, <2>1
  <2> QED BY <1>3, <2>1, <2>2 DEF FirstSeen
<1> QED BY <1>2, <1>3

-----------------------------------------------------------------------------
\* The call has changed nothing before it returns, and the loop is at a place or
\* at the end.
CallTypes ==
  /\ CallTypeOK
  /\ called \subseteq Blocks
  /\ j \in Stops(blocks_to_reserve)
  /\ at # "returned" => mem = called

\* What the loop of mem_alloc knows of the places before j: whether one is
\* vacant, that none is enclosed, and the first ones with one side taken.
Scanned ==
  /\ ~FirstFit(blocks_to_reserve)
  /\ check2 <=> \E i \in Vacant(called, blocks_to_reserve) : i < j
  /\ \A i \in Enclosed(called, blocks_to_reserve) : i >= j
  /\ FirstSeen(op1, RightOnly(called, blocks_to_reserve), j)
  /\ FirstSeen(op2, LeftOnly(called, blocks_to_reserve), j)

\* What the loop of get_first_place knows of the places before j, and why it was
\* called: for a request it takes at once, or when there is no better place.
Passed ==
  /\ \A i \in Vacant(called, blocks_to_reserve) : i >= j
  /\ \/ FirstFit(blocks_to_reserve)
     \/ /\ Enclosed(called, blocks_to_reserve) = {}
        /\ HalfEnclosed(called, blocks_to_reserve) = {}

\* The inductive invariant of a call.
CallInv ==
  /\ CallTypes
  /\ at = "mem_alloc" => Scanned
  /\ at = "get_first_place" => Passed
  /\ ReturnsMemAlloc

LEMMA InitCall == CallInit => CallInv
<1> SUFFICES ASSUME CallInit PROVE CallInv
  OBVIOUS
<1> DEFINE b == blocks_to_reserve
<1>1. /\ b \in BlockCounts /\ called \subseteq Blocks /\ mem = called /\ j = 0 /\ check2 = FALSE
      /\ op1 = MemBlocks /\ op2 = MemBlocks /\ returned = NoPlace
      /\ at = IF FirstFit(b) THEN "get_first_place" ELSE "mem_alloc"
  BY DEF CallInit
<1>2. /\ 0 \in Places(b) /\ MemBlocks \in Nat /\ MemBlocks # 0
      /\ \A i \in Places(b) : i \in Nat /\ i >= 0 /\ ~(i < 0)
  BY <1>1, PlacesAreSteps, MemBlocksAssumption
<1>3. CallTypes
  <2>1. at \in {"mem_alloc", "get_first_place", "returned"}
    BY <1>1
  <2>2. j \in 0 .. MemBlocks /\ op1 \in 1 .. MemBlocks /\ op2 \in 1 .. MemBlocks
    BY <1>1, <1>2
  <2>3. j \in Stops(b)
    BY <1>1, <1>2 DEF Stops
  <2> QED BY <1>1, <2>1, <2>2, <2>3 DEF CallTypes, CallTypeOK
<1>4. /\ \A i \in Vacant(called, b) : i >= 0 /\ ~(i < 0)
      /\ \A i \in Enclosed(called, b) : i >= 0
      /\ \A i \in RightOnly(called, b) : i >= 0
      /\ \A i \in LeftOnly(called, b) : i >= 0
  BY <1>1, <1>2, ChosenPlaces
<1>5. ~FirstFit(b) => Scanned
  BY <1>1, <1>4 DEF Scanned, FirstSeen
<1>6. FirstFit(b) => Passed
  BY <1>1, <1>4 DEF Passed
<1> QED BY <1>1, <1>3, <1>5, <1>6 DEF CallInv, ReturnsMemAlloc

\* A call that returns the place that MemAlloc selects.
LEMMA ReturnCall ==
  ASSUME CallInv, at # "returned", NEW i, i = MemAlloc(called, blocks_to_reserve), Return(i),
         check2' \in BOOLEAN, op1' \in 1 .. MemBlocks, op2' \in 1 .. MemBlocks
  PROVE  CallInv'
<1>1. /\ returned' = i /\ mem' = Reserve(called, i, blocks_to_reserve) /\ at' = "returned"
      /\ blocks_to_reserve' = blocks_to_reserve /\ j' = j /\ called' = called
  BY DEF Return, CallInv, CallTypes
<1>2. /\ blocks_to_reserve \in BlockCounts /\ called \subseteq Blocks
      /\ j \in Stops(blocks_to_reserve) /\ j \in 0 .. MemBlocks
  BY DEF CallInv, CallTypes, CallTypeOK
<1>3. i \in Blocks \cup {NoPlace} /\ Reserve(called, i, blocks_to_reserve) \subseteq Blocks
  BY <1>2, MemAllocGrantsFreeBlocks DEF Reserve
<1>4. CallTypes'
  BY <1>1, <1>2, <1>3 DEF CallTypes, CallTypeOK
<1>5. ReturnsMemAlloc'
  BY <1>1 DEF ReturnsMemAlloc
<1> QED BY <1>1, <1>4, <1>5 DEF CallInv

\* A turn of a loop that goes on.
LEMMA GoOnTypes ==
  ASSUME CallInv, at # "returned", j < MemBlocks, GoOn,
         check2' \in BOOLEAN, op1' \in 1 .. MemBlocks, op2' \in 1 .. MemBlocks
  PROVE  /\ CallTypes' /\ ReturnsMemAlloc' /\ j \in Places(blocks_to_reserve)
         /\ j' = j + blocks_to_reserve
         /\ UNCHANGED <<mem, blocks_to_reserve, at, called>>
<1>1. /\ j' = j + blocks_to_reserve
      /\ UNCHANGED <<mem, blocks_to_reserve, at, returned, called>>
  BY DEF GoOn, NextPlace
<1>2. blocks_to_reserve \in BlockCounts /\ j \in Stops(blocks_to_reserve)
  BY DEF CallInv, CallTypes, CallTypeOK
<1>3. j \in Places(blocks_to_reserve)
  <2>1. MemBlocks \in Nat
    BY MemBlocksAssumption
  <2> QED BY <1>2, <2>1 DEF Stops
<1>4. j' \in Stops(blocks_to_reserve) /\ j' \in 0 .. MemBlocks
  <2>1. j + blocks_to_reserve \in Stops(blocks_to_reserve)
    BY <1>2, <1>3, PlacesAreSteps
  <2>2. \A i \in Stops(blocks_to_reserve) : i \in 0 .. MemBlocks
    BY <1>2, PlacesAreSteps
  <2> QED BY <1>1, <2>1, <2>2
<1>5. CallTypes'
  BY <1>1, <1>4 DEF CallInv, CallTypes, CallTypeOK
<1>6. ReturnsMemAlloc'
  BY <1>1 DEF ReturnsMemAlloc
<1> QED BY <1>1, <1>3, <1>5, <1>6

\* get_first_place: the first vacant place, or none.
LEMMA FirstVacantCall ==
  ASSUME CallInv, FirstVacant
  PROVE  CallInv'
<1> DEFINE b == blocks_to_reserve
<1>1. /\ at = "get_first_place" /\ j < MemBlocks
      /\ check2' = check2 /\ op1' = op1 /\ op2' = op2
  BY DEF FirstVacant, locals
<1>2. /\ check2' \in BOOLEAN /\ op1' \in 1 .. MemBlocks /\ op2' \in 1 .. MemBlocks
      /\ b \in BlockCounts /\ mem = called /\ j \in Stops(b) /\ Passed
  BY <1>1 DEF CallInv, CallTypes, CallTypeOK
<1>3. j \in Places(b)
  BY <1>1, <1>2, MemBlocksAssumption DEF Stops
<1>4. CASE Vacancy
  <2>1. j \in Vacant(called, b) /\ Return(j)
    BY <1>1, <1>2, <1>3, <1>4 DEF FirstVacant, Vacancy, Vacant
  <2>2. \A k \in Vacant(called, b) : j <= k
    <3>1. \A k \in Vacant(called, b) : k >= j /\ k \in Nat
      BY <1>2, ChosenPlaces, PlacesAreSteps DEF Passed
    <3>2. j \in Nat
      BY <1>2, <1>3, PlacesAreSteps
    <3> QED BY <3>1, <3>2
  <2>3. MemAlloc(called, b) = j
    BY <1>2, <2>1, <2>2, WhatMemAllocReturns DEF Passed
  <2> QED BY <1>1, <1>2, <2>1, <2>3, ReturnCall
<1>5. CASE ~Vacancy
  <2>1. GoOn /\ j \notin Vacant(called, b)
    BY <1>2, <1>5 DEF FirstVacant, Vacancy, Vacant
  <2>2. /\ CallTypes' /\ ReturnsMemAlloc' /\ j' = j + b
        /\ UNCHANGED <<mem, blocks_to_reserve, at, called>>
    BY <1>1, <1>2, <2>1, GoOnTypes
  <2>3. \A i \in Vacant(called, b) : i >= j + b
    BY <1>2, <1>3, <2>1, ChosenPlaces, ScanGoesOn DEF Passed
  <2>4. Passed'
    BY <1>2, <2>2, <2>3 DEF Passed
  <2> QED BY <1>1, <2>2, <2>4 DEF CallInv
<1> QED BY <1>4, <1>5

LEMMA NoneVacantCall ==
  ASSUME CallInv, NoneVacant
  PROVE  CallInv'
<1> DEFINE b == blocks_to_reserve
<1>1. /\ at = "get_first_place" /\ j >= MemBlocks /\ Return(NoPlace)
      /\ check2' = check2 /\ op1' = op1 /\ op2' = op2
  BY DEF NoneVacant, locals
<1>2. /\ check2' \in BOOLEAN /\ op1' \in 1 .. MemBlocks /\ op2' \in 1 .. MemBlocks
      /\ b \in BlockCounts /\ j \in 0 .. MemBlocks /\ Passed
  BY <1>1 DEF CallInv, CallTypes, CallTypeOK
<1>3. Vacant(called, b) = {}
  <2>1. ASSUME NEW i \in Vacant(called, b) PROVE FALSE
    <3>1. i \in Nat /\ i < MemBlocks /\ MemBlocks \in Nat /\ i >= j
      BY <1>2, ChosenPlaces, PlacesAreSteps DEF Passed
    <3> QED BY <1>1, <1>2, <3>1
  <2> QED BY <2>1
<1>4. MemAlloc(called, b) = NoPlace
  BY <1>2, <1>3, WhatMemAllocReturns
<1> QED BY <1>1, <1>2, <1>4, ReturnCall

\* What a turn of mem_alloc's loop leaves to show when it goes on.
LEMMA ScannedGoesOn ==
  ASSUME CallInv, at = "mem_alloc", j < MemBlocks, GoOn,
         check2' \in BOOLEAN, op1' \in 1 .. MemBlocks, op2' \in 1 .. MemBlocks,
         j \notin Enclosed(called, blocks_to_reserve),
         check2' <=> check2 \/ j \in Vacant(called, blocks_to_reserve),
         op1' = IF j \in RightOnly(called, blocks_to_reserve) THEN Earlier(op1) ELSE op1,
         op2' = IF j \in LeftOnly(called, blocks_to_reserve) THEN Earlier(op2) ELSE op2
  PROVE  CallInv'
<1> DEFINE b == blocks_to_reserve
<1>1. /\ CallTypes' /\ ReturnsMemAlloc' /\ j \in Places(b) /\ j' = j + b
      /\ UNCHANGED <<mem, blocks_to_reserve, at, called>>
  BY GoOnTypes
<1>2. Scanned /\ b \in BlockCounts
  BY DEF CallInv, CallTypes, CallTypeOK
<1>3. \A i \in Enclosed(called, b) : i >= j + b
  <2>1. Enclosed(called, b) \in SUBSET Places(b)
    BY <1>2, ChosenPlaces
  <2> QED BY <1>1, <1>2, <2>1, ScanGoesOn DEF Scanned
<1>4. check2' <=> \E i \in Vacant(called, b) : i < j + b
  <2>1. /\ j \in Nat /\ b \in Nat \ {0} /\ j \in Stops(b)
        /\ \A i \in Vacant(called, b) : i \in Nat /\ i \in Stops(b)
    BY <1>1, <1>2, ChosenPlaces, PlacesAreSteps DEF Stops
  <2>2. ASSUME NEW i \in Vacant(called, b) PROVE i < j + b <=> i < j \/ i = j
    <3>1. j < i => j + b <= i
      BY <1>2, <2>1, PlacesAreSteps
    <3> QED BY <2>1, <3>1
  <2> QED BY <1>2, <2>2 DEF Scanned
<1>5. FirstSeen(op1', RightOnly(called, b), j + b)
  <2>1. RightOnly(called, b) \in SUBSET Places(b)
    BY <1>2, ChosenPlaces
  <2> QED BY <1>1, <1>2, <2>1, SeenGoesOn DEF Scanned, Earlier
<1>6. FirstSeen(op2', LeftOnly(called, b), j + b)
  <2>1. LeftOnly(called, b) \in SUBSET Places(b)
    BY <1>2, ChosenPlaces
  <2> QED BY <1>1, <1>2, <2>1, SeenGoesOn DEF Scanned, Earlier
<1>7. Scanned'
  BY <1>1, <1>2, <1>3, <1>4, <1>5, <1>6 DEF Scanned
<1> QED BY <1>1, <1>7 DEF CallInv

\* Each turn of mem_alloc's loop.
LEMMA SkipTakenCall ==
  ASSUME CallInv, SkipTaken
  PROVE  CallInv'
<1> DEFINE b == blocks_to_reserve
<1>1. /\ at = "mem_alloc" /\ j < MemBlocks /\ GoOn /\ ~Vacancy
      /\ check2' = check2 /\ op1' = op1 /\ op2' = op2
  BY DEF SkipTaken, locals
<1>2. /\ check2' \in BOOLEAN /\ op1' \in 1 .. MemBlocks /\ op2' \in 1 .. MemBlocks
      /\ b \in BlockCounts /\ mem = called
  BY <1>1 DEF CallInv, CallTypes, CallTypeOK
<1>3. j \notin Vacant(called, b)
  BY <1>1, <1>2 DEF Vacancy, Vacant
<1>4. /\ j \notin Enclosed(called, b) /\ j \notin RightOnly(called, b)
      /\ j \notin LeftOnly(called, b)
  BY <1>2, <1>3, ChosenPlaces
<1>5. check2' <=> check2 \/ j \in Vacant(called, b)
  BY <1>1, <1>3
<1> QED BY <1>1, <1>2, <1>4, <1>5, ScannedGoesOn

\* What the scan reads of a vacant place's neighbours decides what it is, also
\* where it reads beyond the end of mem.
LEMMA ReadsOfNeighbours ==
  ASSUME CallInv, at = "mem_alloc", j < MemBlocks, Vacancy, NEW right \in RightSide
  PROVE  LET b == blocks_to_reserve
         IN  /\ b \in BlockCounts /\ j \in Vacant(called, b) /\ j \in Places(b)
             /\ LeftSide = LeftTaken(called, j, b)
             /\ ~AtEnd(j, b) => right = RightTaken(called, j, b)
<1> DEFINE b == blocks_to_reserve
<1>1. b \in BlockCounts /\ mem = called /\ j \in Stops(b)
  BY DEF CallInv, CallTypes, CallTypeOK
<1>2. j \in Places(b)
  BY <1>1, MemBlocksAssumption DEF Stops
<1>3. j \in Vacant(called, b)
  BY <1>1, <1>2 DEF Vacancy, Vacant
<1>4. LeftSide = LeftTaken(called, j, b)
  BY <1>1 DEF LeftSide
<1>5. ASSUME ~AtEnd(j, b) PROVE right = RightTaken(called, j, b)
  <2>1. /\ b \in Nat /\ j \in Nat /\ MemBlocks \in Nat /\ j + b \in Stops(b)
        /\ j # MemBlocks - b
    BY <1>1, <1>2, <1>5, PlacesAreSteps DEF AtEnd
  <2>2. j + b < MemBlocks
    <3>1. j + b <= MemBlocks
      BY <1>1, <2>1, PlacesAreSteps
    <3> QED BY <2>1, <3>1
  <2>3. j + b + b <= MemBlocks
    <3>1. MemBlocks \in Stops(b)
      BY DEF Stops
    <3> QED BY <1>1, <2>1, <2>2, <3>1, PlacesAreSteps
  <2>4. j + 2 * b <= MemBlocks
    BY <2>1, <2>3
  <2>5. RightSide = {RightTaken(called, j, b)}
    BY <1>1, <2>4 DEF RightSide
  <2> QED BY <2>5
<1> QED BY <1>1, <1>2, <1>3, <1>4, <1>5

\* A request of the whole memory finds it vacant at 0, or not at all.
LEMMA WholeMemory ==
  ASSUME NEW taken \in SUBSET Blocks, NEW b \in BlockCounts, AtStart(0), AtEnd(0, b)
  PROVE  Enclosed(taken, b) = {} /\ HalfEnclosed(taken, b) = {}
<1>1. b = MemBlocks /\ b \in Nat \ {0}
  BY PlacesAreSteps DEF AtEnd
<1>2. ASSUME NEW i \in Vacant(taken, b) PROVE AtStart(i) /\ AtEnd(i, b) /\ ~RightTaken(taken, i, b)
  <2>1. i \in Nat /\ i < MemBlocks /\ i + b \in Stops(b)
    BY ChosenPlaces, PlacesAreSteps
  <2>2. i + b <= MemBlocks
    BY <2>1, PlacesAreSteps
  <2>3. i = 0
    BY <1>1, <2>1, <2>2
  <2>4. Region(i + b, b) \cap taken = {}
    <3>1. \A k \in Region(i + b, b) : k \notin Blocks
      BY <1>1, <2>3 DEF Region, Blocks
    <3> QED BY <3>1
  <2> QED BY <1>1, <2>3, <2>4 DEF AtStart, AtEnd, RightTaken, Free
<1>3. Enclosed(taken, b) = {}
  BY <1>2 DEF Enclosed
<1>4. HalfEnclosed(taken, b) = {}
  BY <1>2 DEF HalfEnclosed
<1> QED BY <1>3, <1>4

LEMMA AtEitherEndCall ==
  ASSUME CallInv, AtEitherEnd
  PROVE  CallInv'
<1> DEFINE b == blocks_to_reserve
<1>1. PICK right \in RightSide :
        IF IF j = 0 THEN right ELSE LeftSide THEN Return(j) ELSE GoOn
  BY DEF AtEitherEnd
<1>2. /\ at = "mem_alloc" /\ Vacancy /\ check2' = TRUE /\ op1' = op1 /\ op2' = op2
      /\ AtStart(j) \/ AtEnd(j, b)
  BY DEF AtEitherEnd, AtStart, AtEnd
<1>3. /\ check2' \in BOOLEAN /\ op1' \in 1 .. MemBlocks /\ op2' \in 1 .. MemBlocks
      /\ b \in BlockCounts /\ called \in SUBSET Blocks /\ Scanned /\ j \in Stops(b)
  BY <1>2 DEF CallInv, CallTypes, CallTypeOK
<1>4. j < MemBlocks
  <2>1. b \in Nat \ {0} /\ MemBlocks \in Nat /\ MemBlocks # 0
    BY <1>3, PlacesAreSteps, MemBlocksAssumption
  <2> QED BY <1>2, <2>1 DEF AtStart, AtEnd
<1>5. /\ j \in Vacant(called, b) /\ LeftSide = LeftTaken(called, j, b)
      /\ ~AtEnd(j, b) => right = RightTaken(called, j, b)
  BY <1>2, <1>4, ReadsOfNeighbours
<1>6. \A k \in Vacant(called, b) : k \in Nat
  BY <1>3, ChosenPlaces, PlacesAreSteps
<1>7. ASSUME IF j = 0 THEN right ELSE LeftSide
      PROVE  MemAlloc(called, b) = j
  <2>1. CASE j = 0 /\ AtEnd(j, b)
    <3>1. Enclosed(called, b) = {} /\ HalfEnclosed(called, b) = {}
      BY <1>3, <2>1, WholeMemory DEF AtStart
    <3>2. \A k \in Vacant(called, b) : j <= k
      BY <1>6, <2>1
    <3> QED BY <1>3, <1>5, <3>1, <3>2, WhatMemAllocReturns
  <2>2. CASE ~(j = 0 /\ AtEnd(j, b))
    <3>1. j \in Enclosed(called, b)
      <4>1. CASE j = 0
        BY <1>5, <1>7, <2>2, <4>1 DEF Enclosed, AtStart
      <4>2. CASE j # 0
        BY <1>2, <1>5, <1>7, <4>2 DEF Enclosed, AtStart
      <4> QED BY <4>1, <4>2
    <3>2. \A k \in Enclosed(called, b) : j <= k
      BY <1>3, <1>5, <1>6, ChosenPlaces DEF Scanned
    <3> QED BY <1>3, <3>1, <3>2, WhatMemAllocReturns DEF Scanned
  <2> QED BY <2>1, <2>2
<1>8. ASSUME ~(IF j = 0 THEN right ELSE LeftSide)
      PROVE  j \notin Enclosed(called, b)
  <2>1. CASE j = 0 /\ AtEnd(j, b)
    BY <1>3, <2>1, WholeMemory DEF AtStart
  <2>2. CASE j = 0 /\ ~AtEnd(j, b)
    BY <1>5, <1>8, <2>2 DEF Enclosed
  <2>3. CASE j # 0
    BY <1>5, <1>8, <2>3 DEF Enclosed, AtStart
  <2> QED BY <2>1, <2>2, <2>3
<1>9. CASE IF j = 0 THEN right ELSE LeftSide
  <2>1. Return(j)
    BY <1>1, <1>9
  <2> QED BY <1>2, <1>3, <1>7, <1>9, <2>1, ReturnCall
<1>10. CASE ~(IF j = 0 THEN right ELSE LeftSide)
  <2>1. GoOn /\ j \notin Enclosed(called, b)
    BY <1>1, <1>8, <1>10
  <2>2. j \notin RightOnly(called, b) /\ j \notin LeftOnly(called, b)
    BY <1>2 DEF RightOnly, LeftOnly
  <2>3. check2' <=> check2 \/ j \in Vacant(called, b)
    BY <1>2, <1>5
  <2>4. /\ op1' = IF j \in RightOnly(called, b) THEN Earlier(op1) ELSE op1
        /\ op2' = IF j \in LeftOnly(called, b) THEN Earlier(op2) ELSE op2
    BY <1>2, <2>2
  <2> QED BY <1>2, <1>3, <1>4, <2>1, <2>3, <2>4, ScannedGoesOn
<1> QED BY <1>9, <1>10

LEMMA InTheMiddleCall ==
  ASSUME CallInv, InTheMiddle
  PROVE  CallInv'
<1> DEFINE b == blocks_to_reserve
<1>1. PICK right \in RightSide :
        IF Between(right)
        THEN Return(j) /\ UNCHANGED <<op1, op2>>
        ELSE /\ GoOn
             /\ op1' = IF right THEN Earlier(op1) ELSE op1
             /\ op2' = IF ~right /\ LeftSide THEN Earlier(op2) ELSE op2
  BY DEF InTheMiddle
<1>2. /\ at = "mem_alloc" /\ Vacancy /\ check2' = TRUE
      /\ 0 < j /\ j < MemBlocks - b
  BY DEF InTheMiddle
<1>3. /\ check2' \in BOOLEAN /\ op1 \in 1 .. MemBlocks /\ op2 \in 1 .. MemBlocks
      /\ b \in BlockCounts /\ called \in SUBSET Blocks /\ Scanned /\ j \in 0 .. MemBlocks
  BY <1>2 DEF CallInv, CallTypes, CallTypeOK
<1>4. j < MemBlocks /\ ~AtStart(j) /\ ~AtEnd(j, b) /\ j \in 1 .. MemBlocks
  <2>1. b \in Nat \ {0} /\ MemBlocks \in Nat
    BY <1>3, PlacesAreSteps
  <2> QED BY <1>2, <1>3, <2>1 DEF AtStart, AtEnd
<1>5. /\ j \in Vacant(called, b) /\ LeftSide = LeftTaken(called, j, b)
      /\ right = RightTaken(called, j, b)
  BY <1>2, <1>4, ReadsOfNeighbours
<1>6. \A k \in Vacant(called, b) : k \in Nat
  BY <1>3, ChosenPlaces, PlacesAreSteps
<1>7. Between(right) <=> j \in Enclosed(called, b)
  BY <1>4, <1>5 DEF Between, Enclosed
<1>8. CASE Between(right)
  <2>1. \A k \in Enclosed(called, b) : j <= k
    BY <1>3, <1>5, <1>6, ChosenPlaces DEF Scanned
  <2>2. MemAlloc(called, b) = j
    BY <1>3, <1>7, <1>8, <2>1, WhatMemAllocReturns DEF Scanned
  <2>3. Return(j) /\ op1' = op1 /\ op2' = op2
    BY <1>1, <1>8
  <2> QED BY <1>2, <1>3, <2>2, <2>3, ReturnCall
<1>9. CASE ~Between(right)
  <2>1. /\ GoOn /\ j \notin Enclosed(called, b)
        /\ op1' = IF right THEN Earlier(op1) ELSE op1
        /\ op2' = IF ~right /\ LeftSide THEN Earlier(op2) ELSE op2
    BY <1>1, <1>7, <1>9
  <2>2. /\ right <=> j \in RightOnly(called, b)
        /\ ~right /\ LeftSide <=> j \in LeftOnly(called, b)
    BY <1>4, <1>5, <1>9 DEF RightOnly, LeftOnly, Between
  <2>3. check2' <=> check2 \/ j \in Vacant(called, b)
    BY <1>2, <1>5
  <2>4. /\ op1' = IF j \in RightOnly(called, b) THEN Earlier(op1) ELSE op1
        /\ op2' = IF j \in LeftOnly(called, b) THEN Earlier(op2) ELSE op2
    BY <2>1, <2>2
  <2>5. op1' \in 1 .. MemBlocks /\ op2' \in 1 .. MemBlocks
    BY <1>3, <1>4, <2>4 DEF Earlier
  <2> QED BY <1>2, <1>3, <1>4, <2>1, <2>3, <2>4, <2>5, ScannedGoesOn
<1> QED BY <1>8, <1>9

\* After the last place: none is vacant, or the first place with one side taken,
\* whichever side, or the turn of get_first_place.
LEMMA EndOfScanCall ==
  ASSUME CallInv, EndOfScan
  PROVE  CallInv'
<1> DEFINE b == blocks_to_reserve
           chosen == IF op1 > op2 THEN op2 ELSE op1
<1>1. /\ at = "mem_alloc" /\ j >= MemBlocks
      /\ check2' = check2 /\ op1' = op1 /\ op2' = op2
  BY DEF EndOfScan, locals
<1>2. /\ check2' \in BOOLEAN /\ op1' \in 1 .. MemBlocks /\ op2' \in 1 .. MemBlocks
      /\ b \in BlockCounts /\ mem = called /\ Scanned /\ j \in 0 .. MemBlocks
  BY <1>1 DEF CallInv, CallTypes, CallTypeOK
<1>3. /\ MemBlocks \in Nat /\ j = MemBlocks
      /\ \A i \in Vacant(called, b) : i \in Nat /\ i < j /\ ~(i >= j)
  <2>1. MemBlocks \in Nat /\ \A i \in Vacant(called, b) : i \in Nat /\ i < MemBlocks
    BY <1>2, ChosenPlaces, PlacesAreSteps
  <2> QED BY <1>1, <1>2, <2>1
<1>4. Enclosed(called, b) = {}
  BY <1>2, <1>3, ChosenPlaces DEF Scanned
<1>5. /\ op1 = MemBlocks => RightOnly(called, b) = {}
      /\ op1 # MemBlocks => op1 \in RightOnly(called, b) /\ op1 < MemBlocks
      /\ \A i \in RightOnly(called, b) : op1 <= i
      /\ op2 = MemBlocks => LeftOnly(called, b) = {}
      /\ op2 # MemBlocks => op2 \in LeftOnly(called, b) /\ op2 < MemBlocks
      /\ \A i \in LeftOnly(called, b) : op2 <= i
  <2>1. /\ \A i \in RightOnly(called, b) : ~(i >= j)
        /\ \A i \in LeftOnly(called, b) : ~(i >= j)
    BY <1>2, <1>3, ChosenPlaces
  <2> QED BY <1>2, <1>3, <2>1 DEF Scanned, FirstSeen
<1>6. HalfEnclosed(called, b) = RightOnly(called, b) \cup LeftOnly(called, b)
  BY <1>2, ChosenPlaces
<1>7. CASE ~check2
  <2>1. Vacant(called, b) = {}
    BY <1>2, <1>3, <1>7 DEF Scanned
  <2>2. MemAlloc(called, b) = NoPlace /\ Return(NoPlace)
    BY <1>2, <1>7, <2>1, WhatMemAllocReturns DEF EndOfScan
  <2> QED BY <1>1, <1>2, <2>2, ReturnCall
<1>8. CASE check2 /\ op1 = MemBlocks /\ op2 = MemBlocks
  <2>1. /\ at' = "get_first_place" /\ j' = 0
        /\ UNCHANGED <<mem, blocks_to_reserve, returned, called>>
    BY <1>8 DEF EndOfScan
  <2>2. HalfEnclosed(called, b) = {}
    BY <1>5, <1>6, <1>8
  <2>3. \A i \in Vacant(called, b) : i >= 0
    BY <1>3
  <2>4. Passed'
    BY <1>4, <2>1, <2>2, <2>3 DEF Passed
  <2>5. 0 \in Stops(b) /\ 0 \in 0 .. MemBlocks
    BY <1>2, <1>3, PlacesAreSteps DEF Stops
  <2>6. CallTypes'
    BY <1>1, <1>2, <2>1, <2>5 DEF CallInv, CallTypes, CallTypeOK
  <2>7. ReturnsMemAlloc'
    BY <2>1 DEF ReturnsMemAlloc
  <2> QED BY <2>1, <2>4, <2>6, <2>7 DEF CallInv
<1>9. CASE check2 /\ ~(op1 = MemBlocks /\ op2 = MemBlocks)
  <2>1. Return(chosen)
    BY <1>9 DEF EndOfScan
  <2>2. PICK i : i = chosen
    OBVIOUS
  <2>3. i \in HalfEnclosed(called, b)
    BY <1>1, <1>2, <1>3, <1>5, <1>6, <1>9, <2>2
  <2>4. i <= op1 /\ i <= op2 /\ i \in Nat /\ op1 \in Nat /\ op2 \in Nat
    BY <1>1, <1>2, <1>3, <2>2
  <2>5. ASSUME NEW k \in HalfEnclosed(called, b) PROVE i <= k
    <3>1. k \in Nat
      BY <1>2, <1>3, <2>5, ChosenPlaces
    <3>2. op1 <= k \/ op2 <= k
      BY <1>5, <1>6, <2>5
    <3> QED BY <2>4, <3>1, <3>2
  <2>6. MemAlloc(called, b) = i
    BY <1>2, <1>4, <2>3, <2>5, WhatMemAllocReturns DEF Scanned
  <2> QED BY <1>1, <1>2, <2>1, <2>2, <2>6, ReturnCall
<1> QED BY <1>7, <1>8, <1>9

LEMMA NextCall == CallInv /\ [CallNext]_callVars => CallInv'
<1> SUFFICES ASSUME CallInv, [CallNext]_callVars PROVE CallInv'
  OBVIOUS
<1>1. CASE UNCHANGED callVars
  <2>1. UNCHANGED <<mem, blocks_to_reserve, at, j, check2, op1, op2, returned, called>>
    BY <1>1 DEF callVars, locals
  <2>2. CallTypes' /\ ReturnsMemAlloc'
    BY <2>1 DEF CallInv, CallTypes, CallTypeOK, ReturnsMemAlloc
  <2>3. (at = "mem_alloc" => Scanned') /\ (at = "get_first_place" => Passed')
    BY <2>1 DEF CallInv, Scanned, Passed
  <2> QED BY <2>1, <2>2, <2>3 DEF CallInv
<1> QED BY <1>1, FirstVacantCall, NoneVacantCall, SkipTakenCall, AtEitherEndCall,
          InTheMiddleCall, EndOfScanCall DEF CallNext

LEMMA CallInvariant == CallSpec => []CallInv
BY InitCall, NextCall, PTL DEF CallSpec

\* Every index the loops use is in range, and so is the place they return.
THEOREM CallTypeCorrect == CallSpec => []CallTypeOK
<1>1. CallInv => CallTypeOK
  BY DEF CallInv, CallTypes
<1> QED BY <1>1, CallInvariant, PTL

\* For every memory, whatever is taken in it, every request, and whatever is read
\* beyond the end of mem, the loops return the place that MemAlloc selects, and set
\* the flags of its region: the scheduler's modules lose nothing by taking a call as
\* one step.
THEOREM LoopsReturnMemAlloc == CallSpec => []ReturnsMemAlloc
<1>1. CallInv => ReturnsMemAlloc
  BY DEF CallInv
<1> QED BY <1>1, CallInvariant, PTL

-----------------------------------------------------------------------------
\* A place has two neighbours, so what matters is which of them are vacant.
LEMMA CountsOfBeside ==
  ASSUME NEW S, NEW x, NEW y, S \subseteq {x, y}
  PROVE  /\ Cardinality(S) \in Nat
         /\ S = {} <=> Cardinality(S) = 0
         /\ x \notin S \/ y \notin S => Cardinality(S) <= 1
<1>1. IsFiniteSet({x}) /\ Cardinality({x}) = 1 /\ IsFiniteSet({y}) /\ Cardinality({y}) = 1
  BY FS_Singleton, Zenon
<1>2. IsFiniteSet({x} \cup {y})
  BY <1>1, FS_AddElement, Zenon
<1>3. {x} \cup {y} = {x, y}
  OBVIOUS
<1>4. IsFiniteSet(S)
  BY <1>2, <1>3, FS_Subset, Zenon
<1>5. Cardinality(S) \in Nat /\ (S = {} <=> Cardinality(S) = 0)
  BY <1>4, FS_CardinalityType, FS_EmptySet, Zenon
<1>6. ASSUME x \notin S \/ y \notin S PROVE Cardinality(S) <= 1
  <2>1. S \in SUBSET {x} \/ S \in SUBSET {y}
    BY <1>6
  <2>2. Cardinality(S) <= Cardinality({x}) \/ Cardinality(S) <= Cardinality({y})
    BY <1>1, <2>1, FS_Subset, Zenon
  <2> QED BY <1>1, <2>2
<1> QED BY <1>5, <1>6

\* A neighbour is vacant if it is in the memory and not taken.
LEMMA VacantNeighbours ==
  ASSUME NEW taken, NEW b \in BlockCounts, NEW i \in Vacant(taken, b)
  PROVE  /\ i - b \in Vacant(taken, b) <=> ~AtStart(i) /\ ~LeftTaken(taken, i, b)
         /\ i + b \in Vacant(taken, b) <=> ~AtEnd(i, b) /\ ~RightTaken(taken, i, b)
<1>1. /\ b \in Nat \ {0} /\ MemBlocks \in Nat /\ i \in Nat /\ i \in Places(b)
      /\ i + b \in Stops(b) /\ (i # 0 => i - b \in Places(b))
      /\ \A k \in Places(b) : k \in Nat /\ k < MemBlocks
  BY ChosenPlaces, PlacesAreSteps
<1>2. i - b \in Places(b) <=> ~AtStart(i)
  BY <1>1 DEF AtStart
<1>3. i + b \in Places(b) <=> ~AtEnd(i, b)
  <2>1. i + b = MemBlocks <=> AtEnd(i, b)
    BY <1>1 DEF AtEnd
  <2>2. i + b = MemBlocks => i + b \notin Places(b)
    BY <1>1
  <2> QED BY <1>1, <2>1, <2>2 DEF Stops
<1> QED BY <1>2, <1>3 DEF Vacant, LeftTaken, RightTaken

\* Half of the memory has two places.
LEMMA PlacesOfHalves ==
  ASSUME NEW b \in BlockCounts, b > 1, b = MemBlocks \div 2, NEW k \in Places(b)
  PROVE  k = 0 \/ k = b
<1>1. /\ b \in Nat /\ MemBlocks \in Nat /\ k \in Nat /\ k \in Stops(b)
      /\ k + b \in Stops(b) /\ 0 \in Places(b)
  BY PlacesAreSteps DEF Stops
<1>2. 2 * b <= MemBlocks /\ MemBlocks <= 2 * b + 1
  BY <1>1
<1>3. k + b <= MemBlocks
  BY <1>1, PlacesAreSteps
<1>4. 0 < k => b <= k
  <2>1. 0 \in Stops(b) /\ (0 < k => 0 + b <= k)
    BY <1>1, PlacesAreSteps DEF Stops
  <2> QED BY <1>1, <2>1
<1>5. b < k => b + b <= k
  <2>1. 0 + b \in Stops(b)
    BY <1>1, PlacesAreSteps
  <2>2. b \in Stops(b)
    BY <1>1, <2>1
  <2> QED BY <1>1, <2>2, PlacesAreSteps
<1> QED BY <1>1, <1>2, <1>3, <1>4, <1>5

\* How many vacant places are beside one of each kind.
LEMMA BesideCounts ==
  ASSUME called \in SUBSET Blocks, NEW b \in BlockCounts, NEW i \in Vacant(called, b)
  PROVE  /\ Cardinality(VacantBeside(i, b)) \in Nat
         /\ i \in Enclosed(called, b) => Cardinality(VacantBeside(i, b)) = 0
         /\ i \in HalfEnclosed(called, b) => Cardinality(VacantBeside(i, b)) <= 1
         /\ (\A k \in Vacant(called, b) : i <= k) => Cardinality(VacantBeside(i, b)) <= 1
         /\ i \notin Enclosed(called, b) /\ b # MemBlocks => Cardinality(VacantBeside(i, b)) >= 1
<1> DEFINE S == VacantBeside(i, b)
<1>1. /\ i - b \in S <=> ~AtStart(i) /\ ~LeftTaken(called, i, b)
      /\ i + b \in S <=> ~AtEnd(i, b) /\ ~RightTaken(called, i, b)
  BY VacantNeighbours DEF VacantBeside
<1>2. S \subseteq {i - b, i + b}
  BY DEF VacantBeside
<1>3. /\ i \in Nat /\ b \in Nat \ {0} /\ MemBlocks \in Nat
      /\ \A k \in Vacant(called, b) : k \in Nat
  BY ChosenPlaces, PlacesAreSteps
<1>4. S \subseteq Vacant(called, b)
  BY DEF VacantBeside
<1> HIDE DEF S
<1>5. /\ Cardinality(S) \in Nat
      /\ S = {} <=> Cardinality(S) = 0
      /\ i - b \notin S \/ i + b \notin S => Cardinality(S) <= 1
  BY <1>2, CountsOfBeside
<1>6. ASSUME i \in Enclosed(called, b) PROVE Cardinality(S) = 0
  <2>1. i - b \notin S /\ i + b \notin S
    BY <1>1, <1>6 DEF Enclosed
  <2> QED BY <1>2, <1>5, <2>1
<1>7. ASSUME i \in HalfEnclosed(called, b) PROVE Cardinality(S) <= 1
  <2>1. i - b \notin S \/ i + b \notin S
    <3>1. LeftTaken(called, i, b) # RightTaken(called, i, b)
      BY <1>7 DEF HalfEnclosed
    <3>2. LeftTaken(called, i, b) \/ RightTaken(called, i, b)
      BY <3>1 DEF LeftTaken, RightTaken
    <3> QED BY <1>1, <3>2
  <2> QED BY <1>5, <2>1
<1>8. ASSUME \A k \in Vacant(called, b) : i <= k PROVE Cardinality(S) <= 1
  <2>1. i - b \notin S
    <3>1. ~(i <= i - b)
      BY <1>3
    <3> QED BY <1>4, <1>8, <3>1
  <2> QED BY <1>5, <2>1
<1>9. ASSUME i \notin Enclosed(called, b), b # MemBlocks PROVE Cardinality(S) >= 1
  <2>1. ~(AtStart(i) /\ AtEnd(i, b))
    BY <1>3, <1>9 DEF AtStart, AtEnd
  <2>2. i - b \in S \/ i + b \in S
    BY <1>1, <1>9, <2>1 DEF Enclosed
  <2>3. Cardinality(S) # 0
    BY <1>5, <2>2
  <2> QED BY <1>5, <2>3
<1> QED BY <1>5, <1>6, <1>7, <1>8, <1>9 DEF S

\* Whichever way it is found, the place returned has no more than any other.
LEMMA MemAllocIsTightest ==
  ASSUME called \in SUBSET Blocks, NEW b \in BlockCounts, b > 1,
         NEW r, r = MemAlloc(called, b), r # NoPlace, NEW i \in Vacant(called, b)
  PROVE  Cardinality(VacantBeside(r, b)) <= Cardinality(VacantBeside(i, b))
<1>1. r \in Vacant(called, b)
  BY MemAllocIsVacant
<1>2. /\ Cardinality(VacantBeside(r, b)) \in Nat /\ Cardinality(VacantBeside(i, b)) \in Nat
      /\ r \in Enclosed(called, b) => Cardinality(VacantBeside(r, b)) = 0
      /\ r \in HalfEnclosed(called, b) => Cardinality(VacantBeside(r, b)) <= 1
      /\ (\A k \in Vacant(called, b) : r <= k) => Cardinality(VacantBeside(r, b)) <= 1
      /\ i \notin Enclosed(called, b) /\ b # MemBlocks => Cardinality(VacantBeside(i, b)) >= 1
  BY <1>1, BesideCounts
<1>3. /\ r \in Nat /\ i \in Nat /\ b \in Nat \ {0} /\ MemBlocks \in Nat
      /\ r + b <= MemBlocks /\ i + b <= MemBlocks
      /\ Vacant(called, b) \subseteq Nat /\ Enclosed(called, b) \subseteq Nat
      /\ HalfEnclosed(called, b) \subseteq Nat
  BY <1>1, ChosenPlaces, PlacesAreSteps
<1>4. CASE r = i
  BY <1>2, <1>4
<1>5. CASE r # i /\ FirstFit(b)
  <2>1. b = MemBlocks \div 2
    BY <1>3, <1>5 DEF FirstFit
  <2>2. \A k \in Vacant(called, b) : k = 0 \/ k = b
    BY <2>1, ChosenPlaces, PlacesOfHalves
  <2>3. (r = 0 /\ i = b) \/ (r = b /\ i = 0)
    BY <1>1, <1>5, <2>2
  <2>4. r \in VacantBeside(i, b)
    BY <1>1, <1>3, <2>3 DEF VacantBeside
  <2>5. r - b \notin VacantBeside(r, b) \/ r + b \notin VacantBeside(r, b)
    BY <1>3, <2>2, <2>3 DEF VacantBeside
  <2>6. /\ VacantBeside(i, b) \subseteq {i - b, i + b}
        /\ VacantBeside(r, b) \subseteq {r - b, r + b}
    BY DEF VacantBeside
  <2>7. Cardinality(VacantBeside(r, b)) <= 1
    BY <2>5, <2>6, CountsOfBeside
  <2>8. Cardinality(VacantBeside(i, b)) # 0
    BY <2>4, <2>6, CountsOfBeside
  <2> QED BY <1>2, <2>7, <2>8
<1>6. CASE r # i /\ ~FirstFit(b)
  <2>1. b # MemBlocks
    BY <1>3, <1>6
  <2>2. CASE Enclosed(called, b) # {}
    <3>1. Min(Enclosed(called, b)) \in Enclosed(called, b)
      BY <1>3, <2>2, MinIsLeast
    <3>2. r \in Enclosed(called, b)
      BY <1>6, <2>2, <3>1 DEF MemAlloc
    <3> QED BY <1>2, <3>2
  <2>3. CASE Enclosed(called, b) = {} /\ HalfEnclosed(called, b) # {}
    <3>1. Min(HalfEnclosed(called, b)) \in HalfEnclosed(called, b)
      BY <1>3, <2>3, MinIsLeast
    <3>2. r \in HalfEnclosed(called, b)
      BY <1>6, <2>3, <3>1 DEF MemAlloc
    <3> QED BY <1>2, <2>1, <2>3, <3>2
  <2>4. CASE Enclosed(called, b) = {} /\ HalfEnclosed(called, b) = {}
    <3>1. r = Min(Vacant(called, b))
      BY <1>1, <1>6, <2>4 DEF MemAlloc, FirstPlace, FirstOf
    <3>2. \A k \in Vacant(called, b) : r <= k
      BY <1>1, <1>3, <3>1, MinIsLeast
    <3> QED BY <1>2, <2>1, <2>4, <3>2
  <2> QED BY <2>2, <2>3, <2>4
<1> QED BY <1>4, <1>5, <1>6

\* No vacant place has fewer vacant places beside it than the one returned.
THEOREM ChoosesTightestPlace == CallSpec => []TightestPlace
<1>1. CallInv => TightestPlace
  <2>1. SUFFICES ASSUME CallInv, at = "returned", returned # NoPlace, blocks_to_reserve > 1,
                        NEW i \in Vacant(called, blocks_to_reserve)
                 PROVE  Cardinality(VacantBeside(returned, blocks_to_reserve))
                          <= Cardinality(VacantBeside(i, blocks_to_reserve))
    BY DEF TightestPlace
  <2>2. /\ called \in SUBSET Blocks /\ blocks_to_reserve \in BlockCounts
        /\ returned = MemAlloc(called, blocks_to_reserve)
    BY <2>1 DEF CallInv, CallTypes, CallTypeOK, ReturnsMemAlloc
  <2> QED BY <2>1, <2>2, MemAllocIsTightest
<1> QED BY <1>1, CallInvariant, PTL
=============================================================================
