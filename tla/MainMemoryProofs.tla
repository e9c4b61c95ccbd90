-------------------------- MODULE MainMemoryProofs --------------------------
(***************************************************************************)
(* Lemmas about the operators of MainMemory: where mem_alloc may place a   *)
(* request, and what reserving and freeing do to the flags.                *)
(***************************************************************************)
EXTENDS MainMemory, WellFoundedInduction, TLAPS

\* A set of natural numbers that is not empty has a least element: Min.
LEMMA MinIsLeast ==
  ASSUME NEW S, S \subseteq Nat, S # {}
  PROVE  Min(S) \in S /\ \A y \in S : Min(S) =< y
<1>1. \E x \in S : \A y \in S : ~ (<<y, x>> \in OpToRel(<, Nat))
  BY NatLessThanWellFounded, WFMin
<1>2. \E x \in S : \A y \in S : x =< y
  <2>1. PICK x \in S : \A y \in S : ~ (<<y, x>> \in OpToRel(<, Nat))
    BY <1>1
  <2>2. ASSUME NEW y \in S PROVE x =< y
    <3>1. x \in Nat /\ y \in Nat
      OBVIOUS
    <3>2. ~ (y < x)
      BY <2>1, <3>1 DEF OpToRel
    <3> QED BY <3>1, <3>2
  <2> QED BY <2>2
<1> QED BY <1>2 DEF Min

\* The blocks a request counts are positive and divide the memory.
LEMMA BlockCountsDivide ==
  ASSUME NEW b \in BlockCounts
  PROVE  b \in Nat \ {0} /\ \E n \in Nat : MemBlocks = n * b
BY MemSizesAssumption, MemBlocksAssumption

LEMMA TimesMonotonic ==
  ASSUME NEW k \in Nat, NEW m \in Nat, NEW b \in Nat, k * b < m * b
  PROVE  (k + 1) * b <= m * b
<1>1. k < m
  OBVIOUS
<1> QED BY <1>1

\* A place the scans visit is followed by a whole region inside the memory.
LEMMA PlacesAreInside ==
  ASSUME NEW b \in BlockCounts, NEW i \in Places(b)
  PROVE  i \in Blocks /\ Region(i, b) \subseteq Blocks
<1>1. PICK m \in Nat : MemBlocks = m * b
  BY BlockCountsDivide
<1>2. PICK k \in Nat : i = k * b
  BY MemBlocksAssumption DEF Places
<1>3. b \in Nat /\ i \in Blocks
  BY BlockCountsDivide DEF Places
<1>4. i \in Nat /\ i < MemBlocks
  BY <1>3, MemBlocksAssumption DEF Blocks
<1>5. (k + 1) * b <= m * b
  BY <1>1, <1>2, <1>3, <1>4, TimesMonotonic
<1>6. i + b <= MemBlocks
  BY <1>1, <1>2, <1>3, <1>5
<1>7. ASSUME NEW j \in Region(i, b) PROVE j \in Blocks
  BY <1>3, <1>4, <1>6, <1>7, MemBlocksAssumption DEF Region, Blocks
<1> QED BY <1>3, <1>7

LEMMA FirstOfIsMember ==
  ASSUME NEW S, S \subseteq Blocks
  PROVE  FirstOf(S) = NoPlace \/ FirstOf(S) \in S
<1>1. S \subseteq Nat
  BY MemBlocksAssumption DEF Blocks
<1> QED BY <1>1, MinIsLeast DEF FirstOf

\* mem_alloc returns -1 or one of the vacant places it scans.
LEMMA MemAllocIsVacant ==
  ASSUME NEW taken, NEW b \in BlockCounts
  PROVE  MemAlloc(taken, b) = NoPlace \/ MemAlloc(taken, b) \in Vacant(taken, b)
<1>1. Vacant(taken, b) \subseteq Blocks /\ Vacant(taken, b) \subseteq Nat
  BY MemBlocksAssumption DEF Vacant, Places, Blocks
<1>2. FirstPlace(taken, b) = NoPlace \/ FirstPlace(taken, b) \in Vacant(taken, b)
  BY <1>1, FirstOfIsMember DEF FirstPlace
<1>3. Enclosed(taken, b) # {} => Min(Enclosed(taken, b)) \in Vacant(taken, b)
  <2>1. Enclosed(taken, b) \subseteq Vacant(taken, b)
    BY DEF Enclosed
  <2> QED BY <1>1, <2>1, MinIsLeast
<1>4. HalfEnclosed(taken, b) # {} => Min(HalfEnclosed(taken, b)) \in Vacant(taken, b)
  <2>1. HalfEnclosed(taken, b) \subseteq Vacant(taken, b)
    BY DEF HalfEnclosed
  <2> QED BY <1>1, <2>1, MinIsLeast
<1> QED BY <1>2, <1>3, <1>4 DEF MemAlloc

\* What mem_alloc grants is a non-empty run of free blocks of the memory.
LEMMA MemAllocGrantsFreeBlocks ==
  ASSUME NEW taken, NEW b \in BlockCounts, MemAlloc(taken, b) # NoPlace
  PROVE  /\ MemAlloc(taken, b) \in Blocks
         /\ Region(MemAlloc(taken, b), b) \subseteq Blocks
         /\ Region(MemAlloc(taken, b), b) \cap taken = {}
         /\ Region(MemAlloc(taken, b), b) # {}
<1> DEFINE i == MemAlloc(taken, b)
<1> HIDE DEF i
<1>1. i \in Vacant(taken, b)
  BY MemAllocIsVacant DEF i
<1>2. i \in Places(b) /\ Region(i, b) \cap taken = {}
  BY <1>1 DEF Vacant, Free
<1>3. i \in Blocks /\ Region(i, b) \subseteq Blocks
  BY <1>2, PlacesAreInside
<1>4. i \in Region(i, b)
  BY <1>3, BlockCountsDivide, MemBlocksAssumption DEF Region, Blocks
<1> QED BY <1>2, <1>3, <1>4 DEF i

\* mem_alloc refuses only if no place it scans is vacant.
LEMMA MemAllocRefusesOnlyWhenFull ==
  ASSUME NEW taken, NEW b \in BlockCounts, MemAlloc(taken, b) = NoPlace
  PROVE  Vacant(taken, b) = {}
<1>1. Vacant(taken, b) \subseteq Nat
  BY MemBlocksAssumption DEF Vacant, Places, Blocks
<1>2. NoPlace \notin Nat
  BY DEF NoPlace
<1>3. FirstPlace(taken, b) = NoPlace => Vacant(taken, b) = {}
  BY <1>1, <1>2, MinIsLeast DEF FirstPlace, FirstOf
<1>4. Enclosed(taken, b) # {} => Min(Enclosed(taken, b)) # NoPlace
  <2>1. Enclosed(taken, b) \subseteq Nat
    BY <1>1 DEF Enclosed
  <2> QED BY <1>2, <2>1, MinIsLeast
<1>5. HalfEnclosed(taken, b) # {} => Min(HalfEnclosed(taken, b)) # NoPlace
  <2>1. HalfEnclosed(taken, b) \subseteq Nat
    BY <1>1 DEF HalfEnclosed
  <2> QED BY <1>2, <2>1, MinIsLeast
<1> QED BY <1>3, <1>4, <1>5 DEF MemAlloc
=============================================================================
