----------------------------- MODULE MainMemory -----------------------------
(***************************************************************************)
(* The main memory of the simulated machine (bool mem[32] in scheduler.c)  *)
(* and the allocator of headers_saad.h over it.  mem is represented by the *)
(* set of the blocks whose flag is true.                                   *)
(*                                                                         *)
(* The scans of get_first_place and mem_alloc visit the places 0, b, 2b,   *)
(* ... below MemBlocks; what each returns is stated here by what it        *)
(* selects, and MemAllocLoop.tla has the scans themselves.                 *)
(***************************************************************************)
EXTENDS Integers, FiniteSetsExt

CONSTANTS
  MemBlocks,  \* the number of blocks of mem: 32 in the code
  MemSizes    \* the memory sizes (bytes) a process may ask for

VARIABLE mem  \* the blocks whose flag is true

BlockBytes == 32

NoPlace == -1

\* get_no_of_blocks: the least power of two that holds size, in blocks (the
\* powers are listed up to 2^30 bytes).
NoOfBlocks(size) ==
  IF size < BlockBytes
  THEN 1
  ELSE Min({b \in {2^k : k \in 0..25} : b * BlockBytes >= size})

Blocks == 0 .. MemBlocks - 1

BlockCounts == {NoOfBlocks(size) : size \in MemSizes}

ASSUME MemBlocksAssumption == MemBlocks \in Nat \ {0}

\* Every request is a whole fraction of the memory: the sizes the test
\* generator draws are below 256 bytes, and 1024 bytes are 32 blocks.
ASSUME MemSizesAssumption ==
  \A b \in BlockCounts : b \in 1 .. MemBlocks /\ \E n \in 1 .. MemBlocks : MemBlocks = n * b

-----------------------------------------------------------------------------
\* The blocks i, ..., i + b - 1.
Region(i, b) == i .. i + b - 1

\* Mutant of Places: the scan goes on by one block instead of by b.
PlacesByOne(b) == Blocks

\* The places the scans visit.
Places(b) == {n * b : n \in 0 .. MemBlocks} \cap Blocks

\* Mutant of Free: only the first block of the region is looked at.
FreeFirstBlock(taken, i, b) == i \notin taken

\* No block of the region is taken.
Free(taken, i, b) == Region(i, b) \cap taken = {}

Vacant(taken, b) == {i \in Places(b) : Free(taken, i, b)}

LeftTaken(taken, i, b)  == ~Free(taken, i - b, b)
RightTaken(taken, i, b) == ~Free(taken, i + b, b)

AtStart(i)  == i = 0
AtEnd(i, b) == i = MemBlocks - b

\* A vacant place between two taken ones, or at an end of the memory beside a
\* taken one (the three tests of the scan that return at once).
Enclosed(taken, b) ==
  {i \in Vacant(taken, b) :
     /\ AtStart(i) \/ LeftTaken(taken, i, b)
     /\ (AtEnd(i, b) /\ ~AtStart(i)) \/ RightTaken(taken, i, b)}

\* A vacant place in the middle with exactly one taken neighbour (op1, op2).
HalfEnclosed(taken, b) ==
  {i \in Vacant(taken, b) :
     /\ ~AtStart(i) /\ ~AtEnd(i, b)
     /\ LeftTaken(taken, i, b) # RightTaken(taken, i, b)}

FirstOf(S) == IF S = {} THEN NoPlace ELSE Min(S)

\* Mutant of FirstPlace: the scan begins behind the first place.
FirstPlaceFromSecond(taken, b) == FirstOf(Vacant(taken, b) \ {0})

\* get_first_place
FirstPlace(taken, b) == FirstOf(Vacant(taken, b))

\* The requests mem_alloc hands straight to get_first_place: one block, and
\* sixteen, which is half of the memory.
FirstFit(b) == b = 1 \/ b = MemBlocks \div 2

\* mem_alloc: the place it returns.  For a request of the whole memory the
\* neighbour it reads lies beyond the array; either reading returns place 0.
MemAlloc(taken, b) ==
  IF FirstFit(b)                           THEN FirstPlace(taken, b)
  ELSE IF Enclosed(taken, b) # {}          THEN Min(Enclosed(taken, b))
  ELSE IF HalfEnclosed(taken, b) # {}      THEN Min(HalfEnclosed(taken, b))
  ELSE FirstPlace(taken, b)

\* The flags mem_alloc sets before it returns i.
Reserve(taken, i, b) == IF i = NoPlace THEN taken ELSE taken \cup Region(i, b)

\* Mutant of MemDealloc: the last block of the region is not cleared.
MemDeallocButLast(taken, b, i) == taken \ Region(i, b - 1)

\* The flags mem_dealloc clears.
MemDealloc(taken, b, i) == taken \ Region(i, b)
=============================================================================
