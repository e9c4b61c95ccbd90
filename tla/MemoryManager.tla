--------------------------- MODULE MemoryManager ---------------------------
(***************************************************************************)
(* mem and the two calls the scheduler makes on it, each taken as one      *)
(* step: mem_alloc when a process is received, mem_dealloc when it is      *)
(* finished.  A holder stands for one process after another: it may ask    *)
(* again once it has given its memory back.                                *)
(***************************************************************************)
EXTENDS MainMemory

CONSTANT Holders

VARIABLES
  memindex,      \* memindex[p]: where p's memory begins, or NoPlace
  no_of_blocks,  \* no_of_blocks[p]: how many blocks p asked for
  answer         \* what the last call of mem_alloc asked for and returned

vars == <<mem, memindex, no_of_blocks, answer>>

NoAnswer == [blocks |-> 0, place |-> 0]

Init ==
  /\ mem = {}
  /\ memindex = [p \in Holders |-> NoPlace]
  /\ no_of_blocks = [p \in Holders |-> 0]
  /\ answer = NoAnswer

Allocate(p, b) ==
  LET i == MemAlloc(mem, b) IN
    /\ memindex[p] = NoPlace
    /\ mem' = Reserve(mem, i, b)
    /\ memindex' = [memindex EXCEPT ![p] = i]
    /\ no_of_blocks' = [no_of_blocks EXCEPT ![p] = b]
    /\ answer' = [blocks |-> b, place |-> i]

Deallocate(p) ==
  /\ memindex[p] # NoPlace
  /\ mem' = MemDealloc(mem, no_of_blocks[p], memindex[p])
  /\ memindex' = [memindex EXCEPT ![p] = NoPlace]
  /\ no_of_blocks' = [no_of_blocks EXCEPT ![p] = 0]
  /\ answer' = NoAnswer

Next ==
  \E p \in Holders : (\E b \in BlockCounts : Allocate(p, b)) \/ Deallocate(p)

Spec == Init /\ [][Next]_vars

-----------------------------------------------------------------------------
Owned(p) ==
  IF memindex[p] = NoPlace THEN {} ELSE Region(memindex[p], no_of_blocks[p])

TypeOK ==
  /\ mem \subseteq Blocks
  /\ memindex \in [Holders -> Blocks \cup {NoPlace}]
  /\ no_of_blocks \in [Holders -> BlockCounts \cup {0}]
  /\ answer \in [blocks : BlockCounts \cup {0}, place : Blocks \cup {NoPlace}]

\* The flags of mem are exactly the blocks of the processes that hold memory:
\* none is lost when a process finishes, none is free while a process holds it.
MemIsOwned == mem = UNION {Owned(p) : p \in Holders}

\* What a process holds lies inside mem[0 .. MemBlocks-1], and two processes
\* never hold the same block.
Disjoint ==
  /\ \A p \in Holders : Owned(p) \subseteq Blocks
  /\ \A p, x \in Holders : p # x => Owned(p) \cap Owned(x) = {}

\* mem_alloc returns -1, which makes the scheduler drop the process for good,
\* only if no place the scan visits is vacant.
RefusedOnlyWhenFull ==
  answer.place = NoPlace => Vacant(mem, answer.blocks) = {}

\* mem_alloc and mem_dealloc grant and release whole runs of free blocks.
ownedBlocks == [p \in Holders |-> Owned(p)]
Store == INSTANCE BlockStore WITH owned <- ownedBlocks
ImplementsStore == Store!StoreSpec
=============================================================================
