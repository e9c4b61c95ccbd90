---------------------------- MODULE MemAllocLoop ----------------------------
(***************************************************************************)
(* One call of mem_alloc (headers_saad.h), a step for each place its loop  *)
(* or the loop of get_first_place visits.  It returns what MemAlloc of     *)
(* MainMemory says, which the other modules take as one step.              *)
(*                                                                         *)
(* A request of the whole memory makes the loop read mem beyond its end:   *)
(* what it finds there is any choice.                                      *)
(***************************************************************************)
EXTENDS MainMemory

VARIABLES
  blocks_to_reserve,
  at,        \* the loop the call is in: mem_alloc's, get_first_place's, or
             \*   none as it has returned
  j,         \* the place the loop looks at
  check2,    \* mem_alloc has seen a vacant place
  op1,       \* the first vacant place with only its right side taken
  op2,       \* the first vacant place with only its left side taken
  returned,
  called     \* history: mem when the call was made

locals == <<check2, op1, op2>>
callVars == <<mem, blocks_to_reserve, at, j, locals, returned, called>>

\* Any set of blocks can be taken when the call is made: processes of one
\* block fill the memory from its start, and may finish in any order.
CallInit ==
  /\ mem \in SUBSET Blocks
  /\ called = mem
  /\ blocks_to_reserve \in BlockCounts
  /\ at = IF FirstFit(blocks_to_reserve) THEN "get_first_place" ELSE "mem_alloc"
  /\ j = 0
  /\ check2 = FALSE
  /\ op1 = MemBlocks
  /\ op2 = MemBlocks
  /\ returned = NoPlace

Vacancy == Free(mem, j, blocks_to_reserve)

\* check4 and check5 are FALSE if these hold.
RightSide ==
  IF j + 2 * blocks_to_reserve <= MemBlocks
  THEN {RightTaken(mem, j, blocks_to_reserve)}
  ELSE BOOLEAN
LeftSide == LeftTaken(mem, j, blocks_to_reserve)

Return(i) ==
  /\ returned' = i
  /\ mem' = Reserve(mem, i, blocks_to_reserve)
  /\ at' = "returned"
  /\ UNCHANGED <<blocks_to_reserve, j, called>>

\* Mutant of NextPlace: every other place is left out.
NextPlaceButOne == j' = j + 2 * blocks_to_reserve

NextPlace == j' = j + blocks_to_reserve

GoOn == NextPlace /\ UNCHANGED <<mem, blocks_to_reserve, at, returned, called>>

-----------------------------------------------------------------------------
FirstVacant ==
  /\ at = "get_first_place"
  /\ j < MemBlocks
  /\ IF Vacancy THEN Return(j) ELSE GoOn
  /\ UNCHANGED locals

NoneVacant ==
  /\ at = "get_first_place"
  /\ j >= MemBlocks
  /\ Return(NoPlace)
  /\ UNCHANGED locals

SkipTaken ==
  /\ at = "mem_alloc"
  /\ j < MemBlocks
  /\ ~Vacancy
  /\ GoOn
  /\ UNCHANGED locals

AtEitherEnd ==
  /\ at = "mem_alloc"
  /\ j = 0 \/ j = MemBlocks - blocks_to_reserve
  /\ Vacancy
  /\ check2' = TRUE
  /\ \E right \in RightSide :
       IF IF j = 0 THEN right ELSE LeftSide THEN Return(j) ELSE GoOn
  /\ UNCHANGED <<op1, op2>>

\* Mutant of Between: one side is enough.
BetweenOr(right) == right \/ LeftSide

Between(right) == right /\ LeftSide

\* Mutant of Earlier: the place seen last replaces the ones before.
Later(op) == j

Earlier(op) == IF j < op THEN j ELSE op

InTheMiddle ==
  /\ at = "mem_alloc"
  /\ 0 < j /\ j < MemBlocks - blocks_to_reserve
  /\ Vacancy
  /\ check2' = TRUE
  /\ \E right \in RightSide :
       IF Between(right)
       THEN Return(j) /\ UNCHANGED <<op1, op2>>
       ELSE /\ GoOn
            /\ op1' = IF right THEN Earlier(op1) ELSE op1
            /\ op2' = IF ~right /\ LeftSide THEN Earlier(op2) ELSE op2

EndOfScan ==
  /\ at = "mem_alloc"
  /\ j >= MemBlocks
  /\ IF ~check2 THEN Return(NoPlace)
     ELSE IF op1 = MemBlocks /\ op2 = MemBlocks
     THEN /\ at' = "get_first_place"
          /\ j' = 0
          /\ UNCHANGED <<mem, blocks_to_reserve, returned, called>>
     ELSE Return(IF op1 > op2 THEN op2 ELSE op1)
  /\ UNCHANGED locals

CallNext ==
  FirstVacant \/ NoneVacant \/ SkipTaken \/ AtEitherEnd \/ InTheMiddle \/ EndOfScan

CallSpec == CallInit /\ [][CallNext]_callVars

-----------------------------------------------------------------------------
CallTypeOK ==
  /\ mem \subseteq Blocks
  /\ blocks_to_reserve \in BlockCounts
  /\ at \in {"mem_alloc", "get_first_place", "returned"}
  /\ j \in 0 .. MemBlocks
  /\ check2 \in BOOLEAN
  /\ op1 \in 1 .. MemBlocks
  /\ op2 \in 1 .. MemBlocks
  /\ returned \in Blocks \cup {NoPlace}

\* The loops return the place that MemAlloc selects, and set the flags that
\* Reserve sets, whatever is read beyond the end of mem.
ReturnsMemAlloc ==
  at = "returned" =>
    /\ returned = MemAlloc(called, blocks_to_reserve)
    /\ mem = Reserve(called, returned, blocks_to_reserve)

VacantBeside(i, b) == {k \in Vacant(called, b) : k = i - b \/ k = i + b}

\* The choice keeps the free memory together: no vacant place has fewer vacant
\* places beside it than the one mem_alloc returns.  Its comments only speak
\* of a place "which is reserved from both sides"; that op1, op2 and the last
\* call of get_first_place make the best of all other cases follows from what
\* the loop has ruled out when it gets there.  (One block goes to the first
\* place there is.)
TightestPlace ==
  at = "returned" /\ returned # NoPlace /\ blocks_to_reserve > 1 =>
    \A i \in Vacant(called, blocks_to_reserve) :
      Cardinality(VacantBeside(returned, blocks_to_reserve))
        <= Cardinality(VacantBeside(i, blocks_to_reserve))
=============================================================================
