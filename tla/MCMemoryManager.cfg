SPECIFICATION Spec
CONSTANTS
  MemBlocks = 32
  MemSizes <- Sizes
  Holders = {p1, p2, p3, p4}
SYMMETRY Symmetry
INVARIANTS
  TypeOK
  MemIsOwned
  Disjoint
  RefusedOnlyWhenFull
PROPERTY ImplementsStore
