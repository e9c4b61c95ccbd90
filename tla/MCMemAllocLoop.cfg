\* A call ends.
CHECK_DEADLOCK FALSE
SPECIFICATION CallSpec
CONSTANTS
  MemBlocks = 16
  MemSizes <- Sizes
INVARIANTS
  CallTypeOK
  ReturnsMemAlloc
  TightestPlace
