\* The scheduler stops when all the work is done.
CHECK_DEADLOCK FALSE
SPECIFICATION Spec
CONSTANTS
  mode = "MLFL"
  q = 2
  MemBlocks = 8
  MemSizes <- OneOrFourBlocks
  Count_OF_Processes = 2
  RunTimes <- LongestRuns
  Priorities <- LowLevels
  StartTime = 1
  Lags <- Punctual
  LastReceipt = 4
  MaxMissed = 0
  MaxTime = 26
INVARIANTS
  ReturnsToInitialLevel
