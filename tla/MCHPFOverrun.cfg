\* The scheduler stops when all the work is done.
CHECK_DEADLOCK FALSE
SPECIFICATION Spec
CONSTANTS
  mode = "HPF"
  MemBlocks = 8
  MemSizes <- OneOrFourBlocks
  Count_OF_Processes = 2
  RunTimes <- ShortRuns
  Priorities <- TwoLevels
  StartTime = 1
  Lags <- Punctual
  LastReceipt = 4
  MaxMissed = 0
  MaxTime = 12
INVARIANTS
  NoOverrun
