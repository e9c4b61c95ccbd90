\* The scheduler stops when all the work is done.
CHECK_DEADLOCK FALSE
SPECIFICATION FairSpec
CONSTANTS
  mode = "HPF"
  MemBlocks = 8
  MemSizes <- OneOrFourBlocks
  Count_OF_Processes = 3
  RunTimes <- ShortRuns
  Priorities <- TwoLevels
  StartTime = 1
  Lags <- Punctual
  LastReceipt = 5
  MaxMissed = 1
  MaxTime = 14
INVARIANTS
  TypeOK
  NothingLost
  Reports
PROPERTIES
  HighestRuns
  EventuallyStops
