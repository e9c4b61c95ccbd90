\* The scheduler stops when all the work is done.
CHECK_DEADLOCK FALSE
SPECIFICATION FairSpec
CONSTANTS
  mode = "MLFL"
  q = 2
  MemBlocks = 8
  MemSizes <- OneOrFourBlocks
  Count_OF_Processes = 3
  RunTimes <- SomeQuanta
  Priorities <- LowLevels
  StartTime = 1
  Lags <- Punctual
  LastReceipt = 3
  MaxMissed = 1
  MaxTime = 26
INVARIANTS
  TypeOK
  NothingLost
  Reports
  LevelTracksQuanta
PROPERTIES
  LowestLevelFirst
  ImplementsProcessor
  EventuallyStops
