\* The scheduler stops when all the work is done.
CHECK_DEADLOCK FALSE
SPECIFICATION FairSpec
CONSTANTS
  mode = "SJF"
  MemBlocks = 8
  MemSizes <- OneOrFourBlocks
  Count_OF_Processes = 3
  RunTimes <- ShortRuns
  Priorities <- OneLevel
  StartTime = 1
  Lags <- Late
  LastReceipt = 3
  MaxMissed = 1
  MaxTime = 15
INVARIANTS
  TypeOK
  NothingLost
  Reports
PROPERTIES
  ShortestFirst
  ImplementsProcessor
  EventuallyStops
