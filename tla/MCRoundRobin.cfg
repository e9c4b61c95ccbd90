\* The scheduler stops when all the work is done.
CHECK_DEADLOCK FALSE
SPECIFICATION FairLinkedSpec
CONSTANTS
  mode = "RR"
  q = 2
  MemBlocks = 8
  MemSizes <- OneOrFourBlocks
  Count_OF_Processes = 3
  RunTimes <- ShortRuns
  Priorities <- OneLevel
  StartTime = 1
  Lags <- Early
  LastReceipt = 3
  MaxMissed = 1
  MaxTime = 16
INVARIANTS
  TypeOK
  NothingLostOnRing
  Reports
  BoundedWait
PROPERTIES
  ImplementsProcessor
  EventuallyStops
