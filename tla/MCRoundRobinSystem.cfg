\* The scheduler stops when all the work is done.
CHECK_DEADLOCK FALSE
SPECIFICATION FairSystem
CONSTANTS
  mode = "RR"
  q = 1
  MemBlocks = 8
  MemSizes <- OneOrAllBlocks
  Count_OF_Processes = 2
  RunTimes <- ShortRuns
  Priorities <- OneLevel
  StartTime = 0
  Lags <- AroundArrival
  LastReceipt = 8
  MaxMissed = 0
  MaxTime = 7
  Arrivals <- TwoSeconds
  Capacity = 2
  PunctualGenerator = TRUE
  PunctualPrograms = TRUE
INVARIANTS
  SystemTypeOK
  KeepsSchedule
  Synchronized
PROPERTIES
  EventuallyStops
