\* The scheduler stops when all the work is done.
CHECK_DEADLOCK FALSE
SPECIFICATION FairSystem
CONSTANTS
  mode = "RR"
  q = 1
  MemBlocks = 8
  MemSizes <- OneBlock
  Count_OF_Processes = 2
  RunTimes <- OneSecond
  Priorities <- OneLevel
  StartTime = 1
  Lags <- AroundArrival
  LastReceipt = 12
  MaxMissed = 0
  MaxTime = 8
  Arrivals <- TwoSeconds
  Capacity = 2
  PunctualGenerator = TRUE
  PunctualPrograms = TRUE
PROPERTIES
  EverySent
