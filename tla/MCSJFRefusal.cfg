\* The scheduler stops when all the work is done.
CHECK_DEADLOCK FALSE
SPECIFICATION Spec
CONSTANTS
  mode = "SJF"
  MemBlocks = 8
  MemSizes <- OneOrFourBlocks
  Count_OF_Processes = 3
  RunTimes <- TwoRuns
  Priorities <- OneLevel
  StartTime = 1
  Lags <- Punctual
  LastReceipt = 4
  MaxMissed = 0
  MaxTime = 14
PROPERTIES
  TerminatesWhenFinished
