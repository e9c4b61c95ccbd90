\* When everybody is gone nothing happens any more.
CHECK_DEADLOCK FALSE
SPECIFICATION FairSpec
CONSTANTS
  Modes = {"SJF", "RR"}
  Count_OF_Processes = 3
  HandlerRemoves = 2
  UserInterrupts = TRUE
INVARIANTS
  TypeOK
  ResourcesCleared
  OneSummary
PROPERTIES
  EverybodyEnds
