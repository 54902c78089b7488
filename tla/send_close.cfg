CONSTANTS
  MaxMessages = 1
  OutCap = 1
  CtrlCap = 1
  MaxBatch = 1
  MaxWindow = 1
  MaxCalls = 1

SPECIFICATION FairSpec
CHECK_DEADLOCK FALSE

PROPERTIES
  FinishedTaskEnds
