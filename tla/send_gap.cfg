CONSTANTS
  MaxMessages = 4
  OutCap = 2
  CtrlCap = 1
  MaxBatch = 1
  MaxWindow = 1
  MaxCalls = 0

SPECIFICATION Spec
CHECK_DEADLOCK FALSE

INVARIANTS
  NothingSkipped
