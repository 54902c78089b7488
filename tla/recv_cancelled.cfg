CONSTANTS
  MaxMessages = 1
  InCap = 1
  CtrlCap = 1
  MaxBatch = 1
  MaxTransfer = 1
  MaxCalls = 1

SPECIFICATION Spec
CHECK_DEADLOCK FALSE

INVARIANTS
  ReportedBeforeGone
