CONSTANTS
  MaxMessages = 4
  OutCap = 2
  CtrlCap = 1
  MaxBatch = 2
  MaxWindow = 2
  MaxCalls = 2

SPECIFICATION FairSpec
CHECK_DEADLOCK FALSE

INVARIANTS
  TypeOK
  SessionInOrder
  EndIsComplete
  GapsNeedCancel

PROPERTIES
  ImplementsPipe
  HandedOverIsSent
  FrameReturns
  AbandonedEnds
