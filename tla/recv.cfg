CONSTANTS
  MaxMessages = 3
  InCap = 2
  CtrlCap = 1
  MaxBatch = 2
  MaxTransfer = 2
  MaxCalls = 2

SPECIFICATION FairEndlessSpec
CHECK_DEADLOCK FALSE

INVARIANTS
  TypeOK
  EndAfterData
  NothingMissing
  EndIsComplete

PROPERTIES
  PipeBetweenRestarts
  EndIsReported
  StopTakesEffectInPauses
  AbandonedEnds
