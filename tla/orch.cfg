CONSTANTS
  t1 = t1 t2 = t2 t3 = t3
  Tasks = {t1, t2, t3}
  N = 2
  InboxCap = 2
  ChanCap = 1
  Budget = 3

SPECIFICATION FairSpec
CHECK_DEADLOCK FALSE

INVARIANTS
  TypeOK
  FinishedAreNoted
  Accounted

PROPERTIES
  ImplementsTaskLife
  StoppedIsRemoved
