CONSTANTS
  s1 = s1 s2 = s2 s3 = s3
  a1 = a1 a2 = a2 a3 = a3
  NoStream = NoStream
  Streams = {s1, s2, s3}
  BidiStreams = {s2}
  Attempts = {a1, a2, a3}
  AcceptOps = {"Accept", "AcceptReceive", "AcceptBidirectional"}
  CmdCap = 1
  MaxCloses = 1
  DispatcherMayDrop = TRUE

SPECIFICATION Spec
CHECK_DEADLOCK FALSE
SYMMETRY Symmetry

INVARIANTS
  TypeOK
  AcceptFindsStream
  OneHome
  NoOrphanedAccept

PROPERTIES
  ImplementsHandoff
