CONSTANTS
  s1 = s1 s2 = s2 s3 = s3
  a1 = a1 a2 = a2 a3 = a3
  NoStream = NoStream
  Streams = {s1}
  BidiStreams = {s1}
  Attempts = {a1, a2}
  AcceptOps = {"AcceptReceive"}
  CmdCap = 2
  MaxCloses = 0
  DispatcherMayDrop = FALSE

SPECIFICATION FairSpec
CHECK_DEADLOCK FALSE

PROPERTIES
  BufferedIsConsumed
