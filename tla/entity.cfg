CONSTANTS
  NoEntity = NoEntity
  e1 = e1 e2 = e2
  Entities = {e1, e2}
  Bidirectional = {e1}
  MaxPackets = 2
  InCap = 1
  MaxTransfer = 1

SPECIFICATION FairSpec
CHECK_DEADLOCK FALSE

INVARIANTS
  TypeOK
  OwnPackets
  OncePerEnd

PROPERTIES
  StandingEndsAnnounced
  NothingLeftBehind
  FrameGoesOn
  AnswerTaken
  EndRemoves
  DisconnectEnds
