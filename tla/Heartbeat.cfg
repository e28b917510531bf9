SPECIFICATION FairSpec
CONSTANTS
  PongRoom = 2
  SocketRoom = 1
  MaxKeys = 1
  MaxOutput = 2
  Endless = FALSE
  Backlog = 2
INVARIANTS
  TypeOK
  NoStandstill
PROPERTIES
  NothingHeldUp
CHECK_DEADLOCK FALSE
