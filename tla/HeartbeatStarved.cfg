SPECIFICATION FairSpec
CONSTANTS
  PongRoom = 1
  SocketRoom = 1
  MaxKeys = 0
  MaxOutput = 0
  Endless = TRUE
  Backlog = 1
PROPERTIES
  DetachWorks
CHECK_DEADLOCK FALSE
