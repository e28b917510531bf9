SPECIFICATION FairSpec
CONSTANTS
  MaxTyped = 2
  MaxChunk = 2
  MaxResizes = 1
  MaxConns = 2
  SocketRoom = 2
INVARIANTS
  TypeOK
  InputConserved
  GivenInOrder
  LoopAgrees
PROPERTIES
  DetachWorks
  InputArrives
  SizeArrives
CHECK_DEADLOCK FALSE
