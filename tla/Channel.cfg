\* Two connections, with two records in each direction.
SPECIFICATION Spec
CONSTANTS
  Base = 2
  Magic <- MCMagic
  MaxOutput = 2
  MaxRecord = 27
  MaxConns = 2
  CounterMax = 2
  Versions = {1, 2}
  VERSION = 2
  Psks = {0, 1}
  Psk = 1
  Chunks <- MCChunks
  Sizes = {2}
  Offsets <- MCOffsets
INVARIANTS
  TypeOK
  NonceOnce
  FramesTaken
  WrongKeyOpensNothing
PROPERTY
  ImplementsPipes
\* Both connections may be over.
CHECK_DEADLOCK FALSE
