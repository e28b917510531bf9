\* Two client processes, two connections.
SPECIFICATION FairSpec
CONSTANTS
  u1 = u1
  u2 = u2
  Clients <- MCTwo
  Creator <- MCCreator
  MaxConns = 2
INVARIANTS
  TypeOK
  OneCurrent
  ReplacedKeyIsOut
  SupersededQuiet
PROPERTIES
  UselessTaskEnds
\* Every client may be over, and every connection used.
CHECK_DEADLOCK FALSE
