\* One client process with two connections.
SPECIFICATION Spec
CONSTANTS
  u1 = u1
  u2 = u2
  Clients <- MCAlone
  Creator <- MCCreator
  MaxConns = 2
INVARIANTS
  BusyAsServed
\* Every client may be over, and every connection used.
CHECK_DEADLOCK FALSE
