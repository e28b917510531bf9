\* One client process, no connection: the shell's exit against spawn_session.
SPECIFICATION Spec
CONSTANTS
  u1 = u1
  u2 = u2
  Clients <- MCAlone
  Creator <- MCCreator
  MaxConns = 0
INVARIANTS
  EndedReaped
\* Every client may be over, and every connection used.
CHECK_DEADLOCK FALSE
