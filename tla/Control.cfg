\* Three requests on two sessions and two ids, from agents of two versions or from before
\* versions, on the daemon's port or another, with a wrapper more than an agent's or none.
SPECIFICATION FairSpec
CONSTANTS
  q1 = q1
  q2 = q2
  q3 = q3
  i1 = i1
  i2 = i2
  None = None
  Requests <- MCRequests
  Ids <- MCIds
  MaxSessions = 2
  Port = 1
  Ports <- MCPorts
  Versions = {1, 2}
  VERSION = 2
  Outer <- MCOuter
INVARIANTS
  TypeOK
  LiveListed
  FreshKeys
PROPERTIES
  ServedIfFit
  KilledLeaves
\* Every request is answered in the end.
CHECK_DEADLOCK FALSE
