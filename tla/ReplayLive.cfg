\* Liveness: no tick, no user and no network step is forced.
SPECIFICATION FairSpec
CONSTANTS
  RingBytes = 2
  MaxOutputBytes = 1
  MaxRead = 2
  MaxWire = 1
  MaxWritten = 2
  MaxCuts = 1
  MaxClients = 1
PROPERTY
  OutputArrives
  EndReachesClient
\* The session and its last client may both be over.
CHECK_DEADLOCK FALSE
