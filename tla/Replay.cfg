\* A ring of two bytes under a shell that writes three, two cuts, two clients.
SPECIFICATION Spec
CONSTANTS
  RingBytes = 2
  MaxOutputBytes = 1
  MaxRead = 2
  MaxWire = 2
  MaxWritten = 3
  MaxCuts = 2
  MaxClients = 2
INVARIANTS
  TypeOK
  ExactlyOnceInOrder
  NoSilentLoss
  ResumeAccepted
  NoLostWakeup
  IInv
PROPERTY
  ImplementsOutputStream
\* The session and its last client may both be over.
CHECK_DEADLOCK FALSE
