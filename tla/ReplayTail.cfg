\* The last output of a shell that exits; the network does not fail.
SPECIFICATION Spec
CONSTANTS
  RingBytes = 2
  MaxOutputBytes = 1
  MaxRead = 2
  MaxWire = 2
  MaxWritten = 3
  MaxCuts = 0
  MaxClients = 1
INVARIANT
  EndedAfterAllOutput
CHECK_DEADLOCK FALSE
