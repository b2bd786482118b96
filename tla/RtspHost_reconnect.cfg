\* A host that reconnects for ever loses its server.
CONSTANTS
  Writers = {w1, w2}
  ReconnectAttempts <- Forever
  ReconnectDelay = 2
  MaxDelay = 7
SPECIFICATION FairSpec
PROPERTY RequestIsServed
CHECK_DEADLOCK FALSE
