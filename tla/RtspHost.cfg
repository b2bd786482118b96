\* Two writers and a host that reconnects for ever; delays grow 2, 3, 4, 6, 7.
\* The host stops once everything has returned.
CONSTANTS
  Writers = {w1, w2}
  ReconnectAttempts <- Forever
  ReconnectDelay = 2
  MaxDelay = 7
SPECIFICATION FairSpec
INVARIANTS
  TypeOK
  ReturnedNotRecording
PROPERTIES
  CancelledConnectReturns
  WriteReturns
  NeverGivesUp
CHECK_DEADLOCK FALSE
