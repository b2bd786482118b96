SPECIFICATION FairSpec
CONSTANTS
  Writers = {w1, w2}
  ConnectRetry = TRUE
INVARIANTS
  TypeOK
  UsedIsServed
PROPERTIES
  CancelledConnectReturns
  CloseReturnsUnlessWaiting
\* using a nil connection ends the process
CHECK_DEADLOCK FALSE
