\* Two Connects, two peers.  Using a nil port ends the process.
SPECIFICATION FairSpec
CONSTANTS
  Peers = {p1, p2}
  Writers = {w1, w2}
  MaxConnects = 2
INVARIANTS
  TypeOK
  WriteKeepsPort
PROPERTY CloseReturnsUnlessReceiving
CHECK_DEADLOCK FALSE
