\* Two loopback requests, which may share a connection, and two clients.
SPECIFICATION FairSpec
CONSTANTS
  Hosts = {h1, h2}
  Clients = {c1, c2}
  None = None
  MaxRequests = 3
  MaxFaults = 1
  MaxMessages = 2
INVARIANTS
  TypeOK
  RelayedOnceInOrder
PROPERTY
  EveryoneGetsIt
\* every handler has returned, or waits for a peer
CHECK_DEADLOCK FALSE
