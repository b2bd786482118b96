\* Two loopback requests and a remote one; the limit is used up by one client,
\* as it is counted twice.  Everything has returned in the end.
CONSTANTS
  l1 = l1
  l2 = l2
  c1 = c1
  c2 = c2
  Requests = {l1, l2, c1}
  Loopback = {l1, l2}
  NoRequest = NoRequest
  TotalConnections = 2
  KeepHosting = TRUE
SPECIFICATION FairSpec
INVARIANTS
  TypeOK
  RegisteredAreServed
PROPERTY CloseStopsAll
CHECK_DEADLOCK FALSE
