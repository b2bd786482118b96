\* A limit of one and two remote requests.
CONSTANTS
  l1 = l1
  l2 = l2
  c1 = c1
  c2 = c2
  Requests = {c1, c2}
  Loopback = {}
  NoRequest = NoRequest
  TotalConnections = 1
  KeepHosting = TRUE
SPECIFICATION Spec
INVARIANT ClientsWithinLimit
CHECK_DEADLOCK FALSE
