\* Two callers, who may choose one name, one port and one description.
SPECIFICATION SetupSpec
CONSTANTS
  Callers = {p1, p2}
  Ids = {a, b}
  k1 = k1
  k2 = k2
  Ports = {k1, k2}
  shared = shared
  filled = filled
  Sessions = {shared, filled}
  Given <- MCGiven
  None = None
  Calls <- MCCalls
INVARIANTS
  SetupTypeOK
  PortsFollowHosts
  ReturnedIsFound
  PayloadTypeKept
\* every call has ended, or the process has
CHECK_DEADLOCK FALSE
