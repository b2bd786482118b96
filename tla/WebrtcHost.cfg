\* One id whose session may be replaced while callbacks of the old one run.
SPECIFICATION FairSpec
CONSTANTS
  Ids = {a}
  TotalConnections = 1
  KeepHosting = TRUE
  MaxSessions = 2
  MaxConnected = 1
INVARIANTS
  TypeOK
  OpenIffRegistered
  OnlyParameterSetsPanic
PROPERTY
  CloseReturnsUnlessStuck
\* everything returns, a broadcast is stuck, or a panic ends the process
CHECK_DEADLOCK FALSE
