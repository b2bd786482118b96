\* Three sessions that may each publish or read either of two paths, the client
\* limit within reach.  A silence of one tick is too long for a publisher, and a
\* set-up may register with a time one tick old.
CONSTANTS
  s1 = s1
  s2 = s2
  s3 = s3
  Sessions = {s1, s2, s3}
  Paths = {"cam", "mic"}
  Permitted = {s1, s2, s3}
  NoSession = NoSession
  MaxStreams = 2
  MaxClients = 1
  PublisherTimeout = 0
  ClientTimeout = 1
  SetupDelay = 1
SPECIFICATION Spec
SYMMETRY SessionSymmetry
VIEW LiveView
INVARIANTS
  TypeOK
  TableHoldsOpenStreams
  ListedClientsAlive
  RecordingIsOwn
  ReadersAreCounted
  StoppedIsEmpty
