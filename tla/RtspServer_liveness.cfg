\* Two paths, both publishable at once.
CONSTANTS
  s1 = s1
  s2 = s2
  s3 = s3
  Sessions = {s1, s2}
  Paths = {"cam", "mic"}
  Permitted = {s1, s2}
  NoSession = NoSession
  MaxStreams = 2
  MaxClients = 2
  PublisherTimeout = 0
  ClientTimeout = 0
  SetupDelay = 1
SPECIFICATION FairSpec
PROPERTIES
  RegistrySpec
  CloseCompletes
  IdlePublisherReaped
