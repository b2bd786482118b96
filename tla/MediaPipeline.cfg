\* Four packets through a buffer of two, a host that may hang.  The pipeline
\* stops once both loops have returned, or at a nil track.
CONSTANTS
  BufferSize = 2
  MaxPackets = 4
SPECIFICATION FairSpec
INVARIANT TypeOK
PROPERTIES
  FifoSpec
  SinkNeverStuck
  StreamStops
CHECK_DEADLOCK FALSE
