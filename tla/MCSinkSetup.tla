----------------------------- MODULE MCSinkSetup -----------------------------
(* What two callers may ask of SinkSetup: each kind of host, each error.     *)
EXTENDS SinkSetup

CONSTANTS
  shared,  \* a description the application may pass to both
  filled,  \* one that has a medium when it is passed
  k1, k2   \* ports

Rtsp(session, options) == [host |-> "rtsp", session |-> session, options |-> options]
LoopBack(options) == [host |-> "loopback", session |-> None, options |-> options]
Other == [host |-> "other", session |-> None, options |-> <<>>]

Bind(k) == [op |-> "bind", port |-> k]
Do(op) == [op |-> op]
Media(c) == [op |-> "media", codec |-> c]
Track(c, payload, usable) ==
  [op |-> "track", remote |-> [codec |-> c, payload |-> payload, usable |-> usable]]

OptionLists ==
  { <<>>, <<Other>>,
    <<LoopBack(<<Bind(k1), Do("field")>>)>>,
    <<LoopBack(<<Do("bindAny"), Do("proxy")>>)>>,
    <<LoopBack(<<Do("bindAny"), Bind(k1)>>)>>,
    <<LoopBack(<<Do("proxy")>>)>>,
    <<LoopBack(<<Bind(k1)>>), LoopBack(<<Bind(k2)>>)>>,
    <<LoopBack(<<Bind(k2)>>), Rtsp(None, <<>>)>>,
    <<Rtsp(None, <<Media("VP8"), Media("Opus")>>)>>,
    <<Rtsp(None, <<Track("H264", 102, TRUE), Media("Opus")>>)>>,
    <<Rtsp(None, <<Track("H264", 102, FALSE)>>)>>,
    <<Rtsp(None, <<Track("H264", 120, TRUE)>>)>>,
    <<Rtsp(None, <<Track("other", 98, TRUE)>>)>>,
    <<Rtsp(shared, <<Media("Opus")>>)>>,
    <<Rtsp(filled, <<>>)>>,
    <<Rtsp(filled, <<Media("VP8")>>)>>,
    <<Rtsp(shared, <<Track("VP8", 96, TRUE), Media("Opus")>>)>> }

MCGiven ==
  [d \in Sessions |-> IF d = filled THEN <<[codec |-> "other", payload |-> 98]>> ELSE <<>>]

MCCalls == [id : Ids, options : OptionLists]
=============================================================================
