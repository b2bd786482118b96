--------------------------- MODULE MediaPipeline ----------------------------
(***************************************************************************)
(* A Sink and its Stream (pkg/sink.go, pkg/stream.go): one goroutine reads *)
(* RTP packets from the remote track and pushes them into a bounded        *)
(* buffer, another pops them and writes them to the host.  Both obey the   *)
(* context of CreateSinks.                                                 *)
(*                                                                         *)
(* External, modelled from its use here: the track, whose packets are      *)
(* numbered in the order ReadRTP returns them; the channel buffer of       *)
(* harshabose/tools, whose Push and Pop wait for room or for a packet      *)
(* until their context ends; the host, which may accept or refuse a packet *)
(* and may take as long as it likes, also to close.  CreateStream gives    *)
(* the buffer a pool, which gets accepted packets back; nothing takes them *)
(* out of it, so the pool is left out.                                     *)
(***************************************************************************)
EXTENDS Naturals, Sequences

CONSTANTS
  BufferSize,   \* the 60 of Sinks.CreateSink
  MaxPackets    \* bound on the packets the track carries

ASSUME PipelineAssumption == BufferSize \in Nat /\ MaxPackets \in Nat

VARIABLES
  cancelled,   \* the context is done
  track,       \* SetTrack has been called
  sink,        \* where the sink's loop is
  read,        \* packets ReadRTP has returned
  pushing,     \* packet in the sink's hands, as a sequence of at most one
  buffer,      \* the channel buffer
  stream,      \* where the stream's loop is
  writing,     \* packet in the stream's hands, as a sequence of at most one
  accepted,    \* packets the host took
  crashed      \* a nil track was dereferenced

vars == <<cancelled, track, sink, read, pushing, buffer, stream, writing, accepted, crashed>>
sinkVars == <<sink, read, pushing>>
streamVars == <<stream, writing, accepted>>

SinkSteps == {"created", "check", "noTrack", "read", "push", "stopped"}
StreamSteps == {"created", "check", "pop", "write", "stopping", "closing", "closed"}

Init ==
  /\ cancelled = FALSE
  /\ track = FALSE
  /\ sink = "created"
  /\ read = 0
  /\ pushing = <<>>
  /\ buffer = <<>>
  /\ stream = "created"
  /\ writing = <<>>
  /\ accepted = <<>>
  /\ crashed = FALSE
-----------------------------------------------------------------------------
(* The application *)

SetTrack ==
  /\ ~ crashed
  /\ ~ track
  /\ track' = TRUE
  /\ UNCHANGED <<cancelled, buffer, crashed, sinkVars, streamVars>>

Start ==
  /\ ~ crashed
  /\ sink = "created"
  /\ sink' = "check"
  /\ stream' = "check"
  /\ UNCHANGED <<cancelled, track, read, pushing, buffer, writing, accepted, crashed>>

Cancel ==
  /\ ~ crashed
  /\ ~ cancelled
  /\ cancelled' = TRUE
  /\ UNCHANGED <<track, buffer, crashed, sinkVars, streamVars>>
-----------------------------------------------------------------------------
(* Sink.loop *)

\* The select, then the look at the track.
SinkChecks ==
  /\ ~ crashed
  /\ sink = "check"
  /\ sink' = CASE cancelled -> "stopped"
               [] ~ cancelled /\ track -> "read"
               [] OTHER -> "noTrack"
  /\ UNCHANGED <<cancelled, track, read, pushing, buffer, crashed, streamVars>>

\* After one sleep of 10 ms the track is used, set or not.
WakeWithoutTrack ==
  /\ ~ crashed
  /\ sink = "noTrack"
  /\ sink' = IF track THEN "read" ELSE sink
  /\ crashed' = ~ track
  /\ UNCHANGED <<cancelled, track, read, pushing, buffer, streamVars>>

ReadPacket ==
  /\ ~ crashed
  /\ sink = "read"
  /\ read < MaxPackets
  /\ read' = read + 1
  /\ pushing' = <<read + 1>>
  /\ sink' = "push"
  /\ UNCHANGED <<cancelled, track, buffer, crashed, streamVars>>

\* ReadRTP fails: sleep and go round the loop.
ReadFails ==
  /\ ~ crashed
  /\ sink = "read"
  /\ sink' = "check"
  /\ UNCHANGED <<cancelled, track, read, pushing, buffer, crashed, streamVars>>

HasRoom == Len(buffer) < BufferSize

\* WriteRTPPacket finds room in time.
Push ==
  /\ ~ crashed
  /\ sink = "push"
  /\ HasRoom
  /\ buffer' = buffer \o pushing
  /\ pushing' = <<>>
  /\ sink' = "check"
  /\ UNCHANGED <<cancelled, track, read, crashed, streamVars>>

NeverTimesOut == FALSE  \* mutant
\* A second without room, or the end of the context.
PushGivesUp == ~ HasRoom \/ cancelled

\* The packet is dropped.
PushTimesOut ==
  /\ ~ crashed
  /\ sink = "push"
  /\ PushGivesUp
  /\ pushing' = <<>>
  /\ sink' = "check"
  /\ UNCHANGED <<cancelled, track, read, buffer, crashed, streamVars>>
-----------------------------------------------------------------------------
(* Stream.loop *)

AlwaysPops == stream' = "pop"  \* mutant
StreamGoesOn == stream' = IF cancelled THEN "stopping" ELSE "pop"

StreamChecks ==
  /\ ~ crashed
  /\ stream = "check"
  /\ StreamGoesOn
  /\ UNCHANGED <<cancelled, track, buffer, writing, accepted, crashed, sinkVars>>

PopsFirst ==
  /\ writing' = <<Head(buffer)>>
  /\ buffer' = Tail(buffer)

\* getPacket finds a packet in time.
Pop ==
  /\ ~ crashed
  /\ stream = "pop"
  /\ buffer # <<>>
  /\ PopsFirst
  /\ stream' = "write"
  /\ UNCHANGED <<cancelled, track, accepted, crashed, sinkVars>>

\* 50 ms without a packet, or the end of the context.
PopTimesOut ==
  /\ ~ crashed
  /\ stream = "pop"
  /\ buffer = <<>> \/ cancelled
  /\ stream' = "check"
  /\ UNCHANGED <<cancelled, track, buffer, writing, accepted, crashed, sinkVars>>

WriteAccepted ==
  /\ ~ crashed
  /\ stream = "write"
  /\ accepted' = accepted \o writing
  /\ writing' = <<>>
  /\ stream' = "check"
  /\ UNCHANGED <<cancelled, track, buffer, crashed, sinkVars>>

WriteRefusedRequeues ==  \* mutant
  /\ ~ crashed
  /\ stream = "write"
  /\ buffer' = buffer \o writing
  /\ writing' = <<>>
  /\ stream' = "check"
  /\ UNCHANGED <<cancelled, track, accepted, crashed, sinkVars>>

\* The host refuses: the packet is neither retried nor given back.
WriteRefused ==
  /\ ~ crashed
  /\ stream = "write"
  /\ writing' = <<>>
  /\ stream' = "check"
  /\ UNCHANGED <<cancelled, track, buffer, accepted, crashed, sinkVars>>

\* The deferred call of host.Close ...
StreamCloses ==
  /\ ~ crashed
  /\ stream = "stopping"
  /\ stream' = "closing"
  /\ UNCHANGED <<cancelled, track, buffer, writing, accepted, crashed, sinkVars>>

\* ... which may never return.
HostClosed ==
  /\ ~ crashed
  /\ stream = "closing"
  /\ stream' = "closed"
  /\ UNCHANGED <<cancelled, track, buffer, writing, accepted, crashed, sinkVars>>
-----------------------------------------------------------------------------
Application == SetTrack \/ Start \/ Cancel

SinkStep ==
  SinkChecks \/ WakeWithoutTrack \/ ReadPacket \/ ReadFails \/ Push \/ PushTimesOut

StreamStep ==
  \/ StreamChecks \/ Pop \/ PopTimesOut \/ WriteAccepted \/ WriteRefused \/ StreamCloses
  \/ HostClosed

\* A nil dereference ends the process.
Next == Application \/ SinkStep \/ StreamStep

Spec == Init /\ [][Next]_vars

\* Timers fire and goroutines run.  Neither the track nor the host has to
\* answer: ReadRTP, WriteRTP and host.Close may block for ever, and then so does
\* the loop.
Fairness ==
  /\ WF_vars(Push \/ PushTimesOut)
  /\ WF_vars(SinkChecks)
  /\ WF_vars(StreamChecks \/ Pop \/ PopTimesOut \/ StreamCloses)

FairSpec == Spec /\ Fairness
-----------------------------------------------------------------------------
(* Properties *)

Packets == 1..MaxPackets

\* Every variable has its type; the buffer never holds more than BufferSize.
TypeOK ==
  /\ cancelled \in BOOLEAN /\ track \in BOOLEAN /\ crashed \in BOOLEAN
  /\ sink \in SinkSteps /\ stream \in StreamSteps
  /\ read \in 0..MaxPackets
  /\ buffer \in Seq(Packets) /\ Len(buffer) <= BufferSize
  /\ pushing \in {<<>>} \cup {<<p>> : p \in Packets}
  /\ writing \in {<<>>} \cup {<<p>> : p \in Packets}
  /\ accepted \in Seq(Packets)

\* The packets between the track and the host, oldest first.
OnTheWay == writing \o buffer \o pushing

\* A sink whose host hangs still comes back to its track: at worst every packet
\* waits a second and is dropped.
SinkNeverStuck == sink = "push" ~> sink # "push" \/ crashed

\* The host answers every write, as the RTSP client does within its time-out.
\* Nothing is said of its Close, which in some hosts may not return.
HostAnswers == writing # <<>> ~> writing = <<>> \/ crashed

\* Ending the context makes the stream close its host, even with packets left
\* in the buffer, provided the host answers the write under way.
StreamStops ==
  HostAnswers =>
    (cancelled /\ stream # "created" ~> stream \in {"closing", "closed"} \/ crashed)

\* The pipeline implements the queue it promises to be: the host gets packets in
\* the order of reading and none twice, whatever a full buffer, a refused write
\* or the shutdown drops on the way.
Fifo == INSTANCE LossyFifo WITH
  entered <- read, pending <- OnTheWay, delivered <- accepted

FifoSpec == Fifo!Spec
=============================================================================
