------------------------------ MODULE SinkSetup ------------------------------
(***************************************************************************)
(* Sinks.CreateSink: the registry of sinks.go, CreateStream with the       *)
(* options of stream_options.go, and the hosts these build with NewLoopBack*)
(* (pkg/loopback/options.go) and NewNewHost (pkg/rtsp/options.go).         *)
(*                                                                         *)
(* Nothing here is locked.  The application may call CreateSink from       *)
(* several goroutines, and two things are shared: the map of sinks, for    *)
(* which Go ends the process when it notices a write next to another       *)
(* access, and a description.Session that is given to several RTSP hosts,  *)
(* to whose Medias each appends (of two appends at once one may be lost).  *)
(*                                                                         *)
(* An fmtp line is what the two parsers make of it: usable, or not (no     *)
(* sprop-parameter-sets= or not two of them that decode; no                *)
(* packetization-mode= or no number).  Parameter sets and mode are left    *)
(* out, and the command for MAVProxy, which is not started here.           *)
(*                                                                         *)
(* A medium is its first format, the one WriteRTP asks for the payload type;*)
(* that the application's own media have one is assumed (without, WriteRTP *)
(* refuses every packet).                                                  *)
(*                                                                         *)
(* External: UDP sockets.  One that nothing refers to any more is closed   *)
(* by the garbage collector, some time later.                              *)
(***************************************************************************)
EXTENDS Integers, Sequences

CONSTANTS
  Callers,    \* goroutines, each of which calls CreateSink once
  Ids,        \* names of sinks
  Ports,      \* local UDP ports
  Sessions,   \* descriptions the application passes to NewNewHost
  Given,      \* the media the application has put in each
  None,       \* nil
  Calls       \* what may be asked for: [id, options]

Codecs == {"H264", "VP8", "Opus"}
PayloadType(c) == CASE c = "H264" -> 102 [] c = "VP8" -> 96 [] c = "Opus" -> 111

Formats == [codec : Codecs \cup {"other"}, payload : 0..127]
Remote == [codec : Codecs \cup {"other"}, payload : 0..127, usable : BOOLEAN]
RtspOption == [op : {"media"}, codec : Codecs] \cup [op : {"track"}, remote : Remote]
LoopBackOption == [op : {"bind"}, port : Ports] \cup [op : {"bindAny", "proxy", "field"}]
HostOption == RtspOption \cup LoopBackOption

(* Options of the two packages are of different Go types.                   *)
StreamOption ==
  [host : {"rtsp"}, session : Sessions \cup {None}, options : Seq(RtspOption)] \cup
  [host : {"loopback"}, session : {None}, options : Seq(LoopBackOption)] \cup
  [host : {"other"}, session : {None}, options : {<<>>}]

ASSUME SetupAssumption ==
  /\ Callers \cap Sessions = {}
  /\ Given \in [Sessions -> Seq(Formats)]
  /\ {None, "garbage"} \cap (Callers \cup Sessions \cup Ports) = {}
  /\ \A c \in Calls : c.id \in Ids /\ c.options \in Seq(StreamOption)

VARIABLES
  pc,          \* where each call is
  call,        \* what it asks for
  left,        \* the stream options it has yet to apply
  todo,        \* the host options of the current one it has yet to apply
  host,        \* the host it builds: its kind, bindPort and description
  streamHost,  \* stream.host
  read,        \* the Medias an append has read
  medias,      \* Medias of each description, the caller's own among them
  bound,       \* who each port is bound by: a call, nobody, or garbage
  sinks,       \* sinks.sinks: whose sink has the name
  earlier,     \* history: the calls that had ended when a call began
  crashed      \* the map was accessed during a write, and Go noticed

buildVars == <<left, todo, host, streamHost, read, medias, bound>>
setupVars == <<pc, call, buildVars, sinks, earlier, crashed>>

SetupSteps == {"idle", "options", "build", "append", "storing", "returned", "failed"}
Descriptions == Sessions \cup Callers
NoHost == [kind |-> "none", port |-> None, session |-> None]

SetupInit ==
  /\ pc = [p \in Callers |-> "idle"]
  /\ call \in [Callers -> Calls]
  /\ left = [p \in Callers |-> <<>>]
  /\ todo = [p \in Callers |-> <<>>]
  /\ host = [p \in Callers |-> NoHost]
  /\ streamHost = [p \in Callers |-> NoHost]
  /\ read = [p \in Callers |-> <<>>]
  /\ medias = [d \in Descriptions |-> IF d \in Sessions THEN Given[d] ELSE <<>>]
  /\ bound = [k \in Ports |-> None]
  /\ sinks = [id \in Ids |-> None]
  /\ earlier = [p \in Callers |-> {}]
  /\ crashed = FALSE

Running == ~crashed
Moves(p, step) == pc' = [pc EXCEPT ![p] = step]

-----------------------------------------------------------------------------
(* The registry. *)

(* An access to the map while another call writes to it.                    *)
Accesses(p) ==
  \/ UNCHANGED crashed
  \/ (\E q \in Callers \ {p} : pc[q] = "storing") /\ crashed' = TRUE

NeverExists(p) == FALSE  \* mutant
Exists(p) == sinks[call[p].id] # None

CreateSink(p) ==
  /\ Running
  /\ pc[p] = "idle"
  /\ Accesses(p)
  /\ earlier' = [earlier EXCEPT ![p] = {q \in Callers : pc[q] \in {"returned", "failed"}}]
  /\ Moves(p, IF Exists(p) THEN "failed" ELSE "options")
  /\ left' = [left EXCEPT ![p] = call[p].options]
  /\ UNCHANGED <<call, todo, host, streamHost, read, medias, bound, sinks>>

StoreSkipsOptions(p) ==  \* mutant
  /\ Running
  /\ pc[p] = "options"
  /\ Accesses(p)
  /\ Moves(p, "storing")
  /\ UNCHANGED <<call, buildVars, sinks, earlier>>

StoreBegins(p) ==
  /\ Running
  /\ pc[p] = "options" /\ left[p] = <<>>
  /\ Accesses(p)
  /\ Moves(p, "storing")
  /\ UNCHANGED <<call, buildVars, sinks, earlier>>

StoreEnds(p) ==
  /\ Running
  /\ pc[p] = "storing"
  /\ sinks' = [sinks EXCEPT ![call[p].id] = p]
  /\ Moves(p, "returned")
  /\ UNCHANGED <<call, buildVars, earlier, crashed>>

(* GetSink changes nothing but may be the access that is noticed.           *)
GetSink ==
  /\ Running
  /\ \E p \in Callers : pc[p] = "storing"
  /\ crashed' = TRUE
  /\ UNCHANGED <<pc, call, buildVars, sinks, earlier>>

-----------------------------------------------------------------------------
(* CreateStream applies the stream options; each builds a host.             *)

DefaultSession(p) ==  \* mutant: one description for all hosts without one
  LET given == Head(left[p]).session
  IN  IF given = None THEN CHOOSE d \in Sessions : Given[d] = <<>> ELSE given

SessionOf(p) == LET given == Head(left[p]).session IN IF given = None THEN p ELSE given

HostBegins(p) ==
  /\ Running
  /\ pc[p] = "options" /\ left[p] # <<>>
  /\ LET kind == Head(left[p]).host
         session == IF kind = "rtsp" THEN SessionOf(p) ELSE None
     IN  /\ host' = [host EXCEPT ![p] = [kind |-> kind, port |-> None, session |-> session]]
         /\ medias' = IF session = p THEN [medias EXCEPT ![p] = <<>>] ELSE medias
  /\ todo' = [todo EXCEPT ![p] = Head(left[p]).options]
  /\ Moves(p, "build")
  /\ UNCHANGED <<call, left, streamHost, read, bound, sinks, earlier, crashed>>

(* Sockets that lose their last reference.                                  *)
Dropped(S) == [k \in Ports |-> IF k \in S THEN "garbage" ELSE bound[k]]

HostEnds(p) ==
  /\ Running
  /\ pc[p] = "build" /\ todo[p] = <<>>
  /\ host[p].kind = "rtsp" => medias[host[p].session] # <<>>
  /\ bound' = Dropped({streamHost[p].port})
  /\ streamHost' = [streamHost EXCEPT ![p] = host[p]]
  /\ left' = [left EXCEPT ![p] = Tail(@)]
  /\ Moves(p, "options")
  /\ UNCHANGED <<call, todo, host, read, medias, sinks, earlier, crashed>>

-----------------------------------------------------------------------------
(* The host options. *)

Option(p) == Head(todo[p])
Applies(p, ops) == pc[p] = "build" /\ todo[p] # <<>> /\ Option(p).op \in ops
Applied(p) == todo' = [todo EXCEPT ![p] = Tail(@)]

PortTaken(p) == IF Option(p).op = "bind" THEN {Option(p).port} ELSE Ports

BindsAnyway(p, k) == k \in PortTaken(p)  \* mutant: the error is ignored
Binds(p, k) == k \in PortTaken(p) /\ bound[k] = None

(* WithBindPort and WithRandomBindPort; a port bound before loses its socket.*)
WithBindPort(p) ==
  /\ Running
  /\ Applies(p, {"bind", "bindAny"})
  /\ \E k \in Ports :
       /\ Binds(p, k)
       /\ host' = [host EXCEPT ![p].port = k]
       /\ bound' = [Dropped({host[p].port}) EXCEPT ![k] = p]
  /\ Applied(p)
  /\ UNCHANGED <<pc, call, left, streamHost, read, medias, sinks, earlier, crashed>>

(* WithMAVProxy needs the port; WithLoopBackPort and WithCallback nothing.  *)
WithField(p) ==
  /\ Running
  /\ Applies(p, {"proxy", "field"})
  /\ Option(p).op = "proxy" => host[p].port # None
  /\ Applied(p)
  /\ UNCHANGED <<pc, call, left, host, streamHost, read, medias, bound, sinks, earlier, crashed>>

Accepts(r) ==
  r.codec \in Codecs /\ r.payload = PayloadType(r.codec) /\ (r.codec = "H264" => r.usable)

CodecOf(o) == IF o.op = "track" THEN o.remote.codec ELSE o.codec

(* WithH264Options, WithVP8Option, WithOpusOptions, WithOptionsFromRemote.  *)
WithMedia(p) ==
  /\ Running
  /\ Applies(p, {"media", "track"})
  /\ Option(p).op = "track" => Accepts(Option(p).remote)
  /\ read' = [read EXCEPT ![p] = medias[host[p].session]]
  /\ Moves(p, "append")
  /\ UNCHANGED <<call, left, todo, host, streamHost, medias, bound, sinks, earlier, crashed>>

AppendRTSPMediaDescription(p) ==
  /\ Running
  /\ pc[p] = "append"
  /\ LET codec == CodecOf(Option(p))
         format == [codec |-> codec, payload |-> PayloadType(codec)]
     IN  medias' = [medias EXCEPT ![host[p].session] = Append(read[p], format)]
  /\ read' = [read EXCEPT ![p] = <<>>]
  /\ Applied(p)
  /\ Moves(p, "build")
  /\ UNCHANGED <<call, left, host, streamHost, bound, sinks, earlier, crashed>>

OptionFails(p) ==
  \/ Applies(p, {"bind", "bindAny"}) /\ \A k \in Ports : ~Binds(p, k)
  \/ Applies(p, {"proxy"}) /\ host[p].port = None
  \/ Applies(p, {"track"}) /\ ~Accepts(Option(p).remote)
  \/ /\ pc[p] = "build" /\ todo[p] = <<>>
     /\ host[p].kind = "rtsp" /\ medias[host[p].session] = <<>>

(* The stream is dropped with the error, and every socket of the call.      *)
SetupFails(p) ==
  /\ Running
  /\ OptionFails(p)
  /\ bound' = Dropped({k \in Ports : bound[k] = p})
  /\ Moves(p, "failed")
  /\ UNCHANGED <<call, left, todo, host, streamHost, read, medias, sinks, earlier, crashed>>

CollectGarbage(k) ==
  /\ Running
  /\ bound[k] = "garbage"
  /\ bound' = [bound EXCEPT ![k] = None]
  /\ UNCHANGED <<pc, call, left, todo, host, streamHost, read, medias, sinks, earlier, crashed>>

-----------------------------------------------------------------------------
SetupNext ==
  \/ \E p \in Callers :
       \/ CreateSink(p) \/ StoreBegins(p) \/ StoreEnds(p)
       \/ HostBegins(p) \/ HostEnds(p) \/ SetupFails(p)
       \/ WithBindPort(p) \/ WithField(p) \/ WithMedia(p) \/ AppendRTSPMediaDescription(p)
  \/ GetSink
  \/ \E k \in Ports : CollectGarbage(k)

SetupSpec == SetupInit /\ [][SetupNext]_setupVars

-----------------------------------------------------------------------------
(* Properties. *)

Hosts ==
  [kind : {"none", "rtsp", "loopback", "other"}, port : Ports \cup {None},
   session : Descriptions \cup {None}]

(* Every variable has its type; a call that stores a sink has applied every *)
(* option.                                                                  *)
SetupTypeOK ==
  /\ pc \in [Callers -> SetupSteps]
  /\ call \in [Callers -> Calls]
  /\ left \in [Callers -> Seq(StreamOption)] /\ todo \in [Callers -> Seq(HostOption)]
  /\ host \in [Callers -> Hosts] /\ streamHost \in [Callers -> Hosts]
  /\ read \in [Callers -> Seq(Formats)] /\ medias \in [Descriptions -> Seq(Formats)]
  /\ bound \in [Ports -> Callers \cup {None, "garbage"}]
  /\ sinks \in [Ids -> Callers \cup {None}]
  /\ earlier \in [Callers -> SUBSET Callers] /\ crashed \in BOOLEAN
  /\ \A p \in Callers : pc[p] \in {"storing", "returned"} => left[p] = <<>> /\ todo[p] = <<>>

(* A port is bound for the call whose host, the finished or the new one, has*)
(* it as bindPort, and for no other: hosts never share a port, and a host   *)
(* that an error or a later option dropped keeps none but as garbage.       *)
PortsFollowHosts ==
  \A p \in Callers : \A k \in Ports :
    bound[k] = p <=> pc[p] # "failed" /\ k \in {host[p].port, streamHost[p].port}

(* CreateSink's caller finds its sink under the name it gave, unless another*)
(* call for the name overlapped it: the check and the store are not atomic. *)
Overlap(p, q) == pc[q] # "idle" /\ p \notin earlier[q] /\ q \notin earlier[p]

ReturnedIsFound ==
  \A p \in Callers : pc[p] = "returned" =>
    \/ sinks[call[p].id] = p
    \/ \E q \in Callers \ {p} : call[q].id = call[p].id /\ Overlap(p, q)

(* WriteRTP gives every packet the payload type of Medias[0] (rtsp/new_host.go*)
(* line 297).  In a description that had media when the application passed *)
(* it, that is its first medium, whatever the options append.  Otherwise it*)
(* is the first format the host's options named, and the one the track's   *)
(* packets have, unless the description is passed twice.                   *)
Uses(d) ==
  UNION { {<<p, i>> : i \in {j \in DOMAIN call[p].options : call[p].options[j].session = d}} :
            p \in Callers }
UsedOnce(d) == \A u, v \in Uses(d) : u = v

Filled(d) == d \in Sessions /\ Given[d] # <<>>

(* The first format is the one of option o, and of its track.               *)
FirstIs(formats, o) ==
  /\ formats # <<>>
  /\ formats[1].codec = CodecOf(o)
  /\ o.op = "track" => formats[1].payload = o.remote.payload

PayloadTypeKept ==
  \A p \in Callers : pc[p] = "returned" /\ streamHost[p].kind = "rtsp" =>
    LET options == call[p].options
        session == streamHost[p].session
    IN  IF Filled(session) THEN medias[session] # <<>> /\ medias[session][1] = Given[session][1]
        ELSE \/ session \in Sessions /\ ~UsedOnce(session)
             \/ FirstIs(medias[session], Head(options[Len(options)].options))
=============================================================================
