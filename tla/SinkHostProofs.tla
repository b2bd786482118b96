---------------------------- MODULE SinkHostProofs ----------------------------
(* The host of a sink, from the options CreateSink is given to the end of   *)
(* its Connect: theorems of SinkSetup, for any callers, names, ports,       *)
(* descriptions and options, and at the end of RtspHost, for any writers,   *)
(* attempts and delays.                                                     *)
(*                                                                          *)
(* SinkSetup has four invariants, each with a strengthening of its own:     *)
(* TInv, the types, with what the host being built has to do with the       *)
(* option it is of; PInv, the ports; RInv, the registry; and MInv, the      *)
(* payload types, which needs the first two and who else may use the        *)
(* description.                                                             *)
EXTENDS SinkSetup, RtspHost, SequenceTheorems, TLAPS

-----------------------------------------------------------------------------
(* The inductive invariant of the types. *)

Options(p) == call[p].options
Position(p) == Len(Options(p)) - Len(left[p]) + 1
Building(p) == pc[p] \in {"build", "append"}

OptionsOf(kind) ==
  CASE kind = "rtsp" -> Seq(RtspOption)
    [] kind = "loopback" -> Seq(LoopBackOption)
    [] kind = "other" -> {<<>>}

(* The options left are the end of the options the caller gave.             *)
LeftIsEnd(p) ==
  pc[p] # "idle" =>
    /\ Len(left[p]) <= Len(Options(p))
    /\ \A i \in 1..Len(left[p]) : left[p][i] = Options(p)[i + Len(Options(p)) - Len(left[p])]

(* A host is built of its option, and between two nothing is left to do.    *)
HostIsOfOption(p) ==
  /\ Building(p) =>
       /\ left[p] # <<>>
       /\ host[p].kind = Head(left[p]).host
       /\ host[p].session = IF host[p].kind = "rtsp" THEN SessionOf(p) ELSE None
       /\ todo[p] \in OptionsOf(host[p].kind)
  /\ pc[p] = "append" =>
       /\ host[p].kind = "rtsp" /\ todo[p] # <<>>
       /\ Option(p).op = "track" => Accepts(Option(p).remote)
  /\ pc[p] \in {"idle", "options"} => todo[p] = <<>>

TInv == SetupTypeOK /\ \A p \in Callers : LeftIsEnd(p) /\ HostIsOfOption(p)

\* What the three kinds of stream options have.
LEMMA OptionKinds ==
  ASSUME NEW o \in StreamOption
  PROVE  /\ o.host \in {"rtsp", "loopback", "other"}
         /\ o.session \in Sessions \cup {None}
         /\ o.host # "rtsp" => o.session = None
         /\ o.options \in OptionsOf(o.host)
         /\ o.options \in Seq(HostOption)
<1>1. /\ o.host \in {"rtsp", "loopback", "other"}
      /\ o.session \in Sessions \cup {None}
      /\ o.host # "rtsp" => o.session = None
      /\ o.options \in OptionsOf(o.host)
  BY DEF StreamOption, OptionsOf
<1>2. OptionsOf(o.host) \subseteq Seq(HostOption)
  <2>1. Seq(RtspOption) \subseteq Seq(HostOption) /\ Seq(LoopBackOption) \subseteq Seq(HostOption)
    BY SeqMonotonic DEF HostOption
  <2>2. {<<>>} \subseteq Seq(HostOption)
    BY EmptySeq
  <2> QED
    BY <1>1, <2>1, <2>2 DEF OptionsOf
<1> QED
  BY <1>1, <1>2

\* An rtsp host has options of its own package only, a loopback host too.
LEMMA OptionOps ==
  ASSUME NEW kind \in {"rtsp", "loopback", "other"},
         NEW options \in OptionsOf(kind), options # <<>>
  PROVE  /\ kind \in {"rtsp", "loopback"}
         /\ kind = "rtsp" => Head(options) \in RtspOption
         /\ kind = "loopback" => Head(options) \in LoopBackOption
         /\ Head(options).op \in {"media", "track"} <=> kind = "rtsp"
         /\ Tail(options) \in OptionsOf(kind)
<1>1. kind \in {"rtsp", "loopback"}
  BY DEF OptionsOf
<1>2. CASE kind = "rtsp"
  <2>1. Head(options) \in RtspOption /\ Tail(options) \in Seq(RtspOption)
    BY <1>2, HeadTailProperties DEF OptionsOf
  <2>2. Head(options).op \in {"media", "track"}
    BY <2>1 DEF RtspOption
  <2> QED
    BY <1>2, <2>1, <2>2 DEF OptionsOf
<1>3. CASE kind = "loopback"
  <2>1. Head(options) \in LoopBackOption /\ Tail(options) \in Seq(LoopBackOption)
    BY <1>3, HeadTailProperties DEF OptionsOf
  <2>2. Head(options).op \notin {"media", "track"}
    BY <2>1 DEF LoopBackOption
  <2> QED
    BY <1>3, <2>1, <2>2 DEF OptionsOf
<1> QED
  BY <1>1, <1>2, <1>3

\* What an option appends is a format, of its codec and that of its track.
LEMMA FormatOfOption ==
  ASSUME NEW o \in RtspOption, o.op = "track" => Accepts(o.remote)
  PROVE  /\ [codec |-> CodecOf(o), payload |-> PayloadType(CodecOf(o))] \in Formats
         /\ o.op = "track" => PayloadType(CodecOf(o)) = o.remote.payload
<1>1. CodecOf(o) \in Codecs
  BY DEF RtspOption, CodecOf, Accepts
<1>2. PayloadType(CodecOf(o)) \in 0..127
  BY <1>1 DEF Codecs, PayloadType
<1>3. o.op = "track" => PayloadType(CodecOf(o)) = o.remote.payload
  BY DEF CodecOf, Accepts
<1> QED
  BY <1>1, <1>2, <1>3 DEF Formats

\* Initially.
LEMMA TInit == SetupInit => TInv
<1> SUFFICES ASSUME SetupInit PROVE TInv
  OBVIOUS
<1>1. NoHost \in Hosts
  BY DEF NoHost, Hosts
<1>2. <<>> \in Seq(StreamOption) /\ <<>> \in Seq(HostOption) /\ <<>> \in Seq(Formats)
  BY EmptySeq
<1>3. medias \in [Descriptions -> Seq(Formats)]
  BY <1>2, SetupAssumption DEF SetupInit, Descriptions
<1>5. SetupTypeOK
  BY <1>1, <1>2, <1>3 DEF SetupInit, SetupTypeOK, SetupSteps
<1>4. \A p \in Callers : LeftIsEnd(p) /\ HostIsOfOption(p)
  BY DEF SetupInit, LeftIsEnd, HostIsOfOption, Building
<1> QED
  BY <1>4, <1>5 DEF TInv

\* Each action keeps it.  An action of p touches nothing of another call.
LEMMA TNext == TInv /\ [SetupNext]_setupVars => TInv'
<1> SUFFICES ASSUME TInv, [SetupNext]_setupVars PROVE TInv'
  OBVIOUS
<1>0. SetupTypeOK /\ \A p \in Callers : LeftIsEnd(p) /\ HostIsOfOption(p)
  BY DEF TInv
<1>c. ASSUME NEW p \in Callers PROVE call[p].id \in Ids /\ Options(p) \in Seq(StreamOption)
  BY <1>0, SetupAssumption DEF SetupTypeOK, Options
<1>1. ASSUME NEW p \in Callers, CreateSink(p) PROVE TInv'
  <2>1. SetupTypeOK'
    BY <1>0, <1>1, <1>c DEF CreateSink, Accesses, Moves, SetupTypeOK, SetupSteps, Options
  <2>2. LeftIsEnd(p)' /\ HostIsOfOption(p)'
    BY <1>0, <1>1, <1>c, LenProperties
       DEF CreateSink, Moves, SetupTypeOK, LeftIsEnd, HostIsOfOption, Building, Options
  <2>3. ASSUME NEW q \in Callers \ {p} PROVE LeftIsEnd(q)' /\ HostIsOfOption(q)'
    BY <1>0, <1>1
       DEF CreateSink, Moves, SetupTypeOK, LeftIsEnd, HostIsOfOption, Building, Options, Option,
           SessionOf
  <2> QED
    BY <2>1, <2>2, <2>3 DEF TInv
<1>2. ASSUME NEW p \in Callers, StoreBegins(p) \/ StoreEnds(p) PROVE TInv'
  <2>1. PICK step \in {"storing", "returned"} : pc' = [pc EXCEPT ![p] = step]
    BY <1>2 DEF StoreBegins, StoreEnds, Moves
  <2>2. UNCHANGED <<call, left, todo, host, streamHost, read, medias, bound, earlier>>
    BY <1>2 DEF StoreBegins, StoreEnds, buildVars
  <2>3. left[p] = <<>> /\ todo[p] = <<>> /\ pc[p] \in {"options", "storing"}
    BY <1>0, <1>2 DEF StoreBegins, StoreEnds, SetupTypeOK, HostIsOfOption
  <2>4. sinks' \in [Ids -> Callers \cup {None}] /\ crashed' \in BOOLEAN
    BY <1>0, <1>2, <1>c DEF StoreBegins, StoreEnds, Accesses, SetupTypeOK
  <2>5. SetupTypeOK'
    BY <1>0, <2>1, <2>2, <2>3, <2>4 DEF SetupTypeOK, SetupSteps
  <2>6. ASSUME NEW q \in Callers PROVE LeftIsEnd(q)' /\ HostIsOfOption(q)'
    <3>1. pc'[q] = pc[q] \/ q = p
      BY <1>0, <2>1 DEF SetupTypeOK
    <3>2. pc'[p] \in {"storing", "returned"}
      BY <1>0, <2>1 DEF SetupTypeOK
    <3>3. LeftIsEnd(q) /\ HostIsOfOption(q)
      BY <1>0
    <3>4. LeftIsEnd(q)'
      BY <2>2, <2>3, <3>1, <3>2, <3>3 DEF LeftIsEnd, Options
    <3>5. HostIsOfOption(q)'
      BY <2>2, <2>3, <3>1, <3>2, <3>3 DEF HostIsOfOption, Building, Option, SessionOf
    <3> QED
      BY <3>4, <3>5
  <2> QED
    BY <2>5, <2>6 DEF TInv
<1>3. ASSUME NEW p \in Callers, HostBegins(p) PROVE TInv'
  <2> DEFINE o == Head(left[p])
             session == IF o.host = "rtsp" THEN SessionOf(p) ELSE None
  <2>1. /\ left[p] \in Seq(StreamOption) /\ left[p] # <<>>
        /\ o \in StreamOption
    BY <1>0, <1>3, HeadTailProperties DEF HostBegins, SetupTypeOK
  <2>2. /\ o.host \in {"rtsp", "loopback", "other"}
        /\ session \in Descriptions \cup {None}
        /\ o.options \in OptionsOf(o.host) /\ o.options \in Seq(HostOption)
    BY <2>1, OptionKinds DEF SessionOf, Descriptions
  <2>3. /\ pc' = [pc EXCEPT ![p] = "build"] /\ left' = left /\ call' = call
        /\ host' = [host EXCEPT ![p] = [kind |-> o.host, port |-> None, session |-> session]]
        /\ todo' = [todo EXCEPT ![p] = o.options]
        /\ medias' = IF session = p THEN [medias EXCEPT ![p] = <<>>] ELSE medias
        /\ UNCHANGED <<streamHost, read, bound, sinks, earlier, crashed>>
    BY <1>3 DEF HostBegins, Moves
  <2> HIDE DEF o, session
  <2>4. [kind |-> o.host, port |-> None, session |-> session] \in Hosts
    BY <2>2 DEF Hosts
  <2>5. <<>> \in Seq(Formats)
    BY EmptySeq
  <2>6. SetupTypeOK'
    BY <1>0, <1>3, <2>2, <2>3, <2>4, <2>5 DEF HostBegins, SetupTypeOK, SetupSteps, Descriptions
  <2>7. LeftIsEnd(p)' /\ HostIsOfOption(p)'
    <3>1. /\ pc'[p] = "build" /\ pc[p] = "options" /\ todo'[p] = o.options
          /\ host'[p].kind = o.host /\ host'[p].session = session
      BY <1>0, <1>3, <2>3 DEF HostBegins, SetupTypeOK
    <3>2. LeftIsEnd(p)'
      BY <1>0, <2>3, <3>1 DEF LeftIsEnd, Options
    <3>3. HostIsOfOption(p)'
      BY <2>1, <2>2, <2>3, <3>1 DEF HostIsOfOption, Building, SessionOf, o, session
    <3> QED
      BY <3>2, <3>3
  <2>8. ASSUME NEW q \in Callers \ {p} PROVE LeftIsEnd(q)' /\ HostIsOfOption(q)'
    BY <1>0, <2>3 DEF SetupTypeOK, LeftIsEnd, HostIsOfOption, Building, Options, Option, SessionOf
  <2> QED
    BY <2>6, <2>7, <2>8 DEF TInv
<1>4. ASSUME NEW p \in Callers, HostEnds(p) PROVE TInv'
  <2>1. /\ left[p] \in Seq(StreamOption) /\ left[p] # <<>>
        /\ Tail(left[p]) \in Seq(StreamOption) /\ Len(Tail(left[p])) = Len(left[p]) - 1
        /\ \A i \in 1..Len(Tail(left[p])) : Tail(left[p])[i] = left[p][i + 1]
        /\ Len(left[p]) \in Nat
    BY <1>0, <1>4, HeadTailProperties, LenProperties
       DEF HostEnds, SetupTypeOK, HostIsOfOption, Building
  <2>2. SetupTypeOK'
    BY <1>0, <1>4, <2>1 DEF HostEnds, Dropped, Moves, SetupTypeOK, SetupSteps
  <2>3. LeftIsEnd(p)'
    <3> DEFINE m == Len(left[p])
               n == Len(Options(p))
    <3>1. m \in Nat /\ n \in Nat
      BY <1>c, <2>1, LenProperties
    <3>2. left'[p] = Tail(left[p]) /\ pc[p] # "idle" /\ call' = call
      BY <1>0, <1>4 DEF HostEnds, SetupTypeOK
    <3>3. Len(left'[p]) = m - 1
      BY <2>1, <3>2
    <3>4. m <= n /\ \A i \in 1..m : left[p][i] = Options(p)[i + n - m]
      BY <1>0, <3>2 DEF LeftIsEnd
    <3>5. \A i \in 1..(m - 1) : left'[p][i] = left[p][i + 1]
      BY <2>1, <3>2, <3>3
    <3> HIDE DEF m, n
    <3>6. m - 1 <= n
      BY <3>1, <3>4
    <3>7. ASSUME NEW i \in 1..(m - 1) PROVE left'[p][i] = Options(p)[i + n - (m - 1)]
      <4>1. i + 1 \in 1..m /\ (i + 1) + n - m = i + n - (m - 1)
        BY <3>1
      <4> QED
        BY <3>4, <3>5, <4>1
    <3>8. Options(p)' = Options(p)
      BY <3>2 DEF Options
    <3> QED
      BY <3>3, <3>6, <3>7, <3>8 DEF LeftIsEnd, n
  <2>4. HostIsOfOption(p)'
    BY <1>0, <1>4 DEF HostEnds, Moves, SetupTypeOK, HostIsOfOption, Building
  <2>5. ASSUME NEW q \in Callers \ {p} PROVE LeftIsEnd(q)' /\ HostIsOfOption(q)'
    BY <1>0, <1>4
       DEF HostEnds, Moves, SetupTypeOK, LeftIsEnd, HostIsOfOption, Building, Options, Option,
           SessionOf
  <2> QED
    BY <2>2, <2>3, <2>4, <2>5 DEF TInv
<1>5. ASSUME NEW p \in Callers, NEW ops, Applies(p, ops)
      PROVE  /\ pc[p] = "build" /\ todo[p] \in Seq(HostOption) /\ todo[p] # <<>>
             /\ Tail(todo[p]) \in Seq(HostOption)
             /\ Tail(todo[p]) \in OptionsOf(host[p].kind)
             /\ host[p] \in Hosts
  <2>1. /\ pc[p] = "build" /\ todo[p] \in Seq(HostOption) /\ todo[p] # <<>>
        /\ host[p] \in Hosts
    BY <1>0, <1>5 DEF Applies, SetupTypeOK
  <2>2. Tail(todo[p]) \in Seq(HostOption)
    BY <2>1, HeadTailProperties
  <2>3. /\ host[p].kind \in {"rtsp", "loopback", "other"}
        /\ todo[p] \in OptionsOf(host[p].kind)
    <3>1. left[p] \in Seq(StreamOption) /\ left[p] # <<>> /\ host[p].kind = Head(left[p]).host
      BY <1>0, <2>1 DEF HostIsOfOption, Building, SetupTypeOK
    <3>2. Head(left[p]) \in StreamOption
      BY <3>1, HeadTailProperties
    <3> QED
      BY <1>0, <2>1, <3>1, <3>2, OptionKinds DEF HostIsOfOption, Building
  <2> QED
    BY <2>1, <2>2, <2>3, OptionOps
<1>6. ASSUME NEW p \in Callers, WithBindPort(p) PROVE TInv'
  <2>0. PICK k \in Ports :
          /\ host' = [host EXCEPT ![p].port = k]
          /\ bound' = [Dropped({host[p].port}) EXCEPT ![k] = p]
    BY <1>6 DEF WithBindPort
  <2>1. /\ pc[p] = "build" /\ Tail(todo[p]) \in Seq(HostOption)
        /\ Tail(todo[p]) \in OptionsOf(host[p].kind) /\ host[p] \in Hosts
    BY <1>5, <1>6 DEF WithBindPort
  <2>2. [host[p] EXCEPT !.port = k] \in Hosts
    BY <2>1 DEF Hosts
  <2>3. SetupTypeOK'
    BY <1>0, <1>6, <2>0, <2>1, <2>2 DEF WithBindPort, Applied, Dropped, SetupTypeOK
  <2>4. /\ host'[p].kind = host[p].kind /\ host'[p].session = host[p].session
        /\ \A q \in Callers \ {p} : host'[q] = host[q]
    BY <1>0, <2>0, <2>1 DEF SetupTypeOK, Hosts
  <2>5. LeftIsEnd(p)' /\ HostIsOfOption(p)'
    BY <1>0, <1>6, <2>1, <2>4
       DEF WithBindPort, Applied, SetupTypeOK, LeftIsEnd, HostIsOfOption, Building, Options,
           SessionOf
  <2>6. ASSUME NEW q \in Callers \ {p} PROVE LeftIsEnd(q)' /\ HostIsOfOption(q)'
    BY <1>0, <1>6, <2>4
       DEF WithBindPort, Applied, SetupTypeOK, LeftIsEnd, HostIsOfOption, Building, Options, Option,
           SessionOf
  <2> QED
    BY <2>3, <2>5, <2>6 DEF TInv
<1>7. ASSUME NEW p \in Callers, WithField(p) PROVE TInv'
  <2>1. /\ pc[p] = "build" /\ Tail(todo[p]) \in Seq(HostOption)
        /\ Tail(todo[p]) \in OptionsOf(host[p].kind)
    BY <1>5, <1>7 DEF WithField
  <2>2. SetupTypeOK'
    BY <1>0, <1>7, <2>1 DEF WithField, Applied, SetupTypeOK
  <2>3. LeftIsEnd(p)' /\ HostIsOfOption(p)'
    BY <1>0, <1>7, <2>1
       DEF WithField, Applied, SetupTypeOK, LeftIsEnd, HostIsOfOption, Building, Options, SessionOf
  <2>4. ASSUME NEW q \in Callers \ {p} PROVE LeftIsEnd(q)' /\ HostIsOfOption(q)'
    BY <1>0, <1>7
       DEF WithField, Applied, SetupTypeOK, LeftIsEnd, HostIsOfOption, Building, Options, Option,
           SessionOf
  <2> QED
    BY <2>2, <2>3, <2>4 DEF TInv
<1>8. ASSUME NEW p \in Callers, todo[p] # <<>>, HostIsOfOption(p), Building(p),
             Option(p).op \in {"media", "track"}
      PROVE  host[p].kind = "rtsp" /\ host[p].session \in Descriptions /\ Option(p) \in RtspOption
  <2>1. left[p] \in Seq(StreamOption) /\ left[p] # <<>> /\ host[p].kind = Head(left[p]).host
    BY <1>0, <1>8 DEF HostIsOfOption, SetupTypeOK
  <2>2. Head(left[p]) \in StreamOption
    BY <2>1, HeadTailProperties
  <2>3. todo[p] \in OptionsOf(host[p].kind) /\ host[p].kind \in {"rtsp", "loopback", "other"}
    BY <1>8, <2>1, <2>2, OptionKinds DEF HostIsOfOption
  <2>4. host[p].kind = "rtsp" /\ Option(p) \in RtspOption
    BY <1>8, <2>3, OptionOps DEF Option
  <2> QED
    BY <1>8, <2>2, <2>4, OptionKinds DEF HostIsOfOption, SessionOf, Descriptions
<1>9. ASSUME NEW p \in Callers, WithMedia(p) PROVE TInv'
  <2>1. /\ pc[p] = "build" /\ todo[p] # <<>> /\ Option(p).op \in {"media", "track"}
    BY <1>9 DEF WithMedia, Applies
  <2>2. host[p].kind = "rtsp" /\ host[p].session \in Descriptions
    BY <1>0, <1>8, <2>1 DEF Building
  <2>3. SetupTypeOK'
    BY <1>0, <1>9, <2>2 DEF WithMedia, Moves, SetupTypeOK, SetupSteps
  <2>4. LeftIsEnd(p)' /\ HostIsOfOption(p)'
    BY <1>0, <1>9, <2>1, <2>2
       DEF WithMedia, Moves, SetupTypeOK, LeftIsEnd, HostIsOfOption, Building, Options, Option,
           SessionOf
  <2>5. ASSUME NEW q \in Callers \ {p} PROVE LeftIsEnd(q)' /\ HostIsOfOption(q)'
    BY <1>0, <1>9
       DEF WithMedia, Moves, SetupTypeOK, LeftIsEnd, HostIsOfOption, Building, Options, Option,
           SessionOf
  <2> QED
    BY <2>3, <2>4, <2>5 DEF TInv
<1>10. ASSUME NEW p \in Callers, AppendRTSPMediaDescription(p) PROVE TInv'
  <2> DEFINE format == [codec |-> CodecOf(Option(p)), payload |-> PayloadType(CodecOf(Option(p)))]
  <2>1. /\ pc[p] = "append" /\ todo[p] # <<>> /\ host[p].kind = "rtsp"
        /\ Option(p).op = "track" => Accepts(Option(p).remote)
        /\ todo[p] \in Seq(RtspOption) /\ left[p] # <<>>
    BY <1>0, <1>10 DEF AppendRTSPMediaDescription, HostIsOfOption, Building, OptionsOf
  <2>2. /\ Option(p) \in RtspOption /\ Tail(todo[p]) \in Seq(RtspOption)
        /\ Tail(todo[p]) \in Seq(HostOption)
    <3>1. Option(p) \in RtspOption /\ Tail(todo[p]) \in Seq(RtspOption)
      BY <2>1, HeadTailProperties DEF Option
    <3> QED
      BY <3>1, SeqMonotonic DEF HostOption
  <2>3. host[p].session \in Descriptions
    BY <1>0, <1>8, <2>1, <2>2 DEF Building, RtspOption
  <2>4. format \in Formats
    BY <2>1, <2>2, FormatOfOption
  <2>5. Append(read[p], format) \in Seq(Formats) /\ <<>> \in Seq(Formats)
    BY <1>0, <2>4, AppendProperties, EmptySeq DEF SetupTypeOK
  <2>6. /\ medias' = [medias EXCEPT ![host[p].session] = Append(read[p], format)]
        /\ read' = [read EXCEPT ![p] = <<>>]
        /\ todo' = [todo EXCEPT ![p] = Tail(@)]
        /\ pc' = [pc EXCEPT ![p] = "build"]
        /\ UNCHANGED <<call, left, host, streamHost, bound, sinks, earlier, crashed>>
    BY <1>10 DEF AppendRTSPMediaDescription, Moves, Applied
  <2> HIDE DEF format
  <2>7. SetupTypeOK'
    BY <1>0, <2>1, <2>2, <2>3, <2>5, <2>6 DEF SetupTypeOK, SetupSteps
  <2>8. LeftIsEnd(p)' /\ HostIsOfOption(p)'
    BY <1>0, <2>1, <2>2, <2>6
       DEF SetupTypeOK, LeftIsEnd, HostIsOfOption, Building, Options, SessionOf, OptionsOf
  <2>9. ASSUME NEW q \in Callers \ {p} PROVE LeftIsEnd(q)' /\ HostIsOfOption(q)'
    BY <1>0, <2>6 DEF SetupTypeOK, LeftIsEnd, HostIsOfOption, Building, Options, Option, SessionOf
  <2> QED
    BY <2>7, <2>8, <2>9 DEF TInv
<1>11. ASSUME NEW p \in Callers, SetupFails(p) PROVE TInv'
  <2>1. SetupTypeOK'
    BY <1>0, <1>11 DEF SetupFails, Moves, Dropped, SetupTypeOK, SetupSteps
  <2>2. pc[p] # "idle"
    BY <1>11 DEF SetupFails, OptionFails, Applies
  <2>3. ASSUME NEW q \in Callers PROVE LeftIsEnd(q)' /\ HostIsOfOption(q)'
    BY <1>0, <1>11, <2>2
       DEF SetupFails, Moves, SetupTypeOK, LeftIsEnd, HostIsOfOption, Building, Options, Option,
           SessionOf
  <2> QED
    BY <2>1, <2>3 DEF TInv
<1>12. CASE GetSink \/ (\E k \in Ports : CollectGarbage(k)) \/ UNCHANGED setupVars
  <2>1. SetupTypeOK' /\ UNCHANGED <<pc, call, left, todo, host>>
    BY <1>0, <1>12 DEF GetSink, CollectGarbage, setupVars, buildVars, SetupTypeOK
  <2>2. ASSUME NEW q \in Callers PROVE LeftIsEnd(q)' /\ HostIsOfOption(q)'
    BY <1>0, <2>1 DEF LeftIsEnd, HostIsOfOption, Building, Options, Option, SessionOf
  <2> QED
    BY <2>1, <2>2 DEF TInv
<1> QED
  BY <1>1, <1>2, <1>3, <1>4, <1>6, <1>7, <1>9, <1>10, <1>11, <1>12 DEF SetupNext

LEMMA TInvariance == SetupSpec => []TInv
BY TInit, TNext, PTL DEF SetupSpec

\* Every variable keeps its type, and a call that stores a sink has applied
\* every option of the stream and of its hosts.
THEOREM SetupTypeCorrect == SetupSpec => []SetupTypeOK
<1>1. TInv => SetupTypeOK
  BY DEF TInv
<1> QED
  BY TInvariance, <1>1, PTL

-----------------------------------------------------------------------------
(* The ports. *)

(* Between two options the host is the one the stream has; while one is     *)
(* built the two have no port in common.                                    *)
PortsApart ==
  \A p \in Callers :
    /\ pc[p] = "idle" => host[p] = NoHost /\ streamHost[p] = NoHost
    /\ pc[p] \in {"options", "storing", "returned"} => host[p].port = streamHost[p].port
    /\ Building(p) /\ host[p].port # None => host[p].port # streamHost[p].port

PInv == PortsFollowHosts /\ PortsApart

\* Initially no port is bound.
LEMMA PInit == SetupInit => PInv
<1> SUFFICES ASSUME SetupInit PROVE PInv
  OBVIOUS
<1>1. PortsFollowHosts
  BY SetupAssumption DEF SetupInit, PortsFollowHosts, NoHost
<1>2. PortsApart
  BY DEF SetupInit, PortsApart, Building
<1> QED
  BY <1>1, <1>2 DEF PInv

\* A port changes hands by the steps of one call: it is bound for p when it was
\* free, and becomes garbage when p lets go of it.
LEMMA PNext == TInv /\ PInv /\ [SetupNext]_setupVars => PInv'
<1> SUFFICES ASSUME TInv, PInv, [SetupNext]_setupVars PROVE PInv'
  OBVIOUS
<1>t. /\ pc \in [Callers -> SetupSteps]
      /\ host \in [Callers -> Hosts] /\ streamHost \in [Callers -> Hosts]
      /\ bound \in [Ports -> Callers \cup {None, "garbage"}]
  BY DEF TInv, SetupTypeOK
<1>h. \A h \in Hosts : h.port \in Ports \cup {None}
  BY DEF Hosts
<1>i. PortsFollowHosts /\ PortsApart
  BY DEF PInv
<1>n. None \notin Ports /\ None \notin Callers /\ "garbage" \notin Callers
  BY SetupAssumption
<1>1. ASSUME NEW p \in Callers, NEW step,
             pc' = [pc EXCEPT ![p] = step], UNCHANGED <<host, streamHost, bound>>,
             \/ pc[p] = "idle" /\ step \in {"failed", "options"}
             \/ pc[p] \in {"options", "storing"} /\ step \in {"storing", "returned"}
             \/ pc[p] = "build" /\ step = "append"
             \/ pc[p] = "append" /\ step = "build"
      PROVE  PInv'
  <2>1. PortsFollowHosts'
    <3> SUFFICES ASSUME NEW q \in Callers, NEW k \in Ports
                 PROVE  bound[k] = q <=>
                          pc'[q] # "failed" /\ k \in {host[q].port, streamHost[q].port}
      BY <1>1 DEF PortsFollowHosts
    <3>1. CASE pc'[q] = "failed" <=> pc[q] = "failed"
      BY <1>i, <3>1 DEF PortsFollowHosts
    <3>2. CASE ~(pc'[q] = "failed" <=> pc[q] = "failed")
      <4>1. q = p /\ pc[p] = "idle"
        BY <1>t, <1>1, <3>2
      <4>2. host[p].port = None /\ streamHost[p].port = None
        BY <1>i, <4>1 DEF PortsApart, NoHost
      <4> QED
        BY <1>i, <1>n, <4>1, <4>2 DEF PortsFollowHosts
    <3> QED
      BY <3>1, <3>2
  <2>2. PortsApart'
    BY <1>t, <1>i, <1>1 DEF PortsApart, Building
  <2> QED
    BY <2>1, <2>2 DEF PInv
<1>2. ASSUME NEW p \in Callers, CreateSink(p) \/ StoreBegins(p) \/ StoreEnds(p) \/ WithMedia(p)
                                \/ AppendRTSPMediaDescription(p)
      PROVE  PInv'
  BY <1>1, <1>2
     DEF CreateSink, StoreBegins, StoreEnds, WithMedia, Applies, AppendRTSPMediaDescription, Moves,
         buildVars
<1>3. ASSUME NEW p \in Callers, HostBegins(p) PROVE PInv'
  <2>1. /\ pc[p] = "options" /\ pc' = [pc EXCEPT ![p] = "build"]
        /\ UNCHANGED <<streamHost, bound>>
        /\ \A q \in Callers \ {p} : host'[q] = host[q]
        /\ host'[p].port = None
    BY <1>t, <1>3 DEF HostBegins, Moves
  <2>2. host[p].port = streamHost[p].port
    BY <1>i, <2>1 DEF PortsApart
  <2>3. PortsFollowHosts'
    BY <1>t, <1>i, <1>n, <2>1, <2>2 DEF PortsFollowHosts
  <2>4. PortsApart'
    BY <1>t, <1>i, <2>1 DEF PortsApart, Building
  <2> QED
    BY <2>3, <2>4 DEF PInv
<1>4. ASSUME NEW p \in Callers, HostEnds(p) PROVE PInv'
  <2>1. /\ pc[p] = "build" /\ pc' = [pc EXCEPT ![p] = "options"] /\ host' = host
        /\ streamHost' = [streamHost EXCEPT ![p] = host[p]]
        /\ bound' = Dropped({streamHost[p].port})
    BY <1>4 DEF HostEnds, Moves
  <2>2. host[p].port # None => host[p].port # streamHost[p].port
    BY <1>i, <2>1 DEF PortsApart, Building
  <2>3. ASSUME NEW q \in Callers, NEW k \in Ports
        PROVE  bound'[k] = q <=> pc'[q] # "failed" /\ k \in {host'[q].port, streamHost'[q].port}
    <3>1. bound'[k] = IF k = streamHost[p].port THEN "garbage" ELSE bound[k]
      BY <2>1 DEF Dropped
    <3>2. bound[k] = q <=> pc[q] # "failed" /\ k \in {host[q].port, streamHost[q].port}
      BY <1>i DEF PortsFollowHosts
    <3>3. k = streamHost[p].port => bound[k] = p
      BY <1>i, <2>1 DEF PortsFollowHosts
    <3> QED
      BY <1>t, <1>n, <2>1, <2>2, <3>1, <3>2, <3>3
  <2>4. PortsApart'
    BY <1>t, <1>i, <2>1 DEF PortsApart, Building
  <2> QED
    BY <2>3, <2>4 DEF PInv, PortsFollowHosts
<1>5. ASSUME NEW p \in Callers, WithBindPort(p) PROVE PInv'
  <2>0. PICK k \in Ports :
          /\ Binds(p, k)
          /\ host' = [host EXCEPT ![p].port = k]
          /\ bound' = [Dropped({host[p].port}) EXCEPT ![k] = p]
    BY <1>5 DEF WithBindPort
  <2>1. pc[p] = "build" /\ UNCHANGED <<pc, streamHost>> /\ bound[k] = None
    BY <1>5, <2>0 DEF WithBindPort, Applies, Binds
  <2>2. host'[p].port = k /\ \A q \in Callers \ {p} : host'[q] = host[q]
    BY <1>t, <2>0 DEF Hosts
  <2>3. k # host[p].port /\ k # streamHost[p].port
    BY <1>i, <1>n, <2>1 DEF PortsFollowHosts
  <2>4. ASSUME NEW q \in Callers, NEW j \in Ports
        PROVE  bound'[j] = q <=> pc'[q] # "failed" /\ j \in {host'[q].port, streamHost'[q].port}
    <3>1. bound'[j] = IF j = k THEN p ELSE IF j = host[p].port THEN "garbage" ELSE bound[j]
      BY <2>0 DEF Dropped
    <3>2. bound[j] = q <=> pc[q] # "failed" /\ j \in {host[q].port, streamHost[q].port}
      BY <1>i DEF PortsFollowHosts
    <3>3. j = host[p].port => bound[j] = p /\ j # streamHost[p].port
      BY <1>i, <1>n, <2>1 DEF PortsFollowHosts, PortsApart, Building
    <3> QED
      BY <1>n, <2>1, <2>2, <2>3, <3>1, <3>2, <3>3
  <2>5. PortsApart'
    BY <1>t, <1>i, <2>1, <2>2, <2>3 DEF PortsApart, Building
  <2> QED
    BY <2>4, <2>5 DEF PInv, PortsFollowHosts
<1>6. ASSUME NEW p \in Callers, SetupFails(p) PROVE PInv'
  <2>1. /\ pc' = [pc EXCEPT ![p] = "failed"] /\ UNCHANGED <<host, streamHost>>
        /\ bound' = Dropped({k \in Ports : bound[k] = p})
    BY <1>6 DEF SetupFails, Moves
  <2>2. PortsFollowHosts'
    BY <1>t, <1>i, <1>n, <2>1 DEF PortsFollowHosts, Dropped
  <2>3. PortsApart'
    BY <1>t, <1>i, <2>1 DEF PortsApart, Building
  <2> QED
    BY <2>2, <2>3 DEF PInv
<1>7. ASSUME NEW k \in Ports, CollectGarbage(k) PROVE PInv'
  <2>1. PortsFollowHosts'
    BY <1>t, <1>i, <1>n, <1>7 DEF CollectGarbage, PortsFollowHosts
  <2>2. PortsApart'
    BY <1>i, <1>7 DEF CollectGarbage, PortsApart, Building
  <2> QED
    BY <2>1, <2>2 DEF PInv
<1>8. ASSUME NEW p \in Callers, WithField(p) PROVE PInv'
  BY <1>i, <1>8 DEF WithField, PInv, PortsFollowHosts, PortsApart, Building
<1>9. CASE GetSink \/ UNCHANGED setupVars
  BY <1>i, <1>9 DEF GetSink, setupVars, buildVars, PInv, PortsFollowHosts, PortsApart, Building
<1> QED
  BY <1>2, <1>3, <1>4, <1>5, <1>6, <1>7, <1>8, <1>9 DEF SetupNext

\* Hosts never share a port, and a host that a later option replaced or an error
\* dropped keeps none but as garbage.
THEOREM PortsFollow == SetupSpec => []PortsFollowHosts
<1>1. PInv => PortsFollowHosts
  BY DEF PInv
<1> QED
  BY TInvariance, PInit, PNext, <1>1, PTL DEF SetupSpec

-----------------------------------------------------------------------------
(* The registry. *)

Ended(p) == pc[p] \in {"returned", "failed"}

(* A name has the sink of a call that returned, and has one once a call for *)
(* it did; a call that began after that fails.                              *)
RegistryFollowsCalls ==
  /\ \A id \in Ids : sinks[id] # None => pc[sinks[id]] = "returned" /\ call[sinks[id]].id = id
  /\ \A p \in Callers :
       /\ pc[p] = "idle" => earlier[p] = {}
       /\ \A q \in earlier[p] : Ended(q)
       /\ pc[p] = "returned" => sinks[call[p].id] # None
       /\ \A q \in earlier[p] :
            pc[q] = "returned" /\ call[q].id = call[p].id => pc[p] = "failed"

RInv == RegistryFollowsCalls /\ ReturnedIsFound

\* Initially nothing has been asked for.
LEMMA RInit == SetupInit => RInv
BY DEF SetupInit, RInv, RegistryFollowsCalls, ReturnedIsFound

\* A name is overwritten only by a call that overlapped the one which stored it.
LEMMA RNext == TInv /\ RInv /\ [SetupNext]_setupVars => RInv'
<1> SUFFICES ASSUME TInv, RInv, [SetupNext]_setupVars PROVE RInv'
  OBVIOUS
<1>t. /\ pc \in [Callers -> SetupSteps]
      /\ sinks \in [Ids -> Callers \cup {None}] /\ earlier \in [Callers -> SUBSET Callers]
      /\ \A p \in Callers : call[p].id \in Ids
  BY SetupAssumption DEF TInv, SetupTypeOK
<1>i. RegistryFollowsCalls /\ ReturnedIsFound
  BY DEF RInv
<1>n. None \notin Callers
  BY SetupAssumption
<1>1. ASSUME NEW p \in Callers, NEW step, pc' = [pc EXCEPT ![p] = step],
             UNCHANGED <<call, sinks, earlier>>,
             pc[p] \notin {"idle", "returned", "failed"}, step \notin {"idle", "returned"}
      PROVE  RInv'
  <2>1. RegistryFollowsCalls'
    BY <1>t, <1>i, <1>1 DEF RegistryFollowsCalls, Ended
  <2>2. ReturnedIsFound'
    BY <1>t, <1>i, <1>1 DEF ReturnedIsFound, Overlap
  <2> QED
    BY <2>1, <2>2 DEF RInv
<1>2. ASSUME NEW p \in Callers,
             StoreBegins(p) \/ HostBegins(p) \/ HostEnds(p) \/ WithMedia(p)
               \/ AppendRTSPMediaDescription(p) \/ SetupFails(p)
      PROVE  RInv'
  <2>1. UNCHANGED <<call, sinks, earlier>> /\ pc[p] \in {"options", "build", "append"}
    BY <1>2
       DEF StoreBegins, HostBegins, HostEnds, WithMedia, AppendRTSPMediaDescription, SetupFails,
           OptionFails, Applies, buildVars
  <2>2. PICK step \in {"storing", "build", "options", "append", "failed"} :
          pc' = [pc EXCEPT ![p] = step]
    BY <1>2
       DEF StoreBegins, HostBegins, HostEnds, WithMedia, AppendRTSPMediaDescription, SetupFails,
           Moves
  <2> QED
    BY <1>1, <2>1, <2>2
<1>3. ASSUME NEW p \in Callers, CreateSink(p) PROVE RInv'
  <2>1. /\ pc[p] = "idle" /\ UNCHANGED <<call, sinks>>
        /\ pc' = [pc EXCEPT ![p] = IF Exists(p) THEN "failed" ELSE "options"]
        /\ earlier' = [earlier EXCEPT ![p] = {q \in Callers : pc[q] \in {"returned", "failed"}}]
    BY <1>3 DEF CreateSink, Moves
  <2>2. ASSUME NEW q \in Callers, pc[q] = "returned", call[q].id = call[p].id
        PROVE  Exists(p)
    BY <1>i, <2>2 DEF RegistryFollowsCalls, Exists
  <2>3. \A q \in Callers : pc'[q] = "returned" <=> pc[q] = "returned"
    BY <1>t, <2>1
  <2>4. RegistryFollowsCalls'
    <3>1. \A id \in Ids : sinks'[id] # None =>
            pc'[sinks'[id]] = "returned" /\ call'[sinks'[id]].id = id
      BY <1>t, <1>i, <2>1, <2>3 DEF RegistryFollowsCalls
    <3>2. ASSUME NEW q \in Callers \ {p}
          PROVE  /\ pc'[q] = "idle" => earlier'[q] = {}
                 /\ \A r \in earlier'[q] : Ended(r)'
                 /\ pc'[q] = "returned" => sinks'[call'[q].id] # None
                 /\ \A r \in earlier'[q] :
                      pc'[r] = "returned" /\ call'[r].id = call'[q].id => pc'[q] = "failed"
      BY <1>t, <1>i, <2>1, <2>3 DEF RegistryFollowsCalls, Ended
    <3>3. /\ pc'[p] # "idle" /\ pc'[p] # "returned"
          /\ \A r \in earlier'[p] : Ended(r)'
          /\ \A r \in earlier'[p] :
               pc'[r] = "returned" /\ call'[r].id = call'[p].id => pc'[p] = "failed"
      BY <1>t, <2>1, <2>2, <2>3 DEF Ended
    <3> QED
      BY <3>1, <3>2, <3>3 DEF RegistryFollowsCalls
  <2>5. ReturnedIsFound'
    BY <1>t, <1>i, <2>1, <2>3 DEF ReturnedIsFound, Overlap
  <2> QED
    BY <2>4, <2>5 DEF RInv
<1>4. ASSUME NEW p \in Callers, StoreEnds(p) PROVE RInv'
  <2>1. /\ pc[p] = "storing" /\ UNCHANGED <<call, earlier>>
        /\ pc' = [pc EXCEPT ![p] = "returned"]
        /\ sinks' = [sinks EXCEPT ![call[p].id] = p]
    BY <1>4 DEF StoreEnds, Moves, buildVars
  <2>2. RegistryFollowsCalls'
    <3>1. \A id \in Ids : sinks'[id] # None =>
            pc'[sinks'[id]] = "returned" /\ call'[sinks'[id]].id = id
      BY <1>t, <1>i, <2>1 DEF RegistryFollowsCalls
    <3>2. ASSUME NEW q \in Callers
          PROVE  /\ pc'[q] = "idle" => earlier'[q] = {}
                 /\ \A r \in earlier'[q] : Ended(r)'
                 /\ pc'[q] = "returned" => sinks'[call'[q].id] # None
                 /\ \A r \in earlier'[q] :
                      pc'[r] = "returned" /\ call'[r].id = call'[q].id => pc'[q] = "failed"
      <4>1. p \notin earlier[q] /\ (q = p => pc[q] # "idle")
        BY <1>i, <2>1 DEF RegistryFollowsCalls, Ended
      <4>2. \A r \in earlier[q] : r \in Callers /\ r # p
        BY <1>t, <4>1
      <4>3. \A r \in Callers \ {p} : pc'[r] = pc[r]
        BY <1>t, <2>1
      <4>4. pc'[q] = "returned" => sinks'[call'[q].id] # None
        BY <1>t, <1>i, <1>n, <2>1 DEF RegistryFollowsCalls
      <4>5. pc[q] = "failed" => pc'[q] = "failed"
        BY <1>t, <2>1
      <4>6. q = p => ~ \E r \in earlier[q] : pc[r] = "returned" /\ call[r].id = call[q].id
        BY <1>i, <2>1 DEF RegistryFollowsCalls
      <4> QED
        BY <1>t, <1>i, <2>1, <4>1, <4>2, <4>3, <4>4, <4>5, <4>6 DEF RegistryFollowsCalls, Ended
    <3> QED
      BY <3>1, <3>2 DEF RegistryFollowsCalls
  <2>3. ReturnedIsFound'
    <3> SUFFICES ASSUME NEW q \in Callers, pc'[q] = "returned"
                 PROVE  \/ sinks'[call[q].id] = q
                        \/ \E r \in Callers \ {q} : call[r].id = call[q].id /\ Overlap(q, r)'
      BY <2>1 DEF ReturnedIsFound
    <3>1. CASE q = p
      BY <1>t, <2>1, <3>1
    <3>2. CASE q # p /\ call[q].id = call[p].id
      <4>1. pc[q] = "returned"
        BY <1>t, <2>1, <3>2
      <4>2. q \notin earlier[p] /\ p \notin earlier[q]
        BY <1>i, <2>1, <3>2, <4>1 DEF RegistryFollowsCalls, Ended
      <4>3. Overlap(q, p)'
        BY <1>t, <2>1, <4>2 DEF Overlap
      <4> QED
        BY <3>2, <4>3
    <3>3. CASE q # p /\ call[q].id # call[p].id
      <4>1. pc[q] = "returned" /\ sinks'[call[q].id] = sinks[call[q].id]
        BY <1>t, <2>1, <3>3
      <4>2. \A r \in Callers : Overlap(q, r) => Overlap(q, r)'
        BY <1>t, <2>1 DEF Overlap
      <4> QED
        BY <1>i, <4>1, <4>2 DEF ReturnedIsFound
    <3> QED
      BY <3>1, <3>2, <3>3
  <2> QED
    BY <2>2, <2>3 DEF RInv
<1>5. CASE UNCHANGED <<pc, call, sinks, earlier>>
  BY <1>i, <1>5 DEF RInv, RegistryFollowsCalls, ReturnedIsFound, Ended, Overlap
<1>6. ASSUME NEW p \in Callers, WithBindPort(p) \/ WithField(p) PROVE RInv'
  BY <1>5, <1>6 DEF WithBindPort, WithField
<1> QED
  BY <1>2, <1>3, <1>4, <1>5, <1>6 DEF SetupNext, GetSink, CollectGarbage, setupVars

\* However many calls there are, a caller whose sink is no longer found under
\* its name was overlapped by another call for the name.
THEOREM SinksFound == SetupSpec => []ReturnedIsFound
<1>1. RInv => ReturnedIsFound
  BY DEF RInv
<1> QED
  BY TInvariance, RInit, RNext, <1>1, PTL DEF SetupSpec

-----------------------------------------------------------------------------
(* The payload types. *)

(* Nobody but p appends to d, and p for one host only.                      *)
Exclusive(p, d) == d = p \/ (d \in Sessions /\ ~Filled(d) /\ UsedOnce(d))

(* A host option that could fail has not, up to the i-th.                   *)
Begun(p, i) ==
  \/ pc[p] # "idle" /\ i < Position(p)
  \/ pc[p] \in {"build", "append", "failed"} /\ i = Position(p)

(* What is passed once and empty has no media until its host is built.      *)
UnusedIsEmpty(p) ==
  \A d \in Sessions : \A i \in DOMAIN Options(p) :
    ~Filled(d) /\ UsedOnce(d) /\ Options(p)[i].session = d /\ ~Begun(p, i) => medias[d] = <<>>

(* While its host is built it is empty until the first option has appended. *)
BuiltFirst(p) ==
  Building(p) /\ host[p].kind = "rtsp" /\ Exclusive(p, host[p].session) =>
    /\ \/ medias[host[p].session] = <<>> /\ todo[p] = Head(left[p]).options
       \/ FirstIs(medias[host[p].session], Head(Head(left[p]).options))
    /\ pc[p] = "append" => read[p] = medias[host[p].session]

(* The description of the i-th option of p.                                 *)
SessionAt(p, i) == IF Options(p)[i].session = None THEN p ELSE Options(p)[i].session

(* The host that is stored is of the last option applied.                   *)
StoredFirst(p) ==
  pc[p] \in {"options", "storing", "returned"} /\ streamHost[p].kind = "rtsp" =>
    LET i == Position(p) - 1
        session == streamHost[p].session
    IN  /\ i \in 1..Len(Options(p))
        /\ session = SessionAt(p, i)
        /\ Exclusive(p, session) => FirstIs(medias[session], Head(Options(p)[i].options))

(* Nothing displaces the first medium of a description that was passed with *)
(* one, however often it is passed.                                         *)
StartsAsGiven(formats, d) == formats # <<>> /\ formats[1] = Given[d][1]

GInv ==
  \A d \in Sessions : Filled(d) =>
    /\ StartsAsGiven(medias[d], d)
    /\ \A p \in Callers : pc[p] = "append" /\ host[p].session = d => StartsAsGiven(read[p], d)

MInv == \A p \in Callers : UnusedIsEmpty(p) /\ BuiltFirst(p) /\ StoredFirst(p)

\* The option a host is built of, in what the caller gave.
LEMMA CurrentOption ==
  ASSUME TInv, NEW p \in Callers, Building(p) \/ (pc[p] = "options" /\ left[p] # <<>>)
  PROVE  /\ Position(p) \in 1..Len(Options(p)) /\ DOMAIN Options(p) = 1..Len(Options(p))
         /\ Options(p)[Position(p)] = Head(left[p])
         /\ Head(left[p]) \in StreamOption
         /\ left[p] # <<>> /\ left[p] \in Seq(StreamOption)
         /\ Len(left[p]) \in Nat /\ Len(Options(p)) \in Nat
<1>1. Options(p) \in Seq(StreamOption) /\ left[p] \in Seq(StreamOption)
  BY SetupAssumption DEF TInv, SetupTypeOK, Options
<1>2. LeftIsEnd(p) /\ left[p] # <<>> /\ pc[p] # "idle"
  BY DEF TInv, HostIsOfOption, Building
<1>3. /\ Len(left[p]) \in Nat \ {0} /\ Len(Options(p)) \in Nat
      /\ DOMAIN Options(p) = 1..Len(Options(p))
      /\ Head(left[p]) \in StreamOption
  BY <1>1, <1>2, EmptySeq, LenProperties, HeadTailProperties
<1>4. Len(left[p]) <= Len(Options(p))
  BY <1>2 DEF LeftIsEnd
<1>5. left[p][1] = Options(p)[1 + Len(Options(p)) - Len(left[p])]
  <2>1. 1 \in 1..Len(left[p])
    BY <1>3
  <2> QED
    BY <1>2, <2>1 DEF LeftIsEnd
<1>6. Position(p) \in 1..Len(Options(p)) /\ 1 + Len(Options(p)) - Len(left[p]) = Position(p)
  BY <1>3, <1>4 DEF Position
<1>7. Head(left[p]) = left[p][1]
  BY <1>1, <1>2
<1> QED
  BY <1>1, <1>2, <1>3, <1>5, <1>6, <1>7

\* A use is one of the options that name the description.
LEMMA UsesMember ==
  ASSUME NEW p \in Callers, NEW i \in DOMAIN Options(p), NEW d, Options(p)[i].session = d
  PROVE  <<p, i>> \in Uses(d)
BY DEF Uses, Options

\* Nobody else appends to a description p has for itself.
LEMMA OthersElsewhere ==
  ASSUME NEW p \in Callers, NEW q \in Callers \ {p},
         NEW i \in DOMAIN Options(p), NEW j \in DOMAIN Options(q),
         Exclusive(q, SessionAt(q, j)),
         Options(p)[i].session \in Sessions \cup {None},
         Options(q)[j].session \in Sessions \cup {None}
  PROVE  SessionAt(p, i) # SessionAt(q, j)
<1> SUFFICES ASSUME SessionAt(p, i) = SessionAt(q, j) PROVE FALSE
  OBVIOUS
<1>1. /\ Options(p)[i].session = SessionAt(p, i) /\ Options(q)[j].session = SessionAt(q, j)
      /\ SessionAt(q, j) \in Sessions /\ UsedOnce(SessionAt(q, j))
  BY SetupAssumption DEF SessionAt, Exclusive
<1>2. <<p, i>> \in Uses(SessionAt(q, j)) /\ <<q, j>> \in Uses(SessionAt(q, j))
  BY <1>1, UsesMember
<1> QED
  BY <1>1, <1>2 DEF UsedOnce

\* The description of the host being built is the one of its option.
LEMMA BuiltFor ==
  ASSUME TInv, NEW p \in Callers, Building(p), host[p].kind = "rtsp"
  PROVE  /\ host[p].session = SessionAt(p, Position(p))
         /\ host[p].session \in Descriptions
<1>1. host[p].session = SessionOf(p)
  BY DEF TInv, HostIsOfOption
<1>2. Options(p)[Position(p)] = Head(left[p]) /\ Head(left[p]) \in StreamOption
  BY CurrentOption
<1> QED
  BY <1>1, <1>2, OptionKinds DEF SessionOf, SessionAt, Descriptions

\* The options of each call are stream options.
LEMMA OptionsTyped ==
  ASSUME TInv, NEW p \in Callers
  PROVE  /\ DOMAIN Options(p) = 1..Len(Options(p)) /\ Len(Options(p)) \in Nat
         /\ \A i \in DOMAIN Options(p) : Options(p)[i].session \in Sessions \cup {None}
<1>1. Options(p) \in Seq(StreamOption)
  BY SetupAssumption DEF TInv, SetupTypeOK, Options
<1> QED
  BY <1>1, LenProperties, ElementOfSeq, OptionKinds

\* Initially.
LEMMA MInit == SetupInit => MInv
<1> SUFFICES ASSUME SetupInit, NEW p \in Callers
             PROVE  UnusedIsEmpty(p) /\ BuiltFirst(p) /\ StoredFirst(p)
  BY DEF MInv
<1>1. \A d \in Sessions : ~Filled(d) => medias[d] = <<>>
  BY DEF SetupInit, Descriptions, Filled
<1>2. pc[p] = "idle"
  BY DEF SetupInit
<1> QED
  BY <1>1, <1>2 DEF UnusedIsEmpty, BuiltFirst, StoredFirst, Building

\* A description changes only when the host that it is of is built: it is
\* emptied at the beginning if nobody else can have it, and appended to.
LEMMA MNext == TInv /\ PInv /\ MInv /\ [SetupNext]_setupVars => MInv'
<1> SUFFICES ASSUME TInv, PInv, MInv, [SetupNext]_setupVars PROVE MInv'
  OBVIOUS
<1>t. /\ pc \in [Callers -> SetupSteps]
      /\ left \in [Callers -> Seq(StreamOption)] /\ todo \in [Callers -> Seq(HostOption)]
      /\ host \in [Callers -> Hosts] /\ streamHost \in [Callers -> Hosts]
      /\ read \in [Callers -> Seq(Formats)] /\ medias \in [Descriptions -> Seq(Formats)]
  BY DEF TInv, SetupTypeOK
<1>i. \A p \in Callers : UnusedIsEmpty(p) /\ BuiltFirst(p) /\ StoredFirst(p)
  BY DEF MInv
<1>c. call' = call
  BY DEF SetupNext, CreateSink, StoreBegins, StoreEnds, HostBegins, HostEnds, SetupFails,
         WithBindPort, WithField, WithMedia, AppendRTSPMediaDescription, GetSink, CollectGarbage, setupVars,
         buildVars
<1>d. \A p, d : (Options(p)' = Options(p)) /\ (UsedOnce(d)' <=> UsedOnce(d))
                /\ (Exclusive(p, d)' <=> Exclusive(p, d)) /\ (Filled(d)' <=> Filled(d))
  BY <1>c DEF Options, UsedOnce, Uses, Exclusive, Filled
<1>e. \A p, i : SessionAt(p, i)' = SessionAt(p, i)
  BY <1>d DEF SessionAt
\* A call is not disturbed where its own part and the descriptions stay.
<1>1. ASSUME NEW q \in Callers, pc'[q] = pc[q], left'[q] = left[q], todo'[q] = todo[q],
             host'[q].kind = host[q].kind, host'[q].session = host[q].session,
             streamHost'[q] = streamHost[q], read'[q] = read[q], UNCHANGED medias
      PROVE  UnusedIsEmpty(q)' /\ BuiltFirst(q)' /\ StoredFirst(q)'
  <2>1. Position(q)' = Position(q) /\ (Building(q)' <=> Building(q))
        /\ \A i : Begun(q, i)' <=> Begun(q, i)
    BY <1>1, <1>d DEF Position, Building, Begun
  <2>2. UnusedIsEmpty(q)'
    BY <1>1, <1>i, <1>d, <2>1 DEF UnusedIsEmpty
  <2>3. BuiltFirst(q)'
    BY <1>1, <1>i, <1>d, <2>1 DEF BuiltFirst
  <2>4. StoredFirst(q)'
    BY <1>1, <1>i, <1>d, <1>e, <2>1 DEF StoredFirst
  <2> QED
    BY <2>2, <2>3, <2>4
<1>2. CASE GetSink \/ (\E k \in Ports : CollectGarbage(k)) \/ UNCHANGED setupVars
  BY <1>1, <1>2 DEF GetSink, CollectGarbage, setupVars, buildVars, MInv
<1>3. ASSUME NEW p \in Callers, CreateSink(p) PROVE MInv'
  <2>1. /\ pc[p] = "idle" /\ UNCHANGED <<todo, host, streamHost, read, medias>>
        /\ pc' = [pc EXCEPT ![p] = IF Exists(p) THEN "failed" ELSE "options"]
        /\ left' = [left EXCEPT ![p] = call[p].options]
    BY <1>3 DEF CreateSink, Moves
  <2>2. \A q \in Callers \ {p} : pc'[q] = pc[q] /\ left'[q] = left[q]
    BY <1>t, <2>1
  <2>3. pc'[p] \in {"failed", "options"} /\ streamHost[p].kind # "rtsp"
    BY <1>t, <2>1 DEF PInv, PortsApart, NoHost
  <2>4. UnusedIsEmpty(p)'
    BY <1>i, <1>d, <2>1 DEF UnusedIsEmpty, Begun
  <2>5. BuiltFirst(p)' /\ StoredFirst(p)'
    BY <2>1, <2>3 DEF BuiltFirst, StoredFirst, Building
  <2> QED
    BY <1>1, <2>1, <2>2, <2>4, <2>5 DEF MInv
<1>4. ASSUME NEW p \in Callers, StoreBegins(p) \/ StoreEnds(p) PROVE MInv'
  <2>1. PICK step \in {"storing", "returned"} : pc' = [pc EXCEPT ![p] = step]
    BY <1>4 DEF StoreBegins, StoreEnds, Moves
  <2>2. UNCHANGED <<left, todo, host, streamHost, read, medias>> /\ pc[p] \in {"options", "storing"}
    BY <1>4 DEF StoreBegins, StoreEnds, buildVars
  <2>3. pc'[p] = step /\ \A q \in Callers \ {p} : pc'[q] = pc[q]
    BY <1>t, <2>1
  <2>4. Position(p)' = Position(p) /\ \A i : Begun(p, i)' <=> Begun(p, i)
    BY <1>d, <2>2, <2>3 DEF Position, Begun
  <2>5. UnusedIsEmpty(p)'
    BY <1>i, <1>d, <2>2, <2>4 DEF UnusedIsEmpty
  <2>6. BuiltFirst(p)' /\ StoredFirst(p)'
    BY <1>i, <1>d, <1>e, <2>2, <2>3, <2>4 DEF BuiltFirst, StoredFirst, Building
  <2> QED
    BY <1>1, <2>2, <2>3, <2>5, <2>6 DEF MInv
<1>5. ASSUME NEW p \in Callers, WithBindPort(p) \/ WithField(p) PROVE MInv'
  <2>1. /\ UNCHANGED <<pc, left, streamHost, read, medias>>
        /\ todo' = [todo EXCEPT ![p] = Tail(@)]
        /\ pc[p] = "build" /\ todo[p] # <<>>
        /\ Option(p).op \in {"bind", "bindAny", "proxy", "field"}
    BY <1>5 DEF WithBindPort, WithField, Applied, Applies
  <2>2. \A q \in Callers : host'[q].kind = host[q].kind /\ host'[q].session = host[q].session
    <3>1. CASE WithBindPort(p)
      <4>1. PICK k \in Ports : host' = [host EXCEPT ![p].port = k]
        BY <3>1 DEF WithBindPort
      <4>2. host[p] \in Hosts
        BY <1>t
      <4> QED
        BY <1>t, <4>1, <4>2 DEF Hosts
    <3>2. CASE WithField(p)
      BY <3>2 DEF WithField
    <3> QED
      BY <1>5, <3>1, <3>2
  <2>3. \A q \in Callers \ {p} : todo'[q] = todo[q]
    BY <1>t, <2>1
  <2>4. host[p].kind # "rtsp"
    <3>1. Head(left[p]) \in StreamOption /\ host[p].kind = Head(left[p]).host
          /\ todo[p] \in OptionsOf(host[p].kind)
      BY <2>1, CurrentOption DEF Building, TInv, HostIsOfOption
    <3> QED
      BY <2>1, <3>1, OptionKinds, OptionOps DEF Option
  <2>5. Position(p)' = Position(p) /\ \A i : Begun(p, i)' <=> Begun(p, i)
    BY <1>d, <2>1 DEF Position, Begun
  <2>6. UnusedIsEmpty(p)'
    BY <1>i, <1>d, <2>1, <2>5 DEF UnusedIsEmpty
  <2>7. BuiltFirst(p)' /\ StoredFirst(p)'
    BY <2>1, <2>2, <2>4 DEF BuiltFirst, StoredFirst
  <2> QED
    BY <1>1, <2>1, <2>2, <2>3, <2>6, <2>7 DEF MInv
<1>6. ASSUME NEW p \in Callers, SetupFails(p) PROVE MInv'
  <2>1. /\ UNCHANGED <<left, todo, host, streamHost, read, medias>>
        /\ pc' = [pc EXCEPT ![p] = "failed"] /\ pc[p] = "build"
    BY <1>6 DEF SetupFails, Moves, OptionFails, Applies
  <2>2. pc'[p] = "failed" /\ \A q \in Callers \ {p} : pc'[q] = pc[q]
    BY <1>t, <2>1
  <2>3. Position(p)' = Position(p) /\ \A i : Begun(p, i)' <=> Begun(p, i)
    BY <1>d, <2>1, <2>2 DEF Position, Begun
  <2>4. UnusedIsEmpty(p)'
    BY <1>i, <1>d, <2>1, <2>3 DEF UnusedIsEmpty
  <2>5. BuiltFirst(p)' /\ StoredFirst(p)'
    BY <2>2 DEF BuiltFirst, StoredFirst, Building
  <2> QED
    BY <1>1, <2>1, <2>2, <2>4, <2>5 DEF MInv
<1>7. ASSUME NEW p \in Callers, WithMedia(p) PROVE MInv'
  <2>1. /\ UNCHANGED <<left, todo, host, streamHost, medias>>
        /\ pc' = [pc EXCEPT ![p] = "append"] /\ pc[p] = "build"
        /\ read' = [read EXCEPT ![p] = medias[host[p].session]]
    BY <1>7 DEF WithMedia, Moves, Applies
  <2>2. /\ pc'[p] = "append" /\ read'[p] = medias[host[p].session]
        /\ \A q \in Callers \ {p} : pc'[q] = pc[q] /\ read'[q] = read[q]
    BY <1>t, <2>1
  <2>3. Position(p)' = Position(p) /\ \A i : Begun(p, i)' <=> Begun(p, i)
    BY <1>d, <2>1, <2>2 DEF Position, Begun
  <2>4. UnusedIsEmpty(p)'
    BY <1>i, <1>d, <2>1, <2>3 DEF UnusedIsEmpty
  <2>5. BuiltFirst(p)' /\ StoredFirst(p)'
    BY <1>i, <1>d, <2>1, <2>2 DEF BuiltFirst, StoredFirst, Building
  <2> QED
    BY <1>1, <2>1, <2>2, <2>4, <2>5 DEF MInv
<1>8. ASSUME NEW p \in Callers, HostBegins(p) PROVE MInv'
  <2> DEFINE o == Head(left[p])
             session == IF o.host = "rtsp" THEN SessionOf(p) ELSE None
  <2>1. /\ UNCHANGED <<left, streamHost, read>> /\ pc[p] = "options" /\ left[p] # <<>>
        /\ pc' = [pc EXCEPT ![p] = "build"]
        /\ host' = [host EXCEPT ![p] = [kind |-> o.host, port |-> None, session |-> session]]
        /\ todo' = [todo EXCEPT ![p] = o.options]
        /\ medias' = IF session = p THEN [medias EXCEPT ![p] = <<>>] ELSE medias
    BY <1>8 DEF HostBegins, Moves
  <2> HIDE DEF o, session
  <2>2. /\ pc'[p] = "build" /\ host'[p].kind = o.host /\ host'[p].session = session
        /\ todo'[p] = o.options
        /\ \A q \in Callers \ {p} : pc'[q] = pc[q] /\ host'[q] = host[q] /\ todo'[q] = todo[q]
    BY <1>t, <2>1
  <2>3. /\ \A d \in Descriptions : d # p => medias'[d] = medias[d]
        /\ session = p => medias'[p] = <<>>
    BY <1>t, <2>1 DEF Descriptions
  <2>4. /\ Position(p) \in DOMAIN Options(p) /\ Options(p)[Position(p)] = o
        /\ o \in StreamOption
    BY <2>1, CurrentOption DEF o
  <2>5. /\ o.host = "rtsp" => session = SessionAt(p, Position(p))
        /\ session \in Descriptions \cup {None}
    BY <2>1, <2>4, OptionKinds DEF session, SessionOf, SessionAt, Descriptions, o
  <2>6. \A q \in Callers : Position(q)' = Position(q)
    BY <1>d, <2>1 DEF Position
  <2>7. ASSUME NEW q \in Callers PROVE UnusedIsEmpty(q)'
    <3>1. \A i : Begun(q, i) => Begun(q, i)'
      BY <2>1, <2>2, <2>6 DEF Begun
    <3>2. \A d \in Sessions : medias'[d] = medias[d]
      BY <2>3, SetupAssumption DEF Descriptions
    <3> QED
      BY <1>i, <1>d, <3>1, <3>2 DEF UnusedIsEmpty
  <2>8. BuiltFirst(p)'
    <3> SUFFICES ASSUME o.host = "rtsp", Exclusive(p, session)
                 PROVE  medias'[session] = <<>>
      BY <1>d, <2>1, <2>2 DEF BuiltFirst, Building, o
    <3>1. CASE session = p
      BY <2>3, <3>1
    <3>2. CASE session # p
      <4>1. session \in Sessions /\ ~Filled(session) /\ UsedOnce(session) /\ o.session = session
        BY <2>4, <2>5, <3>2 DEF Exclusive, SessionAt
      <4>2. ~Begun(p, Position(p))
        BY <2>1, CurrentOption DEF Begun
      <4>3. medias[session] = <<>>
        BY <1>i, <2>4, <4>1, <4>2 DEF UnusedIsEmpty
      <4> QED
        BY <2>3, <3>2, <4>1, <4>3 DEF Descriptions
    <3> QED
      BY <3>1, <3>2
  <2>9. StoredFirst(p)'
    BY <2>2 DEF StoredFirst
  <2>10. ASSUME NEW q \in Callers \ {p} PROVE BuiltFirst(q)' /\ StoredFirst(q)'
    <3>1. ASSUME NEW d \in Descriptions, Exclusive(q, d) PROVE medias'[d] = medias[d]
      BY <2>3, <3>1, SetupAssumption DEF Exclusive
    <3>2. BuiltFirst(q)'
      <4>1. Building(q) /\ host[q].kind = "rtsp" => host[q].session \in Descriptions
        BY BuiltFor
      <4> QED
        BY <1>i, <1>d, <2>1, <2>2, <3>1, <4>1 DEF BuiltFirst, Building
    <3>3. StoredFirst(q)'
      <4>1. \A i \in DOMAIN Options(q) : SessionAt(q, i) \in Descriptions
        BY OptionsTyped DEF SessionAt, Descriptions
      <4> QED
        BY <1>i, <1>d, <1>e, <2>1, <2>2, <2>6, <3>1, <4>1, OptionsTyped DEF StoredFirst
    <3> QED
      BY <3>2, <3>3
  <2> QED
    BY <2>7, <2>8, <2>9, <2>10 DEF MInv
<1>9. ASSUME NEW p \in Callers, HostEnds(p) PROVE MInv'
  <2>1. /\ UNCHANGED <<todo, host, read, medias>> /\ pc[p] = "build" /\ todo[p] = <<>>
        /\ host[p].kind = "rtsp" => medias[host[p].session] # <<>>
        /\ pc' = [pc EXCEPT ![p] = "options"] /\ left' = [left EXCEPT ![p] = Tail(@)]
        /\ streamHost' = [streamHost EXCEPT ![p] = host[p]]
    BY <1>9 DEF HostEnds, Moves
  <2>2. /\ pc'[p] = "options" /\ left'[p] = Tail(left[p]) /\ streamHost'[p] = host[p]
        /\ \A q \in Callers \ {p} :
             pc'[q] = pc[q] /\ left'[q] = left[q] /\ streamHost'[q] = streamHost[q]
    BY <1>t, <2>1
  <2>3. /\ Position(p) \in 1..Len(Options(p)) /\ DOMAIN Options(p) = 1..Len(Options(p))
        /\ Options(p)[Position(p)] = Head(left[p])
        /\ left[p] # <<>> /\ left[p] \in Seq(StreamOption)
        /\ Len(left[p]) \in Nat /\ Len(Options(p)) \in Nat
    BY <2>1, CurrentOption DEF Building
  <2>4. Position(p)' = Position(p) + 1
    <3>1. Len(left'[p]) = Len(left[p]) - 1
      BY <2>2, <2>3, HeadTailProperties
    <3> QED
      BY <1>d, <2>3, <3>1 DEF Position
  <2>5. UnusedIsEmpty(p)'
    <3>1. ASSUME NEW i \in DOMAIN Options(p), Begun(p, i) PROVE Begun(p, i)'
      BY <2>1, <2>2, <2>3, <2>4, <3>1 DEF Begun
    <3> QED
      BY <1>i, <1>d, <2>1, <3>1 DEF UnusedIsEmpty
  <2>6. BuiltFirst(p)'
    BY <2>2 DEF BuiltFirst, Building
  <2>7. StoredFirst(p)'
    <3> SUFFICES ASSUME host[p].kind = "rtsp"
                 PROVE  /\ host[p].session = SessionAt(p, Position(p))
                        /\ Exclusive(p, host[p].session) =>
                             FirstIs(medias[host[p].session], Head(Options(p)[Position(p)].options))
      <4>1. Position(p)' - 1 = Position(p)
        BY <2>3, <2>4
      <4> QED
        BY <1>d, <1>e, <2>1, <2>2, <2>3, <4>1 DEF StoredFirst
    <3>1. host[p].session = SessionAt(p, Position(p))
      BY <2>1, BuiltFor DEF Building
    <3>2. ASSUME Exclusive(p, host[p].session)
          PROVE  FirstIs(medias[host[p].session], Head(Head(left[p]).options))
      BY <1>i, <2>1, <3>2 DEF BuiltFirst, Building
    <3> QED
      BY <2>3, <3>1, <3>2
  <2> QED
    BY <1>1, <2>1, <2>2, <2>5, <2>6, <2>7 DEF MInv
<1>10. ASSUME NEW p \in Callers, AppendRTSPMediaDescription(p) PROVE MInv'
  <2> DEFINE o == Option(p)
             d == host[p].session
             format == [codec |-> CodecOf(o), payload |-> PayloadType(CodecOf(o))]
  <2>1. /\ UNCHANGED <<left, host, streamHost>> /\ pc[p] = "append"
        /\ pc' = [pc EXCEPT ![p] = "build"]
        /\ medias' = [medias EXCEPT ![d] = Append(read[p], format)]
        /\ read' = [read EXCEPT ![p] = <<>>] /\ todo' = [todo EXCEPT ![p] = Tail(@)]
    BY <1>10 DEF AppendRTSPMediaDescription, Moves, Applied
  <2>2. /\ host[p].kind = "rtsp" /\ Building(p) /\ todo[p] # <<>> /\ todo[p] \in Seq(RtspOption)
        /\ o.op = "track" => Accepts(o.remote)
    BY <2>1 DEF TInv, HostIsOfOption, Building, OptionsOf
  <2>3. o \in RtspOption /\ o = Head(todo[p])
    BY <2>2, HeadTailProperties DEF Option
  <2>4. format \in Formats /\ (o.op = "track" => format.payload = o.remote.payload)
    BY <2>2, <2>3, FormatOfOption
  <2>5. /\ d = SessionAt(p, Position(p)) /\ d \in Descriptions
        /\ Position(p) \in DOMAIN Options(p) /\ Options(p)[Position(p)] = Head(left[p])
    BY <2>2, BuiltFor, CurrentOption
  <2> DEFINE new == Append(read[p], format)
  <2>6. read[p] \in Seq(Formats) /\ new \in Seq(Formats) /\ new # <<>>
        /\ new[1] = IF read[p] = <<>> THEN format ELSE read[p][1]
    <3>1. read[p] \in Seq(Formats)
      BY <1>t
    <3>2. /\ new \in Seq(Formats) /\ new # <<>>
          /\ \A i \in 1..Len(read[p]) : new[i] = read[p][i]
          /\ new[Len(read[p]) + 1] = format
      BY <2>4, <3>1, AppendProperties
    <3>3. Len(read[p]) \in Nat /\ (read[p] # <<>> => Len(read[p]) # 0)
      BY <3>1, EmptySeq
    <3>4. read[p] = <<>> => Len(read[p]) = 0
      BY EmptySeq
    <3> HIDE DEF format, new
    <3> QED
      BY <3>1, <3>2, <3>3, <3>4
  <2>7. /\ pc'[p] = "build" /\ medias'[d] = new
        /\ \A c \in Descriptions \ {d} : medias'[c] = medias[c]
        /\ \A q \in Callers \ {p} : pc'[q] = pc[q] /\ read'[q] = read[q] /\ todo'[q] = todo[q]
    BY <1>t, <2>1, <2>5
  <2>8. \A q \in Callers : /\ Position(q)' = Position(q) /\ (Building(q)' <=> Building(q))
                           /\ \A i : Begun(q, i)' <=> Begun(q, i)
    BY <1>d, <2>1, <2>7 DEF Position, Building, Begun
  <2>9. FirstIs(new, Head(Head(left[p]).options)) \/ ~Exclusive(p, d)
    <3> SUFFICES ASSUME Exclusive(p, d) PROVE FirstIs(new, Head(Head(left[p]).options))
      OBVIOUS
    <3>1. /\ read[p] = medias[d]
          /\ \/ medias[d] = <<>> /\ todo[p] = Head(left[p]).options
             \/ FirstIs(medias[d], Head(Head(left[p]).options))
      BY <1>i, <2>1, <2>2 DEF BuiltFirst
    <3> HIDE DEF new
    <3>2. CASE medias[d] = <<>> /\ todo[p] = Head(left[p]).options
      <4>1. new[1] = format /\ o = Head(Head(left[p]).options)
        BY <2>3, <2>6, <3>1, <3>2
      <4>2. format.codec = CodecOf(o)
        OBVIOUS
      <4> HIDE DEF format, o
      <4> QED
        BY <2>4, <2>6, <4>1, <4>2 DEF FirstIs
    <3>3. CASE FirstIs(medias[d], Head(Head(left[p]).options))
      BY <2>6, <3>1, <3>3 DEF FirstIs
    <3> QED
      BY <3>1, <3>2, <3>3
  <2> HIDE DEF o, d, format, new
  <2>10. ASSUME NEW q \in Callers PROVE UnusedIsEmpty(q)'
    <3> SUFFICES ASSUME NEW c \in Sessions, NEW i \in DOMAIN Options(q),
                        ~Filled(c), UsedOnce(c), Options(q)[i].session = c, ~Begun(q, i)
                 PROVE  medias'[c] = <<>>
      <4>1. \A i : Begun(q, i)' <=> Begun(q, i)
        BY <2>8
      <4> QED
        BY <1>d, <4>1 DEF UnusedIsEmpty, Filled
    <3>1. medias[c] = <<>>
      BY <1>i DEF UnusedIsEmpty
    <3>2. c # d
      <4> SUFFICES ASSUME c = d PROVE FALSE
        OBVIOUS
      <4>1. Options(p)[Position(p)].session = c
        BY <2>5, SetupAssumption DEF SessionAt
      <4>2. <<p, Position(p)>> \in Uses(c) /\ <<q, i>> \in Uses(c)
        BY <2>5, <4>1, UsesMember
      <4>3. p = q /\ Position(p) = i
        BY <4>2 DEF UsedOnce
      <4> QED
        BY <2>1, <4>3 DEF Begun
    <3> QED
      BY <2>7, <3>1, <3>2 DEF Descriptions
  <2>11. BuiltFirst(p)'
    BY <1>d, <2>1, <2>7, <2>9 DEF BuiltFirst, d
  <2>12. StoredFirst(p)'
    BY <2>7 DEF StoredFirst
  <2>13. ASSUME NEW q \in Callers \ {p} PROVE BuiltFirst(q)' /\ StoredFirst(q)'
    <3>1. ASSUME NEW j \in DOMAIN Options(q), Exclusive(q, SessionAt(q, j))
          PROVE  medias'[SessionAt(q, j)] = medias[SessionAt(q, j)]
      <4>1. /\ SessionAt(q, j) \in Descriptions
            /\ Options(p)[Position(p)].session \in Sessions \cup {None}
            /\ Options(q)[j].session \in Sessions \cup {None}
        BY <2>5, OptionsTyped DEF SessionAt, Descriptions
      <4>2. SessionAt(p, Position(p)) # SessionAt(q, j)
        BY <2>5, <3>1, <4>1, OthersElsewhere
      <4> QED
        BY <2>5, <2>7, <4>1, <4>2
    <3>2. BuiltFirst(q)'
      <4>1. Building(q) /\ host[q].kind = "rtsp" =>
              Position(q) \in DOMAIN Options(q) /\ host[q].session = SessionAt(q, Position(q))
        BY BuiltFor, CurrentOption
      <4>2. Building(q) /\ host[q].kind = "rtsp" /\ Exclusive(q, host[q].session) =>
              medias'[host[q].session] = medias[host[q].session]
        BY <3>1, <4>1
      <4>3. /\ left' = left /\ host' = host /\ (Building(q)' <=> Building(q))
            /\ pc'[q] = pc[q] /\ read'[q] = read[q] /\ todo'[q] = todo[q]
        BY <2>1, <2>7, <2>8
      <4> QED
        BY <1>i, <1>d, <4>2, <4>3 DEF BuiltFirst
    <3>3. StoredFirst(q)'
      BY <1>i, <1>d, <1>e, <2>1, <2>7, <2>8, <3>1, OptionsTyped DEF StoredFirst
    <3> QED
      BY <3>2, <3>3
  <2> QED
    BY <2>10, <2>11, <2>12, <2>13 DEF MInv
<1> QED
  BY <1>2, <1>3, <1>4, <1>5, <1>6, <1>7, <1>8, <1>9, <1>10 DEF SetupNext

\* A description that was passed with media starts with them: an append
\* adds to what it has read, and that started so.
LEMMA GInductive ==
  /\ SetupInit => GInv
  /\ TInv /\ GInv /\ [SetupNext]_setupVars => GInv'
<1>1. SetupInit => GInv
  BY DEF SetupInit, GInv, StartsAsGiven, Filled, Descriptions
<1>2. TInv /\ GInv /\ [SetupNext]_setupVars => GInv'
  <2> SUFFICES ASSUME TInv, GInv, [SetupNext]_setupVars PROVE GInv'
    OBVIOUS
  <2>t. /\ pc \in [Callers -> SetupSteps] /\ host \in [Callers -> Hosts]
        /\ read \in [Callers -> Seq(Formats)] /\ medias \in [Descriptions -> Seq(Formats)]
    BY DEF TInv, SetupTypeOK
  <2>1. ASSUME NEW p \in Callers, HostBegins(p) PROVE GInv'
    <3>1. /\ UNCHANGED read
          /\ pc' = [pc EXCEPT ![p] = "build"]
          /\ \A q \in Callers \ {p} : host'[q] = host[q]
          /\ \A d \in Descriptions \ {p} : medias'[d] = medias[d]
      BY <2>t, <2>1 DEF HostBegins, Moves
    <3>2. pc'[p] = "build" /\ \A q \in Callers \ {p} : pc'[q] = pc[q]
      BY <2>t, <3>1
    <3> QED
      BY <3>1, <3>2, SetupAssumption DEF GInv, StartsAsGiven, Filled, Descriptions
  <2>2. ASSUME NEW p \in Callers, WithMedia(p) PROVE GInv'
    <3>1. /\ UNCHANGED <<host, medias>>
          /\ pc' = [pc EXCEPT ![p] = "append"]
          /\ read' = [read EXCEPT ![p] = medias[host[p].session]]
      BY <2>2 DEF WithMedia, Moves
    <3>2. /\ pc'[p] = "append" /\ \A q \in Callers \ {p} : pc'[q] = pc[q] /\ read'[q] = read[q]
          /\ read'[p] = medias[host[p].session]
      BY <2>t, <3>1
    <3> QED
      BY <3>1, <3>2 DEF GInv, StartsAsGiven, Filled
  <2>3. ASSUME NEW p \in Callers, AppendRTSPMediaDescription(p) PROVE GInv'
    <3> DEFINE format == [codec |-> CodecOf(Option(p)), payload |-> PayloadType(CodecOf(Option(p)))]
               new == Append(read[p], format)
    <3>1. /\ UNCHANGED host /\ pc[p] = "append"
          /\ pc' = [pc EXCEPT ![p] = "build"]
          /\ medias' = [medias EXCEPT ![host[p].session] = new]
          /\ read' = [read EXCEPT ![p] = <<>>]
      BY <2>3 DEF AppendRTSPMediaDescription, Moves
    <3>2. /\ pc'[p] = "build" /\ \A q \in Callers \ {p} : pc'[q] = pc[q] /\ read'[q] = read[q]
      BY <2>t, <3>1
    <3>3. read[p] # <<>> => new # <<>> /\ new[1] = read[p][1]
      <4>1. read[p] \in Seq(Formats) /\ format \in {format}
        BY <2>t
      <4>2. read[p] \in Seq(Formats \cup {format})
        BY <4>1
      <4> HIDE DEF format
      <4> QED
        BY <4>2, EmptySeq, AppendProperties
    <3> HIDE DEF new
    <3>4. ASSUME NEW d \in Sessions, Filled(d) PROVE StartsAsGiven(medias'[d], d)
      <4>1. CASE host[p].session = d
        BY <2>t, <3>1, <3>3, <3>4, <4>1 DEF GInv, StartsAsGiven, Descriptions
      <4>2. CASE host[p].session # d
        BY <2>t, <3>1, <3>4, <4>2 DEF GInv, Descriptions
      <4> QED
        BY <4>1, <4>2
    <3> QED
      BY <3>1, <3>2, <3>4 DEF GInv, StartsAsGiven, Filled
  <2>4. ASSUME NEW p \in Callers, WithBindPort(p) PROVE GInv'
    <3>1. UNCHANGED <<pc, read, medias>> /\ \E k \in Ports : host' = [host EXCEPT ![p].port = k]
      BY <2>4 DEF WithBindPort
    <3>2. \A q \in Callers : host'[q].session = host[q].session
      BY <2>t, <3>1 DEF Hosts
    <3> QED
      BY <3>1, <3>2 DEF GInv, StartsAsGiven, Filled
  <2>5. CASE UNCHANGED <<host, read, medias>> /\ \A p \in Callers : pc'[p] = "append" => pc[p] = "append"
    BY <2>5 DEF GInv, StartsAsGiven, Filled
  <2>6. ASSUME NEW p \in Callers,
               \/ CreateSink(p) \/ StoreBegins(p) \/ StoreEnds(p)
               \/ HostEnds(p) \/ SetupFails(p) \/ WithField(p)
        PROVE  GInv'
    <3>1. UNCHANGED <<host, read, medias>>
      BY <2>6 DEF CreateSink, StoreBegins, StoreEnds, HostEnds, SetupFails, WithField, buildVars
    <3>2. \A q \in Callers : pc'[q] = "append" => pc[q] = "append"
      BY <2>t, <2>6 DEF CreateSink, StoreBegins, StoreEnds, HostEnds, SetupFails, WithField, Moves
    <3> QED
      BY <2>5, <3>1, <3>2
  <2> QED
    BY <2>1, <2>2, <2>3, <2>4, <2>5, <2>6
       DEF SetupNext, GetSink, CollectGarbage, setupVars, buildVars
<1> QED
  BY <1>1, <1>2

\* Every packet of a host that CreateSink stored gets the payload type of the
\* description's own first medium, if the application passed it with media,
\* however often; else of the first format the host's options named, and of
\* its track, unless the application passed the description twice.  For any
\* descriptions, options and number of calls.
THEOREM PayloadTypes == SetupSpec => []PayloadTypeKept
<1>1. TInv /\ MInv /\ GInv => PayloadTypeKept
  <2> SUFFICES ASSUME TInv, MInv, GInv, NEW p \in Callers, pc[p] = "returned",
                      streamHost[p].kind = "rtsp"
               PROVE  LET session == streamHost[p].session
                      IN  /\ Filled(session) => StartsAsGiven(medias[session], session)
                          /\ ~Filled(session) =>
                               \/ session \in Sessions /\ ~UsedOnce(session)
                               \/ FirstIs(medias[session], Head(Options(p)[Len(Options(p))].options))
    BY DEF PayloadTypeKept, Options, StartsAsGiven
  <2>1. left[p] = <<>> /\ StoredFirst(p) /\ Len(Options(p)) \in Nat
    BY OptionsTyped DEF TInv, SetupTypeOK, MInv
  <2>2. Position(p) - 1 = Len(Options(p))
    BY <2>1 DEF Position
  <2>3. ASSUME ~Filled(streamHost[p].session),
               streamHost[p].session \in Sessions => UsedOnce(streamHost[p].session)
        PROVE  Exclusive(p, streamHost[p].session)
    BY <2>1, <2>2, <2>3, OptionsTyped DEF StoredFirst, SessionAt, Exclusive
  <2>4. Filled(streamHost[p].session) => StartsAsGiven(medias[streamHost[p].session], streamHost[p].session)
    BY DEF GInv, Filled
  <2> QED
    BY <2>1, <2>2, <2>3, <2>4 DEF StoredFirst
<1>2. SetupSpec => []MInv
  BY TInvariance, PInit, PNext, MInit, MNext, PTL DEF SetupSpec
<1>3. SetupSpec => []GInv
  BY TInvariance, GInductive, PTL DEF SetupSpec
<1> QED
  BY TInvariance, <1>1, <1>2, <1>3, PTL

-----------------------------------------------------------------------------
(* The RTSP host, once it is built: RtspHost. *)

\* The types hold initially, and Connect has not returned yet.
LEMMA InitInv == Init => TypeOK /\ ReturnedNotRecording
<1>1. Init => TypeOK
  <2> SUFFICES ASSUME Init PROVE TypeOK
    OBVIOUS
  <2>1. reconnect \in 0..ReconnectCapacity
    BY DEF Init, ReconnectCapacity
  <2>2. delay \in Nat /\ delay = ReconnectDelay
    BY HostAssumption DEF Init
  <2>3. cancelled \in BOOLEAN
    BY DEF Init
  <2>4. writer \in [Writers -> WriterSteps]
    BY DEF Init, WriterSteps
  <2> QED
    BY <2>1, <2>2, <2>3, <2>4 DEF Init, TypeOK, HostStates, ClientStates, ManagerSteps,
       CloserSteps
<1>2. Init => ReturnedNotRecording
  BY DEF Init, ReturnedNotRecording
<1> QED
  BY <1>1, <1>2

\* Every step keeps the types and leaves a host whose Connect has returned
\* disconnected or failed.
LEMMA NextInv ==
  TypeOK /\ ReturnedNotRecording /\ [Next]_vars => TypeOK' /\ ReturnedNotRecording'
<1> SUFFICES ASSUME TypeOK, ReturnedNotRecording, [Next]_vars
             PROVE  TypeOK' /\ ReturnedNotRecording'
  OBVIOUS
<1> USE HostAssumption DEF TypeOK, ReturnedNotRecording, HostStates, ClientStates,
                           ManagerSteps, WriterSteps, CloserSteps, others, managerVars
<1>1. CASE Connect \/ CallerCancels \/ ConnectionBreaks
  BY <1>1 DEF Connect, CallerCancels, ConnectionBreaks
<1>2. CASE CheckContext \/ MonitorConnection \/ AfterMonitor
  BY <1>2 DEF CheckContext, MonitorConnection, AfterMonitor, ManagerReturns
<1>3. CASE AttemptConnection \/ StartRecordingBegins
  BY <1>3 DEF AttemptConnection, StartRecordingBegins
<1>4. CASE StartRecordingSucceeds \/ StartRecordingFails \/ MarkRecording
  BY <1>4 DEF StartRecordingSucceeds, StartRecordingFails, MarkRecording
<1>5. CASE ConfirmRecording \/ AttemptFailed
  BY <1>5 DEF ConfirmRecording, AttemptFailed
<1>6. CASE RetryDelay
  <2>1. Backoff(delay) \in Nat /\ Backoff(delay) <= MaxDelay
    BY DEF Backoff
  <2> QED
    BY <1>6, <2>1 DEF RetryDelay, ManagerReturns
<1>7. ASSUME NEW w \in Writers, WriterStep(w)
      PROVE  TypeOK' /\ ReturnedNotRecording'
  BY <1>7 DEF WriterStep, WriteAllowed, WritePacket, WriteFails, TriggerReconnect,
     ReconnectCapacity
<1>8. CASE CloserStep
  BY <1>8 DEF CloserStep, CloseCancels, CloseClient, CloseReturns
<1>9. CASE UNCHANGED vars
  BY <1>9 DEF vars
<1> QED
  BY <1>1, <1>2, <1>3, <1>4, <1>5, <1>6, <1>7, <1>8, <1>9 DEF Next, ManagerStep

\* The types, and the bound on the backoff, hold in every reachable state.
THEOREM TypeCorrect == Spec => []TypeOK
  BY InitInv, NextInv, PTL DEF Spec

\* However Connect, Close and failing writes interleave, a host whose Connect
\* has returned does not claim to be recording.
THEOREM ReturnedHostRefuses == Spec => []ReturnedNotRecording
  BY InitInv, NextInv, PTL DEF Spec

\* Once an attempt has begun the pointer names a client for good, so the
\* monitor never finds it nil; and the monitor is left for that or for a
\* cancelled context.
ClientStays ==
  manager \in ManagerSteps \ {"idle", "check", "attempt", "returned"} => client # "nil"
LostIsCancelled == manager = "lost" => cancelled

\* The client pointer and the reason to leave the monitor hold in every state.
LEMMA ClientInv ==
  Spec => [](ClientStays /\ LostIsCancelled)
<1> DEFINE CInv == ClientStays /\ LostIsCancelled
<1>1. Init => CInv
  BY DEF Init, ClientStays, LostIsCancelled
<1>2. TypeOK /\ CInv /\ [Next]_vars => CInv'
  <2> SUFFICES ASSUME TypeOK, CInv, [Next]_vars PROVE CInv'
    OBVIOUS
  <2> USE DEF ClientStays, LostIsCancelled, ManagerSteps, others, managerVars
  <2>1. CASE Connect \/ CallerCancels \/ ConnectionBreaks
    BY <2>1 DEF Connect, CallerCancels, ConnectionBreaks
  <2>2. CASE CheckContext \/ AttemptConnection \/ AfterMonitor \/ RetryDelay
    BY <2>2 DEF CheckContext, AttemptConnection, AfterMonitor, RetryDelay, ManagerReturns
  <2>3. CASE MonitorConnection
    BY <2>3 DEF MonitorConnection, MonitorEnds
  <2>4. CASE StartRecordingBegins \/ StartRecordingSucceeds \/ StartRecordingFails
             \/ MarkRecording
    BY <2>4 DEF StartRecordingBegins, StartRecordingSucceeds, StartRecordingFails,
       MarkRecording
  <2>5. CASE ConfirmRecording \/ AttemptFailed
    BY <2>5 DEF ConfirmRecording, AttemptFailed
  <2>6. ASSUME NEW w \in Writers, WriterStep(w) PROVE CInv'
    BY <2>6 DEF WriterStep, WriteAllowed, WritePacket, WriteFails, TriggerReconnect
  <2>7. CASE CloserStep
    BY <2>7 DEF CloserStep, CloseCancels, CloseClient, CloseReturns
  <2>8. CASE UNCHANGED vars
    BY <2>8 DEF vars
  <2> QED
    BY <2>1, <2>2, <2>3, <2>4, <2>5, <2>6, <2>7, <2>8 DEF Next, ManagerStep
<1> QED
  BY <1>1, <1>2, TypeCorrect, PTL DEF Spec

\* The manager has handed its client to the monitor.
HandedOver == manager \in {"monitor", "lost", "returned"}

\* From then on it never attempts another connection, whatever breaks and
\* whoever asks: it monitors, and returns when it is cancelled.  And a request
\* to reconnect, once made, stays in the channel for ever.
THEOREM NeverReconnects ==
  Spec => /\ [](HandedOver => []HandedOver)
          /\ [](reconnect > 0 => [](reconnect > 0))
<1>1. TypeOK /\ ClientStays /\ LostIsCancelled /\ [Next]_vars =>
        /\ HandedOver => HandedOver'
        /\ reconnect > 0 => (reconnect > 0)'
  <2> SUFFICES ASSUME TypeOK, ClientStays, LostIsCancelled, [Next]_vars
               PROVE  /\ HandedOver => HandedOver'
                      /\ reconnect > 0 => (reconnect > 0)'
    OBVIOUS
  <2> USE DEF HandedOver, ClientStays, LostIsCancelled, ManagerSteps, others, managerVars
  <2>1. reconnect \in Nat
    BY DEF TypeOK, ReconnectCapacity
  <2>2. CASE Connect \/ CallerCancels \/ ConnectionBreaks
    BY <2>2 DEF Connect, CallerCancels, ConnectionBreaks
  <2>3. CASE ManagerStep
    BY <2>3
    DEF ManagerStep, CheckContext, AttemptConnection, StartRecordingBegins, StartRecordingSucceeds,
        StartRecordingFails, MarkRecording, ConfirmRecording, AttemptFailed, RetryDelay,
        MonitorConnection, AfterMonitor, ManagerReturns
  <2>4. ASSUME NEW w \in Writers, WriterStep(w)
        PROVE  manager' = manager /\ (reconnect > 0 => reconnect' > 0)
    BY <2>1, <2>4
    DEF WriterStep, WriteAllowed, WritePacket, WriteFails, TriggerReconnect, ReconnectCapacity
  <2>5. CASE CloserStep
    BY <2>5 DEF CloserStep, CloseCancels, CloseClient, CloseReturns
  <2>6. CASE UNCHANGED vars
    BY <2>6 DEF vars
  <2> QED
    BY <2>2, <2>3, <2>4, <2>5, <2>6 DEF Next
<1> QED
  BY <1>1, TypeCorrect, ClientInv, PTL DEF Spec

\* Nothing of the connection is left.
Shut == HandedOver /\ client \in {"nil", "closed"}

\* A Close that finds the manager past its attempts is final: once the client
\* is closed, none is opened again - unless the last attempt failed before it
\* started its client, and closing that panics.  (One that overlaps an attempt
\* closes the old client, and the attempt goes on to record with a new one.)
THEOREM CloseIsFinal ==
  Spec => /\ [](Shut => []Shut)
          /\ [][HandedOver /\ CloseClient => Shut' \/ ~ ProcessRuns']_vars
<1>1. TypeOK /\ LostIsCancelled /\ [Next]_vars =>
        /\ Shut => Shut'
        /\ HandedOver /\ CloseClient => Shut' \/ ~ ProcessRuns'
  <2> SUFFICES ASSUME TypeOK, LostIsCancelled, [Next]_vars
               PROVE  /\ Shut => Shut'
                      /\ HandedOver /\ CloseClient => Shut' \/ ~ ProcessRuns'
    OBVIOUS
  <2> USE DEF Shut, HandedOver, LostIsCancelled, ProcessRuns, others, managerVars
  <2>1. HandedOver /\ CloseClient => Shut' \/ ~ ProcessRuns'
    BY DEF CloseClient, TypeOK, ClientStates
  <2>2. CASE Connect \/ CallerCancels \/ ConnectionBreaks
    BY <2>1, <2>2 DEF Connect, CallerCancels, ConnectionBreaks
  <2>3. CASE ManagerStep
    BY <2>1, <2>3
    DEF ManagerStep, CheckContext, AttemptConnection, StartRecordingBegins, StartRecordingSucceeds,
        StartRecordingFails, MarkRecording, ConfirmRecording, AttemptFailed, RetryDelay,
        MonitorConnection, MonitorEnds, AfterMonitor, ManagerReturns
  <2>4. ASSUME NEW w \in Writers, WriterStep(w)
        PROVE  manager' = manager /\ client' = client
    BY <2>4 DEF WriterStep, WriteAllowed, WritePacket, WriteFails, TriggerReconnect
  <2>5. CASE CloserStep
    BY <2>1, <2>5 DEF CloserStep, CloseCancels, CloseClient, CloseReturns
  <2>6. CASE UNCHANGED vars
    BY <2>1, <2>6 DEF vars
  <2> QED
    BY <2>1, <2>2, <2>3, <2>4, <2>5, <2>6 DEF Next
<1> QED
  BY <1>1, TypeCorrect, ClientInv, PTL DEF Spec
=============================================================================
