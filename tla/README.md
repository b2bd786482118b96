# mediasink in TLA+

mediasink takes RTP packets from WebRTC tracks and hands them to *hosts*: an RTSP
client that records to a server, a WebSocket client, a UDP loopback bridge, a WebRTC
host for browsers. It brings its own RTSP server and WebSocket server for the other
end. The parts are small Go types full of goroutines, mutexes, contexts, retries and
callbacks, and almost everything that can go wrong in them is a matter of order. This
directory models them, model-checks small instances with TLC and proves the central
invariants with TLAPS for all instances.

## Inventory

| Part (source) | State | Operations | Talks to | Hard behaviour |
|---|---|---|---|---|
| RTSP server, `rtsp/new_server.go` | table path → stream, clients of each stream, mutex, context, two routines | Start, Close, cleanup, OnConnOpen, OnSessionOpen/Close, OnAnnounce, OnSetup, OnPlay, OnRecord | gortsplib, which calls back from one goroutine per session | take-over of a path with the late OnSessionClose of the loser; registration after the mutex is released, with a time read before; cleanup against live sessions, ended by the caller's context; Close that waits for handlers that want the mutex |
| RTSP host, `rtsp/new_host.go` | state, client, reconnect channel, context | Connect (connectionManager), WriteRTP, Close | gortsplib client; called by the pipeline | backoff, failed writes, Close during an attempt, a limit of retries nobody counts |
| Sink and Stream, `sink.go`, `stream.go` | track, buffer of packets, context | SetTrack, Start, the two loops, close | track (ReadRTP), host (WriteRTP) | slow or hung host, full buffer, shutdown with packets on the way |
| Sinks registry and options, `sinks.go`, `stream_options.go`, `rtsp/options.go`, `loopback/options.go` | map of sinks, bound ports, session descriptions | CreateSink, GetSink, the options | builds Stream and host | check-then-act and a map without a lock; ports kept by what an error drops; a description given to two hosts, or with media in it |
| WebSocket server, `socket/server.go` | host slot, client table, metrics object, context | Start, wsHandler for hosts (loopback addresses) and clients, the relay between them, Close | net/http, websocket | counters that are increased and decreased apart, deferred clean-up, objects replaced at Close; two handlers that read one connection at once; a send that fails or waits in the middle of a fan-out |
| WebSocket host, `socket/host.go` | connection, RWMutex, context | Connect, WriteRTP, Write, Close | websocket | a lock held while reading from the network; a write without the lock |
| Loopback bridge, `loopback/host.go` | UDP port, remote, mutex, wait group, context | Connect, Close, Write, two loops | net.UDPConn, callback | waiting with a lock for those who need it; one context field for all loops |
| WebRTC host, `webrtc_js/host.go` | table of sessions, channel per session, connection counter, RWMutex, context | Connect, Close, offers and answers, state callbacks, WriteRTP, parameter-set timers, expiry | pion, net/http | read lock taken twice, channel closed while written to, state callbacks out of order, two closes and the cleanup competing for the sessions |
| Legacy RTSP server, `rtsp/server.go` | one stream, one publisher | callbacks | gortsplib | superseded |
| Packet pool, interfaces, `rtsp/host.go`, `wasm/` | | packets are put in and never taken out; declarations; commented out; empty | | none |

What makes each part correct:

* **RTSP server**: one live publisher per path, whatever replaces it; nothing in the
  table that is closed, nothing open that is not in the table; readers are counted
  exactly; silence is noticed; Close ends and leaves nothing.
* **RTSP host**: Connect ends when it is told to and otherwise goes on trying; a write
  never hangs; the state it shows is not stale; a request to reconnect is acted on.
* **Pipeline**: order, no duplicates, no blocking behind a dead host, a clean end.
* **Registry and options**: who creates a sink finds it; ports belong to hosts that
  exist; an RTSP host stamps packets with the payload type of its first medium, and that
  is the one its description had or else the one of its track.
* **WebSocket server**: whoever is registered is served; a host keeps its slot; the
  limit and the counter it is compared with; what one peer sends arrives in order, once
  and everywhere; Close ends all.
* **WebSocket host, loopback**: nobody's connection or port is taken away in use; Close
  and cancellation end what they should.
* **WebRTC host**: a channel is open exactly while its session is registered, nobody
  sends into a closed one or closes it twice, and Close ends.

`PROJECT.json` lists the hazards one by one at their lines, with the properties that
guard them, and maps every definition to the code it stands for.

## Modules

| Module | What it is |
|---|---|
| `StreamRegistry` | abstract: a path carries one publisher at a time; a publisher that lost its path never gets one again; the RTSP server and the WebRTC host both keep one |
| `RtspServer`, `MCRtspServer` | the RTSP server; an instance with symmetry |
| `RtspServerProofs` | its theorems, among them that it implements `StreamRegistry` |
| `RtspHost`, `MCRtspHost` | the RTSP client host |
| `LossyFifo` | abstract: packets leave in the order they came, at most once, some never |
| `MediaPipeline`, `MediaPipelineProofs` | Sink, Stream and the buffer between them; implements `LossyFifo` |
| `SinkSetup`, `MCSinkSetup` | CreateSink with the options that build its hosts |
| `SinkHostProofs` | the theorems of `SinkSetup`, which builds the RTSP host, and of `RtspHost` |
| `SocketServer`, `MCSocketServer`, `SocketServerProofs` | the WebSocket server: who is registered and counted, Start and Close |
| `SocketRelay`, `SocketRelayProofs` | the messages the WebSocket server relays |
| `SocketHost`, `SocketHostProofs` | the WebSocket host with its readers/writer lock |
| `Loopback`, `LoopbackProofs` | the UDP bridge |
| `WebrtcHost`, `WebrtcHostProofs` | the WebRTC host |

### How a module corresponds to the code

A handler that runs under one critical section is one action; where the code lets a
lock go, waits or calls a library that calls back, the action ends and a program
counter says where the goroutine is. Some examples:

* **RtspServer.** `streams` is the table (`NewServer.streams`), `serverStream`,
  `clients` and `publisherIdle` are the `StreamInfo` that each publisher created.
  A StreamInfo is named by its publisher, as a session announces at most once.
  `session`, `role`, `path`, `setup`, `readerOf` are gortsplib's state of a session,
  external and modelled as the callbacks rely on it: requests of one session follow
  one another, closing a session is asynchronous and ends in OnSessionClose, and
  closing a stream closes its readers. OnSetup is three actions (`SetupFindsStream`,
  `SetupReadsClock`, `SetupRegistersClient`): it lets the mutex go, reads the clock for
  LastActive and registers the client afterwards, while packets, the cleanup and a
  take-over go on. `stamp` is the age of the time it has read; `SetupDelay` bounds how
  many ticks may pass until it is used. Start may find that the gortsplib server does not
  start (`phase` "unserved"); it runs its routines all the same, and the Close that follows
  (`CloseUnserved`) may end the process. Close of a server that listens is `CloseStreams`,
  `ServerCloseBegins`, `ServerCloseReturns` and `CloseReturns`; `HeldByClose` are the
  phases in which it keeps the mutex from step to step: none. `ctxDone` is the context of the
  routines, a child of the one that Start was given, which the caller may cancel while the
  server listens (`CallerCancels`). Time is the age of a publisher or client in ticks,
  capped just above its time-out.
* **RtspHost.** `manager` is the point of `connectionManager`, `writer` and `closer` are
  the goroutines in `WriteRTP` and `Close`; the state, the client pointer and the
  channel are read and written at separate steps as in the code. A write may fail on a
  client that records, too. An attempt stores its client ("created") before StartRecording
  starts it; a Close in between calls gortsplib's Close on a client that was never started,
  which ends the process ("crashed").
* **MediaPipeline.** Packets are numbers in the order the track delivers them. The
  buffer, the packet being pushed and the one being written are state; the buffer is an
  external library, modelled as a bounded queue. `StreamCloses` calls Close of the host and
  `HostClosed` is its return, which need not come.
* **SinkSetup.** `left` and `todo` are the stream options and host options a call has yet
  to apply; each option is a step, and an append to a description is two, so that calls
  interleave between them. Storing in the map takes two steps too: an access in between is
  what Go's map detects, and it ends the process when noticed (`crashed`). A socket nobody
  refers to any more is "garbage" until it is collected. `Given` are the media that the
  application has put into each description it passes.
* **SocketServer.** `handler` is the point of each request in `wsHandler`. `active` has
  one counter for each metrics object that ever was `s.metrics`, modulo 256; `deferred`
  remembers the object that the deferred decrease will use, which is not always the
  current one. A connection is accepted while net/http listens (`ConnectionAccepted`); its
  handler begins at any time after that, also when the server does not listen any more.
* **SocketRelay.** The same handlers, seen from the messages: `source` is the connection
  that a handler reads, which for a host is whatever is in the slot; `audience` are the
  clients its message has yet to be sent to, in any order, as Go walks a map. Connections
  fail, or get stuck because the peer does not read. coder/websocket allows one reader of a
  connection at a time: `ReadBegins` takes the header of a message and `ReadSucceeds` its
  payload, and a Read that begins while another is between the two makes the connection
  `torn`. What is read from it then is no message of the peer (number 0), or it fails.
* **SocketHost.** `reading` and `pending` are the RWMutex: readers, and the one announced
  writer that shuts further readers out. A read section that waits for the network lasts
  over several steps. A writer uses WriteRTP, with the lock, or Write, without.
* **Loopback.** Each Connect adds a read loop and a metrics loop. `connects` says which
  context `l.ctx` is; a loop that looks at it sees the last one, as in the code.
* **WebrtcHost.** Sessions are numbered as they are created, so that a session that has
  left the table can still be referred to by the callbacks and timers that found it. Only
  WriteRTP keeps the lock over several steps; `Announce` is a Lock that finds it there and
  shuts out further readers. Each Connected callback becomes a parameter-set timer
  (`callback`); lost connections, and those that fail before they connect, are callbacks
  that have yet to run (`downs`). ProcessRTPPacket is modelled as WriteRTP calls it.

### External parts

gortsplib, the WebSocket library, pion, net/http, UDP sockets, the channel buffer, contexts,
the garbage collector, Go's maps and sync.RWMutex are not in the repository. They are modelled
from how the code uses them and marked external in the map. Peers may connect, fall silent,
send and hang up at any time.

## Runs

| Run | Question | Bounds |
|---|---|---|
| `rtsp_safety` | Do the table, the open streams, the publishers, the recorders and the counted readers agree in every state, through take-over, reaping and Close? | 3 sessions, 2 paths, MaxClients 1, publishers may be silent for 0 ticks and clients for 1, SetupDelay 1; sessions are symmetric, and a VIEW leaves out what nothing reads any more |
| `rtsp_liveness` | Does the table implement `StreamRegistry`? Does Close end, does a silent publisher lose its path? | 2 sessions, 2 paths, time-outs of 0 ticks, SetupDelay 1 |
| `rtsp_host` | Types with the backoff cap, no host left recording, cancellation, writes that return, endless retries that do not stop | 2 writers, delays 2 to 7, endless retries |
| `rtsp_host_reconnect` | **refuted**: a request to reconnect is acted on | the same |
| `pipeline` | `LossyFifo`, the sink is never stuck, the stream gets to closing its host | buffer of 2, 4 packets |
| `sink_setup` | Do ports belong to hosts, does a caller find its sink, is the payload type that of the description's own medium or of the track? | 2 callers, 2 names, 2 ports, 2 descriptions of the application (one empty, one with a medium), 17 lists of options with every kind of error |
| `socket_server` | Registrations, host slot; does Close end Start and every handler? | 2 loopback and 1 remote request |
| `socket_server_limit` | **refuted**: no more clients than the limit | 2 remote requests, limit 1 |
| `socket_relay` | Is a message relayed once, in order, and to everyone, and when is it torn? | 3 of 2 loopback and 2 remote requests, 2 messages, 1 connection that fails or gets stuck, besides those that are torn |
| `socket_host` | Types with the lock, nobody loses a connection in use, cancellation ends Connect, Close returns unless a silent server holds it up | 2 writers, endless Connects and Closes |
| `loopback` | Ports in use stay, Close returns unless a packet waits | 2 Connects, 2 peers, 2 writers |
| `webrtc_host` | Open channels are those in the table, no broadcast and no close panics, Close returns unless a broadcast is stuck | 1 id, limit 1, 2 sessions, 1 connection that comes up |

Why the bounds suffice: a take-over needs a publisher and its successor, and a reader
to be caught in between, hence three sessions; a second path lets two
streams be open, and two publishers be reaped, at once. A client
time-out that exceeds that of publishers by SetupDelay is the least for which readers stay
counted. In the relay two messages suffice for an order, and for one Read to overtake another. A buffer of two is the least that has a head, a tail and a full
state, and four packets fill it while one is pushed and one written. Two loopback requests
race for the host slot, two remote ones for the limit, which one client exhausts, as it is
counted twice. A third Connect of the loopback adds no relation between an old and a new
context that the second has not. Two callers of CreateSink race for everything that is
shared. Ages saturate above the time-out, so longer silences are the same state. The delays
2, 3, 4, 6, 7 pass through the growth and the cap. The WebRTC host is run with one id, under
which sessions follow one another: callbacks and timers of an old session meet the new one. A
broadcast over several ids is covered by the proofs, which have no bound, and so are more
requests to the WebSocket server than three.

The VIEW of `rtsp_safety` leaves out the ages and clients of streams that are off the table,
and clock readings of set-ups that found one: no guard reads them, no stream returns to the table,
and the invariants, apart from their types, read them for open streams only, which
`TableHoldsOpenStreams` has on the table. (That they keep their types is theorem `TypeCorrect`.)

Deadlock is checked in the RTSP server runs. The other systems may stop: all goroutines
have returned, or the process has ended (`crashed`).

Every property of a passing run has a mutant in `PROJECT.json`: a plausible mistake in
one definition that TLC must catch with it. The operators marked "mutant" in the modules
serve only that.

### What the refuted runs show

* **A failed write does not reconnect** (`rtsp_host_reconnect`). WriteRTP leaves a token in
  the reconnect channel; `connectionMonitor`, which would take it out, is never started.
  The monitor looks only at whether the client pointer is nil, and nothing sets it to nil: a
  host that has recorded never connects again (theorem `NeverReconnects`).
* **The WebSocket limit can be exceeded** (`socket_server_limit`): two requests compare before
  either is counted.

### What the passing runs exclude

Some properties name the case in which the code does not do what one would like, and show
that there is no other.

* `CloseReturnsUnlessWaiting` (WebSocket host): the read lock is held in Read. A Close
  behind a silent server never gets its lock, and as a waiting Lock shuts out readers, every
  later WriteRTP stops, too.
* `CloseReturnsUnlessReceiving` (loopback): Close holds the mutex in `wg.Wait`, and a read
  loop that just received a packet wants the mutex before it can end. Both wait for ever
  (theorem `CloseDeadlock`).
* `CloseReturnsUnlessStuck` (WebRTC host): a broadcast takes the read lock again for each
  session, behind a Lock that waits for its first one. The HTTP handlers, the cleanup and
  Close stop with it, for good (theorem `BroadcastDeadlock`).
* `OnlyParameterSetsPanic` (WebRTC host): sendParameterSets finds a session, lets the lock
  go and sends; the cleanup or Close may have closed its channel.
* `EveryoneGetsIt` (WebSocket server): a client that fails starves the clients after it of
  the message, and one that does not read starves everyone.
* `RelayedOnceInOrder` (WebSocket server): two host handlers that share a connection may
  reorder its messages, and tear them as one Read overtakes the other. What is torn comes
  from a host, and only if another loopback request has come.
* `ReturnedIsFound` (registry): of two overlapping calls with one name, one sink is lost.
* `PayloadTypeKept` (options): an empty description passed to two hosts has the media of both,
  and the first to append decides for both. One that has media when the application
  passes it keeps its own first medium: packets get the payload type of that, whatever the
  options append and the track is.
* `ReadersAreCounted` (RTSP server) holds for `ClientTimeout >= PublisherTimeout + SetupDelay`.
  `DefaultConfig` has equal time-outs. OnSetup reads the clock before it adds the client; if a
  packet arrives in between, the client is older than its publisher, and the cleanup may drop a
  client that goes on reading (TLC finds this with equal time-outs and a SetupDelay of 1).
* `IdlePublisherReaped` (RTSP server) ends with the context given to Start: a caller that cancels
  it without Close leaves a server that listens and no longer reaps.
* `StreamStops` (pipeline) says that the stream gets to closing its host, not that this
  returns: Close of the WebSocket host, the loopback and the WebRTC host may not.
* `NeverGivesUp` (RTSP host) is about endless retries, `ReconnectAttempts < 0`.

### Behaviours that the models contain and no property is about

They are in the state spaces since the code has them. Two of them contradict what the repository
says:

* A positive ReconnectAttempts is no limit. The comment at `new_host.go:159` says "> 0 (limited)" and
  the default is 3 (line 78), but the code only tells 0 apart (line 154); the TODO at line 161 asks
  for the counter. The model takes the guard (`Retries`) from the code.
* The active count of the WebSocket server is not the number of clients, although `server.go:260`
  prints it as "current number of clients" and line 48 calls it `active_connections`. A client is
  counted twice and discounted once; the count is never right again, and with metrics objects
  replaced in between it wraps below zero. Theorem `CounterDrifts` computes it until the first
  replacement.

For the others no text promises otherwise. Two readers that connect before either sets up exceed MaxClients of the RTSP server.
An RTSP Close during an attempt leaves the new client recording (a later one does not, theorem
`CloseIsFinal`), and one that comes between the creation of the client and its start ends the
process, as does a Close of an RTSP server whose start failed early. A second loopback request to
the WebSocket server may empty the slot of the first (`RegisteredAreServed` excludes exactly
that case). The WebSocket host does not retry a failed dial, forgets the connection of a handler
whose context ended between two messages, may read from a connection Close has set to nil, and
Write ends the process when there is none. A loopback read loop may use the port that Close has
set to nil, a loop of the first Connect survives the second, and a sink without a track stops
the process. A request that the WebRTC host has taken before it closes creates a session
afterwards, which nobody closes; a reconnected session gets a second timer; the cleanup
discounts sessions that never connected, and the clients choose their own time to live. A sink
created without options has a nil host.

## Fairness

* Goroutines that can run do run: weak fairness of each loop's own steps.
* `OnSessionClose` of the RTSP server is strongly fair. A session may serve requests for ever
  between the moment it is told to close and the moment it looks; Go's `select` picks among
  ready cases at random, so it does look. The metrics loop of the loopback and the cleanup of
  the WebRTC host are the same case.
* Whoever waits for a lock is strongly fair with respect to it (Connect and Close of the
  WebSocket host, Close and the cleanup of the WebRTC host): sync.RWMutex admits waiting
  readers before the next writer, and its mutex hands over to whoever has waited for a
  millisecond.
* Nothing is assumed of peers, tracks, callers or, in the pipeline, hosts: no fairness of packets,
  messages, dials that succeed, reads by clients or hang-ups, nor of the return of a host's
  WriteRTP or Close (`HostClosed` has none). `StreamStops` has the premise `HostAnswers` about
  writes, stated in the property. Reads with a deadline or a cancelled context end.

## Proofs

All theorems hold for any number of sessions, paths, ids, writers, callers, requests, clients
and packets, for any lists of options and for any limits. Every invariant that a run checks is
the statement of one of them, and so are the two refinements that the runs check;
`EveryReaderCounted` has a condition on the time-outs.

**RtspServerProofs.** The invariants that the server checks are not inductive: that a
registered stream is open depends on who may still close it. `IInv` adds: sessions
that are over hold nothing (`DeadHoldNothing`), the role of a session fits its path, set-up
and readers (`RolesHold`), a stream exists before it is used (`StreamsCreatedBeforeUse`), the
server drains before it stops (`ClosedDrained`), and a listed client is at most SetupDelay older than
the last packet of a publisher that the next cleanup spares (`ClientsNoOlder`). The lemma `ControlSteps` disposes of the actions that leave table and
sessions alone, `NextInv` takes the others one by one. From `Invariance` follow `TypeCorrect`,
`TableIsLive`, `NoClientLeftBehind`, `PublishersRecordTheirOwn` and `CloseEmpties`.
`EveryReaderCounted` needs `ClientTimeout >= PublisherTimeout + SetupDelay`: the cleanup drops a
silent client without closing its session, only a publisher that is reaped no later ends the
reading, and a client may start out SetupDelay old. The equal time-outs of `DefaultConfig` do
not meet it unless a set-up registers within the tick in which it read the clock. `ImplementsRegistry` maps every step to one of
`StreamRegistry`: OnAnnounce to `Publish`, cleanup, OnSessionClose and Close to `Withdraw`,
everything else to a stutter. `StreamsWithinLimit` says that no more than MaxStreams
ServerStreams are open, registered or not: OnAnnounce counts the table, whose size grows by at
most one path a step (`OccupiedGrowsByAnnounce`), and by `IInv` an open stream is under its
publisher's path, so the open streams inject into the occupied paths. It needs a finite set of
paths, for Cardinality to mean anything.

**SinkHostProofs**, first part, about `SinkSetup`. Four invariants, each stronger than the
property it proves:

* `TInv`, for the types: what a call has left to apply is the end of what it was given, and
  the host it builds is of the kind of the option it is at.
* `PInv`, for `PortsFollowHosts`: while a second host is built it has no port in common with
  the first (`PortsApart`), so that dropping either makes garbage of its own port only.
* `RInv`, for `ReturnedIsFound`: the table holds calls that have returned, and a call that
  began after the sink of another was stored under the same name failed. Hence a name is
  overwritten only by a call that overlapped.
* `MInv`, for `PayloadTypeKept`: a description that comes empty and is passed once stays empty until
  its host is built, and holds first the medium of the first option from the first append on. `GInv` is the part about descriptions with media: what is
  appended, and what an append has read, begins with the medium that was given.

Second part, about `RtspHost`. `TypeOK` with the backoff cap and `ReturnedNotRecording` are
inductive together. `ClientInv` says that the client pointer, once set, stays set; so the
monitor is left only when the context is done. From it follow `NeverReconnects` and
`CloseIsFinal`, which has the end of the process as an outcome.

**MediaPipelineProofs.** `TypeOK` is inductive once it is known where the loops have a packet
in their hands. `ImplementsFifo` maps reading to `Enter`, an accepted write to `Deliver`, a
push that gives up to the loss of the last packet and a refused write to that of the first; the
lemmas `WithoutLast` and `WithoutFirst` say what is left of a sequence then.

**SocketServerProofs.** `RegisteredAreServed` is inductive with the fact that `s.metrics` is
replaced once for each of Start's return and Close. `CounterDrifts` proves `ActiveAccounting`:
a handler's move changes the size of the two classes of handlers by at most one each
(`InMoves`), and counting modulo 256 commutes with that (`Wraps`).

**SocketRelayProofs.** A message a handler relays is newer than all that went through it
before, and no message is with two handlers; and a connection that is torn, or has
a torn message under way, is that of a host that another loopback request has joined
(`TornIsShared`). `RelayedOnceInOrder` follows. `ReadInv` and `SendInv` are the two steps that
matter. Neither a bound on messages nor one on faults is assumed.

**SocketHostProofs.** `UsedIsServed` follows from who holds the read lock
(`ReadersHoldLock`): h.server changes only under Lock, when no goroutine reads or sends. For
the same reason no other connection is dialled during a read or a WriteRTP
(`UseEndsWhereItBegan`), which is why `conn` can stand for the one that is used.
`NeverNilWithoutClose` is about the behaviours in which neither Close nor Write is called, a
host that is ended through its context: Connect then has a connection wherever it uses one.

**LoopbackProofs.** `WriteKeepsPort` holds because Close, the only one to take the port away,
does so with no write under way. `CloseDeadlock` is the other side of that lock: a Close
that waits for a loop with a packet in hand keeps waiting, and as `mu` stays with it nothing
that needs the lock moves either.

**WebrtcHostProofs.** `OpenIffRegistered` is inductive with the types. A broadcast holds the
lock, so what it has yet to serve stays in the table; with `OpenIffRegistered` its channels are
open, and so are those that the cleanup or a close takes out, hence `OnlyParameterSetsPanic`.
`ImplementsRegistry` maps the table to `StreamRegistry`: a new session is a `Publish`, what the
cleanup or a close takes out is a `Withdraw`. `BroadcastDeadlock` proves that the exception of
`CloseReturnsUnlessStuck` is permanent: no step takes a stuck broadcast on, or changes the table.

Only model-checked: liveness, which is out of the prover's reach. The theorems on deadlocks are
the part of it that can be proved: from where there is no way out.

## Not modelled, and why

* The legacy RTSP server: `NewServer` replaces it and nothing creates it.
* The packet pool: CreateStream makes one and Stream.loop puts packets into it, but nothing takes
  any out, so that it decides nothing.
* Contents of descriptions, parameter sets and packets, codec parsing beyond accepted or
  refused, formatting, logging, status endpoints, traffic counters, CORS: data without control,
  or nothing reads them back.
* `forwardRTPPackets` of the WebRTC host: it empties a channel whose fill decides nothing else.
* `connectionMonitor` of the RTSP host: nothing starts it, which is what
  `rtsp_host_reconnect` shows.
* `ProcessRTPPacket` of the WebRTC host called by others than WriteRTP: nothing in the repository
  does, though it is exported.
* `rtsp/host.go` is commented out, `wasm/main.go` is empty, `host.go` and `server.go` in `pkg`
  are interfaces.

## Plan

Each module is written with a named assumption on its constants and one action per operation,
so that it can be checked and proved about.

1. *Done*: RTSP server with its registry and proofs, RTSP host, pipeline, WebSocket server and
   host, loopback.
2. *Done*: WebRTC host, relay of the WebSocket server, registry and options; proofs for
   loopback, relay, WebRTC host, pipeline and the connection counter.
3. A composition of `MediaPipeline` with `RtspHost` in the place of its abstract host.
4. The connection handshake of the RTSP server (`totalConnections`) and the legacy server.
5. *Done*: proofs of every invariant, of both registries and of what makes the deadlocks and the
   refuted reconnection permanent.
6. The steps of the liveness arguments that need no fairness, such as that a cancelled manager
   of the RTSP host comes no further from its end with each step.
