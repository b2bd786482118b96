----------------------------- MODULE RtspServer -----------------------------
(***************************************************************************)
(* The RTSP server of pkg/rtsp/new_server.go: the stream table, the        *)
(* clients registered on each stream, the gortsplib callbacks that change  *)
(* them, the two background routines and the shutdown.                     *)
(*                                                                         *)
(* gortsplib runs the callbacks of one session one after the other and     *)
(* those of different sessions concurrently.  Every callback that changes  *)
(* the table holds NewServer.mutex throughout and is one action here.      *)
(* OnSetup looks the stream up, lets the mutex go, reads the clock and     *)
(* registers the client afterwards, so it is three actions.                *)
(* NewServer.mutex is always taken before StreamInfo.mutex and nothing     *)
(* blocks under either, so neither is a variable; whether Close keeps the  *)
(* first while it waits is said by HeldByClose.                            *)
(*                                                                         *)
(* A session publishes at most once (gortsplib accepts ANNOUNCE only in    *)
(* its initial state), so the *StreamInfo a session created is named by    *)
(* that session.  Times are ages: how long ago LastActive was, in ticks.   *)
(* totalConnections is only ever printed and is left out.                  *)
(***************************************************************************)
EXTENDS Integers, FiniteSets

CONSTANTS
  Sessions,          \* RTSP sessions, each alone on its connection
  Paths,             \* stream paths
  Permitted,         \* sessions whose address passes AllowLocalOnly
  NoSession,         \* nil
  MaxStreams,        \* Config.MaxStreams
  MaxClients,        \* Config.MaxClients
  PublisherTimeout,  \* Config.PublisherSessionTimeout, in ticks
  ClientTimeout,     \* Config.ClientSessionTimeout, in ticks
  SetupDelay         \* bound: an OnSetup registers at most so many ticks after
                     \* it has read the clock

ASSUME ServerAssumption ==
  /\ NoSession \notin Sessions
  /\ NoSession \notin Paths
  /\ Permitted \subseteq Sessions
  /\ MaxStreams \in Nat
  /\ MaxClients \in Nat
  /\ PublisherTimeout \in Nat
  /\ ClientTimeout \in Nat
  /\ SetupDelay \in Nat

VARIABLES
  phase,          \* where Start and Close are
  ctxDone,        \* s.ctx is done
  routines,       \* background goroutines still running
  session,        \* life of each connection and its session
  role,           \* gortsplib's state of the session
  path,           \* path the session was granted, NoSession before that
  streams,        \* s.streams: path -> the session whose StreamInfo is there
  serverStream,   \* StreamInfo.Stream of each publisher: none, open or closed
  publisherIdle,  \* age of StreamInfo.PublisherLastActive
  clients,        \* StreamInfo.Clients: age of LastActive, or NotClient
  setup,          \* StreamInfo an OnSetup in progress has looked up
  stamp,          \* age of the LastActive it will register, NotClient before
  readerOf,       \* publisher whose ServerStream gortsplib reads out to it
  recordTo        \* StreamInfo captured by the packet callback of OnRecord

vars == <<phase, ctxDone, routines, session, role, path, streams, serverStream,
          publisherIdle, clients, setup, stamp, readerOf, recordTo>>

\* "unserved": Start has run but the gortsplib server has not started.
Phases == {"new", "running", "unserved", "cleared", "draining", "joining", "stopped",
           "crashed"}
SessionStates == {"new", "rejected", "admitted", "open", "closing", "closed"}
Roles == {"initial", "prerecord", "record", "preplay", "play"}
Routines == {"cleanup", "metrics"}

NotClient == -1

\* Ages saturate one tick past the timeout they are compared with.
PublisherAges == 0..(PublisherTimeout + 1)
ClientAges == 0..(ClientTimeout + 1)
Older(age, timeout) == IF age <= timeout THEN age + 1 ELSE age

Registered == {s \in Sessions : \E p \in Paths : streams[p] = s}
ClientsOf(s) == {c \in Sessions : clients[s][c] # NotClient}

\* The number validateConnection adds up: registrations over all streams.
TotalClients ==
  Cardinality({pc \in Paths \X Sessions :
                 /\ streams[pc[1]] # NoSession
                 /\ clients[streams[pc[1]]][pc[2]] # NotClient})

\* Sessions gortsplib reads the streams of S out to.
ReadersOf(S) == {c \in Sessions : readerOf[c] \in S}

\* Callbacks run for a session until OnSessionClose; an OnSetup in progress
\* keeps the others waiting.
Serving(s) == session[s] \in {"open", "closing"} /\ setup[s] = NoSession

\* Session.Close(): asynchronous, OnSessionClose follows.
Ending(S) ==
  [t \in Sessions |-> IF t \in S /\ session[t] = "open" THEN "closing" ELSE session[t]]

NoStreamClosed(S) == serverStream  \* mutant
\* Stream.Close() on the streams of S.
StreamsClosed(S) ==
  [t \in Sessions |-> IF t \in S THEN "closed" ELSE serverStream[t]]

TableUntouched(S) == streams  \* mutant
\* delete(s.streams, path) for the paths that carry a stream of S.
TableWithout(S) ==
  [p \in Paths |-> IF streams[p] \in S THEN NoSession ELSE streams[p]]

HeldWhileDraining == {"cleared", "draining", "joining"}  \* mutant
\* The phases of Close that keep NewServer.mutex from one step to the next.
HeldByClose == {}
MutexFree == phase \notin HeldByClose

Init ==
  /\ phase = "new"
  /\ ctxDone = FALSE
  /\ routines = {}
  /\ session = [s \in Sessions |-> "new"]
  /\ role = [s \in Sessions |-> "initial"]
  /\ path = [s \in Sessions |-> NoSession]
  /\ streams = [p \in Paths |-> NoSession]
  /\ serverStream = [s \in Sessions |-> "none"]
  /\ publisherIdle = [s \in Sessions |-> 0]
  /\ clients = [s \in Sessions |-> [c \in Sessions |-> NotClient]]
  /\ setup = [s \in Sessions |-> NoSession]
  /\ stamp = [s \in Sessions |-> NotClient]
  /\ readerOf = [s \in Sessions |-> NoSession]
  /\ recordTo = [s \in Sessions |-> NoSession]
-----------------------------------------------------------------------------
(* Start, Close and the background routines *)

tableVars == <<streams, serverStream, publisherIdle, clients>>
sessionVars == <<session, role, path, setup, stamp, readerOf, recordTo>>

\* A server.Start() that fails is logged; the routines start all the same.
Start ==
  /\ phase = "new"
  /\ phase' \in {"running", "unserved"}
  /\ routines' = Routines
  /\ UNCHANGED <<ctxDone, tableVars, sessionVars>>

\* Close after a failed start: there is nothing to close, and server.Close()
\* returns at once or calls the cancel function that a start which failed
\* early has not set.
CloseUnserved ==
  /\ phase = "unserved"
  /\ phase' \in {"joining", "crashed"}
  /\ ctxDone' = TRUE
  /\ UNCHANGED <<routines, tableVars, sessionVars>>

\* The caller ends the context it gave to Start, of which s.ctx is a child;
\* the server goes on listening.
CallerCancels ==
  /\ phase \in {"running", "unserved"}
  /\ ~ ctxDone
  /\ ctxDone' = TRUE
  /\ UNCHANGED <<phase, routines, tableVars, sessionVars>>

\* The first part of Close, under the mutex: cancel, close everything, empty
\* the table.
CloseStreams ==
  /\ phase = "running"
  /\ phase' = "cleared"
  /\ ctxDone' = TRUE
  /\ serverStream' = StreamsClosed(Registered)
  /\ session' = Ending(Registered \cup ReadersOf(Registered))
  /\ streams' = [p \in Paths |-> NoSession]
  /\ UNCHANGED <<routines, role, path, publisherIdle, clients, setup, stamp, readerOf,
                 recordTo>>

ServerCloseSkipped ==  \* mutant
  /\ phase = "cleared"
  /\ phase' = "joining"
  /\ UNCHANGED <<ctxDone, routines, tableVars, sessionVars>>

\* s.server.Close() is called with the mutex free ...
ServerCloseBegins ==
  /\ phase = "cleared"
  /\ phase' = "draining"
  /\ UNCHANGED <<ctxDone, routines, tableVars, sessionVars>>

\* ... and returns once every connection and session has ended.
Drained == \A s \in Sessions : session[s] \in {"new", "rejected", "closed"}

ServerCloseReturns ==
  /\ phase = "draining"
  /\ Drained
  /\ phase' = "joining"
  /\ UNCHANGED <<ctxDone, routines, tableVars, sessionVars>>

\* s.wg.Wait()
CloseReturns ==
  /\ phase = "joining"
  /\ routines = {}
  /\ phase' = "stopped"
  /\ UNCHANGED <<ctxDone, routines, tableVars, sessionVars>>


RoutineReturns(r) ==
  /\ r \in routines
  /\ ctxDone
  /\ phase # "crashed"
  /\ routines' = routines \ {r}
  /\ UNCHANGED <<phase, ctxDone, tableVars, sessionVars>>

PublisherInactive(s) == publisherIdle[s] > PublisherTimeout
ClientInactiveOffByOne(s, c) == clients[s][c] >= ClientTimeout  \* mutant
ClientInactive(s, c) == clients[s][c] > ClientTimeout

\* A tick of the cleanup routine.  When ticker and cancellation are both
\* ready select may take either, so a last pass can follow the cancellation.
CleanupInactiveSessions ==
  LET expired == {s \in Registered : PublisherInactive(s)}
  IN  /\ "cleanup" \in routines
      /\ MutexFree
      /\ serverStream' = StreamsClosed(expired)
      /\ session' = Ending(expired \cup ReadersOf(expired))
      /\ streams' = TableWithout(expired)
      /\ clients' = [s \in Sessions |-> [c \in Sessions |->
                       IF s \in Registered \ expired /\ ClientInactive(s, c)
                       THEN NotClient ELSE clients[s][c]]]
      /\ UNCHANGED <<phase, ctxDone, routines, role, path, publisherIdle, setup, stamp,
                     readerOf, recordTo>>

\* Set-ups that have read the clock for a stream of the table.
Stamped == {s \in Sessions : stamp[s] # NotClient /\ setup[s] \in Registered}

\* Time passes, but not past what SetupDelay leaves to a set-up.  Once a stream
\* is off the table nothing reads its times.
Tick ==
  /\ \A s \in Stamped : stamp[s] < SetupDelay
  /\ \/ \E s \in Registered :
          \/ publisherIdle[s] <= PublisherTimeout
          \/ \E c \in ClientsOf(s) : clients[s][c] <= ClientTimeout
     \/ \E s \in Stamped : stamp[s] <= ClientTimeout
  /\ publisherIdle' = [s \in Sessions |->
                         IF s \in Registered THEN Older(publisherIdle[s], PublisherTimeout)
                                             ELSE publisherIdle[s]]
  /\ clients' = [s \in Sessions |-> [c \in Sessions |->
                   IF s \in Registered /\ c \in ClientsOf(s)
                   THEN Older(clients[s][c], ClientTimeout) ELSE clients[s][c]]]
  /\ stamp' = [s \in Sessions |-> IF s \in Stamped THEN Older(stamp[s], ClientTimeout)
                                                   ELSE stamp[s]]
  /\ UNCHANGED <<phase, ctxDone, routines, streams, serverStream, session, role, path,
                 setup, readerOf, recordTo>>
-----------------------------------------------------------------------------
(* Connections and sessions *)

\* The listener runs until server.Close() begins.
Listening == phase \in {"running", "cleared"}

ConnectionValid(s) == s \in Permitted /\ TotalClients < MaxClients

OnConnOpen(s) ==
  /\ Listening
  /\ MutexFree
  /\ session[s] = "new"
  /\ session' = [session EXCEPT ![s] = IF ConnectionValid(s) THEN "admitted" ELSE "rejected"]
  /\ UNCHANGED <<phase, ctxDone, routines, tableVars, role, path, setup, stamp, readerOf,
                 recordTo>>

OnSessionOpen(s) ==
  /\ session[s] = "admitted"
  /\ session' = [session EXCEPT ![s] = "open"]
  /\ UNCHANGED <<phase, ctxDone, routines, tableVars, role, path, setup, stamp, readerOf,
                 recordTo>>

\* The peer hangs up or tears down, its transport fails, or server.Close()
\* ends the session; a connection may go before it has a session.
Disconnect(s) ==
  /\ session[s] \in {"admitted", "open"}
  /\ session' = [session EXCEPT ![s] = IF @ = "open" THEN "closing" ELSE "closed"]
  /\ UNCHANGED <<phase, ctxDone, routines, tableVars, role, path, setup, stamp, readerOf,
                 recordTo>>

PublishedByNone(s) == {}  \* mutant
\* The registered streams OnSessionClose finds to be published by s.
PublishedBy(s) == {s} \cap Registered

ClientKept(s) == clients  \* mutant
\* RemoveClient(s) on every registered stream.
ClientRemoved(s) ==
  [t \in Sessions |-> IF t \in Registered THEN [clients[t] EXCEPT ![s] = NotClient]
                                          ELSE clients[t]]

\* The session and what it held are gone.
OnSessionClose(s) ==
  /\ session[s] = "closing"
  /\ setup[s] = NoSession
  /\ MutexFree
  /\ clients' = ClientRemoved(s)
  /\ serverStream' = StreamsClosed(PublishedBy(s))
  /\ streams' = TableWithout(PublishedBy(s))
  /\ session' = [Ending(ReadersOf(PublishedBy(s))) EXCEPT ![s] = "closed"]
  /\ role' = [role EXCEPT ![s] = "initial"]
  /\ path' = [path EXCEPT ![s] = NoSession]
  /\ readerOf' = [readerOf EXCEPT ![s] = NoSession]
  /\ recordTo' = [recordTo EXCEPT ![s] = NoSession]
  /\ UNCHANGED <<phase, ctxDone, routines, publisherIdle, setup, stamp>>
-----------------------------------------------------------------------------
(* Publishing *)

\* The sessions closed when s takes p over: the displaced publisher and those
\* that read its stream.
Displaced(p) == {streams[p]} \cap Sessions
OnlyReadersDisplaced(p) == ReadersOf(Displaced(p))  \* mutant
SessionsDisplaced(p) == Displaced(p) \cup ReadersOf(Displaced(p))

StreamSlotFree == Cardinality({p \in Paths : streams[p] # NoSession}) < MaxStreams

\* Without a free slot the answer is 503 and nothing changes, even when p is
\* already registered and would only be replaced.
OnAnnounce(s, p) ==
  /\ Serving(s)
  /\ role[s] = "initial"
  /\ MutexFree
  /\ StreamSlotFree
  /\ serverStream' = [StreamsClosed(Displaced(p)) EXCEPT ![s] = "open"]
  /\ session' = Ending(SessionsDisplaced(p))
  /\ streams' = [streams EXCEPT ![p] = s]
  /\ publisherIdle' = [publisherIdle EXCEPT ![s] = 0]
  /\ clients' = [clients EXCEPT ![s] = [c \in Sessions |-> NotClient]]
  /\ role' = [role EXCEPT ![s] = "prerecord"]
  /\ path' = [path EXCEPT ![s] = p]
  /\ UNCHANGED <<phase, ctxDone, routines, setup, stamp, readerOf, recordTo>>

\* mutant
OnRecordUnchecked(s) ==
  /\ Serving(s)
  /\ role[s] = "prerecord"
  /\ recordTo' = [recordTo EXCEPT ![s] = streams[path[s]]]
  /\ role' = [role EXCEPT ![s] = "record"]
  /\ UNCHANGED <<phase, ctxDone, routines, tableVars, session, path, setup, stamp,
                 readerOf>>

\* The packet callback is bound to whatever stream the path carries by now.
OnRecord(s) ==
  /\ Serving(s)
  /\ role[s] = "prerecord"
  /\ MutexFree
  /\ streams[path[s]] # NoSession
  /\ recordTo' = [recordTo EXCEPT ![s] = streams[path[s]]]
  /\ role' = [role EXCEPT ![s] = "record"]
  /\ UNCHANGED <<phase, ctxDone, routines, tableVars, session, path, setup, stamp,
                 readerOf>>

\* The callback given to OnPacketRTPAny; it refreshes the captured stream
\* and its clients, registered or not.
OnPacketRTP(s) ==
  /\ session[s] \in {"open", "closing"}
  /\ role[s] = "record"
  /\ publisherIdle' = [publisherIdle EXCEPT ![recordTo[s]] = 0]
  /\ clients' = [clients EXCEPT ![recordTo[s]] =
                   [c \in Sessions |-> IF @[c] = NotClient THEN NotClient ELSE 0]]
  /\ UNCHANGED <<phase, ctxDone, routines, streams, serverStream, sessionVars>>
-----------------------------------------------------------------------------
(* Reading *)

\* SETUP comes from a reader, or from a publisher for the path it announced.
MaySetup(s, p) ==
  /\ Serving(s)
  /\ role[s] \in {"initial", "prerecord", "preplay"}
  /\ role[s] # "initial" => p = path[s]

\* First part of OnSetup, under the read lock.  An unknown path is a 404 and
\* changes nothing.
SetupFindsStream(s, p) ==
  /\ MaySetup(s, p)
  /\ MutexFree
  /\ streams[p] # NoSession
  /\ setup' = [setup EXCEPT ![s] = streams[p]]
  /\ UNCHANGED <<phase, ctxDone, routines, tableVars, session, role, path, stamp, readerOf,
                 recordTo>>

\* Second part, under no lock: LastActive is read off the clock for the entry
\* of a session that is not the publisher.
SetupReadsClock(s) ==
  /\ setup[s] \notin {NoSession, s}
  /\ stamp[s] = NotClient
  /\ stamp' = [stamp EXCEPT ![s] = 0]
  /\ UNCHANGED <<phase, ctxDone, routines, tableVars, session, role, path, setup, readerOf,
                 recordTo>>

\* gortsplib attaches a reader to the stream OnSetup returned unless that was
\* closed meanwhile; a second SETUP of a reader finds it attached already.
Attaches(s) == role[s] = "initial" /\ serverStream[setup[s]] = "open"

\* Last part: register on the stream found before, under the lock of the
\* StreamInfo only.  Packets since the clock was read have not touched the entry.
SetupRegistersClient(s) ==
  LET found == setup[s]
  IN  /\ found # NoSession
      /\ found # s => stamp[s] # NotClient
      /\ clients' = IF found = s THEN clients ELSE [clients EXCEPT ![found][s] = stamp[s]]
      /\ role' = [role EXCEPT ![s] = IF Attaches(s) THEN "preplay" ELSE @]
      /\ path' = [path EXCEPT ![s] = IF Attaches(s) THEN path[found] ELSE @]
      /\ readerOf' = [readerOf EXCEPT ![s] = IF Attaches(s) THEN found ELSE @]
      /\ setup' = [setup EXCEPT ![s] = NoSession]
      /\ stamp' = [stamp EXCEPT ![s] = NotClient]
      /\ UNCHANGED <<phase, ctxDone, routines, session, streams, serverStream,
                     publisherIdle, recordTo>>

\* PLAY refreshes the session's entry on the stream its path carries by now.
OnPlay(s) ==
  LET carried == streams[path[s]]
  IN  /\ Serving(s)
      /\ role[s] = "preplay"
      /\ MutexFree
      /\ role' = [role EXCEPT ![s] = "play"]
      /\ clients' = IF carried # NoSession /\ s \in ClientsOf(carried)
                    THEN [clients EXCEPT ![carried][s] = 0] ELSE clients
      /\ UNCHANGED <<phase, ctxDone, routines, streams, serverStream, publisherIdle,
                     session, path, setup, stamp, readerOf, recordTo>>
-----------------------------------------------------------------------------
Stopped == phase \in {"stopped", "crashed"} /\ UNCHANGED vars

SessionStep(s) ==
  \/ OnConnOpen(s) \/ OnSessionOpen(s) \/ Disconnect(s) \/ OnSessionClose(s)
  \/ \E p \in Paths : OnAnnounce(s, p) \/ SetupFindsStream(s, p)
  \/ SetupReadsClock(s) \/ SetupRegistersClient(s) \/ OnPlay(s) \/ OnRecord(s) \/ OnPacketRTP(s)

ServerStep ==
  \/ Start \/ CallerCancels \/ CloseUnserved
  \/ CloseStreams \/ ServerCloseBegins \/ ServerCloseReturns \/ CloseReturns
  \/ CleanupInactiveSessions \/ Tick
  \/ \E r \in Routines : RoutineReturns(r)

Next == ServerStep \/ Stopped \/ \E s \in Sessions : SessionStep(s)

Spec == Init /\ [][Next]_vars

\* Goroutines are scheduled, time passes, tickers fire and server.Close() ends
\* every session.  A session loop that has been told to end selects among that
\* and the requests still coming, so OnSessionClose runs in the end even if it
\* has to wait for requests again and again.  Peers owe nothing: no request,
\* packet or disconnection has to come.
Fairness ==
  /\ WF_vars(ServerCloseBegins) /\ WF_vars(ServerCloseReturns) /\ WF_vars(CloseReturns)
  /\ WF_vars(CleanupInactiveSessions) /\ WF_vars(Tick)
  /\ \A r \in Routines : WF_vars(RoutineReturns(r))
  /\ \A s \in Sessions :
       /\ SF_vars(OnSessionClose(s))
       /\ WF_vars(SetupReadsClock(s)) /\ WF_vars(SetupRegistersClient(s))
       /\ WF_vars(phase = "draining" /\ Disconnect(s))

FairSpec == Spec /\ Fairness
-----------------------------------------------------------------------------
(* Properties *)

\* Every variable has its type; in particular the packet callback of a
\* recording session has captured a StreamInfo, never nil.
TypeOK ==
  /\ phase \in Phases
  /\ ctxDone \in BOOLEAN
  /\ routines \subseteq Routines
  /\ session \in [Sessions -> SessionStates]
  /\ role \in [Sessions -> Roles]
  /\ path \in [Sessions -> Paths \cup {NoSession}]
  /\ streams \in [Paths -> Sessions \cup {NoSession}]
  /\ serverStream \in [Sessions -> {"none", "open", "closed"}]
  /\ publisherIdle \in [Sessions -> PublisherAges]
  /\ clients \in [Sessions -> [Sessions -> ClientAges \cup {NotClient}]]
  /\ setup \in [Sessions -> Sessions \cup {NoSession}]
  /\ stamp \in [Sessions -> ClientAges \cup {NotClient}]
  /\ readerOf \in [Sessions -> Sessions \cup {NoSession}]
  /\ recordTo \in [Sessions -> Sessions \cup {NoSession}]
  /\ \A s \in Sessions : role[s] = "record" => recordTo[s] \in Sessions

\* A stream found in the table (OnDescribe, OnSetup, OnRecord hand it out) is
\* an open ServerStream whose publisher's OnSessionClose has not run: no path
\* by which a stream is closed leaves it in the table.
RegisteredStreamsLive ==
  \A p \in Paths : streams[p] # NoSession =>
    /\ session[streams[p]] \in {"open", "closing"}
    /\ serverStream[streams[p]] = "open"
    /\ path[streams[p]] = p

\* The converse, that no ServerStream is leaked: a stream that leaves the
\* table - replaced, reaped, or left by its publisher during the shutdown -
\* has been closed, so its readers were told.
OpenStreamsRegistered ==
  \A s \in Sessions : serverStream[s] = "open" => s \in Registered

\* A publisher nobody has closed still owns its path: replacing a stream,
\* reaping it and shutting down each close the publisher too, and the late
\* OnSessionClose of a replaced publisher spares its successor.
OpenPublishersRegistered ==
  \A s \in Sessions :
    session[s] = "open" /\ role[s] \in {"prerecord", "record"} => streams[path[s]] = s

\* The table, the open streams and the open publishers name each other, through
\* every replacement, reaping and shutdown and the late OnSessionClose after it.
TableHoldsOpenStreams ==
  RegisteredStreamsLive /\ OpenStreamsRegistered /\ OpenPublishersRegistered

\* A client listed on a registered stream has not had its OnSessionClose, even
\* though OnSetup registers it after letting the mutex go; entries left behind
\* would count against MaxClients for as long as the stream lives.
ListedClientsAlive ==
  \A p \in Paths : streams[p] # NoSession =>
    \A c \in ClientsOf(streams[p]) : session[c] \in {"open", "closing"}

\* OnRecord never checks that the stream at the path is the caller's; only a
\* publisher that is being closed already can be bound to another's stream.
RecordingIsOwn ==
  \A s \in Sessions : session[s] = "open" /\ role[s] = "record" => recordTo[s] = s

\* Every session an open stream is read out to is among the clients that
\* MaxClients counts.  The cleanup drops an idle client's entry without closing
\* its session, and an entry may start out SetupDelay older than the last packet;
\* so it needs ClientTimeout >= PublisherTimeout + SetupDelay.
ReadersAreCounted ==
  \A s, c \in Sessions :
    readerOf[c] = s /\ serverStream[s] = "open" => c \in ClientsOf(s)

\* Once Close has returned the table is empty and no session is left, whatever
\* was announced between its first part and the end of server.Close().
StoppedIsEmpty ==
  phase = "stopped" =>
    /\ \A p \in Paths : streams[p] = NoSession
    /\ \A s \in Sessions : session[s] \notin {"admitted", "open", "closing"}

\* Close gets through: with the mutex free while server.Close() waits,
\* every OnSessionClose can run and both routines return.
CloseCompletes == phase = "cleared" ~> phase = "stopped"

\* A publisher that stops sending loses its stream: again and again it has
\* either just been active or is not in the table.  That ends with the context
\* given to Start: the cleanup routine returns, and the server listens on.
IdlePublisherReaped ==
  \A s \in Sessions : []<>(s \notin Registered \/ publisherIdle[s] = 0 \/ ctxDone)

\* The table implements the registry it promises to be.
Registry == INSTANCE StreamRegistry WITH
  Publishers <- Sessions,
  NoPublisher <- NoSession,
  live <- streams,
  retired <- {s \in Sessions : serverStream[s] = "closed"}

RegistrySpec == Registry!Spec
=============================================================================
