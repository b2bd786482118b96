----------------------------- MODULE WebrtcHost -----------------------------
(***************************************************************************)
(* The WebRTC host of pkg/webrtc_js/host.go: a table of browser sessions,  *)
(* a channel of packets per session, the broadcast that fills the channels,*)
(* the parameter sets sent when a connection is up and every three seconds *)
(* after, the expiry of idle sessions, and Connect / Close.                *)
(*                                                                         *)
(* Host.mux is a sync.RWMutex.  Only WriteRTP keeps it over several steps, *)
(* for reading, and it asks for it again for every session; a Lock that is *)
(* announced meanwhile shuts out every RLock, the nested ones included.    *)
(* The other sections block nowhere and are one step each.                 *)
(*                                                                         *)
(* No send into a channel waits, so how full it is changes nothing else    *)
(* and is left out; whether it is closed decides about a panic.  The TTL   *)
(* of a session is its client's choice, so any session may be expired when *)
(* the cleanup looks.  The fields that nothing reads (sdpStatus, the SSRCs,*)
(* which the track overwrites) and the counters that are only shown are    *)
(* left out, and requests that are refused and change nothing are no steps.*)
(*                                                                         *)
(* External: net/http; pion's peer connections, which run each state       *)
(* callback in a goroutine of its own, so that callbacks overtake one      *)
(* another.                                                                *)
(***************************************************************************)
EXTENDS Integers, FiniteSets

CONSTANTS
  Ids,               \* the {ID} of the request paths
  TotalConnections,  \* Config.TotalConnections
  KeepHosting,       \* Config.KeepHosting
  MaxSessions,       \* bound: sessions ever created
  MaxConnected       \* bound: how often a connection comes up

Closers == {"connect", "closer"}  \* Connect, which closes when it ends, and Close
Lockers == Ids \cup Closers \cup {"cleanup"}

ASSUME WebrtcAssumption ==
  /\ IsFiniteSet(Ids)
  /\ Ids \cap (Closers \cup {"cleanup", "none"}) = {}
  /\ TotalConnections \in 0..255 /\ KeepHosting \in BOOLEAN
  /\ MaxSessions \in Nat /\ MaxConnected \in Nat

VARIABLES
  pc,           \* where Connect and Close are
  cleanup,      \* where cleanupExpiredClients is
  cancelled,    \* h.ctx is done
  httpClosed,   \* httpServer.Close has been called
  pending,      \* whose Lock is announced
  request,      \* where the POST for an offer for an id is
  clients,      \* h.clients: the session of an id, 0 without one
  created,      \* the number of sessions so far, which names them
  owner,        \* the id a session was created for
  channel,      \* its rtpChan: none, open or closed
  peer,         \* its peer connection, with the offer and the answer
  up,           \* its connectionState is Connected
  downs,        \* its state callbacks for lost connections that have yet to run
  active,       \* metrics.ActiveConnections, a uint8
  callback,     \* where each Connected callback, later its timer, is
  about,        \* the session whose callback it is
  to,           \* the session it sends to
  writer,       \* where WriteRTP is
  left,         \* the ids it has yet to serve
  target,       \* the session it sends to
  crashed       \* the send or close that panicked and ended the process

hostVars == <<pc, cleanup, cancelled, httpClosed>>
tableVars == <<clients, created, owner, channel>>
peerVars == <<peer, up, downs, active>>
callbackVars == <<callback, about, to>>
writerVars == <<writer, left, target>>
vars == <<hostVars, pending, request, tableVars, peerVars, callbackVars, writerVars, crashed>>

Sessions == 1..MaxSessions
Callbacks == 1..MaxConnected
Uint8 == 0..255

Init ==
  /\ pc = [p \in Closers |-> IF p = "connect" THEN "setSession" ELSE "idle"]
  /\ cleanup = "none"
  /\ cancelled = FALSE
  /\ httpClosed = FALSE
  /\ pending = "none"
  /\ request = [id \in Ids |-> "none"]
  /\ clients = [id \in Ids |-> 0]
  /\ created = 0
  /\ owner = [s \in Sessions |-> "none"]
  /\ channel = [s \in Sessions |-> "none"]
  /\ peer = [s \in Sessions |-> "new"]
  /\ up = [s \in Sessions |-> FALSE]
  /\ downs = [s \in Sessions |-> 0]
  /\ active = 0
  /\ callback = [c \in Callbacks |-> "none"]
  /\ about = [c \in Callbacks |-> 0]
  /\ to = [c \in Callbacks |-> 0]
  /\ writer = "idle"
  /\ left = {}
  /\ target = 0
  /\ crashed = "no"

-----------------------------------------------------------------------------
(* The lock and the channels. *)

(* A panic ends the process. *)
Running == crashed = "no"

MayRLock == pending = "none"

WantsLock(p) ==
  \/ p \in Closers /\ pc[p] \in {"setSession", "lock"}
  \/ p = "cleanup" /\ cleanup = "lock"
  \/ p \in Ids /\ request[p] = "create"

(* Lock finds a broadcast under way. *)
Announce(p) ==
  /\ Running
  /\ pending = "none" /\ writer # "idle"
  /\ WantsLock(p)
  /\ pending' = p
  /\ UNCHANGED <<hostVars, request, tableVars, peerVars, callbackVars, writerVars, crashed>>

(* The critical section of p, which ends in Unlock. *)
Locked(p) == pending \in {p, "none"} /\ writer = "idle" /\ pending' = "none"

Registered == {clients[id] : id \in Ids} \ {0}

(* A send that does not wait, but panics on a closed channel. *)
Send(s, sender) == crashed' = IF channel[s] = "closed" THEN sender ELSE crashed

DecreasedUnguarded(n, by) == n - by  \* mutant
Decreased(n, by) == IF n > by THEN n - by ELSE 0

ClosePeersOnly(S) ==  \* mutant
  /\ peer' = [s \in Sessions |-> IF s \in S THEN "closed" ELSE peer[s]]
  /\ downs' = [s \in Sessions |-> IF s \in S /\ peer[s] # "closed" THEN downs[s] + 1 ELSE downs[s]]
  /\ UNCHANGED <<channel, crashed>>

(* Closes peer connections, which report it, and channels, which panics for *)
(* one that is closed.                                                      *)
CloseAll(S) ==
  /\ peer' = [s \in Sessions |-> IF s \in S THEN "closed" ELSE peer[s]]
  /\ downs' = [s \in Sessions |-> IF s \in S /\ peer[s] # "closed" THEN downs[s] + 1 ELSE downs[s]]
  /\ channel' = [s \in Sessions |-> IF s \in S THEN "closed" ELSE channel[s]]
  /\ crashed' = IF \E s \in S : channel[s] = "closed" THEN "close" ELSE crashed

-----------------------------------------------------------------------------
(* Requests. *)

Listening == pc["connect"] = "serving" /\ ~httpClosed

RequestHandler(id) ==
  /\ Running
  /\ Listening
  /\ request[id] = "none"
  /\ active < TotalConnections
  /\ request' = [request EXCEPT ![id] = "create"]
  /\ UNCHANGED <<hostVars, pending, tableVars, peerVars, callbackVars, writerVars, crashed>>

NewSession(id) ==
  /\ clients[id] = 0
  /\ created < MaxSessions
  /\ created' = created + 1
  /\ clients' = [clients EXCEPT ![id] = created + 1]
  /\ owner' = [owner EXCEPT ![created + 1] = id]
  /\ channel' = [channel EXCEPT ![created + 1] = "open"]

(* The session of the id exists, or pion refuses to make one. *)
NoNewSession == UNCHANGED tableVars

GetOrCreateSession(id) ==
  /\ Running
  /\ request[id] = "create"
  /\ Locked(id)
  /\ NewSession(id) \/ NoNewSession
  /\ request' = [request EXCEPT ![id] = "none"]
  /\ UNCHANGED <<hostVars, peerVars, callbackVars, writerVars, crashed>>

(* The rest of handleOfferRequest, on the session whether registered or not.*)
HandleOfferRequest(s) ==
  /\ Running
  /\ s <= created /\ peer[s] = "new"
  /\ peer' = [peer EXCEPT ![s] = "offered"]
  /\ UNCHANGED <<hostVars, pending, request, tableVars, up, downs, active, callbackVars, writerVars,
                 crashed>>

HandleAnswerResponse(id) ==
  /\ Running
  /\ Listening /\ MayRLock
  /\ clients[id] # 0 /\ peer[clients[id]] = "offered"
  /\ peer' = [peer EXCEPT ![clients[id]] = "answered"]
  /\ UNCHANGED <<hostVars, pending, request, tableVars, up, downs, active, callbackVars, writerVars,
                 crashed>>

-----------------------------------------------------------------------------
(* Peer connections and their state callbacks. *)

FirstFree(c) == callback[c] = "none" /\ \A d \in 1..(c - 1) : callback[d] # "none"

Connects(s, c) ==
  /\ Running
  /\ peer[s] \in {"answered", "disconnected"}
  /\ FirstFree(c)
  /\ peer' = [peer EXCEPT ![s] = "connected"]
  /\ callback' = [callback EXCEPT ![c] = "count"]
  /\ about' = [about EXCEPT ![c] = s]
  /\ UNCHANGED <<hostVars, pending, request, tableVars, up, downs, active, to, writerVars, crashed>>

(* One that fails may never have been up.                                   *)
LosesConnection(s) ==
  /\ Running
  /\ \/ peer[s] = "connected" /\ peer' = [peer EXCEPT ![s] = "disconnected"]
     \/ /\ peer[s] \in {"answered", "connected", "disconnected"}
        /\ peer' = [peer EXCEPT ![s] = "failed"]
  /\ downs' = [downs EXCEPT ![s] = @ + 1]
  /\ UNCHANGED <<hostVars, pending, request, tableVars, up, active, callbackVars, writerVars, crashed>>

(* Nobody reads both the state and the count, so they change in one step. *)
CountConnected(c) ==
  /\ Running
  /\ callback[c] = "count"
  /\ up' = [up EXCEPT ![about[c]] = TRUE]
  /\ active' = (active + 1) % 256
  /\ callback' = [callback EXCEPT ![c] = "find"]
  /\ UNCHANGED <<hostVars, pending, request, tableVars, peer, downs, about, to, writerVars, crashed>>

CountLost(s) ==
  /\ Running
  /\ downs[s] > 0
  /\ downs' = [downs EXCEPT ![s] = @ - 1]
  /\ up' = [up EXCEPT ![s] = FALSE]
  /\ active' = Decreased(active, 1)
  /\ UNCHANGED <<hostVars, pending, request, tableVars, peer, callbackVars, writerVars, crashed>>

-----------------------------------------------------------------------------
(* sendParameterSets, from the callback and then from its timer.  It goes   *)
(* by the id, which another session may have by now.                        *)

Found(c) == clients[owner[about[c]]]

FindSession(c) ==
  /\ Running
  /\ callback[c] = "find" /\ MayRLock
  /\ callback' = [callback EXCEPT ![c] = IF Found(c) # 0 THEN "send" ELSE "timer"]
  /\ to' = [to EXCEPT ![c] = Found(c)]
  /\ UNCHANGED <<hostVars, pending, request, tableVars, peerVars, about, writerVars, crashed>>

SendParameterSets(c) ==
  /\ Running
  /\ callback[c] = "send"
  /\ Send(to[c], "parameterSets")
  /\ callback' = [callback EXCEPT ![c] = "timer"]
  /\ to' = [to EXCEPT ![c] = 0]
  /\ UNCHANGED <<hostVars, pending, request, tableVars, peerVars, about, writerVars>>

TimerTicks(c) ==
  /\ Running
  /\ callback[c] = "timer" /\ MayRLock
  /\ callback' = [callback EXCEPT ![c] = IF Found(c) # 0 /\ up[Found(c)] THEN "find" ELSE "ended"]
  /\ UNCHANGED <<hostVars, pending, request, tableVars, peerVars, about, to, writerVars, crashed>>

TimerStops(c) ==
  /\ Running
  /\ callback[c] = "timer" /\ cancelled
  /\ callback' = [callback EXCEPT ![c] = "ended"]
  /\ UNCHANGED <<hostVars, pending, request, tableVars, peerVars, about, to, writerVars, crashed>>

-----------------------------------------------------------------------------
(* WriteRTP. *)

WriteRTP ==
  /\ Running
  /\ writer = "idle" /\ MayRLock
  /\ Registered # {}
  /\ writer' = "next"
  /\ left' = {id \in Ids : clients[id] # 0}
  /\ UNCHANGED <<hostVars, pending, request, tableVars, peerVars, callbackVars, target, crashed>>

(* The lock is taken for reading once more. *)
ProcessRTPPacket(id) ==
  /\ Running
  /\ writer = "next" /\ id \in left
  /\ MayRLock
  /\ writer' = "send"
  /\ left' = left \ {id}
  /\ target' = clients[id]
  /\ UNCHANGED <<hostVars, pending, request, tableVars, peerVars, callbackVars, crashed>>

SendPacket ==
  /\ Running
  /\ writer = "send"
  /\ Send(target, "broadcast")
  /\ writer' = IF left = {} THEN "idle" ELSE "next"
  /\ target' = 0
  /\ UNCHANGED <<hostVars, pending, request, tableVars, peerVars, callbackVars, left>>

-----------------------------------------------------------------------------
(* Expiry. *)

CleanupTicks ==
  /\ Running
  /\ cleanup = "waiting"
  /\ cleanup' = "lock"
  /\ UNCHANGED <<pc, cancelled, httpClosed, pending, request, tableVars, peerVars, callbackVars,
                 writerVars, crashed>>

CleanupIgnoresContext == FALSE  \* mutant
CleanupEnds ==
  /\ Running
  /\ cleanup = "waiting" /\ cancelled
  /\ cleanup' = "ended"
  /\ UNCHANGED <<pc, cancelled, httpClosed, pending, request, tableVars, peerVars, callbackVars,
                 writerVars, crashed>>

CleanupExpiredClients(expired) ==
  /\ Running
  /\ cleanup = "lock"
  /\ Locked("cleanup")
  /\ cleanup' = "waiting"
  /\ CloseAll(expired)
  /\ clients' = [id \in Ids |-> IF clients[id] \in expired THEN 0 ELSE clients[id]]
  /\ active' = Decreased(active, Cardinality(expired))
  /\ UNCHANGED <<pc, cancelled, httpClosed, request, created, owner, up, callbackVars, writerVars>>

-----------------------------------------------------------------------------
(* Connect and Close. *)

Moves(p, step) == pc' = [pc EXCEPT ![p] = step]
OnlyMoves ==
  UNCHANGED <<pending, request, tableVars, peerVars, callbackVars, writerVars, crashed>>

SetSession ==
  /\ Running
  /\ pc["connect"] = "setSession"
  /\ Locked("connect")
  /\ Moves("connect", "start")
  /\ UNCHANGED <<cleanup, cancelled, httpClosed, request, tableVars, peerVars, callbackVars,
                 writerVars, crashed>>

(* The cleanup starts; a context that is done ends Connect at once. *)
StartServing ==
  /\ Running
  /\ pc["connect"] = "start"
  /\ Moves("connect", IF cancelled THEN "close" ELSE "serving")
  /\ cleanup' = "waiting"
  /\ OnlyMoves /\ UNCHANGED <<cancelled, httpClosed>>

(* ListenAndServe returns, at the latest when the server is closed, and the *)
(* loop ends; a host that keeps hosting tries again unless told to end.     *)
ServingEnds ==
  /\ Running
  /\ pc["connect"] = "serving"
  /\ cancelled \/ ~KeepHosting
  /\ Moves("connect", "close")
  /\ OnlyMoves /\ UNCHANGED <<cleanup, cancelled, httpClosed>>

(* h.cancel is set. *)
HasSession == pc["connect"] # "setSession"

BeginClose(p) ==
  /\ Running
  /\ pc[p] = IF p = "connect" THEN "close" ELSE "idle"
  /\ Moves(p, "lock")
  /\ cancelled' = (cancelled \/ HasSession)
  /\ httpClosed' = TRUE
  /\ OnlyMoves /\ UNCHANGED cleanup

CloseKeepsTable(p) ==  \* mutant
  /\ Running
  /\ pc[p] = "lock"
  /\ Locked(p)
  /\ CloseAll(Registered)
  /\ Moves(p, "wait")
  /\ UNCHANGED <<cleanup, cancelled, httpClosed, request, clients, created, owner, up, active,
                 callbackVars, writerVars>>

CloseSessions(p) ==
  /\ Running
  /\ pc[p] = "lock"
  /\ Locked(p)
  /\ CloseAll(Registered)
  /\ clients' = [id \in Ids |-> 0]
  /\ Moves(p, "wait")
  /\ UNCHANGED <<cleanup, cancelled, httpClosed, request, created, owner, up, active, callbackVars,
                 writerVars>>

CloseReturns(p) ==
  /\ Running
  /\ pc[p] = "wait" /\ cleanup \in {"none", "ended"}
  /\ Moves(p, "returned")
  /\ OnlyMoves /\ UNCHANGED <<cleanup, cancelled, httpClosed>>

CallerCancels ==
  /\ Running
  /\ HasSession /\ ~cancelled
  /\ cancelled' = TRUE
  /\ OnlyMoves /\ UNCHANGED <<pc, cleanup, httpClosed>>

-----------------------------------------------------------------------------
CloseStep(p) == CloseSessions(p) \/ CloseReturns(p)
CleanupStep == \E expired \in SUBSET Registered : CleanupExpiredClients(expired)
WriterStep == SendPacket \/ \E id \in Ids : ProcessRTPPacket(id)
CallbackStep(c) == CountConnected(c) \/ FindSession(c) \/ SendParameterSets(c) \/ TimerTicks(c)

Next ==
  \/ \E p \in Lockers : Announce(p)
  \/ \E p \in Closers : BeginClose(p) \/ CloseStep(p)
  \/ SetSession \/ StartServing \/ ServingEnds \/ CallerCancels
  \/ \E id \in Ids : RequestHandler(id) \/ GetOrCreateSession(id) \/ HandleAnswerResponse(id)
  \/ \E s \in Sessions :
       \/ HandleOfferRequest(s) \/ LosesConnection(s) \/ CountLost(s)
       \/ \E c \in Callbacks : Connects(s, c)
  \/ \E c \in Callbacks : CallbackStep(c) \/ TimerStops(c)
  \/ WriteRTP \/ WriterStep
  \/ CleanupTicks \/ CleanupEnds \/ CleanupStep

Spec == Init /\ [][Next]_vars

(* Goroutines run, and those that wait for the lock get it in the end, as   *)
(* sync.RWMutex serves them in turn.  A select whose context stays done     *)
(* takes that case in the end.  Nothing makes a browser, a caller or the    *)
(* network act.                                                             *)
Fairness ==
  /\ WF_vars(WriterStep) /\ \A id \in Ids : WF_vars(GetOrCreateSession(id))
  /\ SF_vars(CleanupStep) /\ SF_vars(CleanupEnds)
  /\ \A p \in Closers : SF_vars(CloseStep(p))

FairSpec == Spec /\ Fairness

-----------------------------------------------------------------------------
(* Properties. *)

PeerStates ==
  {"new", "offered", "answered", "connected", "disconnected", "failed", "closed"}
ConnectSteps == {"setSession", "start", "serving", "close", "lock", "wait", "returned"}
SomeSession == Sessions \cup {0}

(* Every variable has its type; the announced Lock belongs to a goroutine   *)
(* that waits in Lock, behind a broadcast.                                  *)
TypeOK ==
  /\ pc \in [Closers -> ConnectSteps \cup {"idle"}]
  /\ cleanup \in {"none", "waiting", "lock", "ended"}
  /\ cancelled \in BOOLEAN /\ httpClosed \in BOOLEAN
  /\ pending = "none" \/ (pending \in Lockers /\ WantsLock(pending))
  /\ request \in [Ids -> {"none", "create"}]
  /\ clients \in [Ids -> 0..created] /\ created \in 0..MaxSessions
  /\ owner \in [Sessions -> Ids \cup {"none"}] /\ \A s \in 1..created : owner[s] \in Ids
  /\ channel \in [Sessions -> {"none", "open", "closed"}]
  /\ peer \in [Sessions -> PeerStates]
  /\ up \in [Sessions -> BOOLEAN] /\ downs \in [Sessions -> Nat] /\ active \in Uint8
  /\ callback \in [Callbacks -> {"none", "count", "find", "send", "timer", "ended"}]
  /\ about \in [Callbacks -> 0..created]
  /\ \A c \in Callbacks : callback[c] # "none" => about[c] # 0
  /\ to \in [Callbacks -> 0..created]
  /\ \A c \in Callbacks : callback[c] = "send" => to[c] # 0
  /\ writer \in {"idle", "next", "send"} /\ left \subseteq Ids
  /\ target \in 0..created /\ (writer = "send" => target # 0)
  /\ crashed \in {"no", "parameterSets", "broadcast", "close"}

(* The sessions whose channel is open are those in the table, each under    *)
(* the id it was made for: whoever removes a session, the cleanup or either *)
(* close, ends its forwarding goroutine, and nobody ends a registered one.  *)
OpenIffRegistered ==
  \A s \in Sessions : channel[s] = "open" <=> s \in Registered /\ clients[owner[s]] = s

(* The parameter sets, which go to a session found before, may meet a       *)
(* closed channel.  A broadcast never does, since the sessions it walks     *)
(* stay while it holds the lock, and no channel is closed twice, although   *)
(* the cleanup and two closes compete for them.                             *)
OnlyParameterSetsPanic == crashed \in {"no", "parameterSets"}

(* The table is a registry of the ids: a session, once dropped, is never    *)
(* found under its id or another again.                                     *)
Registry == INSTANCE StreamRegistry
  WITH Paths <- Ids, Publishers <- Sessions, NoPublisher <- 0,
       live <- clients, retired <- {s \in Sessions : channel[s] = "closed"}

RegistrySpec == Registry!Spec

(* The broadcast waits for its second read lock behind a Lock that waits    *)
(* for its first one.                                                       *)
Stuck == writer = "next" /\ pending # "none"

(* host.go:916, "Wait for goroutines to finish": a close that came after    *)
(* Connect had set the context returns, unless a broadcast is stuck.        *)
CloseReturnsUnlessStuck ==
  \A p \in Closers :
    cancelled /\ pc[p] \in {"lock", "wait"} ~> pc[p] = "returned" \/ ~Running \/ Stuck
=============================================================================
