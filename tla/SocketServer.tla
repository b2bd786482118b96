---------------------------- MODULE SocketServer ----------------------------
(***************************************************************************)
(* The WebSocket server of pkg/socket/server.go: one host slot, a table of *)
(* clients, a connection counter, and the lifecycle Start / Close.         *)
(*                                                                         *)
(* net/http runs wsHandler once per request, each in its own goroutine.    *)
(* Server.mux and metrics.mux are held for one access at a time, never     *)
(* across a decision and its effect, so each access is a step of its own.  *)
(* A handler whose connection fails, for whatever reason of its peer's,    *)
(* leaves; the data relayed meanwhile, the failure counter, and the status *)
(* and metrics pages are left out.                                         *)
(*                                                                         *)
(* close() replaces s.metrics; a handler that was deferred to decrease the *)
(* old counter still decreases that one.  Counters are numbered by the     *)
(* replacements made before them.  Close is called after Start has set the *)
(* session (before that it calls a nil cancel function).                   *)
(***************************************************************************)
EXTENDS Integers, FiniteSets

CONSTANTS
  Requests,          \* requests to /ws, each handled once
  Loopback,          \* those from a loopback address
  NoRequest,         \* nil
  TotalConnections,  \* Config.TotalConnections
  KeepHosting        \* Config.KeepHosting

ASSUME SocketAssumption ==
  /\ IsFiniteSet(Requests)
  /\ Loopback \subseteq Requests
  /\ NoRequest \notin Requests
  /\ TotalConnections \in 0..255
  /\ KeepHosting \in BOOLEAN

VARIABLES
  handler,      \* where the wsHandler of each request is
  host,         \* s.host
  clients,      \* keys of s.clients
  active,       \* ActiveConnections of each metrics object, a uint8
  current,      \* which metrics object s.metrics is
  deferred,     \* the one whose counter a handler will decrease
  starter,      \* where Start is
  closer,       \* where Close is
  cancelled,    \* s.ctx is done
  httpClosed,   \* httpServer.Close has been called
  limit,        \* s.config.TotalConnections
  keepHosting   \* s.config.KeepHosting

handlerVars == <<handler, host, clients, active, deferred>>
serverVars == <<current, starter, closer, cancelled, httpClosed, limit, keepHosting>>
vars == <<handlerVars, serverVars>>

HostSteps == {"hostAccept", "setHost", "hosting", "clearHost"}
ClientSteps ==
  {"checkLimit", "reserve", "accept", "unreserve", "count", "defer", "register",
   "serving", "uncount"}
Finished == {"hostDone", "clientDone", "refused", "failed"}
NotBegun == {"new", "accepted"}
HandlerSteps == NotBegun \cup HostSteps \cup ClientSteps \cup Finished

\* Start and Close each replace s.metrics once.
MetricsObjects == 0..2

Uint8 == 0..255
Increased(n) == (n + 1) % 256
DecreasedUnsigned(n) == n - 1  \* mutant
Decreased(n) == (n + 255) % 256

In(S) == {r \in Requests : handler[r] \in S}
Moves(r, step) == handler' = [handler EXCEPT ![r] = step]

Init ==
  /\ handler = [r \in Requests |-> "new"]
  /\ host = NoRequest
  /\ clients = {}
  /\ active = [m \in MetricsObjects |-> 0]
  /\ current = 0
  /\ deferred = [r \in Requests |-> 0]
  /\ starter = "new"
  /\ closer = "idle"
  /\ cancelled = FALSE
  /\ httpClosed = FALSE
  /\ limit = TotalConnections
  /\ keepHosting = KeepHosting
-----------------------------------------------------------------------------
(* wsHandler *)

Listening == starter = "listening" /\ ~ httpClosed

\* net/http accepts a connection; its handler begins when the request has been
\* read, which may be after ListenAndServe has returned, or after Close.
ConnectionAccepted(r) ==
  /\ handler[r] = "new"
  /\ Listening
  /\ Moves(r, "accepted")
  /\ UNCHANGED <<host, clients, active, deferred, serverVars>>

\* The host slot is looked at here and taken when the upgrade has succeeded.
BecomesHost(r) == host = NoRequest /\ r \in Loopback

WsHandler(r) ==
  /\ handler[r] = "accepted"
  /\ Moves(r, IF BecomesHost(r) THEN "hostAccept" ELSE "checkLimit")
  /\ UNCHANGED <<host, clients, active, deferred, serverVars>>

\* A failed upgrade goes straight to the deferred setHost(nil).
AcceptHost(r) ==
  /\ handler[r] = "hostAccept"
  /\ Moves(r, "setHost") \/ Moves(r, "clearHost")
  /\ UNCHANGED <<host, clients, active, deferred, serverVars>>

SetHost(r) ==
  /\ handler[r] = "setHost"
  /\ host' = r
  /\ Moves(r, "hosting")
  /\ UNCHANGED <<clients, active, deferred, serverVars>>

\* hostHandler returns: no host is set any more, the connection it reads has
\* failed, or the context is done.
HostLeaves(r) ==
  /\ handler[r] = "hosting"
  /\ Moves(r, "clearHost")
  /\ UNCHANGED <<host, clients, active, deferred, serverVars>>

ClearHost(r) ==
  /\ handler[r] = "clearHost"
  /\ host' = NoRequest
  /\ Moves(r, "hostDone")
  /\ UNCHANGED <<clients, active, deferred, serverVars>>

\* The first half of upgradeRequest, in eight bits.
MayConnect == Increased(active[current]) <= limit

CheckLimit(r) ==
  /\ handler[r] = "checkLimit"
  /\ Moves(r, IF MayConnect THEN "reserve" ELSE "refused")
  /\ UNCHANGED <<host, clients, active, deferred, serverVars>>

Reserve(r) ==
  /\ handler[r] = "reserve"
  /\ active' = [active EXCEPT ![current] = Increased(@)]
  /\ Moves(r, "accept")
  /\ UNCHANGED <<host, clients, deferred, serverVars>>

AcceptClient(r) ==
  /\ handler[r] = "accept"
  /\ Moves(r, "count") \/ Moves(r, "unreserve")
  /\ UNCHANGED <<host, clients, active, deferred, serverVars>>

Unreserve(r) ==
  /\ handler[r] = "unreserve"
  /\ active' = [active EXCEPT ![current] = Decreased(@)]
  /\ Moves(r, "failed")
  /\ UNCHANGED <<host, clients, deferred, serverVars>>

\* Back in wsHandler the client is counted once more ...
Count(r) ==
  /\ handler[r] = "count"
  /\ active' = [active EXCEPT ![current] = Increased(@)]
  /\ Moves(r, "defer")
  /\ UNCHANGED <<host, clients, deferred, serverVars>>

\* ... and the defer statement takes hold of whatever s.metrics is by now.
Defer(r) ==
  /\ handler[r] = "defer"
  /\ deferred' = [deferred EXCEPT ![r] = current]
  /\ Moves(r, "register")
  /\ UNCHANGED <<host, clients, active, serverVars>>

AddClient(r) ==
  /\ handler[r] = "register"
  /\ clients' = clients \cup {r}
  /\ Moves(r, "serving")
  /\ UNCHANGED <<host, active, deferred, serverVars>>

LeavesEntry(r) ==  \* mutant
  /\ handler[r] = "serving"
  /\ Moves(r, "uncount")
  /\ UNCHANGED <<host, clients, active, deferred, serverVars>>

\* clientHandler returns, for the reasons hostHandler does, and takes its entry
\* out of the table.
RemoveClient(r) ==
  /\ handler[r] = "serving"
  /\ clients' = clients \ {r}
  /\ Moves(r, "uncount")
  /\ UNCHANGED <<host, active, deferred, serverVars>>

Uncount(r) ==
  /\ handler[r] = "uncount"
  /\ active' = [active EXCEPT ![deferred[r]] = Decreased(@)]
  /\ Moves(r, "clientDone")
  /\ UNCHANGED <<host, clients, deferred, serverVars>>
-----------------------------------------------------------------------------
(* Start and Close *)

\* close(): both tables are emptied and the metrics start anew.
CloseSession ==
  /\ cancelled' = TRUE
  /\ host' = NoRequest
  /\ clients' = {}
  /\ current' = current + 1

Start ==
  /\ starter = "new"
  /\ starter' = "check"
  /\ UNCHANGED <<handlerVars, current, closer, cancelled, httpClosed, limit, keepHosting>>

StartChecks ==
  /\ starter = "check"
  /\ starter' = IF cancelled THEN "closing" ELSE "listening"
  /\ UNCHANGED <<handlerVars, current, closer, cancelled, httpClosed, limit, keepHosting>>

\* ListenAndServe fails by itself or because the server was closed; the end of
\* the context alone does not end it.
ListenReturns ==
  /\ starter = "listening"
  /\ starter' = IF keepHosting THEN "sleep" ELSE "closing"
  /\ UNCHANGED <<handlerVars, current, closer, cancelled, httpClosed, limit, keepHosting>>

RetryListening ==
  /\ starter = "sleep"
  /\ starter' = "check"
  /\ UNCHANGED <<handlerVars, current, closer, cancelled, httpClosed, limit, keepHosting>>

\* The deferred close of Start.
StartReturns ==
  /\ starter = "closing"
  /\ starter' = "returned"
  /\ CloseSession
  /\ UNCHANGED <<handler, active, deferred, closer, httpClosed, limit, keepHosting>>

CallerCancels ==
  /\ starter # "new"
  /\ ~ cancelled
  /\ cancelled' = TRUE
  /\ UNCHANGED <<handlerVars, current, starter, closer, httpClosed, limit, keepHosting>>

CloseResets ==
  /\ closer = "idle"
  /\ starter # "new"
  /\ closer' = "stopping"
  /\ CloseSession
  /\ UNCHANGED <<handler, active, deferred, starter, httpClosed, limit, keepHosting>>

CloseForgetsHTTP ==  \* mutant
  /\ closer = "stopping"
  /\ closer' = "returned"
  /\ limit' = 0
  /\ keepHosting' = FALSE
  /\ UNCHANGED <<handlerVars, current, starter, cancelled, httpClosed>>

\* The second critical section of Close.
CloseStopsHTTP ==
  /\ closer = "stopping"
  /\ closer' = "returned"
  /\ limit' = 0
  /\ keepHosting' = FALSE
  /\ httpClosed' = TRUE
  /\ UNCHANGED <<handlerVars, current, starter, cancelled>>
-----------------------------------------------------------------------------
Accepting(r) == AcceptHost(r) \/ AcceptClient(r)

Leaving(r) == HostLeaves(r) \/ RemoveClient(r)

\* What a handler does by itself.
HandlerStep(r) ==
  \/ SetHost(r) \/ ClearHost(r)
  \/ CheckLimit(r) \/ Reserve(r) \/ Unreserve(r)
  \/ Count(r) \/ Defer(r) \/ AddClient(r) \/ Uncount(r)

Next ==
  \/ \E r \in Requests :
       ConnectionAccepted(r) \/ WsHandler(r) \/ Accepting(r) \/ Leaving(r) \/ HandlerStep(r)
  \/ Start \/ StartChecks \/ ListenReturns \/ RetryListening \/ StartReturns
  \/ CallerCancels \/ CloseResets \/ CloseStopsHTTP

Spec == Init /\ [][Next]_vars

\* Handlers that have begun run, an upgrade ends one way or the other, reads and writes end
\* when their context does, and ListenAndServe when its server is closed.
Fairness ==
  /\ \A r \in Requests :
       /\ WF_vars(HandlerStep(r)) /\ WF_vars(Accepting(r))
       /\ WF_vars(cancelled /\ Leaving(r))
  /\ WF_vars(StartChecks) /\ WF_vars(RetryListening) /\ WF_vars(StartReturns)
  /\ WF_vars(httpClosed /\ ListenReturns)
  /\ WF_vars(CloseStopsHTTP)

FairSpec == Spec /\ Fairness
-----------------------------------------------------------------------------
(* Properties *)

\* Every variable has its type; the counters stay in eight bits through the
\* decreases that outlive the metrics object they were counted in.
TypeOK ==
  /\ handler \in [Requests -> HandlerSteps]
  /\ host \in Requests \cup {NoRequest}
  /\ clients \subseteq Requests
  /\ active \in [MetricsObjects -> Uint8]
  /\ current \in MetricsObjects
  /\ deferred \in [Requests -> MetricsObjects]
  /\ starter \in {"new", "check", "listening", "sleep", "closing", "returned"}
  /\ closer \in {"idle", "stopping", "returned"}
  /\ cancelled \in BOOLEAN /\ httpClosed \in BOOLEAN /\ keepHosting \in BOOLEAN
  /\ limit \in {0, TotalConnections}

\* Whoever is in the host slot or in the table has a handler at work, also when
\* it registers after close() has emptied both: nothing is sent to, or kept
\* for, a connection nobody reads.  And a host at work keeps the slot until the
\* server closes, unless another loopback request found the slot empty as well.
RegisteredAreServed ==
  /\ host # NoRequest => handler[host] \in {"hosting", "clearHost"}
  /\ clients \subseteq In({"serving"})
  /\ \A r \in In({"hosting"}) :
       current = 0 /\ In(HostSteps \cup {"hostDone"}) = {r} => host = r

\* What the counter counts, until s.metrics is first replaced: a client once
\* while it is upgraded, twice while it is served, and once for ever after.  It
\* describes the code and is nothing the code means: line 48 names the counter
\* active_connections, and line 260 prints it as the current number of clients.
ActiveAccounting ==
  current = 0 =>
    active[0] = (  Cardinality(In({"accept", "unreserve", "count", "clientDone"}))
                 + 2 * Cardinality(In({"defer", "register", "serving", "uncount"})) ) % 256

\* Close ends everything: Start returns, also when it is told to keep hosting,
\* and every handler that has begun finishes.
CloseStopsAll ==
  closer = "returned" ~>
    starter = "returned" /\ \A r \in Requests : handler[r] \in Finished \cup NotBegun

\* "Should respect connection limit" (socket_test.go:345): no more than
\* TotalConnections clients are connected.
ClientsWithinLimit == Cardinality(clients) <= TotalConnections
=============================================================================
