------------------------- MODULE SocketServerProofs -------------------------
(***************************************************************************)
(* Theorems of SocketServer, for any requests, limit and KeepHosting.      *)
(***************************************************************************)
EXTENDS SocketServer, FiniteSetTheorems, TLAPS

\* s.metrics has been replaced once for Start's return and once for Close.
CurrentCountsCloses ==
  current = (IF starter = "returned" THEN 1 ELSE 0) + (IF closer = "idle" THEN 0 ELSE 1)

IInv ==
  /\ TypeOK
  /\ CurrentCountsCloses
  /\ RegisteredAreServed

\* The inductive invariant holds initially.
LEMMA InitInv == Init => IInv
<1> SUFFICES ASSUME Init PROVE IInv
  OBVIOUS
<1> USE SocketAssumption DEF Init, In, HostSteps, ClientSteps, Finished, NotBegun, HandlerSteps
<1>1. cancelled \in BOOLEAN /\ httpClosed \in BOOLEAN /\ keepHosting \in BOOLEAN
  BY Zenon
<1>2. TypeOK
  BY <1>1 DEF TypeOK, Uint8, MetricsObjects
<1>3. CurrentCountsCloses
  BY DEF CurrentCountsCloses
<1>4. RegisteredAreServed
  BY DEF RegisteredAreServed
<1> QED
  BY <1>2, <1>3, <1>4 DEF IInv

\* Every counter keeps its eight bits.
LEMMA CountersWrap ==
  \A n \in Uint8 : Increased(n) \in Uint8 /\ Decreased(n) \in Uint8
  BY DEF Uint8, Increased, Decreased

\* Every step preserves it.
LEMMA NextInv == IInv /\ [Next]_vars => IInv'
<1> SUFFICES ASSUME IInv, [Next]_vars PROVE IInv'
  OBVIOUS
<1> USE SocketAssumption
    DEF IInv, TypeOK, CurrentCountsCloses, RegisteredAreServed, In, Moves,
        HostSteps, ClientSteps, Finished, NotBegun, HandlerSteps, MetricsObjects, handlerVars,
        serverVars
<1>1. ASSUME NEW r \in Requests, ConnectionAccepted(r) \/ WsHandler(r) PROVE IInv'
  BY <1>1 DEF ConnectionAccepted, WsHandler
<1>2. ASSUME NEW r \in Requests, Accepting(r) PROVE IInv'
  BY <1>2 DEF Accepting, AcceptHost, AcceptClient
<1>3. ASSUME NEW r \in Requests, SetHost(r) \/ ClearHost(r) PROVE IInv'
  BY <1>3 DEF SetHost, ClearHost
<1>4. ASSUME NEW r \in Requests, HostLeaves(r) PROVE IInv'
  BY <1>4 DEF HostLeaves
<1>5. ASSUME NEW r \in Requests, CheckLimit(r) \/ Defer(r) PROVE IInv'
  BY <1>5 DEF CheckLimit, Defer
<1>6. ASSUME NEW r \in Requests, Reserve(r) \/ Unreserve(r) \/ Count(r) \/ Uncount(r)
      PROVE  IInv'
  BY <1>6, CountersWrap DEF Reserve, Unreserve, Count, Uncount
<1>7. ASSUME NEW r \in Requests, AddClient(r) \/ RemoveClient(r) PROVE IInv'
  <2>1. CASE AddClient(r)
    BY <2>1 DEF AddClient
  <2>2. CASE RemoveClient(r)
    BY <2>2 DEF RemoveClient
  <2> QED
    BY <1>7, <2>1, <2>2
<1>8. CASE Start \/ StartChecks \/ ListenReturns \/ RetryListening
  BY <1>8 DEF Start, StartChecks, ListenReturns, RetryListening
<1>9. CASE StartReturns
  BY <1>9 DEF StartReturns, CloseSession
<1>10. CASE CallerCancels
  BY <1>10 DEF CallerCancels
<1>11. CASE CloseResets
  BY <1>11 DEF CloseResets, CloseSession
<1>12. CASE CloseStopsHTTP
  BY <1>12 DEF CloseStopsHTTP
<1>13. CASE UNCHANGED vars
  BY <1>13 DEF vars
<1> QED
  BY <1>1, <1>2, <1>3, <1>4, <1>5, <1>6, <1>7, <1>8, <1>9, <1>10, <1>11, <1>12, <1>13
  DEF Next, Leaving, HandlerStep

\* Every reachable state satisfies the inductive invariant.
LEMMA Invariance == Spec => []IInv
  BY InitInv, NextInv, PTL DEF Spec

\* The types, and with them the eight bits of every counter, hold in every
\* reachable state.
THEOREM TypeCorrect == Spec => []TypeOK
  BY Invariance, PTL DEF IInv

\* However handlers, Start and Close interleave, the host slot and the client
\* table name only requests whose handler is at work, and a host that shares
\* the loopback address with nobody keeps its slot, whoever comes and goes.
THEOREM NobodyIsLeftRegistered == Spec => []RegisteredAreServed
  BY Invariance, PTL DEF IInv
-----------------------------------------------------------------------------
(* The connection counter. *)

\* A handler is deferred to decrease a counter that is, or has been, current.
DeferredNotAhead == \A r \in Requests : deferred[r] <= current

\* When a handler moves, the handlers at S change by that one.
LEMMA InMoves ==
  ASSUME handler \in [Requests -> HandlerSteps],
         NEW r \in Requests, NEW step, Moves(r, step), NEW S
  PROVE  /\ Cardinality(In(S)) \in Nat /\ Cardinality(In(S)') \in Nat
         /\ Cardinality(In(S)') = Cardinality(In(S))
              - (IF handler[r] \in S THEN 1 ELSE 0) + (IF step \in S THEN 1 ELSE 0)
         /\ handler[r] \in S => Cardinality(In(S)) > 0
<1>1. IsFiniteSet(In(S)) /\ IsFiniteSet(In(S)')
  BY SocketAssumption, FS_Subset DEF In
<1>2. r \in In(S) <=> handler[r] \in S
  BY DEF In
<1>3. In(S)' = IF step \in S THEN In(S) \cup {r} ELSE In(S) \ {r}
  BY DEF In, Moves
<1>4. Cardinality(In(S)) \in Nat /\ Cardinality(In(S)') \in Nat
  BY <1>1, FS_CardinalityType
<1>5. r \in In(S) => Cardinality(In(S)) > 0
  BY <1>1, <1>4, FS_EmptySet
<1>6. Cardinality(In(S) \cup {r}) = Cardinality(In(S)) + (IF r \in In(S) THEN 0 ELSE 1)
  <2>1. CASE r \in In(S)
    <3>1. In(S) \cup {r} = In(S)
      BY <2>1
    <3>2. QED
      BY <2>1, <3>1, <1>4
  <2>2. CASE r \notin In(S)
    BY <2>2, <1>1, FS_AddElement
  <2>3. QED
    BY <2>1, <2>2
<1>7. Cardinality(In(S) \ {r}) = Cardinality(In(S)) - (IF r \in In(S) THEN 1 ELSE 0)
  <2>1. CASE r \in In(S)
    BY <2>1, <1>1, FS_RemoveElement
  <2>2. CASE r \notin In(S)
    <3>1. In(S) \ {r} = In(S)
      BY <2>2
    <3>2. QED
      BY <2>2, <3>1, <1>4
  <2>3. QED
    BY <2>1, <2>2
<1>8. QED
  BY <1>2, <1>3, <1>4, <1>5, <1>6, <1>7

\* The two classes of handlers that ActiveAccounting counts, and its sum.
Once == {"accept", "unreserve", "count", "clientDone"}
Twice == {"defer", "register", "serving", "uncount"}
Sum == Cardinality(In(Once)) + 2 * Cardinality(In(Twice))

\* Adding to a number and taking away from it go on in eight bits.
LEMMA Wraps ==
  ASSUME NEW n \in Nat
  PROVE  /\ Increased(n % 256) = (n + 1) % 256
         /\ n > 0 => Decreased(n % 256) = (n - 1) % 256
BY DEF Increased, Decreased

\* As long as s.metrics is the first object, the counter that is printed as the
\* current number of clients, and compared with the limit, drifts: it is what
\* the positions of the handlers say, with each client that has gone counted for
\* ever, whoever fails, leaves or is refused at whatever moment.
THEOREM CounterDrifts == Spec => []ActiveAccounting
<1> DEFINE CInv == DeferredNotAhead /\ ActiveAccounting
<1>1. Init => CInv
  <2> SUFFICES ASSUME Init PROVE CInv
    OBVIOUS
  <2>1. In(Once) = {} /\ In(Twice) = {}
    BY DEF Init, In, Once, Twice
  <2>2. Sum = 0
    BY <2>1, FS_EmptySet DEF Sum
  <2>3. ActiveAccounting
    BY <2>2 DEF Init, ActiveAccounting, MetricsObjects, Sum, Once, Twice
  <2>4. DeferredNotAhead
    BY DEF Init, DeferredNotAhead
  <2>5. QED
    BY <2>3, <2>4
<1>2. TypeOK /\ CInv /\ [Next]_vars => CInv'
  <2> SUFFICES ASSUME TypeOK, CInv, [Next]_vars PROVE CInv'
    OBVIOUS
  <2> USE DEF handlerVars, serverVars
  <2>1. ASSUME current' = current + 1, UNCHANGED deferred PROVE CInv'
    <3>1. DeferredNotAhead'
      BY <2>1 DEF TypeOK, DeferredNotAhead, MetricsObjects
    <3>2. ActiveAccounting'
      BY <2>1 DEF TypeOK, ActiveAccounting, MetricsObjects
    <3>3. QED
      BY <3>1, <3>2
  <2>2. ASSUME UNCHANGED <<handler, active, deferred, current>> PROVE CInv'
    BY <2>2 DEF DeferredNotAhead, ActiveAccounting, In
  <2>3. ASSUME NEW r \in Requests, NEW step \in HandlerSteps, Moves(r, step),
               UNCHANGED current,
               \A q \in Requests : deferred'[q] <= current,
               current = 0 => active'[0] = Sum' % 256
        PROVE  CInv'
    BY <2>3 DEF DeferredNotAhead, ActiveAccounting, Sum, Once, Twice
  <2>4. current = 0 => active[0] = Sum % 256
    BY DEF ActiveAccounting, Sum, Once, Twice
  <2>5. ASSUME NEW r \in Requests, NEW step \in HandlerSteps, Moves(r, step)
        PROVE  /\ Sum \in Nat /\ Sum' \in Nat
               /\ Sum' = Sum - (IF handler[r] \in Once THEN 1 ELSE 0)
                          - (IF handler[r] \in Twice THEN 2 ELSE 0)
                          + (IF step \in Once THEN 1 ELSE 0)
                          + (IF step \in Twice THEN 2 ELSE 0)
               /\ handler[r] \in Once => Sum > 0
               /\ handler[r] \in Twice => Sum > 1
    <3>1. handler \in [Requests -> HandlerSteps]
      BY DEF TypeOK
    <3>2. /\ Cardinality(In(Once)) \in Nat /\ Cardinality(In(Once)') \in Nat
          /\ Cardinality(In(Once)') = Cardinality(In(Once))
               - (IF handler[r] \in Once THEN 1 ELSE 0) + (IF step \in Once THEN 1 ELSE 0)
          /\ handler[r] \in Once => Cardinality(In(Once)) > 0
      BY <3>1, <2>5, InMoves
    <3>3. /\ Cardinality(In(Twice)) \in Nat /\ Cardinality(In(Twice)') \in Nat
          /\ Cardinality(In(Twice)') = Cardinality(In(Twice))
               - (IF handler[r] \in Twice THEN 1 ELSE 0) + (IF step \in Twice THEN 1 ELSE 0)
          /\ handler[r] \in Twice => Cardinality(In(Twice)) > 0
      BY <3>1, <2>5, InMoves
    <3>4. Sum' = Cardinality(In(Once)') + 2 * Cardinality(In(Twice)')
      BY DEF Sum, Once, Twice
    <3>5. QED
      BY <3>2, <3>3, <3>4 DEF Sum
  \* A move within a class, or outside of both.
  <2>6. ASSUME NEW r \in Requests, NEW step \in HandlerSteps, Moves(r, step),
               UNCHANGED <<active, current>>,
               \A q \in Requests : deferred'[q] <= current,
               handler[r] \in Once <=> step \in Once,
               handler[r] \in Twice <=> step \in Twice
        PROVE  CInv'
    <3>1. Sum' = Sum
      BY <2>5, <2>6
    <3>2. QED
      BY <2>3, <2>4, <2>6, <3>1
  <2>7. \A r \in Requests : deferred[r] <= current /\ current <= current
    BY DEF DeferredNotAhead, TypeOK, MetricsObjects
  <2> USE DEF Once, Twice, HandlerSteps, HostSteps, ClientSteps, Finished, NotBegun
  <2>8. ASSUME NEW r \in Requests, ConnectionAccepted(r) \/ WsHandler(r) PROVE CInv'
    BY <2>6, <2>7, <2>8 DEF ConnectionAccepted, WsHandler
  <2>9. ASSUME NEW r \in Requests, AcceptHost(r) \/ AcceptClient(r) PROVE CInv'
    BY <2>6, <2>7, <2>9 DEF AcceptHost, AcceptClient
  <2>10. ASSUME NEW r \in Requests, HostLeaves(r) \/ SetHost(r) \/ ClearHost(r) PROVE CInv'
    BY <2>6, <2>7, <2>10 DEF HostLeaves, SetHost, ClearHost
  <2>11. ASSUME NEW r \in Requests, CheckLimit(r) \/ AddClient(r) \/ RemoveClient(r)
         PROVE  CInv'
    BY <2>6, <2>7, <2>11 DEF CheckLimit, AddClient, RemoveClient
  <2>12. ASSUME NEW r \in Requests, Defer(r) PROVE CInv'
    <3>1. \A q \in Requests : deferred'[q] <= current
      BY <2>7, <2>12 DEF Defer, TypeOK
    <3>2. QED
      BY <2>6, <2>12, <3>1 DEF Defer
  <2>13. ASSUME NEW r \in Requests, Reserve(r) \/ Count(r) PROVE CInv'
    <3>1. PICK step \in {"accept", "defer"} :
            /\ Moves(r, step) /\ UNCHANGED <<deferred, current>>
            /\ active' = [active EXCEPT ![current] = Increased(@)]
            /\ handler[r] = IF step = "accept" THEN "reserve" ELSE "count"
      BY <2>13 DEF Reserve, Count
    <3>2. Sum \in Nat /\ Sum' = Sum + 1
      BY <2>5, <3>1
    <3>3. current = 0 => active'[0] = Sum' % 256
      BY <2>4, <3>1, <3>2, Wraps DEF TypeOK, MetricsObjects
    <3>4. QED
      BY <2>3, <2>7, <3>1, <3>3
  <2>14. ASSUME NEW r \in Requests, Unreserve(r) \/ Uncount(r) PROVE CInv'
    <3>1. PICK step \in {"failed", "clientDone"} : \E m \in MetricsObjects :
            /\ Moves(r, step) /\ UNCHANGED <<deferred, current>>
            /\ current = 0 => m = 0
            /\ active' = [active EXCEPT ![m] = Decreased(@)]
            /\ handler[r] = IF step = "failed" THEN "unreserve" ELSE "uncount"
      BY <2>7, <2>14 DEF Unreserve, Uncount, TypeOK, MetricsObjects
    <3>2. Sum \in Nat /\ Sum > 0 /\ Sum' = Sum - 1
      BY <2>5, <3>1
    <3>3. current = 0 => active'[0] = Sum' % 256
      BY <2>4, <3>1, <3>2, Wraps DEF TypeOK, MetricsObjects
    <3>4. QED
      BY <2>3, <2>7, <3>1, <3>3
  <2>15. CASE Start \/ StartChecks \/ ListenReturns \/ RetryListening \/ CallerCancels
              \/ CloseStopsHTTP \/ UNCHANGED vars
    BY <2>2, <2>15
    DEF Start, StartChecks, ListenReturns, RetryListening, CallerCancels, CloseStopsHTTP, vars
  <2>16. CASE StartReturns \/ CloseResets
    BY <2>1, <2>16 DEF StartReturns, CloseResets, CloseSession, TypeOK, MetricsObjects
  <2>17. QED
    BY <2>8, <2>9, <2>10, <2>11, <2>12, <2>13, <2>14, <2>15, <2>16
    DEF Next, Accepting, Leaving, HandlerStep
<1>3. QED
  BY <1>1, <1>2, TypeCorrect, PTL DEF Spec
=============================================================================
