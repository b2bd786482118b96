--------------------------- MODULE WebrtcHostProofs ---------------------------
(***************************************************************************)
(* Proofs about WebrtcHost, for any ids and any number of sessions and     *)
(* callbacks.  The inductive invariant says what the table and the lock    *)
(* keep between steps:                                                     *)
(*  - TableInv: a registered session has the id it was made for and an open*)
(*    channel, and no other session has one;                               *)
(*  - WriterInv: while a broadcast holds the read lock, the ids it has left*)
(*    and the session it is about to send to stay registered.              *)
(* The second holds because whatever takes a session from the table needs  *)
(* the lock for writing, hence an idle writer.                             *)
(***************************************************************************)
EXTENDS WebrtcHost, FiniteSetTheorems, TLAPS

TableInv ==
  /\ \A id \in Ids : clients[id] # 0 =>
       owner[clients[id]] = id /\ channel[clients[id]] = "open"
  /\ \A s \in Sessions : channel[s] = "open" =>
       s \in 1..created /\ clients[owner[s]] = s
  /\ \A s \in Sessions : s > created => channel[s] = "none" /\ peer[s] = "new"

WriterInv ==
  /\ writer = "idle" => left = {}
  /\ \A id \in left : clients[id] # 0
  /\ writer = "send" => target \in Registered

(* The cleanup starts once.                                                 *)
CleanupInv == pc["connect"] \in {"setSession", "start"} => cleanup = "none"

IInv == TypeOK /\ TableInv /\ WriterInv /\ CleanupInv /\ OnlyParameterSetsPanic

-----------------------------------------------------------------------------
LEMMA SetsAreApart ==
  /\ \A id \in Ids : id \notin Closers /\ id \notin {"cleanup", "none"}
  /\ "none" \notin Lockers
BY WebrtcAssumption DEF Closers, Lockers

LEMMA SessionsNat ==
  /\ MaxSessions \in Nat /\ MaxConnected \in Nat
  /\ Sessions \subseteq Nat \ {0} /\ Callbacks \subseteq Nat \ {0}
BY WebrtcAssumption DEF Sessions, Callbacks

(* Registered sessions are finitely many, so the cleanup counts them.       *)
LEMMA ExpiredFinite ==
  ASSUME TypeOK, NEW S \in SUBSET Registered
  PROVE  IsFiniteSet(S) /\ Cardinality(S) \in Nat /\ S \subseteq 1..created
<1>1. Registered \subseteq 1..created
  BY SessionsNat DEF TypeOK, Registered
<1>2. IsFiniteSet(1..created)
  BY SessionsNat, FS_Interval DEF TypeOK
<1>3. QED
  BY <1>1, <1>2, FS_Subset, FS_CardinalityType

LEMMA DecreasedType ==
  ASSUME NEW n \in Uint8, NEW by \in Nat
  PROVE  Decreased(n, by) \in Uint8
BY DEF Decreased, Uint8

(* The inductive invariant holds initially.                                 *)
LEMMA InitInv == Init => IInv
<1> SUFFICES ASSUME Init PROVE IInv
  OBVIOUS
<1> USE DEF Init
<1>1. cancelled \in BOOLEAN /\ httpClosed \in BOOLEAN /\ up \in [Sessions -> BOOLEAN]
  BY Zenon
<1>2. TypeOK
  BY <1>1, SessionsNat
  DEF TypeOK, Closers, Sessions, Callbacks, ConnectSteps, PeerStates, Uint8
<1>3. TableInv /\ WriterInv /\ CleanupInv /\ OnlyParameterSetsPanic
  BY DEF TableInv, WriterInv, CleanupInv, OnlyParameterSetsPanic
<1>4. QED
  BY <1>2, <1>3 DEF IInv

(* Every step preserves it.                                                 *)
LEMMA NextInv == IInv /\ [Next]_vars => IInv'
<1> SUFFICES ASSUME IInv, [Next]_vars PROVE IInv'
  OBVIOUS
<1> USE SetsAreApart, SessionsNat
    DEF IInv, TypeOK, TableInv, WriterInv, CleanupInv, OnlyParameterSetsPanic, hostVars, tableVars, peerVars,
        callbackVars, writerVars, WantsLock, Locked, Closers, Lockers, ConnectSteps, PeerStates
<1>1. ASSUME NEW p \in Lockers, Announce(p) PROVE IInv'
  BY <1>1 DEF Announce, Registered
<1>2. ASSUME NEW p \in Closers, BeginClose(p) PROVE IInv'
  BY <1>2 DEF BeginClose, Moves, OnlyMoves, HasSession, Registered
<1>3. ASSUME NEW p \in Closers, CloseSessions(p) PROVE IInv'
  BY <1>3 DEF CloseSessions, CloseAll, Moves, Registered
<1>4. ASSUME NEW p \in Closers, CloseReturns(p) PROVE IInv'
  BY <1>4 DEF CloseReturns, Moves, OnlyMoves, Registered
<1>5. CASE SetSession \/ StartServing \/ ServingEnds \/ CallerCancels
  <2>1. cancelled' \in BOOLEAN
    BY <1>5, Zenon DEF SetSession, StartServing, ServingEnds, CallerCancels, OnlyMoves
  <2>2. QED
    BY <1>5, <2>1
    DEF SetSession, StartServing, ServingEnds, CallerCancels, Moves, OnlyMoves, Registered
<1>6. ASSUME NEW id \in Ids, RequestHandler(id) PROVE IInv'
  BY <1>6 DEF RequestHandler, Registered
<1>7. ASSUME NEW id \in Ids, GetOrCreateSession(id) PROVE IInv'
  <2>1. CASE NewSession(id)
    BY <1>7, <2>1, SMTT(20) DEF GetOrCreateSession, NewSession, Registered, Sessions
  <2>2. CASE NoNewSession
    BY <1>7, <2>2 DEF GetOrCreateSession, NoNewSession, Registered
  <2>3. QED
    BY <1>7, <2>1, <2>2 DEF GetOrCreateSession
<1>8. ASSUME NEW id \in Ids, HandleAnswerResponse(id) PROVE IInv'
  BY <1>8, SMTT(20) DEF HandleAnswerResponse, Registered, Sessions
<1>9. ASSUME NEW s \in Sessions, HandleOfferRequest(s) \/ LosesConnection(s) PROVE IInv'
  BY <1>9 DEF HandleOfferRequest, LosesConnection, Registered
<1>10. ASSUME NEW s \in Sessions, CountLost(s) PROVE IInv'
  <2>1. up' \in [Sessions -> BOOLEAN]
    BY <1>10, Zenon DEF CountLost
  <2>2. active' \in Uint8
    BY <1>10, DecreasedType DEF CountLost
  <2>3. QED
    BY <1>10, <2>1, <2>2 DEF CountLost, Registered
<1>11. ASSUME NEW s \in Sessions, NEW c \in Callbacks, Connects(s, c) PROVE IInv'
  <2>1. s <= created
    BY <1>11 DEF Connects
  <2>2. about[c] \in 0..created /\ callback[c] = "none"
    BY <1>11 DEF Connects, FirstFree
  <2>3. TypeOK'
    <3>1. /\ peer' \in [Sessions -> PeerStates]
          /\ callback' = [callback EXCEPT ![c] = "count"]
          /\ about' = [about EXCEPT ![c] = s] /\ s \in 0..created /\ s # 0
      BY <1>11, <2>1 DEF Connects, Sessions, PeerStates
    <3>2. UNCHANGED <<hostVars, pending, request, tableVars, up, downs, active, to, writerVars, crashed>>
      BY <1>11 DEF Connects
    <3>3. QED
      BY <2>2, <3>1, <3>2, SMTT(20)
  <2>4. TableInv' /\ WriterInv' /\ CleanupInv' /\ OnlyParameterSetsPanic'
    BY <1>11, <2>1 DEF Connects, Registered
  <2>5. QED
    BY <2>3, <2>4
<1>12. ASSUME NEW c \in Callbacks, CountConnected(c) PROVE IInv'
  <2>1. up' \in [Sessions -> BOOLEAN]
    BY <1>12, Zenon DEF CountConnected
  <2>2. active' \in Uint8
    BY <1>12 DEF CountConnected, Uint8
  <2>3. QED
    BY <1>12, <2>1, <2>2 DEF CountConnected, Registered
<1>13. ASSUME NEW c \in Callbacks, FindSession(c) PROVE IInv'
  BY <1>13 DEF FindSession, Found, Registered
<1>14. ASSUME NEW c \in Callbacks, SendParameterSets(c) PROVE IInv'
  BY <1>14 DEF SendParameterSets, Send, Registered
<1>15. ASSUME NEW c \in Callbacks, TimerTicks(c) \/ TimerStops(c) PROVE IInv'
  BY <1>15 DEF TimerTicks, TimerStops, Registered
<1>16. CASE WriteRTP
  BY <1>16 DEF WriteRTP, Registered
<1>17. ASSUME NEW id \in Ids, ProcessRTPPacket(id) PROVE IInv'
  BY <1>17 DEF ProcessRTPPacket, Registered
<1>18. CASE SendPacket
  BY <1>18 DEF SendPacket, Send, Registered
<1>19. CASE CleanupTicks \/ CleanupEnds
  BY <1>19 DEF CleanupTicks, CleanupEnds, Registered
<1>20. ASSUME NEW expired \in SUBSET Registered, CleanupExpiredClients(expired) PROVE IInv'
  <2>1. active' \in Uint8
    BY <1>20, DecreasedType, ExpiredFinite DEF CleanupExpiredClients
  <2>2. expired \subseteq 1..created
    BY <1>20, ExpiredFinite
  <2>3. TypeOK'
    BY <1>20, <2>1, <2>2 DEF CleanupExpiredClients, CloseAll
  <2>4. \A s \in expired : channel[s] = "open"
    BY <1>20 DEF Registered, CleanupExpiredClients
  <2>5. TableInv'
    <3>1. \A id \in Ids : clients'[id] # 0 =>
             clients'[id] = clients[id] /\ clients[id] \in Sessions \ expired
      BY <1>20 DEF CleanupExpiredClients, Sessions
    <3>2. \A s \in Sessions \ expired : channel'[s] = channel[s] /\ peer'[s] = peer[s]
      BY <1>20 DEF CleanupExpiredClients, CloseAll
    <3>3. \A s \in expired : channel'[s] = "closed"
      BY <1>20, <2>2 DEF CleanupExpiredClients, CloseAll, Sessions
    <3>4. \A s \in Sessions : channel'[s] = "open" =>
             s \notin expired /\ owner[s] \in Ids /\ clients[owner[s]] = s
      BY <3>2, <3>3
    <3>5. \A s \in Sessions : channel'[s] = "open" => clients'[owner[s]] = s
      BY <1>20, <3>4 DEF CleanupExpiredClients
    <3>6. owner' = owner /\ created' = created
      BY <1>20 DEF CleanupExpiredClients
    <3>7. QED
      BY <2>2, <3>1, <3>2, <3>4, <3>5, <3>6
  <2>6. WriterInv' /\ CleanupInv'
    BY <1>20 DEF CleanupExpiredClients
  <2>7. OnlyParameterSetsPanic'
    <3>1. ~ \E s \in expired : channel[s] = "closed"
      BY <2>4
    <3>2. crashed' = crashed
      BY <1>20, <3>1 DEF CleanupExpiredClients, CloseAll
    <3>3. QED
      BY <3>2
  <2>8. QED
    BY <2>3, <2>5, <2>6, <2>7
<1>21. CASE UNCHANGED vars
  BY <1>21, SMTT(20) DEF vars, Registered
<1> HIDE DEF IInv, TypeOK, TableInv, WriterInv, CleanupInv, OnlyParameterSetsPanic
<1>22. QED
  BY <1>1, <1>2, <1>3, <1>4, <1>5, <1>6, <1>7, <1>8, <1>9, <1>10, <1>11, <1>12, <1>13, <1>14,
     <1>15, <1>16, <1>17, <1>18, <1>19, <1>20, <1>21
  DEF Next, CloseStep, CallbackStep, WriterStep, CleanupStep

(* Every reachable state satisfies the inductive invariant.                 *)
LEMMA Invariance == Spec => []IInv
  BY InitInv, NextInv, PTL DEF Spec

(* The types hold, and the active counter stays in its eight bits though    *)
(* more connections may be discounted than were counted.                    *)
THEOREM TypeCorrect == Spec => []TypeOK
  BY Invariance, PTL DEF IInv

(* For any number of ids and sessions: the open channels are those of the   *)
(* registered sessions, whoever creates, expires and closes them.           *)
THEOREM TableOwnsOpenChannels == Spec => []OpenIffRegistered
<1>1. ASSUME IInv, NEW s \in Sessions
      PROVE  channel[s] = "open" <=> s \in Registered /\ clients[owner[s]] = s
  <2> USE <1>1 DEF IInv, TypeOK, TableInv
  <2>1. s # 0
    BY SessionsNat
  <2>2. CASE channel[s] = "open"
    <3>1. owner[s] \in Ids /\ clients[owner[s]] = s
      BY <2>2
    <3>2. QED
      BY <2>1, <2>2, <3>1 DEF Registered
  <2>3. ASSUME s \in Registered PROVE channel[s] = "open"
    BY <2>3 DEF Registered
  <2>4. QED
    BY <2>2, <2>3
<1>2. IInv => OpenIffRegistered
  BY <1>1 DEF OpenIffRegistered
<1>3. QED
  BY <1>2, Invariance, PTL

(* No broadcast sends to a closed channel, and no channel is closed twice.  *)
THEOREM BroadcastAndCloseAreSafe == Spec => []OnlyParameterSetsPanic
  BY Invariance, PTL DEF IInv

-----------------------------------------------------------------------------
(* The table implements StreamRegistry, as the stream table of the RTSP     *)
(* server does: an id has one session, a session one id, and one that was   *)
(* expired or closed is never found again, under whichever id.              *)
THEOREM ImplementsRegistry == Spec => RegistrySpec
<1> USE SetsAreApart, SessionsNat DEF IInv, TypeOK, TableInv, Sessions
<1>1. Init => Registry!Init
  BY DEF Init, Registry!Init
<1>2. IInv /\ [Next]_vars => [Registry!Next]_(Registry!vars)
  <2> SUFFICES ASSUME IInv, [Next]_vars PROVE [Registry!Next]_(Registry!vars)
    OBVIOUS
  <2>1. CASE UNCHANGED <<clients, channel>>
    BY <2>1 DEF Registry!vars
  \* Closing registered sessions and dropping them from the table withdraws them.
  <2>2. ASSUME NEW S \in SUBSET Registered, CloseAll(S),
               clients' = [id \in Ids |-> IF clients[id] \in S THEN 0 ELSE clients[id]]
        PROVE  [Registry!Next]_(Registry!vars)
    <3>1. S \in SUBSET Sessions
      BY DEF Registered
    <3>2. {s \in Sessions : channel'[s] = "closed"} =
            {s \in Sessions : channel[s] = "closed"} \cup S
      BY <2>2, <3>1 DEF CloseAll
    <3>3. \A s \in S : \E id \in Ids : clients[id] = s
      BY DEF Registered
    <3>4. CASE S = {}
      BY <2>2, <3>2, <3>4 DEF Registry!vars
    <3>5. CASE S # {}
      BY <2>2, <3>1, <3>2, <3>3, <3>5 DEF Registry!Withdraw, Registry!Next
    <3> QED
      BY <3>4, <3>5
  <2>3. ASSUME NEW p \in Closers, CloseSessions(p) PROVE [Registry!Next]_(Registry!vars)
    <3>1. \A id \in Ids : clients[id] \notin Registered => clients[id] = 0
      BY DEF Registered
    <3>2. clients' = [id \in Ids |-> IF clients[id] \in Registered THEN 0 ELSE clients[id]]
      BY <2>3, <3>1 DEF CloseSessions
    <3> QED
      BY <2>2, <2>3, <3>2 DEF CloseSessions
  <2>4. ASSUME NEW expired \in SUBSET Registered, CleanupExpiredClients(expired)
        PROVE  [Registry!Next]_(Registry!vars)
    BY <2>2, <2>4 DEF CleanupExpiredClients
  <2>5. ASSUME NEW id \in Ids, NewSession(id) PROVE [Registry!Next]_(Registry!vars)
    <3>1. PICK s \in Sessions : s = created + 1
      BY <2>5 DEF NewSession
    <3>2. channel[s] = "none" /\ \A q \in Ids : clients[q] # s
      BY <3>1
    <3>3. {t \in Sessions : channel'[t] = "closed"} = {t \in Sessions : channel[t] = "closed"}
      BY <2>5, <3>1, <3>2 DEF NewSession
    <3>4. Registry!Publish(id, s)
      BY <2>5, <3>1, <3>2, <3>3 DEF NewSession, Registry!Publish
    <3> QED
      BY <3>4 DEF Registry!Next
  <2> QED
    BY <2>1, <2>3, <2>4, <2>5
    DEF Next, CloseStep, CallbackStep, WriterStep, CleanupStep, Announce, BeginClose, CloseReturns,
        SetSession, StartServing, ServingEnds, CallerCancels, OnlyMoves, RequestHandler,
        GetOrCreateSession, NoNewSession, HandleAnswerResponse, HandleOfferRequest,
        LosesConnection, CountLost, Connects, CountConnected, FindSession, SendParameterSets,
        TimerTicks, TimerStops, WriteRTP, ProcessRTPPacket, SendPacket, CleanupTicks, CleanupEnds,
        tableVars, vars
<1> QED
  BY <1>1, <1>2, Invariance, PTL DEF Spec, RegistrySpec, Registry!Spec

-----------------------------------------------------------------------------
(* A broadcast that waits for its second read lock behind an announced Lock *)
(* waits for ever, for that Lock waits for the first one: nothing can be    *)
(* added to the table or expire any more, and a close that waits for the    *)
(* lock goes on waiting.                                                    *)
Waits(p) == Stuck /\ pc[p] = "lock"

LEMMA StuckStays ==
  ASSUME TypeOK, Stuck, [Next]_vars
  PROVE  /\ Stuck' /\ UNCHANGED <<clients, channel>>
         /\ \A p \in Closers : pc[p] = "lock" => pc'[p] = "lock"
<1> USE DEF Stuck, hostVars, tableVars, peerVars, callbackVars, writerVars, Locked
<1>1. pc \in [Closers -> ConnectSteps \cup {"idle"}]
  BY DEF TypeOK
<1>2. ASSUME NEW p \in Lockers, Announce(p) PROVE FALSE
  BY <1>2 DEF Announce
<1>3. ASSUME NEW p \in Closers, BeginClose(p) \/ CloseReturns(p)
      PROVE  /\ Stuck' /\ UNCHANGED <<clients, channel>>
             /\ \A q \in Closers : pc[q] = "lock" => pc'[q] = "lock"
  <2>1. PICK step : pc' = [pc EXCEPT ![p] = step]
    BY <1>3 DEF BeginClose, CloseReturns, Moves
  <2>2. pc[p] # "lock" /\ UNCHANGED <<writer, pending, clients, channel>>
    BY <1>3 DEF BeginClose, CloseReturns, OnlyMoves
  <2> QED
    BY <1>1, <2>1, <2>2
<1>4. CASE StartServing \/ ServingEnds
  <2>1. PICK step : pc' = [pc EXCEPT !["connect"] = step]
    BY <1>4 DEF StartServing, ServingEnds, Moves
  <2>2. pc["connect"] # "lock" /\ UNCHANGED <<writer, pending, clients, channel>>
    BY <1>4 DEF StartServing, ServingEnds, OnlyMoves
  <2> QED
    BY <1>1, <2>1, <2>2
<1>5. CASE UNCHANGED <<pc, writer, pending, clients, channel>>
  BY <1>5
<1>6. ASSUME \/ \E p \in Closers : CloseSessions(p)
             \/ \E id \in Ids : GetOrCreateSession(id) \/ ProcessRTPPacket(id)
             \/ \E id \in Ids : HandleAnswerResponse(id)
             \/ SetSession \/ CleanupStep \/ WriteRTP \/ SendPacket
      PROVE  UNCHANGED <<pc, writer, pending, clients, channel>>
  BY <1>6
  DEF CloseSessions, GetOrCreateSession, ProcessRTPPacket, SetSession, CleanupStep,
      CleanupExpiredClients, WriteRTP, SendPacket, MayRLock, HandleAnswerResponse
<1> QED
  BY <1>2, <1>3, <1>4, <1>5, <1>6
  DEF Next, CloseStep, CallbackStep, WriterStep, CallerCancels, OnlyMoves, RequestHandler,
      HandleOfferRequest, LosesConnection, CountLost, Connects, CountConnected, FindSession,
      SendParameterSets, TimerTicks, TimerStops, CleanupTicks, CleanupEnds, vars

THEOREM BroadcastDeadlock ==
  Spec => /\ [](Stuck => []Stuck)
          /\ [][Stuck => UNCHANGED <<clients, channel>>]_vars
          /\ \A p \in Closers : [](Waits(p) => []Waits(p))
<1>1. IInv /\ [Next]_vars => (Stuck => Stuck') /\ (Stuck => UNCHANGED <<clients, channel>>)
  BY StuckStays DEF IInv
<1>2. Spec => [](Stuck => []Stuck)
  BY <1>1, Invariance, PTL DEF Spec
<1>3. Spec => [][Stuck => UNCHANGED <<clients, channel>>]_vars
  BY <1>1, Invariance, PTL DEF Spec
<1>4. ASSUME NEW p \in Closers PROVE Spec => [](Waits(p) => []Waits(p))
  <2>1. IInv /\ [Next]_vars => (Waits(p) => Waits(p)')
    BY StuckStays DEF IInv, Waits
  <2> QED
    BY <2>1, Invariance, PTL DEF Spec
<1>5. Spec => \A p \in Closers : [](Waits(p) => []Waits(p))
  BY <1>4
<1> QED
  BY <1>2, <1>3, <1>5
=============================================================================
