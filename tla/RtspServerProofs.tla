-------------------------- MODULE RtspServerProofs --------------------------
(***************************************************************************)
(* Theorems of RtspServer, for any number of sessions and paths and any    *)
(* limits and timeouts.  All of them come from one inductive invariant,    *)
(* IInv, whose parts say what ties a session to the table entries, to the  *)
(* stream it reads and to the place in Close the server is at.             *)
(***************************************************************************)
EXTENDS RtspServer, FiniteSetTheorems, TLAPS

Alive(s) == session[s] \in {"open", "closing"}

\* A session that is not alive holds nothing, and before it lives it has
\* created no stream.
DeadHoldNothing ==
  \A s \in Sessions : ~ Alive(s) =>
    /\ role[s] = "initial"
    /\ path[s] = NoSession
    /\ setup[s] = NoSession
    /\ readerOf[s] = NoSession
    /\ recordTo[s] = NoSession
    /\ session[s] # "closed" => serverStream[s] = "none"

\* What gortsplib's state of a live session says about the rest; a clock is
\* read only within OnSetup.
RolesHold ==
  \A s \in Sessions :
    /\ role[s] # "initial" => path[s] \in Paths
    /\ setup[s] = NoSession => stamp[s] = NotClient
    /\ Alive(s) /\ serverStream[s] # "none" => role[s] \in {"prerecord", "record"}

\* A StreamInfo looked up, or read out to somebody, has been created.
StreamsCreatedBeforeUse ==
  \A s, t \in Sessions :
    setup[s] = t \/ readerOf[s] = t => serverStream[t] # "none"

\* A packet refreshes the clients of its stream along with the publisher; one
\* that is registered afterwards has a time at most SetupDelay old.  Neither
\* is known of a stream the next cleanup reaps.
ClientsNoOlder ==
  /\ \A s \in Sessions : stamp[s] <= SetupDelay
  /\ \A s, c \in Sessions :
       publisherIdle[s] <= PublisherTimeout => clients[s][c] <= publisherIdle[s] + SetupDelay

\* No session begins before the server has started, and none is left once
\* server.Close() has returned.
ClosedDrained ==
  phase \in {"new", "unserved", "joining", "stopped", "crashed"} => Drained

IInv ==
  /\ TypeOK
  /\ DeadHoldNothing
  /\ RolesHold
  /\ StreamsCreatedBeforeUse
  /\ ClientsNoOlder
  /\ ClosedDrained
  /\ RegisteredStreamsLive
  /\ OpenStreamsRegistered
  /\ OpenPublishersRegistered
  /\ ListedClientsAlive
  /\ RecordingIsOwn

\* The parts of IInv that speak of neither Close nor the goroutines survive a
\* step that changes nothing else.
LEMMA ControlSteps ==
  ASSUME IInv, UNCHANGED <<tableVars, sessionVars>>,
         phase' \in Phases, ctxDone' \in BOOLEAN, routines' \subseteq Routines,
         ClosedDrained'
  PROVE  IInv'
  BY DEF IInv, Alive, Registered, ClientsOf, tableVars, sessionVars, TypeOK,
     DeadHoldNothing, RolesHold, StreamsCreatedBeforeUse, ClientsNoOlder,
     ClosedDrained, RegisteredStreamsLive, OpenStreamsRegistered,
     OpenPublishersRegistered, ListedClientsAlive, RecordingIsOwn

\* The initial states satisfy the inductive invariant.
LEMMA InitInv == Init => IInv
<1> SUFFICES ASSUME Init PROVE IInv
  OBVIOUS
<1> USE ServerAssumption DEF Init, Registered, NotClient
<1>1. TypeOK
  <2>1. publisherIdle \in [Sessions -> PublisherAges]
    BY DEF PublisherAges
  <2>2. /\ stamp \in [Sessions -> ClientAges \cup {NotClient}]
        /\ clients \in [Sessions -> [Sessions -> ClientAges \cup {NotClient}]]
    OBVIOUS
  <2> QED
    BY <2>1, <2>2 DEF TypeOK, Phases, SessionStates, Roles
<1>2. DeadHoldNothing /\ RolesHold /\ StreamsCreatedBeforeUse /\ RecordingIsOwn
  BY DEF Alive, DeadHoldNothing, RolesHold, StreamsCreatedBeforeUse, RecordingIsOwn
<1>3. ClientsNoOlder /\ ClosedDrained
  BY DEF ClientsNoOlder, ClosedDrained, Drained
<1>4. RegisteredStreamsLive /\ OpenStreamsRegistered /\ OpenPublishersRegistered
  BY DEF RegisteredStreamsLive, OpenStreamsRegistered, OpenPublishersRegistered
<1>5. ListedClientsAlive
  BY DEF ListedClientsAlive, ClientsOf
<1> QED
  BY <1>1, <1>2, <1>3, <1>4, <1>5 DEF IInv

\* Every step preserves it.
LEMMA NextInv == IInv /\ [Next]_vars => IInv'
<1> SUFFICES ASSUME IInv, [Next]_vars PROVE IInv'
  OBVIOUS
<1> USE ServerAssumption DEF IInv, Alive, Registered, ClientsOf, NotClient,
                             PublisherAges, ClientAges, tableVars, sessionVars, MutexFree
<1>1. CASE Start
  BY ControlSteps, <1>1 DEF Start, ClosedDrained, Drained, TypeOK, Phases, Routines
<1>20. CASE CallerCancels
  BY ControlSteps, <1>20 DEF CallerCancels, ClosedDrained, Drained, TypeOK
<1>21. CASE CloseUnserved
  BY ControlSteps, <1>21 DEF CloseUnserved, ClosedDrained, Drained, TypeOK, Phases
<1>2. CASE CloseStreams
  <2>1. TypeOK'
    BY <1>2 DEF CloseStreams, TypeOK, Phases, SessionStates, StreamsClosed,
       Ending
  <2>2. (DeadHoldNothing /\ RolesHold /\ StreamsCreatedBeforeUse)'
    BY <1>2 DEF CloseStreams, DeadHoldNothing, RolesHold,
       StreamsCreatedBeforeUse, RegisteredStreamsLive, TypeOK, StreamsClosed,
       Ending
  <2>3. (RegisteredStreamsLive /\ OpenStreamsRegistered /\ OpenPublishersRegistered)'
    BY <1>2 DEF CloseStreams, TypeOK, RolesHold, RegisteredStreamsLive,
       OpenStreamsRegistered, OpenPublishersRegistered, StreamsClosed, Ending
  <2>4. (ClientsNoOlder /\ ClosedDrained /\ ListedClientsAlive /\ RecordingIsOwn)'
    BY <1>2 DEF CloseStreams, TypeOK, ClientsNoOlder, ClosedDrained,
       ListedClientsAlive, RecordingIsOwn, Ending
  <2> QED
    BY <2>1, <2>2, <2>3, <2>4
<1>3. CASE ServerCloseBegins
  BY ControlSteps, <1>3 DEF ServerCloseBegins, ClosedDrained, TypeOK, Phases
<1>4. CASE ServerCloseReturns
  BY ControlSteps, <1>4 DEF ServerCloseReturns, ClosedDrained, Drained,
     TypeOK, Phases
<1>5. CASE CloseReturns
  BY ControlSteps, <1>5 DEF CloseReturns, ClosedDrained, Drained, TypeOK,
     Phases
<1>6. ASSUME NEW r \in Routines, RoutineReturns(r) PROVE IInv'
  BY ControlSteps, <1>6 DEF RoutineReturns, ClosedDrained, Drained, TypeOK
<1>7. CASE CleanupInactiveSessions
  <2>1. TypeOK'
    BY <1>7 DEF CleanupInactiveSessions, TypeOK, StreamsClosed, Ending,
       TableWithout, SessionStates
  <2>2. (DeadHoldNothing /\ RolesHold /\ StreamsCreatedBeforeUse)'
    BY <1>7 DEF CleanupInactiveSessions, TypeOK, StreamsClosed, Ending,
       TableWithout, DeadHoldNothing, RolesHold, StreamsCreatedBeforeUse,
       RegisteredStreamsLive
  <2>3. (RegisteredStreamsLive /\ OpenStreamsRegistered)'
    BY <1>7 DEF CleanupInactiveSessions, TypeOK, StreamsClosed, Ending,
       TableWithout, RegisteredStreamsLive, OpenStreamsRegistered
  <2>4. OpenPublishersRegistered'
    BY <1>7 DEF CleanupInactiveSessions, TypeOK, StreamsClosed, Ending,
       TableWithout, RolesHold, RegisteredStreamsLive,
       OpenPublishersRegistered
  <2>5. (ListedClientsAlive /\ RecordingIsOwn)'
    BY <1>7 DEF CleanupInactiveSessions, TypeOK, StreamsClosed, Ending,
       TableWithout, RegisteredStreamsLive, ListedClientsAlive, RecordingIsOwn
  <2>6. (ClientsNoOlder /\ ClosedDrained)'
    BY <1>7 DEF CleanupInactiveSessions, TypeOK, StreamsClosed, Ending,
       TableWithout, ClientsNoOlder, ClosedDrained, Drained
  <2> QED
    BY <2>1, <2>2, <2>3, <2>4, <2>5, <2>6
<1>8. CASE Tick
  <2>1. (TypeOK /\ ClientsNoOlder)'
    BY <1>8 DEF Tick, Stamped, TypeOK, ClientsNoOlder, Older
  <2>2. (ListedClientsAlive /\ ClosedDrained)'
    BY <1>8 DEF Tick, TypeOK, ListedClientsAlive, Older, ClosedDrained,
       Drained
  <2>3. (DeadHoldNothing /\ StreamsCreatedBeforeUse /\ RegisteredStreamsLive /\ OpenStreamsRegistered /\ OpenPublishersRegistered /\ RecordingIsOwn)'
    BY <1>8 DEF Tick, DeadHoldNothing, StreamsCreatedBeforeUse,
       RegisteredStreamsLive, OpenStreamsRegistered, OpenPublishersRegistered,
       RecordingIsOwn
  <2>4. RolesHold'
    BY <1>8 DEF Tick, Stamped, TypeOK, RolesHold
  <2> QED
    BY <2>1, <2>2, <2>3, <2>4
<1>9. ASSUME NEW s \in Sessions, OnConnOpen(s) PROVE IInv'
  BY <1>9 DEF OnConnOpen, Listening, Phases, TypeOK, DeadHoldNothing,
     RolesHold, StreamsCreatedBeforeUse, ClientsNoOlder, ClosedDrained,
     RegisteredStreamsLive, OpenStreamsRegistered, OpenPublishersRegistered,
     ListedClientsAlive, RecordingIsOwn, Drained, SessionStates
<1>10. ASSUME NEW s \in Sessions, OnSessionOpen(s) PROVE IInv'
  <2>1. ClosedDrained'
    BY <1>10 DEF OnSessionOpen, TypeOK, ClosedDrained, Drained
  <2>2. (TypeOK /\ DeadHoldNothing /\ RolesHold /\ StreamsCreatedBeforeUse /\ ClientsNoOlder)'
    BY <1>10 DEF OnSessionOpen, TypeOK, SessionStates, DeadHoldNothing, RolesHold,
       StreamsCreatedBeforeUse, ClientsNoOlder
  <2>3. (RegisteredStreamsLive /\ OpenStreamsRegistered /\ OpenPublishersRegistered)'
    BY <1>10 DEF OnSessionOpen, TypeOK, DeadHoldNothing, RegisteredStreamsLive,
       OpenStreamsRegistered, OpenPublishersRegistered
  <2>4. (ListedClientsAlive /\ RecordingIsOwn)'
    BY <1>10 DEF OnSessionOpen, TypeOK, DeadHoldNothing, ListedClientsAlive, RecordingIsOwn
  <2> QED
    BY <2>1, <2>2, <2>3, <2>4
<1>11. ASSUME NEW s \in Sessions, Disconnect(s) PROVE IInv'
  <2>1. ClosedDrained'
    BY <1>11 DEF Disconnect, TypeOK, ClosedDrained, Drained
  <2>2. (TypeOK /\ DeadHoldNothing /\ RolesHold /\ StreamsCreatedBeforeUse /\ ClientsNoOlder)'
    BY <1>11 DEF Disconnect, TypeOK, SessionStates, DeadHoldNothing, RolesHold,
       StreamsCreatedBeforeUse, ClientsNoOlder
  <2>3. (RegisteredStreamsLive /\ OpenStreamsRegistered /\ OpenPublishersRegistered)'
    BY <1>11 DEF Disconnect, TypeOK, DeadHoldNothing, RegisteredStreamsLive,
       OpenStreamsRegistered, OpenPublishersRegistered
  <2>4. (ListedClientsAlive /\ RecordingIsOwn)'
    BY <1>11 DEF Disconnect, TypeOK, DeadHoldNothing, ListedClientsAlive, RecordingIsOwn
  <2> QED
    BY <2>1, <2>2, <2>3, <2>4
<1>12. ASSUME NEW s \in Sessions, OnSessionClose(s) PROVE IInv'
  <2>1. TypeOK'
    BY <1>12 DEF OnSessionClose, TypeOK, PublishedBy, ClientRemoved,
       StreamsClosed, Ending, TableWithout, SessionStates, Roles
  <2>2. /\ session[s] = "closing" /\ session'[s] = "closed"
        /\ \A t \in Sessions \ {s} :
             \/ session'[t] = session[t]
             \/ session[t] = "open" /\ session'[t] = "closing"
    BY <1>12 DEF OnSessionClose, TypeOK, Ending
  <2>3. /\ \A p \in Paths : streams'[p] = IF streams[p] = s THEN NoSession ELSE streams[p]
        /\ \A t \in Sessions :
             serverStream'[t] = IF t = s /\ s \in Registered THEN "closed" ELSE serverStream[t]
    BY <1>12 DEF OnSessionClose, TypeOK, PublishedBy, TableWithout, StreamsClosed
  <2>4. \A t, c \in Sessions :
          clients'[t][c] = IF t \in Registered /\ c = s THEN NotClient ELSE clients[t][c]
    BY <1>12 DEF OnSessionClose, TypeOK, ClientRemoved
  <2>5. /\ UNCHANGED <<phase, publisherIdle, setup, stamp>>
        /\ setup[s] = NoSession /\ role'[s] = "initial" /\ path'[s] = NoSession
        /\ readerOf'[s] = NoSession /\ recordTo'[s] = NoSession
        /\ \A t \in Sessions \ {s} :
             /\ role'[t] = role[t] /\ path'[t] = path[t]
             /\ readerOf'[t] = readerOf[t] /\ recordTo'[t] = recordTo[t]
    BY <1>12 DEF OnSessionClose, TypeOK
  <2>6. DeadHoldNothing'
    BY <2>2, <2>3, <2>5 DEF DeadHoldNothing
  <2>7. RolesHold'
    BY <2>2, <2>3, <2>5 DEF RolesHold
  <2>8. StreamsCreatedBeforeUse'
    BY <2>3, <2>5 DEF StreamsCreatedBeforeUse, TypeOK
  <2>9. RegisteredStreamsLive'
    BY <2>2, <2>3, <2>5 DEF RegisteredStreamsLive, TypeOK
  <2>10. OpenStreamsRegistered'
    BY <2>3 DEF OpenStreamsRegistered, TypeOK
  <2>11. OpenPublishersRegistered'
    BY <2>2, <2>3, <2>5 DEF OpenPublishersRegistered, RolesHold, TypeOK
  <2>12. ListedClientsAlive'
    BY <2>2, <2>3, <2>4 DEF ListedClientsAlive, TypeOK
  <2>13. ClientsNoOlder'
    BY <2>4, <2>5 DEF ClientsNoOlder, TypeOK
  <2>14. RecordingIsOwn'
    BY <2>2, <2>5 DEF RecordingIsOwn
  <2>15. ClosedDrained'
    BY <2>2, <2>5 DEF ClosedDrained, Drained
  <2> QED
    BY <2>1, <2>6, <2>7, <2>8, <2>9, <2>10, <2>11, <2>12, <2>13, <2>14, <2>15
<1>13. ASSUME NEW s \in Sessions, NEW p \in Paths, OnAnnounce(s, p) PROVE IInv'
  <2>1. TypeOK'
    BY <1>13 DEF OnAnnounce, TypeOK, StreamsClosed, Ending, SessionStates,
       Roles
  <2>2. /\ Alive(s) /\ setup[s] = NoSession /\ role[s] = "initial"
        /\ s \notin Registered
    <3>1. Alive(s) /\ setup[s] = NoSession /\ role[s] = "initial"
      BY <1>13 DEF OnAnnounce, Serving
    <3>2. serverStream[s] = "none"
      BY <3>1 DEF RolesHold
    <3> QED
      BY <3>1, <3>2 DEF RegisteredStreamsLive
  <2>3. /\ \A q \in Paths : streams'[q] = IF q = p THEN s ELSE streams[q]
        /\ \A t \in Sessions :
             serverStream'[t] = IF t = s THEN "open"
                                ELSE IF t = streams[p] THEN "closed" ELSE serverStream[t]
    BY <1>13 DEF OnAnnounce, TypeOK, Displaced, StreamsClosed
  <2>4. \A t \in Sessions :
          \/ session'[t] = session[t] /\ (t = streams[p] => session[t] # "open")
          \/ session[t] = "open" /\ session'[t] = "closing"
    BY <1>13 DEF OnAnnounce, TypeOK, Displaced, SessionsDisplaced, Ending
  <2>5. /\ UNCHANGED <<phase, setup, stamp, readerOf, recordTo>>
        /\ role'[s] = "prerecord" /\ path'[s] = p /\ publisherIdle'[s] = 0
        /\ \A t \in Sessions \ {s} :
             role'[t] = role[t] /\ path'[t] = path[t] /\ publisherIdle'[t] = publisherIdle[t]
        /\ \A t, c \in Sessions : clients'[t][c] = IF t = s THEN NotClient ELSE clients[t][c]
    BY <1>13 DEF OnAnnounce, TypeOK
  <2>6. DeadHoldNothing'
    BY <2>2, <2>3, <2>4, <2>5 DEF DeadHoldNothing, RegisteredStreamsLive
  <2>7. RolesHold'
    BY <2>2, <2>3, <2>4, <2>5 DEF RolesHold, RegisteredStreamsLive, TypeOK
  <2>8. StreamsCreatedBeforeUse'
    BY <2>3, <2>5 DEF StreamsCreatedBeforeUse
  <2>9. ClientsNoOlder'
    BY <2>5 DEF ClientsNoOlder, TypeOK
  <2>10. RecordingIsOwn'
    BY <2>4, <2>5 DEF RecordingIsOwn
  <2>11. RegisteredStreamsLive'
    BY <2>2, <2>3, <2>4, <2>5 DEF RegisteredStreamsLive, TypeOK
  <2>12. OpenStreamsRegistered'
    BY <2>3 DEF OpenStreamsRegistered, TypeOK
  <2>13. OpenPublishersRegistered'
    <3> SUFFICES ASSUME NEW t \in Sessions, session'[t] = "open",
                        role'[t] \in {"prerecord", "record"}
                 PROVE  streams'[path'[t]] = t
      BY DEF OpenPublishersRegistered
    <3>1. CASE t = s
      BY <2>3, <2>5, <3>1
    <3>2. CASE t # s
      <4>1. session[t] = "open" /\ t # streams[p] /\ role[t] = role'[t] /\ path[t] = path'[t]
        BY <2>4, <2>5, <3>2
      <4>2. path[t] \in Paths /\ streams[path[t]] = t
        BY <4>1 DEF OpenPublishersRegistered, RolesHold
      <4> QED
        BY <2>3, <4>1, <4>2
    <3> QED
      BY <3>1, <3>2
  <2>14. ListedClientsAlive'
    BY <2>3, <2>4, <2>5 DEF ListedClientsAlive, TypeOK
  <2>15. ClosedDrained'
    BY <2>2, <2>5 DEF ClosedDrained, Drained
  <2> QED
    BY <2>1, <2>6, <2>7, <2>8, <2>9, <2>10, <2>11, <2>12, <2>13, <2>14, <2>15
<1>14. ASSUME NEW s \in Sessions, OnRecord(s) PROVE IInv'
  BY <1>14 DEF OnRecord, Serving, Drained, Roles, TypeOK, DeadHoldNothing,
     RolesHold, StreamsCreatedBeforeUse, ClientsNoOlder, ClosedDrained,
     RegisteredStreamsLive, OpenStreamsRegistered, OpenPublishersRegistered,
     ListedClientsAlive, RecordingIsOwn
<1>15. ASSUME NEW s \in Sessions, OnPacketRTP(s) PROVE IInv'
  BY <1>15 DEF OnPacketRTP, Drained, TypeOK, DeadHoldNothing, RolesHold,
     StreamsCreatedBeforeUse, ClientsNoOlder, ClosedDrained,
     RegisteredStreamsLive, OpenStreamsRegistered, OpenPublishersRegistered,
     ListedClientsAlive, RecordingIsOwn
<1>16. ASSUME NEW s \in Sessions, NEW p \in Paths, SetupFindsStream(s, p) PROVE IInv'
  BY <1>16 DEF SetupFindsStream, MaySetup, Serving, Drained, TypeOK,
     DeadHoldNothing, RolesHold, StreamsCreatedBeforeUse, ClientsNoOlder,
     ClosedDrained, RegisteredStreamsLive, OpenStreamsRegistered,
     OpenPublishersRegistered, ListedClientsAlive, RecordingIsOwn
<1>22. ASSUME NEW s \in Sessions, SetupReadsClock(s) PROVE IInv'
  BY <1>22 DEF SetupReadsClock, Drained, TypeOK, DeadHoldNothing, RolesHold,
     StreamsCreatedBeforeUse, ClientsNoOlder, ClosedDrained, RegisteredStreamsLive,
     OpenStreamsRegistered, OpenPublishersRegistered, ListedClientsAlive, RecordingIsOwn
<1>17. ASSUME NEW s \in Sessions, SetupRegistersClient(s) PROVE IInv'
  <2>1. TypeOK'
    BY <1>17 DEF SetupRegistersClient, TypeOK, Attaches, DeadHoldNothing,
       Roles
  <2>2. (DeadHoldNothing /\ StreamsCreatedBeforeUse)'
    BY <1>17 DEF SetupRegistersClient, TypeOK, Attaches, DeadHoldNothing,
       StreamsCreatedBeforeUse
  <2>3. RolesHold'
    BY <1>17 DEF SetupRegistersClient, TypeOK, Attaches, DeadHoldNothing,
       RolesHold, StreamsCreatedBeforeUse, RegisteredStreamsLive,
       OpenStreamsRegistered
  <2>4. (RegisteredStreamsLive /\ OpenStreamsRegistered /\ OpenPublishersRegistered)'
    BY <1>17 DEF SetupRegistersClient, TypeOK, Attaches, DeadHoldNothing,
       RolesHold, StreamsCreatedBeforeUse, RegisteredStreamsLive,
       OpenStreamsRegistered, OpenPublishersRegistered
  <2>5. (ListedClientsAlive /\ ClientsNoOlder /\ RecordingIsOwn)'
    BY <1>17 DEF SetupRegistersClient, TypeOK, Attaches, DeadHoldNothing,
       ListedClientsAlive, ClientsNoOlder, RecordingIsOwn
  <2>6. ClosedDrained'
    BY <1>17 DEF SetupRegistersClient, ClosedDrained, Drained, TypeOK
  <2> QED
    BY <2>1, <2>2, <2>3, <2>4, <2>5, <2>6
<1>18. ASSUME NEW s \in Sessions, OnPlay(s) PROVE IInv'
  BY <1>18 DEF OnPlay, Serving, Drained, Roles, TypeOK, DeadHoldNothing,
     RolesHold, StreamsCreatedBeforeUse, ClientsNoOlder, ClosedDrained,
     RegisteredStreamsLive, OpenStreamsRegistered, OpenPublishersRegistered,
     ListedClientsAlive, RecordingIsOwn
<1>19. CASE UNCHANGED vars
  BY ControlSteps, <1>19 DEF vars, TypeOK, ClosedDrained, Drained
<1> QED
  BY <1>1, <1>2, <1>3, <1>4, <1>5, <1>6, <1>7, <1>8, <1>9, <1>10, <1>11,
     <1>12, <1>13, <1>14, <1>15, <1>16, <1>17, <1>18, <1>19, <1>20, <1>21, <1>22
  DEF Next, ServerStep, SessionStep, Stopped

\* Every reachable state satisfies the inductive invariant.
LEMMA Invariance == Spec => []IInv
  BY InitInv, NextInv, PTL DEF Spec

-----------------------------------------------------------------------------
\* Every variable keeps its type: every value the callbacks and the routines
\* store belongs to the sets the code gives it.
THEOREM TypeCorrect == Spec => []TypeOK
  BY Invariance, PTL DEF IInv

\* The table and the open ServerStreams are the same streams: what OnDescribe,
\* OnSetup and OnRecord hand out is open, and no open stream is off the table.
\* No replacement, reaping or late OnSessionClose takes the path away from a
\* publisher that nobody has closed.
THEOREM TableIsLive == Spec => []TableHoldsOpenStreams
<1>1. IInv => TableHoldsOpenStreams
  BY DEF IInv, TableHoldsOpenStreams
<1>2. QED
  BY <1>1, Invariance, PTL

\* No entry of a session whose OnSessionClose has run is counted against
\* MaxClients.
THEOREM NoClientLeftBehind == Spec => []ListedClientsAlive
  BY Invariance, PTL DEF IInv

\* OnRecord binds the packets of an open publisher to its own stream.
THEOREM PublishersRecordTheirOwn == Spec => []RecordingIsOwn
  BY Invariance, PTL DEF IInv

\* Close leaves nothing behind.
THEOREM CloseEmpties == Spec => []StoppedIsEmpty
<1>1. IInv => StoppedIsEmpty
  <2> SUFFICES ASSUME IInv, phase = "stopped"
               PROVE  /\ \A p \in Paths : streams[p] = NoSession
                      /\ \A s \in Sessions : session[s] \notin {"admitted", "open", "closing"}
    BY DEF StoppedIsEmpty
  <2>1. \A s \in Sessions : session[s] \in {"new", "rejected", "closed"}
    BY DEF IInv, ClosedDrained, Drained
  <2>2. \A p \in Paths : streams[p] = NoSession \/ streams[p] \in Sessions
    BY DEF IInv, TypeOK
  <2> QED
    BY <2>1, <2>2 DEF IInv, RegisteredStreamsLive
<1> QED
  BY <1>1, Invariance, PTL

\* What a session reads is counted against MaxClients as long as clients may
\* be idle for longer than publishers, by the time that can pass in OnSetup
\* between the reading of the clock and AddClient.
THEOREM EveryReaderCounted ==
  ASSUME ClientTimeout >= PublisherTimeout + SetupDelay
  PROVE  Spec => []ReadersAreCounted
<1>1. Init => ReadersAreCounted
  BY ServerAssumption DEF Init, ReadersAreCounted
<1>2. IInv /\ ReadersAreCounted /\ [Next]_vars => ReadersAreCounted'
  <2> SUFFICES ASSUME IInv, ReadersAreCounted, [Next]_vars PROVE ReadersAreCounted'
    OBVIOUS
  <2> USE ServerAssumption DEF IInv, Alive, Registered, ClientsOf, NotClient,
                               PublisherAges, ClientAges, tableVars, sessionVars, TypeOK, ReadersAreCounted
  <2>1. CASE UNCHANGED <<serverStream, clients, readerOf>>
    BY <2>1
  <2>2. CASE CloseStreams
    BY <2>2 DEF CloseStreams, StreamsClosed
  <2>3. CASE CleanupInactiveSessions
    \* A stream that stays is not expired, so no client of it is.
    <3>1. \A s, c \in Sessions :
            s \in Registered /\ ~ PublisherInactive(s) => ~ ClientInactive(s, c)
      BY DEF ClientsNoOlder, PublisherInactive, ClientInactive
    <3> QED
      BY <2>3, <3>1 DEF CleanupInactiveSessions, StreamsClosed
  <2>4. CASE Tick
    BY <2>4 DEF Tick, Older
  <2>5. ASSUME NEW s \in Sessions, OnSessionClose(s) PROVE ReadersAreCounted'
    BY <2>5 DEF OnSessionClose, StreamsClosed, ClientRemoved
  <2>6. ASSUME NEW s \in Sessions, NEW p \in Paths, OnAnnounce(s, p)
        PROVE  ReadersAreCounted'
    \* Nobody reads from a publisher that has not announced yet.
    <3>1. \A c \in Sessions : readerOf[c] # s
      BY <2>6 DEF OnAnnounce, Serving, RolesHold, StreamsCreatedBeforeUse
    <3> QED
      BY <2>6, <3>1 DEF OnAnnounce, StreamsClosed
  <2>7. ASSUME NEW s \in Sessions, OnPacketRTP(s) PROVE ReadersAreCounted'
    BY <2>7 DEF OnPacketRTP
  <2>8. ASSUME NEW s \in Sessions, SetupRegistersClient(s) PROVE ReadersAreCounted'
    \* A reader attaches to a stream that is not its own.
    <3>1. Attaches(s) => setup[s] # s
      BY <2>8 DEF SetupRegistersClient, Attaches, RolesHold, DeadHoldNothing,
         StreamsCreatedBeforeUse
    <3> QED
      BY <2>8, <3>1 DEF SetupRegistersClient, Attaches
  <2>9. ASSUME NEW s \in Sessions, OnPlay(s) PROVE ReadersAreCounted'
    BY <2>9 DEF OnPlay
  <2> QED
    BY <2>1, <2>2, <2>3, <2>4, <2>5, <2>6, <2>7, <2>8, <2>9
    DEF Next, ServerStep, SessionStep, Stopped, vars, Start, CallerCancels, CloseUnserved,
        ServerCloseBegins, ServerCloseReturns, CloseReturns, RoutineReturns, OnConnOpen,
        OnSessionOpen, Disconnect, OnRecord, SetupFindsStream, SetupReadsClock
<1> QED
  BY <1>1, <1>2, Invariance, PTL DEF Spec

\* The paths that carry a stream, and the ServerStreams that are open.
Occupied == {p \in Paths : streams[p] # NoSession}
OpenStreams == {s \in Sessions : serverStream[s] = "open"}

\* Only OnAnnounce puts a stream on the table, on one path.
LEMMA OccupiedGrowsByAnnounce ==
  ASSUME TypeOK, [Next]_vars
  PROVE  \/ Occupied' \subseteq Occupied
         \/ StreamSlotFree /\ \E p \in Paths : Occupied' \subseteq Occupied \cup {p}
<1> USE ServerAssumption DEF Occupied, TypeOK
<1>1. CASE UNCHANGED streams
  BY <1>1
<1>2. CASE CloseStreams
  BY <1>2 DEF CloseStreams
<1>3. CASE CleanupInactiveSessions
  BY <1>3 DEF CleanupInactiveSessions, TableWithout
<1>4. ASSUME NEW s \in Sessions, OnSessionClose(s) PROVE Occupied' \subseteq Occupied
  BY <1>4 DEF OnSessionClose, TableWithout
<1>5. ASSUME NEW s \in Sessions, NEW p \in Paths, OnAnnounce(s, p)
      PROVE  StreamSlotFree /\ Occupied' \subseteq Occupied \cup {p}
  BY <1>5 DEF OnAnnounce
<1>6. ASSUME NEW s \in Sessions, SessionStep(s)
      PROVE  \/ UNCHANGED streams \/ OnSessionClose(s)
             \/ \E p \in Paths : OnAnnounce(s, p)
  BY <1>6, Zenon
  DEF SessionStep, tableVars, OnConnOpen, OnSessionOpen, Disconnect, OnRecord, OnPacketRTP,
      SetupFindsStream, SetupReadsClock, SetupRegistersClient, OnPlay
<1>7. ServerStep => UNCHANGED streams \/ CloseStreams \/ CleanupInactiveSessions
  BY DEF ServerStep, tableVars, Start, CallerCancels, CloseUnserved, ServerCloseBegins, ServerCloseReturns, CloseReturns,
         RoutineReturns, Tick
<1>8. Next \/ UNCHANGED vars =>
        \/ ServerStep \/ UNCHANGED streams \/ \E s \in Sessions : SessionStep(s)
  BY Zenon DEF Next, Stopped, vars
<1> QED
  BY <1>1, <1>2, <1>3, <1>4, <1>5, <1>6, <1>7, <1>8

\* There are never more than MaxStreams open ServerStreams, on the table or
\* off it: OnAnnounce counts table entries, and no open stream is left
\* without one by a replacement, the reaper or the shutdown.
THEOREM StreamsWithinLimit ==
  ASSUME IsFiniteSet(Paths)
  PROVE  Spec => [](IsFiniteSet(OpenStreams) /\ Cardinality(OpenStreams) <= MaxStreams)
<1> DEFINE Within == Cardinality(Occupied) <= MaxStreams
<1>1. IsFiniteSet(Occupied) /\ Cardinality(Occupied) \in Nat
  <2>1. IsFiniteSet(Occupied)
    BY FS_Subset DEF Occupied
  <2> QED
    BY <2>1, FS_CardinalityType
<1>2. Init => Within
  <2> SUFFICES ASSUME Init PROVE Within
    OBVIOUS
  <2>1. Occupied = {}
    BY DEF Init, Occupied
  <2> QED
    BY <2>1, FS_EmptySet, ServerAssumption
<1>3. IInv /\ Within /\ [Next]_vars => Within'
  <2> SUFFICES ASSUME IInv, Within, [Next]_vars PROVE Within'
    OBVIOUS
  <2>1. CASE Occupied' \subseteq Occupied
    <3>1. Cardinality(Occupied') <= Cardinality(Occupied)
      BY <1>1, <2>1, FS_Subset
    <3>2. Cardinality(Occupied') \in Nat
      BY <1>1, <2>1, FS_Subset, FS_CardinalityType
    <3> QED
      BY <1>1, <3>1, <3>2, ServerAssumption
  <2>2. ASSUME StreamSlotFree, NEW p \in Paths, Occupied' \subseteq Occupied \cup {p}
        PROVE  Within'
    <3> DEFINE More == Occupied \cup {p}
    <3>1. /\ IsFiniteSet(More)
          /\ Cardinality(More) =
               IF p \in Occupied THEN Cardinality(Occupied) ELSE Cardinality(Occupied) + 1
      BY <1>1, FS_AddElement
    <3>2. Cardinality(Occupied') <= Cardinality(More) /\ Cardinality(Occupied') \in Nat
      BY <2>2, <3>1, FS_Subset, FS_CardinalityType
    <3>3. Cardinality(Occupied) < MaxStreams
      BY <2>2 DEF StreamSlotFree, Occupied
    <3> QED
      BY <1>1, <3>1, <3>2, <3>3, ServerAssumption
  <2> QED
    BY <2>1, <2>2, OccupiedGrowsByAnnounce DEF IInv
<1>4. IInv /\ Within => IsFiniteSet(OpenStreams) /\ Cardinality(OpenStreams) <= MaxStreams
  <2> SUFFICES ASSUME IInv, Within
               PROVE  IsFiniteSet(OpenStreams) /\ Cardinality(OpenStreams) <= MaxStreams
    OBVIOUS
  \* The path of an open stream is occupied by that stream alone.
  <2> DEFINE pathOf == [s \in OpenStreams |-> path[s]]
  <2>1. \A s \in OpenStreams : path[s] \in Occupied /\ streams[path[s]] = s
    BY ServerAssumption
    DEF IInv, OpenStreamsRegistered, RegisteredStreamsLive, Registered, OpenStreams, Occupied
  <2>2. pathOf \in Injection(OpenStreams, Occupied)
    BY <2>1 DEF Injection, IsInjective
  <2>3. IsFiniteSet(OpenStreams) /\ Cardinality(OpenStreams) <= Cardinality(Occupied)
    BY <1>1, <2>2, FS_Injection
  <2>4. Cardinality(OpenStreams) \in Nat
    BY <2>3, FS_CardinalityType
  <2> QED
    BY <1>1, <2>3, <2>4, ServerAssumption
<1> QED
  BY <1>2, <1>3, <1>4, Invariance, PTL DEF Spec

\* The stream table implements StreamRegistry: one publisher per path, one path
\* per publisher, and no publisher that lost its path is ever seen again.
THEOREM ImplementsRegistry == Spec => RegistrySpec
<1> USE ServerAssumption DEF IInv, Registered, TypeOK
<1>1. Init => Registry!Init
  BY DEF Init, Registry!Init
<1>2. IInv /\ [Next]_vars => [Registry!Next]_(Registry!vars)
  <2> SUFFICES ASSUME IInv, [Next]_vars PROVE [Registry!Next]_(Registry!vars)
    OBVIOUS
  <2>1. CASE UNCHANGED <<streams, serverStream>>
    BY <2>1 DEF Registry!vars
  \* Closing and unlisting the same registered streams withdraws them.
  <2>2. ASSUME NEW S \in SUBSET Registered,
               serverStream' = StreamsClosed(S), streams' = TableWithout(S)
        PROVE  [Registry!Next]_(Registry!vars)
    <3>1. CASE S = {}
      BY <2>2, <3>1 DEF StreamsClosed, TableWithout, Registry!vars
    <3>2. CASE S # {}
      <4>1. {s \in Sessions : serverStream'[s] = "closed"} =
              {s \in Sessions : serverStream[s] = "closed"} \cup S
        BY <2>2 DEF StreamsClosed
      <4>2. Registry!Withdraw(S)
        BY <2>2, <3>2, <4>1 DEF TableWithout, Registry!Withdraw
      <4> QED
        BY <4>2 DEF Registry!Next
    <3> QED
      BY <3>1, <3>2
  <2>3. CASE CloseStreams
    BY <2>2, <2>3 DEF CloseStreams, TableWithout
  <2>4. CASE CleanupInactiveSessions
    BY <2>2, <2>4 DEF CleanupInactiveSessions
  <2>5. ASSUME NEW s \in Sessions, OnSessionClose(s)
        PROVE  [Registry!Next]_(Registry!vars)
    BY <2>2, <2>5 DEF OnSessionClose, PublishedBy
  <2>6. ASSUME NEW s \in Sessions, NEW p \in Paths, OnAnnounce(s, p)
        PROVE  [Registry!Next]_(Registry!vars)
    <3>1. serverStream[s] = "none"
      BY <2>6 DEF OnAnnounce, Serving, Alive, RolesHold
    <3>2. \A q \in Paths : streams[q] # s
      BY <3>1 DEF RegisteredStreamsLive
    <3>3. {t \in Sessions : serverStream'[t] = "closed"} =
            {t \in Sessions : serverStream[t] = "closed"} \cup ({streams[p]} \ {NoSession})
      BY <2>6, <3>1, <3>2 DEF OnAnnounce, Displaced, StreamsClosed
    <3>4. Registry!Publish(p, s)
      BY <2>6, <3>1, <3>2, <3>3 DEF OnAnnounce, Registry!Publish
    <3> QED
      BY <3>4 DEF Registry!Next
  <2> QED
    BY <2>1, <2>3, <2>4, <2>5, <2>6
    DEF Next, ServerStep, SessionStep, Stopped, vars, tableVars, Start,
        CallerCancels, CloseUnserved, ServerCloseBegins, ServerCloseReturns, CloseReturns, RoutineReturns, Tick,
        OnConnOpen, OnSessionOpen, Disconnect, OnRecord, OnPacketRTP,
        SetupFindsStream, SetupReadsClock, SetupRegistersClient, OnPlay
<1> QED
  BY <1>1, <1>2, Invariance, PTL DEF Spec, RegistrySpec, Registry!Spec
=============================================================================
