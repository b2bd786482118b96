-------------------------- MODULE SocketHostProofs --------------------------
(***************************************************************************)
(* Proofs about SocketHost, for any number of writers.                     *)
(*                                                                         *)
(* UsedIsServed is not inductive: it holds because h.server is only set  *)
(* under Lock, which runs when no goroutine reads.  IInv says who reads.   *)
(***************************************************************************)
EXTENDS SocketHost, TLAPS

(* The holders of the read lock are those that read or send. *)
ReadersHoldLock ==
  /\ "connector" \in reading <=> connector = "reading"
  /\ \A w \in Writers : w \in reading <=> writer[w] = "sending"

IInv == TypeOK /\ ReadersHoldLock /\ UsedIsServed

(* Initially nobody holds the lock and nothing is connected. *)
LEMMA InitInv == Init => IInv
  BY HostAssumption
     DEF Init, IInv, TypeOK, ReadersHoldLock, UsedIsServed,
         ConnectorSteps, LockSteps, ServeSteps, WantsLock

(* Every step preserves the invariant; h.server changes only in a section   *)
(* of Lock, when reading is empty.                                          *)
LEMMA NextInv == IInv /\ [Next]_vars => IInv'
<1> SUFFICES ASSUME IInv, [Next]_vars PROVE IInv'
  OBVIOUS
<1> USE HostAssumption
    DEF IInv, TypeOK, ReadersHoldLock, UsedIsServed,
        ConnectorSteps, LockSteps, ServeSteps, WantsLock
<1>1. CASE UNCHANGED vars
  BY <1>1 DEF vars
<1>2. ASSUME NEW p \in {"connector", "closer"}, Announce(p) PROVE IInv'
  BY <1>2 DEF Announce
<1>3. CASE Connect
  BY <1>3 DEF Connect
<1>4. CASE SetSession
  BY <1>4 DEF SetSession, Locked
<1>5. CASE CheckContext \/ DialFails \/ DialSucceeds
  BY <1>5 DEF CheckContext, DialFails, DialSucceeds
<1>6. CASE SetServer
  BY <1>6 DEF SetServer, Locked
<1>7. CASE HandlerChecks \/ Deliver \/ Retry
  BY <1>7 DEF HandlerChecks, Deliver, Retry
<1>8. CASE ReadFromServer
  <2>1. CASE server
    BY <1>8, <2>1 DEF ReadFromServer, RLock, MayRLock
  <2>2. CASE ~server
    BY <1>8, <2>2 DEF ReadFromServer, MayRLock
  <2>3. QED
    BY <2>1, <2>2
<1>9. CASE MessageArrives
  BY <1>9 DEF MessageArrives, RUnlock
<1>10. CASE ReadFails
  BY <1>10 DEF ReadFails, RUnlock
<1>11. CASE UnsetServer
  BY <1>11 DEF UnsetServer, Locked
<1>12. CASE ConnectReturns
  BY <1>12 DEF ConnectReturns, CloseSession, Locked
<1>13. ASSUME NEW w \in Writers, WriteRTP(w) PROVE IInv'
  BY <1>13 DEF WriteRTP, RLock, MayRLock
<1>14. ASSUME NEW w \in Writers, SendSucceeds(w) PROVE IInv'
  BY <1>14 DEF SendSucceeds, RUnlock
<1>15. ASSUME NEW w \in Writers, SendFails(w) PROVE IInv'
  BY <1>15 DEF SendFails, RUnlock
<1>16. ASSUME NEW w \in Writers, Write(w) \/ WriteReturns(w) PROVE IInv'
  <2>1. crashed' \in BOOLEAN
    BY <1>16, Zenon DEF Write, WriteReturns
  <2>2. UNCHANGED <<connector, closer, reading, pending, server, cancelled>>
    BY <1>16 DEF Write, WriteReturns
  <2>3. /\ writer' = [writer EXCEPT ![w] = writer'[w]]
        /\ writer'[w] \in {"idle", "unlocked"} /\ writer[w] # "sending"
        /\ conn' \in {"none", "up", "down"}
    BY <1>16 DEF Write, WriteReturns
  <2>4. QED
    BY <2>1, <2>2, <2>3
<1>17. CASE CloseCalled
  BY <1>17 DEF CloseCalled
<1>18. CASE Close
  BY <1>18 DEF Close, CloseSession, Locked
<1>19. CASE ServerGoesAway
  BY <1>19 DEF ServerGoesAway
<1>20. CASE CallerCancels
  BY <1>20 DEF CallerCancels
<1> QED
  BY <1>1, <1>2, <1>3, <1>4, <1>5, <1>6, <1>7, <1>8, <1>9, <1>10, <1>11, <1>12, <1>13, <1>14,
     <1>15, <1>16, <1>17, <1>18, <1>19, <1>20
     DEF Next, ConnectStep, CloseStep

(* So it always holds. *)
LEMMA Invariance == Spec => []IInv
  BY InitInv, NextInv, PTL DEF Spec

(* Every variable keeps its type, and an announced Lock is somebody's.      *)
THEOREM TypeCorrect == Spec => []TypeOK
  BY Invariance, PTL DEF IInv

(* Whatever the number of writers, neither Close nor a retry takes away the *)
(* connection that readFromServer or a WriteRTP is using, and h.server is   *)
(* set only while Connect serves it.                                        *)
THEOREM NobodyLosesTheConnection == Spec => []UsedIsServed
  BY Invariance, PTL DEF IInv

(* readFromServer or a WriteRTP is using h.server. *)
InUse == connector = "reading" \/ \E w \in Writers : writer[w] = "sending"

(* While it does, h.server stays set and Connect dials no other connection: *)
(* a packet leaves, and a message comes, on the connection it began on.     *)
THEOREM UseEndsWhereItBegan ==
  Spec => [][InUse => server' /\ ~DialSucceeds]_vars
<1>1. IInv /\ [Next]_vars => (InUse => server' /\ ~DialSucceeds)
  <2> SUFFICES ASSUME IInv, [Next]_vars, InUse PROVE server' /\ ~DialSucceeds
    OBVIOUS
  <2>1. server /\ connector \in ServeSteps \cup {"unsetLock"} /\ reading # {}
    BY DEF IInv, InUse, UsedIsServed, ReadersHoldLock
  <2>2. ~DialSucceeds
    BY <2>1 DEF DialSucceeds, ServeSteps
  <2>3. ASSUME NEW p \in {"connector", "closer"} PROVE ~Locked(p)
    BY <2>1 DEF Locked
  <2>4. \/ server' = server
        \/ SetSession \/ SetServer \/ UnsetServer \/ ConnectReturns \/ Close
    BY DEF Next, ConnectStep, CloseStep, Connect, MessageArrives, WriteRTP, SendSucceeds,
           SendFails, Write, WriteReturns, CloseCalled, ServerGoesAway, CallerCancels,
           Announce, CheckContext, DialFails, DialSucceeds, HandlerChecks, ReadFromServer,
           ReadFails, Deliver, Retry, vars
  <2> QED
    BY <2>1, <2>2, <2>3, <2>4 DEF SetSession, SetServer, UnsetServer, ConnectReturns, Close
<1> QED
  BY <1>1, Invariance, PTL DEF Spec

(* Connect has a connection wherever it may use one. *)
ServesConnection ==
  /\ connector \in ServeSteps \cup {"unsetLock"} => server
  /\ ~crashed

(* What makes a nil connection possible is Close, which takes h.server away *)
(* between a look at the context and the read, and Write, which never       *)
(* looks.  A host that is only ended through its context, and fed through   *)
(* WriteRTP, never uses one.                                                *)
THEOREM NeverNilWithoutClose ==
  Spec /\ [][~Close /\ \A w \in Writers : ~Write(w)]_vars => []~crashed
<1> DEFINE Careful == ~Close /\ \A w \in Writers : ~Write(w)
<1>1. Init => ServesConnection
  BY DEF Init, ServesConnection, ServeSteps
<1>2. IInv /\ ServesConnection /\ [Next]_vars /\ [Careful]_vars => ServesConnection'
  <2> SUFFICES ASSUME IInv, ServesConnection, [Next]_vars, [Careful]_vars
               PROVE  ServesConnection'
    OBVIOUS
  <2> USE DEF ServesConnection, ServeSteps
  <2>1. CASE UNCHANGED vars
    BY <2>1 DEF vars
  <2>2. CASE Next /\ Careful
    <3>1. CASE Connect \/ SetSession \/ CheckContext \/ DialFails \/ DialSucceeds
      BY <3>1 DEF Connect, SetSession, CheckContext, DialFails, DialSucceeds
    <3>2. CASE SetServer \/ UnsetServer \/ ConnectReturns \/ Retry
      BY <3>2 DEF SetServer, UnsetServer, ConnectReturns, Retry
    <3>3. CASE HandlerChecks \/ ReadFromServer \/ ReadFails \/ Deliver \/ MessageArrives
      BY <3>3 DEF HandlerChecks, ReadFromServer, ReadFails, Deliver, MessageArrives
    <3>4. ASSUME NEW p \in {"connector", "closer"}, Announce(p) PROVE ServesConnection'
      BY <3>4 DEF Announce
    <3>5. ASSUME NEW w \in Writers, WriteRTP(w) \/ SendSucceeds(w) \/ SendFails(w)
                                    \/ WriteReturns(w)
          PROVE  ServesConnection'
      BY <3>5 DEF WriteRTP, SendSucceeds, SendFails, WriteReturns
    <3>6. CASE CloseCalled \/ ServerGoesAway \/ CallerCancels
      BY <3>6 DEF CloseCalled, ServerGoesAway, CallerCancels
    <3> QED
      BY <2>2, <3>1, <3>2, <3>3, <3>4, <3>5, <3>6 DEF Next, ConnectStep, CloseStep
  <2> QED
    BY <2>1, <2>2
<1>3. ServesConnection => ~crashed
  BY DEF ServesConnection
<1> QED
  BY <1>1, <1>2, <1>3, Invariance, PTL DEF Spec
=============================================================================
