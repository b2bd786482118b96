--------------------------- MODULE LoopbackProofs ---------------------------
(***************************************************************************)
(* Proofs about Loopback, for any peers, writers and number of Connects.   *)
(*                                                                         *)
(* WriteKeepsPort rests on the lock: whatever takes the port away or moves *)
(* the remote has waited for the writers.                                  *)
(***************************************************************************)
EXTENDS Loopback, TLAPS

(* A Connect that is under way is not the last one counted yet, a packet in *)
(* hand has a sender, and the port does not come back after Close.          *)
ConnectCounts == connector = "replacing" => connects < MaxConnects
SenderKnown == \A i \in Loops : reader[i] = "received" => from[i] \in Peers
PortStaysGone == closer # "idle" => ~bound

IInv == TypeOK /\ ConnectCounts /\ SenderKnown /\ PortStaysGone /\ WriteKeepsPort

(* The invariant holds initially.                                           *)
LEMMA InitInv == Init => IInv
<1> SUFFICES ASSUME Init PROVE IInv
  OBVIOUS
<1> USE LoopbackAssumption DEF Init, Loops
<1>1. bound \in BOOLEAN /\ crashed \in BOOLEAN
  BY Zenon
<1>2. TypeOK
  BY <1>1 DEF TypeOK
<1>3. ConnectCounts /\ SenderKnown /\ PortStaysGone /\ WriteKeepsPort
  BY DEF ConnectCounts, SenderKnown, PortStaysGone, WriteKeepsPort
<1>4. QED
  BY <1>2, <1>3 DEF IInv

(* Every step preserves it.                                                 *)
LEMMA NextInv == IInv /\ [Next]_vars => IInv'
<1> SUFFICES ASSUME IInv, [Next]_vars PROVE IInv'
  OBVIOUS
<1> USE LoopbackAssumption
    DEF IInv, TypeOK, ConnectCounts, SenderKnown, PortStaysGone, WriteKeepsPort, Loops,
        CanLock
<1>1. CASE ConnectCancels
  BY <1>1 DEF ConnectCancels
<1>2. CASE ConnectStarts
  <2>1. crashed' \in BOOLEAN
    BY <1>2, Zenon DEF ConnectStarts
  <2>2. connects \in Nat /\ connects' = connects + 1 /\ connects' \in Loops
    BY <1>2 DEF ConnectStarts
  <2>3. /\ reader' \in [Loops -> {"none", "check", "toRead", "reading", "received", "returned"}]
        /\ ticker' \in [Loops -> {"none", "waiting", "returned"}]
        /\ watching' \in [Loops -> 0 .. connects']
    BY <1>2, <2>2 DEF ConnectStarts
  <2>4. \A i \in Loops : reader'[i] = "received" => reader[i] = "received"
    BY <1>2, <2>2 DEF ConnectStarts
  <2>5. /\ connector' = "idle" /\ mu' = "none" /\ done' \subseteq 1 .. connects'
        /\ UNCHANGED <<closer, writing, bound, remote, from>>
    BY <1>2, <2>2 DEF ConnectStarts
  <2>6. QED
    BY <1>2, <2>1, <2>2, <2>3, <2>4, <2>5 DEF ConnectStarts
<1>3. CASE Close
  <2>1. done' \subseteq 1 .. connects
    BY <1>3 DEF Close
  <2>2. bound' = FALSE /\ UNCHANGED crashed
    BY <1>3 DEF Close
  <2>3. QED
    BY <1>3, <2>1, <2>2 DEF Close
<1>4. CASE CloseReturns
  BY <1>4 DEF CloseReturns
<1>5. ASSUME NEW w \in Writers, Write(w) \/ WriteReturns(w) PROVE IInv'
  BY <1>5 DEF Write, WriteReturns
<1>6. ASSUME NEW p \in Peers, SetRemoteAddress(p) PROVE IInv'
  BY <1>6 DEF SetRemoteAddress
<1>7. ASSUME NEW i \in Loops, LoopChecks(i) \/ ReadEnds(i) PROVE IInv'
  <2>1. CASE LoopChecks(i)
    BY <2>1 DEF LoopChecks
  <2>2. CASE ReadEnds(i)
    BY <2>2 DEF ReadEnds
  <2>3. QED
    BY <1>7, <2>1, <2>2
<1>8. ASSUME NEW i \in Loops, StartRead(i) PROVE IInv'
  <2>1. crashed' \in BOOLEAN
    BY <1>8, Zenon DEF StartRead
  <2>2. QED
    BY <1>8, <2>1 DEF StartRead
<1>9. ASSUME NEW i \in Loops, HandleMessage(i) PROVE IInv'
  BY <1>9 DEF HandleMessage
<1>10. ASSUME NEW i \in Loops, NEW p \in Peers, PacketArrives(i, p) PROVE IInv'
  BY <1>10 DEF PacketArrives
<1>11. ASSUME NEW i \in Loops, MetricsLoopReturns(i) \/ Tick(i) PROVE IInv'
  <2>1. CASE MetricsLoopReturns(i)
    BY <2>1 DEF MetricsLoopReturns
  <2>2. CASE Tick(i)
    <3>1. connects \in 0 .. connects /\ watching' = [watching EXCEPT ![i] = connects]
      BY <2>2 DEF Tick
    <3>2. watching' \in [Loops -> 0 .. connects]
      BY <3>1
    <3>3. QED
      BY <2>2, <3>2 DEF Tick
  <2>3. QED
    BY <1>11, <2>1, <2>2
<1>12. CASE CallerCancels
  BY <1>12 DEF CallerCancels
<1>13. CASE UNCHANGED vars
  BY <1>13 DEF vars
<1>14. QED
  BY <1>1, <1>2, <1>3, <1>4, <1>5, <1>6, <1>7, <1>8, <1>9, <1>10, <1>11, <1>12, <1>13
  DEF Next, LoopStep

(* Every reachable state satisfies the invariant.                           *)
LEMMA Invariance == Spec => []IInv
  BY InitInv, NextInv, PTL DEF Spec

(* The types hold, and the lock belongs to the one whose step needs it.     *)
THEOREM TypeCorrect == Spec => []TypeOK
  BY Invariance, PTL DEF IInv

(* However many Connects and read loops there are, a write in progress      *)
(* keeps a port to write to and a remote to send to.                        *)
THEOREM WritesKeepTheirPort == Spec => []WriteKeepsPort
  BY Invariance, PTL DEF IInv

(* Close waits, with the lock, for a read loop that waits for the lock to   *)
(* hand on the packet it has received.                                      *)
Held(i) == closer = "waiting" /\ reader[i] = "received"

(* No step takes the lock from Close or the packet from the loop.           *)
LEMMA HeldStays ==
  ASSUME IInv, [Next]_vars, NEW i \in Loops, Held(i)
  PROVE  Held(i)' /\ UNCHANGED <<connects, writing, bound, remote>>
<1> USE DEF Held, CanLock
<1>1. /\ mu = "closer" /\ connector = "idle" /\ writing = {}
      /\ reader \in [Loops -> {"none", "check", "toRead", "reading", "received", "returned"}]
  BY DEF IInv, TypeOK, PortStaysGone, WriteKeepsPort
<1>3. CASE ConnectCancels \/ ConnectStarts \/ Close \/ CallerCancels
  BY <1>1, <1>3 DEF ConnectCancels, ConnectStarts, Close, CallerCancels
<1>4. ~CloseReturns
  BY DEF CloseReturns, LoopsEnded, Ended
<1>5. ASSUME NEW w \in Writers, Write(w) \/ WriteReturns(w) PROVE FALSE
  BY <1>1, <1>5 DEF Write, WriteReturns
<1>6. ASSUME NEW p \in Peers, SetRemoteAddress(p) PROVE FALSE
  BY <1>1, <1>6 DEF SetRemoteAddress
<1>7. ASSUME NEW j \in Loops, LoopStep(j) \/ MetricsLoopReturns(j) \/ Tick(j)
      PROVE  Held(i)' /\ UNCHANGED <<connects, writing, bound, remote>>
  BY <1>1, <1>7
  DEF LoopStep, LoopChecks, StartRead, ReadEnds, HandleMessage, MetricsLoopReturns, Tick
<1>8. ASSUME NEW j \in Loops, NEW p \in Peers, PacketArrives(j, p)
      PROVE  Held(i)' /\ UNCHANGED <<connects, writing, bound, remote>>
  BY <1>1, <1>8 DEF PacketArrives
<1>9. CASE UNCHANGED vars
  BY <1>9 DEF vars
<1> QED
  BY <1>3, <1>4, <1>5, <1>6, <1>7, <1>8, <1>9 DEF Next

(* Why CloseReturnsUnlessReceiving needs its exception: a Close that finds  *)
(* a packet received never returns, and from then on no Connect, no Write   *)
(* and no SetRemoteAddress gets the lock either.                            *)
THEOREM CloseDeadlock ==
  Spec => \A i \in Loops :
            /\ [](Held(i) => []Held(i))
            /\ [][Held(i) => UNCHANGED <<connects, writing, bound, remote>>]_vars
<1>1. ASSUME NEW i \in Loops
      PROVE  Spec => /\ [](Held(i) => []Held(i))
                     /\ [][Held(i) => UNCHANGED <<connects, writing, bound, remote>>]_vars
  <2>1. IInv /\ [Next]_vars =>
          /\ Held(i) => Held(i)'
          /\ Held(i) => UNCHANGED <<connects, writing, bound, remote>>
    BY HeldStays
  <2> QED
    BY <2>1, Invariance, PTL DEF Spec
<1> QED
  BY <1>1
=============================================================================
