-------------------------- MODULE SocketRelayProofs --------------------------
(***************************************************************************)
(* Proofs about SocketRelay, for any requests, messages and faults.  The   *)
(* inductive invariant follows a message from the Read that began with it: *)
(*  - whatever was received, or is in flight, has been read, and two       *)
(*    handlers never carry the same message;                               *)
(*  - a peer that has got the message a handler carries is not in the      *)
(*    audience any more, and got nothing later from that handler;          *)
(*  - a connection on which a Read overtook another is a host's, and one   *)
(*    of the two handlers is of another loopback request: so are the torn  *)
(*    messages from it.                                                    *)
(***************************************************************************)
EXTENDS SocketRelay, TLAPS

Relays(r) == handler[r] \in {"payload", "sending", "writing"}
InFlight(r) == Relays(r) /\ msg[r] # 0

(* A client's handler reads from its own connection, a host's from a host's.*)
SourceKnown ==
  \A r \in Requests : handler[r] = "reading" \/ Relays(r) =>
    /\ source[r] \in Requests
    /\ r \in Clients => source[r] = r
    /\ r \in Hosts => source[r] \in Hosts

NumbersRead ==
  /\ \A r \in Requests : InFlight(r) => msg[r] <= taken
  /\ \A x \in Requests : \A i \in DOMAIN received[x] : received[x][i].n <= taken

CarriedOnce ==
  \A r, q \in Requests : r # q /\ InFlight(r) /\ InFlight(q) => msg[r] # msg[q]

CarriedIsNew ==
  \A r, x \in Requests : \A i \in DOMAIN received[x] :
    InFlight(r) =>
      /\ received[x][i].n = msg[r] => handler[r] = "writing" /\ x \notin audience[r]
      /\ received[x][i].via = r => received[x][i].n <= msg[r]

MayBeTorn(x) == x \in Hosts /\ \E h \in Hosts \ {x} : handler[h] # "new"

TornIsShared ==
  /\ \A x \in torn : MayBeTorn(x)
  /\ \A r \in Requests : handler[r] \in {"sending", "writing"} /\ msg[r] = 0 => MayBeTorn(source[r])
  /\ \A r \in Requests : handler[r] = "payload" => msg[r] # 0

IInv ==
  /\ TypeOK /\ SourceKnown /\ NumbersRead /\ CarriedOnce /\ CarriedIsNew /\ TornIsShared
  /\ RelayedOnceInOrder

(* The inductive invariant holds initially.                                 *)
LEMMA InitInv == Init => IInv
<1> SUFFICES ASSUME Init PROVE IInv
  OBVIOUS
<1> USE DEF Init
<1>1. cancelled \in BOOLEAN
  BY Zenon
<1>2. TypeOK
  BY <1>1 DEF TypeOK, Requests
<1>3. SourceKnown /\ NumbersRead /\ CarriedOnce /\ CarriedIsNew /\ TornIsShared
  BY DEF SourceKnown, NumbersRead, CarriedOnce, CarriedIsNew, TornIsShared, InFlight, Relays
<1>4. RelayedOnceInOrder
  BY DEF RelayedOnceInOrder
<1>5. QED
  BY <1>2, <1>3, <1>4 DEF IInv

(* What has arrived stays so, and what may be torn.                         *)
LEMMA TornStays ==
  ASSUME \A h \in Hosts : handler[h] # "new" => handler'[h] # "new",
         NEW x, MayBeTorn(x)
  PROVE  MayBeTorn(x)'
BY DEF MayBeTorn

(* A step that reads and sends nothing preserves all but the types: a       *)
(* handler keeps the message it carries, or carries none.                   *)
LEMMA NothingRelayed ==
  ASSUME IInv, UNCHANGED <<taken, torn, received>>, TypeOK', SourceKnown',
         \A h \in Hosts : handler[h] # "new" => handler'[h] # "new",
         \A r \in Requests :
           Relays(r)' =>
             /\ Relays(r) /\ source'[r] = source[r] /\ msg'[r] = msg[r]
             /\ handler'[r] = "payload" => handler[r] = "payload"
             /\ handler[r] = "payload" => handler'[r] \in {"payload", "sending"} /\ msg[r] # 0
             /\ handler[r] = "writing" => handler'[r] = "writing" /\ audience'[r] = audience[r]
  PROVE  IInv'
<1>1. NumbersRead' /\ CarriedOnce' /\ CarriedIsNew'
  BY DEF IInv, NumbersRead, CarriedOnce, CarriedIsNew, InFlight, Relays
<1>2. TornIsShared'
  BY TornStays DEF IInv, TornIsShared, Relays
<1>3. RelayedOnceInOrder'
  BY TornStays DEF IInv, RelayedOnceInOrder, MayBeTorn
<1> QED
  BY <1>1, <1>2, <1>3 DEF IInv

(* Nor does one after which a handler carries no message any more.          *)
LEMMA MessageDone ==
  ASSUME IInv, NEW r \in Requests, NextMessage(r), handler[r] # "new",
         UNCHANGED <<taken, torn, received>>, TypeOK',
         \A q \in Requests \ {r} : audience'[q] = audience[q]
  PROVE  IInv'
<1>1. /\ handler' = [handler EXCEPT ![r] = "loop"] /\ source' = [source EXCEPT ![r] = None]
      /\ msg' = [msg EXCEPT ![r] = 0]
  BY DEF NextMessage, Moves
<1>2. /\ handler'[r] = "loop"
      /\ \A q \in Requests \ {r} :
           handler'[q] = handler[q] /\ source'[q] = source[q] /\ msg'[q] = msg[q]
  BY <1>1 DEF IInv, TypeOK
<1>3. SourceKnown'
  BY <1>2 DEF IInv, SourceKnown, Relays
<1>4. \A q \in Requests : handler[q] = "payload" => msg[q] # 0
  BY DEF IInv, TornIsShared
<1>5. \A h \in Hosts : h \in Requests
  BY DEF Requests
<1> QED
  BY <1>2, <1>3, <1>4, <1>5, NothingRelayed DEF Relays

(* A Read begins with a message nobody has seen.                            *)
LEMMA ReadInv ==
  ASSUME IInv, NEW r \in Requests, ReadBegins(r)
  PROVE  IInv'
<1>1. TypeOK /\ SourceKnown /\ taken \in Nat /\ handler[r] = "reading"
  BY DEF IInv, TypeOK, ReadBegins
<1>2. /\ UNCHANGED <<source, audience, received, host, clients, conn, cancelled>>
      /\ taken' = taken + 1
      /\ msg' = [msg EXCEPT ![r] = taken + 1]
      /\ handler' = [handler EXCEPT ![r] = "payload"]
      /\ torn' = torn \/ (InsideMessage(source[r]) /\ torn' = torn \cup {source[r]})
  BY DEF ReadBegins, Moves, serverVars
<1>3. /\ msg'[r] = taken + 1 /\ handler'[r] = "payload"
      /\ \A q \in Requests \ {r} : msg'[q] = msg[q] /\ handler'[q] = handler[q]
  BY <1>1, <1>2 DEF TypeOK
<1>4. source[r] \in Requests
  BY <1>1 DEF SourceKnown
<1>5. TypeOK'
  <2>1. taken + 1 \in Nat
    BY <1>1
  <2>2. torn' \subseteq Requests
    BY <1>1, <1>2, <1>4 DEF TypeOK
  <2> QED
    BY <1>1, <1>2, <2>1, <2>2 DEF TypeOK
<1>6. \A y \in Requests : \A i \in DOMAIN received[y] :
        received[y][i].n \in Nat /\ received[y][i].n <= taken
  <2>1. \A y \in Requests : \A i \in DOMAIN received[y] : received[y][i] \in Relayed
    BY <1>1 DEF TypeOK
  <2> QED
    BY <2>1 DEF Relayed, IInv, NumbersRead
<1>7. \A q \in Requests \ {r} : InFlight(q)' <=> InFlight(q)
  BY <1>3 DEF InFlight, Relays
<1>8. \A q \in Requests : InFlight(q) => msg[q] \in Nat /\ msg[q] <= taken
  BY <1>1 DEF IInv, NumbersRead, TypeOK
<1>9. SourceKnown'
  BY <1>1, <1>2, <1>3 DEF SourceKnown, Relays
<1>10. NumbersRead'
  BY <1>1, <1>2, <1>3, <1>6, <1>7, <1>8 DEF NumbersRead
<1>11. CarriedOnce'
  BY <1>1, <1>3, <1>7, <1>8 DEF IInv, CarriedOnce
<1>12. CarriedIsNew'
  <2> SUFFICES ASSUME NEW q \in Requests, NEW y \in Requests, NEW i \in DOMAIN received[y],
                      InFlight(q)'
               PROVE  /\ received[y][i].n = msg'[q] =>
                           handler'[q] = "writing" /\ y \notin audience[q]
                      /\ received[y][i].via = q => received[y][i].n <= msg'[q]
    BY <1>2 DEF CarriedIsNew
  <2>1. CASE q = r
    BY <2>1, <1>1, <1>3, <1>6
  <2>2. CASE q # r
    BY <2>2, <1>3, <1>7 DEF IInv, CarriedIsNew
  <2> QED
    BY <2>1, <2>2
<1>13. \A x : MayBeTorn(x) => MayBeTorn(x)'
  BY <1>1, <1>3, TornStays DEF Requests
<1>14. InsideMessage(source[r]) => MayBeTorn(source[r])
  <2> SUFFICES ASSUME NEW q \in Requests, handler[q] = "payload", source[q] = source[r]
               PROVE  MayBeTorn(source[r])
    BY DEF InsideMessage
  <2>1. q # r /\ r \in Hosts \cup Clients /\ q \in Hosts \cup Clients
    BY <1>1 DEF Requests
  <2>2. /\ r \in Clients => source[r] = r
        /\ r \in Hosts => source[r] \in Hosts
        /\ q \in Clients => source[q] = q
        /\ q \in Hosts => source[q] \in Hosts
    BY <1>1 DEF SourceKnown, Relays
  <2>3. r \in Hosts /\ q \in Hosts /\ source[r] \in Hosts
    BY <2>1, <2>2, RelayAssumption
  <2> QED
    BY <1>1, <2>1, <2>3 DEF MayBeTorn
<1>15. TornIsShared'
  BY <1>1, <1>2, <1>3, <1>13, <1>14 DEF IInv, TornIsShared
<1>16. RelayedOnceInOrder'
  BY <1>2, <1>13 DEF IInv, RelayedOnceInOrder, MayBeTorn
<1> QED
  BY <1>5, <1>9, <1>10, <1>11, <1>12, <1>15, <1>16 DEF IInv

(* It returns the message whole, or torn if it was overtaken.               *)
LEMMA ReadEndsInv ==
  ASSUME IInv, NEW r \in Requests, ReadSucceeds(r)
  PROVE  IInv'
<1>1. TypeOK /\ SourceKnown /\ handler[r] = "payload" /\ msg[r] # 0
  BY DEF IInv, TornIsShared, ReadSucceeds
<1>2. /\ UNCHANGED <<host, clients, cancelled, conn, taken, torn, received, source, audience>>
      /\ handler' = [handler EXCEPT ![r] = "sending"]
      /\ msg' = IF source[r] \in torn THEN [msg EXCEPT ![r] = 0] ELSE msg
  BY DEF ReadSucceeds, Moves, serverVars, connVars
<1>3. /\ handler'[r] = "sending" /\ msg'[r] = IF source[r] \in torn THEN 0 ELSE msg[r]
      /\ \A q \in Requests \ {r} : handler'[q] = handler[q] /\ msg'[q] = msg[q]
  BY <1>1, <1>2 DEF TypeOK
<1>4. TypeOK'
  BY <1>1, <1>2 DEF TypeOK
<1>5. SourceKnown'
  BY <1>1, <1>2, <1>3 DEF SourceKnown, Relays
<1>6. \A q \in Requests : InFlight(q)' =>
        InFlight(q) /\ msg'[q] = msg[q] /\ (handler[q] = "writing" => handler'[q] = "writing")
  BY <1>1, <1>3 DEF InFlight, Relays
<1>7. NumbersRead' /\ CarriedOnce' /\ CarriedIsNew'
  BY <1>2, <1>6 DEF IInv, NumbersRead, CarriedOnce, CarriedIsNew
<1>8. \A x : MayBeTorn(x) => MayBeTorn(x)'
  BY <1>3, TornStays DEF Requests
<1>9. TornIsShared'
  BY <1>1, <1>2, <1>3, <1>8 DEF IInv, TornIsShared
<1>10. RelayedOnceInOrder'
  BY <1>2, <1>8 DEF IInv, RelayedOnceInOrder, MayBeTorn
<1> QED
  BY <1>4, <1>5, <1>7, <1>9, <1>10 DEF IInv

(* What a Write appends is newer than all its peer has got.                 *)
LEMMA SendInv ==
  ASSUME IInv, NEW r \in Requests, SendSucceeds(r)
  PROVE  IInv'
<1>1. PICK x \in audience[r] :
        /\ received' = [received EXCEPT ![x] = Append(@, Carried(r))]
        /\ audience' = [audience EXCEPT ![r] = @ \ {x}]
        /\ IF audience[r] = {x} THEN NextMessage(r) ELSE UNCHANGED <<handler, source, msg>>
  BY DEF SendSucceeds
<1>2. TypeOK /\ handler[r] = "writing" /\ UNCHANGED <<host, clients, cancelled, conn, taken, torn>>
  BY DEF IInv, SendSucceeds, serverVars
<1>3. x \in Requests /\ source[r] \in Requests /\ msg[r] \in Nat
  BY <1>2 DEF IInv, TypeOK, SourceKnown, Relays
<1>4. Carried(r) \in Relayed
  BY <1>3 DEF Carried, Relayed
<1> DEFINE k == Carried(r)
<1>5. /\ \A y \in Requests \ {x} : received'[y] = received[y]
      /\ DOMAIN received'[x] = DOMAIN received[x] \cup {Len(received[x]) + 1}
      /\ received'[x][Len(received[x]) + 1] = k
      /\ \A i \in DOMAIN received[x] : received'[x][i] = received[x][i]
                                      /\ i \in Nat /\ i <= Len(received[x])
      /\ Len(received[x]) \in Nat
  BY <1>1, <1>2, <1>3, <1>4 DEF TypeOK
<1>6. \A q \in Requests : InFlight(q)' =>
        /\ InFlight(q) /\ source'[q] = source[q] /\ msg'[q] = msg[q] /\ handler'[q] = handler[q]
        /\ source[q] \in Requests /\ msg[q] \in Nat
        /\ audience'[q] = IF q = r THEN audience[r] \ {x} ELSE audience[q]
  <2>1. SourceKnown
    BY DEF IInv
  <2>2. CASE NextMessage(r)
    BY <2>1, <2>2, <1>1, <1>2 DEF NextMessage, Moves, InFlight, Relays, TypeOK, SourceKnown
  <2>3. CASE UNCHANGED <<handler, source, msg>>
    BY <2>1, <2>3, <1>1, <1>2 DEF InFlight, Relays, TypeOK, SourceKnown
  <2> QED
    BY <1>1, <2>2, <2>3
<1>7. k.from = source[r] /\ k.n = msg[r] /\ k.via = r
  BY DEF Carried
<1>8. TypeOK'
  <2>1. received' \in [Requests -> Seq(Relayed)]
    <3>1. Append(received[x], Carried(r)) \in Seq(Relayed)
      BY <1>2, <1>3, <1>4 DEF TypeOK
    <3>2. QED
      BY <3>1, <1>1, <1>2 DEF TypeOK
  <2>2. audience' \in [Requests -> SUBSET Requests]
    <3>1. audience[r] \ {x} \in SUBSET Requests
      BY <1>2 DEF TypeOK
    <3>2. QED
      BY <3>1, <1>1, <1>2 DEF TypeOK
  <2>3. /\ handler' \in [Requests -> {"new", "upgrading", "loop", "reading", "payload",
                                      "sending", "writing", "leaving", "done"}]
        /\ source' \in [Requests -> Requests \cup {None}] /\ msg' \in [Requests -> Nat]
    <3>1. CASE NextMessage(r)
      BY <3>1, <1>2 DEF TypeOK, NextMessage, Moves
    <3>2. CASE UNCHANGED <<handler, source, msg>>
      BY <3>2, <1>2 DEF TypeOK
    <3>3. NextMessage(r) \/ UNCHANGED <<handler, source, msg>>
      BY <1>1, Zenon
    <3>4. QED
      BY <3>1, <3>2, <3>3
  <2>4. QED
    BY <2>1, <2>2, <2>3, <1>2 DEF TypeOK
<1>9. \A q \in Requests : Relays(q)' =>
        /\ Relays(q) /\ handler'[q] = handler[q]
        /\ source'[q] = source[q] /\ msg'[q] = msg[q]
  <2>1. CASE NextMessage(r)
    BY <2>1, <1>2 DEF TypeOK, NextMessage, Moves, Relays
  <2>2. CASE UNCHANGED <<handler, source, msg>>
    BY <2>2 DEF Relays
  <2> QED
    BY <1>1, <2>1, <2>2
<1>10. SourceKnown'
  <2>1. \A q \in Requests : handler'[q] = "reading" => handler[q] = "reading" /\ source'[q] = source[q]
    <3>1. CASE NextMessage(r)
      BY <3>1, <1>2 DEF TypeOK, NextMessage, Moves
    <3>2. CASE UNCHANGED <<handler, source, msg>>
      BY <3>2
    <3> QED
      BY <1>1, <3>1, <3>2
  <2> QED
    BY <2>1, <1>9 DEF IInv, SourceKnown
<1>11. NumbersRead'
  <2>1. msg[r] <= taken
    BY <1>2, <1>3 DEF IInv, NumbersRead, InFlight, Relays, TypeOK
  <2>2. \A y \in Requests : \A i \in DOMAIN received'[y] : received'[y][i].n <= taken
    BY <2>1, <1>2, <1>5, <1>7 DEF IInv, NumbersRead
  <2> QED
    BY <2>2, <1>2, <1>6 DEF IInv, NumbersRead
<1>12. CarriedOnce'
  BY <1>6 DEF IInv, CarriedOnce
<1>13. CarriedIsNew'
  <2> SUFFICES ASSUME NEW q \in Requests, NEW y \in Requests, NEW i \in DOMAIN received'[y],
                      InFlight(q)'
               PROVE  /\ received'[y][i].n = msg[q] =>
                           handler[q] = "writing" /\ y \notin audience'[q]
                      /\ received'[y][i].via = q => received'[y][i].n <= msg[q]
    BY <1>6 DEF CarriedIsNew
  <2>1. CASE y = x /\ i = Len(received[x]) + 1
    BY <2>1, <1>2, <1>3, <1>5, <1>6, <1>7 DEF IInv, CarriedOnce, InFlight, Relays
  <2>2. CASE ~(y = x /\ i = Len(received[x]) + 1)
    BY <2>2, <1>5, <1>6 DEF IInv, CarriedIsNew
  <2> QED
    BY <2>1, <2>2
<1>14. \A h \in Hosts : handler[h] # "new" => handler'[h] # "new"
  <2>1. CASE NextMessage(r)
    BY <2>1, <1>2 DEF TypeOK, NextMessage, Moves, Requests
  <2>2. CASE UNCHANGED <<handler, source, msg>>
    BY <2>2
  <2> QED
    BY <1>1, <2>1, <2>2
<1>15. TornIsShared'
  <2>1. torn' = torn
    BY DEF SendSucceeds
  <2> QED
    BY <2>1, <1>9, <1>14, TornStays DEF IInv, TornIsShared, Relays
<1>16. RelayedOnceInOrder'
  <2>1. ASSUME NEW y \in Requests, NEW j \in DOMAIN received'[y], received'[y][j].n = 0
        PROVE  /\ received'[y][j].from \in Hosts
               /\ \E h \in Hosts \ {received'[y][j].from} : handler'[h] # "new"
    <3>1. CASE y = x /\ j = Len(received[x]) + 1
      <4>1. msg[r] = 0
        BY <2>1, <3>1, <1>5, <1>7
      <4>2. MayBeTorn(source[r])
        BY <4>1, <1>2 DEF IInv, TornIsShared
      <4> QED
        BY <3>1, <4>2, <1>5, <1>7, <1>14 DEF MayBeTorn
    <3>2. CASE ~(y = x /\ j = Len(received[x]) + 1)
      <4>1. j \in DOMAIN received[y] /\ received'[y][j] = received[y][j]
        BY <3>2, <1>5
      <4>2. MayBeTorn(received[y][j].from)
        BY <2>1, <4>1 DEF IInv, RelayedOnceInOrder, MayBeTorn
      <4> QED
        BY <4>1, <4>2, <1>14 DEF MayBeTorn
    <3> QED
      BY <3>1, <3>2
  <2>2. ASSUME NEW y \in Requests, NEW i \in DOMAIN received'[y], NEW j \in DOMAIN received'[y],
               i < j, received'[y][j].n # 0
        PROVE  /\ received'[y][i].n # received'[y][j].n
               /\ received'[y][i].via = received'[y][j].via =>
                    received'[y][i].n < received'[y][j].n
    <3>1. CASE y # x
      BY <2>2, <3>1, <1>5 DEF IInv, RelayedOnceInOrder
    <3>2. CASE y = x /\ j \in DOMAIN received[x]
      BY <2>2, <3>2, <1>5 DEF IInv, RelayedOnceInOrder
    <3>3. CASE y = x /\ j = Len(received[x]) + 1
      <4>1. i \in DOMAIN received[x] /\ received'[x][i] = received[x][i] /\ received'[x][j] = k
        BY <2>2, <3>3, <1>5
      <4>2. received[x][i].n \in Nat
        <5>1. received[x][i] \in Relayed
          BY <4>1, <1>2, <1>3 DEF TypeOK
        <5> QED
          BY <5>1 DEF Relayed
      <4>3. InFlight(r)
        BY <2>2, <3>3, <4>1, <1>2, <1>7 DEF InFlight, Relays
      <4>4. received[x][i].n # msg[r] /\ (received[x][i].via = r => received[x][i].n <= msg[r])
        BY <4>1, <4>3, <1>1, <1>2, <1>3 DEF IInv, CarriedIsNew
      <4> QED
        BY <3>3, <4>1, <4>2, <4>4, <1>3, <1>7
    <3> QED
      BY <3>1, <3>2, <3>3, <1>5
  <2> QED
    BY <2>1, <2>2 DEF RelayedOnceInOrder
<1> QED
  BY <1>8, <1>10, <1>11, <1>12, <1>13, <1>15, <1>16 DEF IInv

(* Every step preserves the inductive invariant.                            *)
LEMMA NextInv == IInv /\ [Next]_vars => IInv'
<1> SUFFICES ASSUME IInv, [Next]_vars PROVE IInv'
  OBVIOUS
<1> USE DEF serverVars, connVars, relayVars
<1>1. TypeOK /\ SourceKnown
  BY DEF IInv
<1>0. /\ handler \in [Requests -> {"new", "upgrading", "loop", "reading", "payload",
                                   "sending", "writing", "leaving", "done"}]
      /\ source \in [Requests -> Requests \cup {None}] /\ msg \in [Requests -> Nat]
      /\ audience \in [Requests -> SUBSET Requests]
      /\ \A r \in Requests : handler[r] = "payload" => msg[r] # 0
      /\ \A h \in Hosts : h \in Requests
  BY DEF IInv, TypeOK, TornIsShared, Requests
\* A handler that moves between states in which it carries nothing.
<1>s. ASSUME NEW r \in Requests, NEW step,
             handler' = [handler EXCEPT ![r] = step], step \notin {"payload", "sending", "writing", "new"},
             UNCHANGED <<taken, torn, received, audience>>, TypeOK', SourceKnown',
             \A q \in Requests \ {r} : source'[q] = source[q] /\ msg'[q] = msg[q]
      PROVE  IInv'
  <2>1. handler'[r] = step /\ \A q \in Requests \ {r} : handler'[q] = handler[q]
    BY <1>0, <1>s
  <2> QED
    BY <1>0, <1>s, <2>1, NothingRelayed DEF Relays
<1>2. ASSUME NEW h \in Hosts,
             FindsSlotEmpty(h) \/ UpgradeFails(h) \/ SetHost(h) \/ ClearHost(h)
      PROVE  IInv'
  <2>1. TypeOK'
    BY <1>1, <1>2 DEF TypeOK, FindsSlotEmpty, UpgradeFails, SetHost, ClearHost, Moves, Requests
  <2>2. /\ UNCHANGED <<taken, torn, received, source, msg, audience>>
        /\ \E step \in {"upgrading", "leaving", "loop", "done"} : handler' = [handler EXCEPT ![h] = step]
    BY <1>2 DEF FindsSlotEmpty, UpgradeFails, SetHost, ClearHost, Moves
  <2>3. SourceKnown'
    BY <1>0, <1>1, <2>2 DEF SourceKnown, Relays
  <2> QED
    BY <1>0, <1>s, <2>1, <2>2, <2>3
<1>3. ASSUME NEW c \in Clients, AddClient(c) \/ RemoveClient(c) PROVE IInv'
  <2>1. TypeOK'
    BY <1>1, <1>3 DEF TypeOK, AddClient, RemoveClient, Moves, Requests
  <2>2. /\ UNCHANGED <<taken, torn, received, source, msg, audience>>
        /\ \E step \in {"loop", "done"} : handler' = [handler EXCEPT ![c] = step]
    BY <1>3 DEF AddClient, RemoveClient, Moves
  <2>3. SourceKnown'
    BY <1>0, <1>1, <2>2 DEF SourceKnown, Relays
  <2> QED
    BY <1>s, <2>1, <2>2, <2>3 DEF Requests
<1>4. ASSUME NEW r \in Requests, NEW x \in Requests \cup {None}, Looks(r, x),
             r \in Clients => x \in {r, None}, r \in Hosts => x \in Hosts \cup {None}
      PROVE  IInv'
  <2>1. UNCHANGED <<host, clients, cancelled, conn, taken, torn, received, msg, audience>>
    BY <1>4 DEF Looks
  <2>2. \/ handler' = [handler EXCEPT ![r] = "leaving"] /\ source' = source
        \/ /\ handler' = [handler EXCEPT ![r] = "reading"]
           /\ source' = [source EXCEPT ![r] = x] /\ x # None
    BY <1>4 DEF Looks, Moves
  <2>3. TypeOK'
    <3>1. handler' \in [Requests -> {"new", "upgrading", "loop", "reading", "payload",
                                     "sending", "writing", "leaving", "done"}]
      BY <1>0, <2>2
    <3>2. source' \in [Requests -> Requests \cup {None}]
      BY <1>0, <2>2
    <3> QED
      BY <1>1, <2>1, <3>1, <3>2 DEF TypeOK
  <2>4. \A q \in Requests \ {r} : source'[q] = source[q] /\ handler'[q] = handler[q]
    BY <1>0, <2>2
  <2>5. /\ handler'[r] \in {"leaving", "reading"}
        /\ handler'[r] = "reading" => source'[r] = x /\ x # None
    BY <1>0, <2>2
  <2>6. SourceKnown'
    BY <1>1, <1>4, <2>4, <2>5 DEF SourceKnown, Relays
  <2>7. handler' = [handler EXCEPT ![r] = "leaving"] \/ handler' = [handler EXCEPT ![r] = "reading"]
    BY <2>2
  <2> QED
    BY <1>s, <2>1, <2>3, <2>4, <2>6, <2>7
<1>5. ASSUME NEW r \in Requests, ReadFails(r) PROVE IInv'
  <2>1. TypeOK'
    BY <1>1, <1>5 DEF TypeOK, ReadFails, Moves
  <2>2. /\ UNCHANGED <<taken, torn, received, audience>>
        /\ handler' = [handler EXCEPT ![r] = "leaving"]
        /\ source' = [source EXCEPT ![r] = None] /\ msg' = [msg EXCEPT ![r] = 0]
    BY <1>5 DEF ReadFails, Moves
  <2>3. SourceKnown'
    BY <1>0, <1>1, <2>2 DEF SourceKnown, Relays
  <2> QED
    BY <1>0, <1>s, <2>1, <2>2, <2>3
<1>6. ASSUME NEW r \in Requests, ReadBegins(r) \/ ReadSucceeds(r) PROVE IInv'
  BY <1>6, ReadInv, ReadEndsInv
<1>7. ASSUME NEW r \in Requests, NEW S \in SUBSET Requests, Addresses(r, S) PROVE IInv'
  <2>1. /\ handler[r] = "sending" /\ audience' = [audience EXCEPT ![r] = S]
        /\ UNCHANGED <<host, clients, cancelled, conn, taken, torn, received>>
    BY <1>7 DEF Addresses
  <2>2. audience' \in [Requests -> SUBSET Requests]
    BY <1>0, <2>1
  <2>3. \A q \in Requests \ {r} : audience'[q] = audience[q]
    BY <1>0, <2>1
  <2>4. CASE S = {}
    <3>1. NextMessage(r)
      BY <1>7, <2>4 DEF Addresses
    <3>2. TypeOK'
      BY <1>1, <2>1, <2>2, <3>1 DEF TypeOK, NextMessage, Moves
    <3> QED
      BY <2>1, <2>3, <3>1, <3>2, MessageDone
  <2>5. CASE S # {}
    <3>1. handler' = [handler EXCEPT ![r] = "writing"] /\ UNCHANGED <<source, msg>>
      BY <1>7, <2>5 DEF Addresses, Moves
    <3>2. TypeOK'
      BY <1>1, <2>1, <2>2, <3>1 DEF TypeOK
    <3>3. /\ handler'[r] = "writing"
          /\ \A q \in Requests \ {r} : handler'[q] = handler[q]
      BY <1>0, <3>1
    <3>4. SourceKnown'
      BY <1>1, <2>1, <3>1, <3>3 DEF SourceKnown, Relays
    <3> QED
      BY <1>0, <2>1, <2>3, <3>1, <3>2, <3>3, <3>4, NothingRelayed DEF Relays
  <2> QED
    BY <2>4, <2>5
<1>8. ASSUME NEW r \in Requests, SendSucceeds(r) PROVE IInv'
  BY <1>8, SendInv
<1>9. ASSUME NEW r \in Requests, SendFails(r) PROVE IInv'
  <2>1. TypeOK'
    BY <1>1, <1>9 DEF TypeOK, SendFails, NextMessage, Moves
  <2>2. /\ handler[r] # "new" /\ NextMessage(r) /\ UNCHANGED <<taken, torn, received>>
        /\ audience' = [audience EXCEPT ![r] = {}]
    BY <1>9 DEF SendFails
  <2> QED
    BY <1>0, <2>1, <2>2, MessageDone
\* A step of no handler.
<1>k. ASSUME UNCHANGED <<handler, source, msg, audience, taken, torn, received>>, TypeOK' PROVE IInv'
  <2>1. SourceKnown'
    BY <1>1, <1>k DEF SourceKnown, Relays
  <2> QED
    BY <1>0, <1>k, <2>1, NothingRelayed DEF Relays
<1>10. ASSUME NEW r \in Requests, GetsStuck(r) \/ ConnectionFails(r) PROVE IInv'
  <2>1. TypeOK'
    BY <1>1, <1>10 DEF TypeOK, GetsStuck, ConnectionFails
  <2> QED
    BY <1>10, <1>k, <2>1 DEF GetsStuck, ConnectionFails
<1>11. CASE Close
  <2>1. cancelled' \in BOOLEAN
    BY <1>11, Zenon DEF Close
  <2>2. TypeOK'
    BY <1>1, <1>11, <2>1 DEF TypeOK, Close
  <2> QED
    BY <1>11, <1>k, <2>2 DEF Close
<1>12. CASE UNCHANGED vars
  <2>1. TypeOK'
    BY <1>1, <1>12 DEF vars, TypeOK
  <2> QED
    BY <1>12, <1>k, <2>1 DEF vars
<1>13. ASSUME NEW r \in Requests, HandlerStep(r) PROVE IInv'
  <2>1. CASE r \in Hosts /\ ReadHost(r)
    <3>1. host \in Hosts \cup {None} /\ r \notin Clients
      BY <1>1, <2>1, RelayAssumption DEF TypeOK
    <3> QED
      BY <1>4, <2>1, <3>1 DEF ReadHost, Requests
  <2>2. CASE r \in Clients /\ ReadClient(r)
    <3>1. r \notin Hosts
      BY <2>2, RelayAssumption
    <3> QED
      BY <1>4, <2>2, <3>1 DEF ReadClient
  <2>3. CASE r \in Hosts /\ SendAllClients(r)
    BY <1>1, <1>7, <2>3 DEF SendAllClients, TypeOK, Requests
  <2>4. CASE r \in Clients /\ SendHost(r)
    BY <1>1, <1>7, <2>4 DEF SendHost, TypeOK, Requests
  <2>5. QED
    BY <1>2, <1>3, <1>5, <1>8, <1>9, <1>13, <2>1, <2>2, <2>3, <2>4 DEF HandlerStep
<1>14. ASSUME NEW r \in Requests, PeerStep(r) PROVE IInv'
  BY <1>2, <1>3, <1>6, <1>10, <1>14 DEF PeerStep
<1>15. QED
  BY <1>11, <1>12, <1>13, <1>14 DEF Next

(* Every reachable state satisfies the inductive invariant.                 *)
LEMMA Invariance == Spec => []IInv
  BY InitInv, NextInv, PTL DEF Spec

(* The types hold: a handler never addresses nil or a request of no kind.   *)
THEOREM TypeCorrect == Spec => []TypeOK
  BY Invariance, PTL DEF IInv

(* However host handlers share a connection, and whoever fails: no peer gets*)
(* a message twice, what one handler relays keeps its order, and what is    *)
(* torn is a host's whose connection another loopback request may share.    *)
THEOREM RelayKeepsOrder == Spec => []RelayedOnceInOrder
  BY Invariance, PTL DEF IInv
=============================================================================
