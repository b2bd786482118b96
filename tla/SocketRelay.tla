----------------------------- MODULE SocketRelay -----------------------------
(***************************************************************************)
(* What the WebSocket server of pkg/socket/server.go relays: hostHandler   *)
(* sends the messages of the host to all clients, a clientHandler those of *)
(* its client to the host.  Who may register is SocketServer's subject;    *)
(* here handlers come and go and connections fail at any time.             *)
(*                                                                         *)
(* hostHandler reads from whatever connection is in the host slot, which   *)
(* is not its own when two loopback requests found the slot empty: two     *)
(* handlers may then share one connection.  A message is sent to the       *)
(* clients that were in the table when it was read; the first Write that   *)
(* fails keeps it from the others.  A Write waits for a client that does   *)
(* not read.                                                               *)
(*                                                                         *)
(* External: the connections of coder/websocket.  A Read takes the header  *)
(* of the next message and then its payload, and ends, like a Write, when  *)
(* s.ctx does.  The library allows one reader at a time: a Read that begins*)
(* before another has its payload takes that for a header.  From then on   *)
(* what is read from the connection is torn, or the connection fails.      *)
(***************************************************************************)
EXTENDS Integers, Sequences, FiniteSets

CONSTANTS
  Hosts,        \* requests from a loopback address
  Clients,      \* the other requests
  None,         \* nil
  MaxRequests,  \* bound: the requests that come
  MaxFaults,    \* bound: the connections that fail or get stuck
  MaxMessages   \* bound: the messages read

ASSUME RelayAssumption ==
  /\ Hosts \cap Clients = {} /\ None \notin Hosts \cup Clients
  /\ MaxRequests \in Nat /\ MaxFaults \in Nat /\ MaxMessages \in Nat

VARIABLES
  handler,    \* where the handler of each request is
  host,       \* s.host
  clients,    \* s.clients
  conn,       \* the connections: open, stuck (the peer does not read) or failed
  taken,      \* how many messages have been read; they are numbered so
  torn,       \* the connections on which one Read has overtaken another
  source,     \* the connection a handler reads from, or None
  msg,        \* the number of the message it relays, or 0 for none or a torn one
  audience,   \* those it has yet to send it to
  received,   \* what each peer has got
  cancelled   \* s.ctx is done

serverVars == <<host, clients, cancelled>>
connVars == <<conn, taken, torn, received>>
relayVars == <<source, msg, audience>>
vars == <<handler, serverVars, connVars, relayVars>>

Requests == Hosts \cup Clients
Relayed == [via : Requests, from : Requests, n : Nat]

Init ==
  /\ handler = [r \in Requests |-> "new"]
  /\ host = None
  /\ clients = {}
  /\ conn = [r \in Requests |-> "open"]
  /\ taken = 0
  /\ torn = {}
  /\ source = [r \in Requests |-> None]
  /\ msg = [r \in Requests |-> 0]
  /\ audience = [r \in Requests |-> {}]
  /\ received = [r \in Requests |-> <<>>]
  /\ cancelled = FALSE

Moves(r, step) == handler' = [handler EXCEPT ![r] = step]

-----------------------------------------------------------------------------
(* wsHandler, around the handlers. *)

Arrived == {r \in Requests : handler[r] # "new"}
Arrives(r) == r \notin Arrived /\ Cardinality(Arrived) < MaxRequests

(* The slot is looked at before the upgrade and taken after it.             *)
FindsSlotEmpty(h) ==
  /\ Arrives(h) /\ host = None
  /\ Moves(h, "upgrading")
  /\ UNCHANGED <<serverVars, connVars, relayVars>>

UpgradeFails(h) ==
  /\ handler[h] = "upgrading"
  /\ Moves(h, "leaving")
  /\ UNCHANGED <<serverVars, connVars, relayVars>>

SetHost(h) ==
  /\ handler[h] = "upgrading"
  /\ host' = h
  /\ Moves(h, "loop")
  /\ UNCHANGED <<clients, cancelled, connVars, relayVars>>

ClearHost(h) ==
  /\ handler[h] = "leaving"
  /\ host' = None
  /\ Moves(h, "done")
  /\ UNCHANGED <<clients, cancelled, connVars, relayVars>>

AddClient(c) ==
  /\ Arrives(c)
  /\ clients' = clients \cup {c}
  /\ Moves(c, "loop")
  /\ UNCHANGED <<host, cancelled, connVars, relayVars>>

RemoveClient(c) ==
  /\ handler[c] = "leaving"
  /\ clients' = clients \ {c}
  /\ Moves(c, "done")
  /\ UNCHANGED <<host, cancelled, connVars, relayVars>>

-----------------------------------------------------------------------------
(* hostHandler and clientHandler. *)

(* The context is checked and the connection taken from the server: a       *)
(* client's is its own, a host's that of the slot.  Without one the handler *)
(* returns.                                                                 *)
Looks(r, x) ==
  /\ handler[r] = "loop"
  /\ IF cancelled \/ x = None
       THEN Moves(r, "leaving") /\ UNCHANGED source
       ELSE Moves(r, "reading") /\ source' = [source EXCEPT ![r] = x]
  /\ UNCHANGED <<serverVars, connVars, msg, audience>>

ReadHost(h) == Looks(h, host)
ReadClient(c) == Looks(c, IF c \in clients THEN c ELSE None)

InsideMessage(x) == \E q \in Requests : handler[q] = "payload" /\ source[q] = x

ReadBegins(r) ==
  /\ handler[r] = "reading"
  /\ conn[source[r]] # "failed" /\ taken < MaxMessages
  /\ torn' = IF InsideMessage(source[r]) THEN torn \cup {source[r]} ELSE torn
  /\ taken' = taken + 1
  /\ msg' = [msg EXCEPT ![r] = taken + 1]
  /\ Moves(r, "payload")
  /\ UNCHANGED <<serverVars, conn, received, source, audience>>

ReadSucceeds(r) ==
  /\ handler[r] = "payload"
  /\ conn[source[r]] # "failed"
  /\ msg' = IF source[r] \in torn THEN [msg EXCEPT ![r] = 0] ELSE msg
  /\ Moves(r, "sending")
  /\ UNCHANGED <<serverVars, connVars, source, audience>>

ReadFails(r) ==
  /\ handler[r] \in {"reading", "payload"}
  /\ conn[source[r]] = "failed" \/ cancelled
  /\ Moves(r, "leaving")
  /\ source' = [source EXCEPT ![r] = None]
  /\ msg' = [msg EXCEPT ![r] = 0]
  /\ UNCHANGED <<serverVars, connVars, audience>>

(* Back to the top of the loop.                                             *)
NextMessage(r) ==
  /\ Moves(r, "loop")
  /\ source' = [source EXCEPT ![r] = None]
  /\ msg' = [msg EXCEPT ![r] = 0]

(* Nobody to send to: the message is dropped.                               *)
Addresses(r, S) ==
  /\ handler[r] = "sending"
  /\ audience' = [audience EXCEPT ![r] = S]
  /\ IF S = {} THEN NextMessage(r) ELSE Moves(r, "writing") /\ UNCHANGED <<source, msg>>
  /\ UNCHANGED <<serverVars, connVars>>

SendAllButOne(h) == \E c \in Clients : Addresses(h, clients \ {c})  \* mutant
SendAllClients(h) == Addresses(h, clients)

SendToNil(c) == Addresses(c, {host})  \* mutant
SendHost(c) == Addresses(c, {host} \ {None})

Carried(r) == [via |-> r, from |-> source[r], n |-> msg[r]]

(* The map is walked in any order.                                          *)
SendSucceeds(r) ==
  /\ handler[r] = "writing"
  /\ ~cancelled
  /\ \E x \in audience[r] :
       /\ conn[x] = "open"
       /\ received' = [received EXCEPT ![x] = Append(@, Carried(r))]
       /\ audience' = [audience EXCEPT ![r] = @ \ {x}]
       /\ IF audience[r] = {x} THEN NextMessage(r) ELSE UNCHANGED <<handler, source, msg>>
  /\ UNCHANGED <<serverVars, conn, taken, torn>>

SendAgain(r) ==  \* mutant: the message is sent to all again
  /\ handler[r] = "writing"
  /\ cancelled \/ \E x \in audience[r] : conn[x] = "failed"
  /\ audience' = [audience EXCEPT ![r] = {}]
  /\ Moves(r, "sending")
  /\ UNCHANGED <<serverVars, connVars, source, msg>>

(* The rest of the audience misses the message, the loop goes on.           *)
SendFails(r) ==
  /\ handler[r] = "writing"
  /\ cancelled \/ \E x \in audience[r] : conn[x] = "failed"
  /\ audience' = [audience EXCEPT ![r] = {}]
  /\ NextMessage(r)
  /\ UNCHANGED <<serverVars, connVars>>

-----------------------------------------------------------------------------
(* The peers and Close. *)

(* A fault makes a difference while the server refers to the connection and *)
(* its context does not end every Read and Write anyway.                    *)
Used(r) == r \in clients \cup {host} \/ \E q \in Requests : r \in audience[q] \cup {source[q]}

MayFault(r) ==
  /\ Used(r) /\ ~cancelled
  /\ Cardinality({x \in Requests : conn[x] # "open"} \cup {r}) <= MaxFaults

GetsStuck(r) ==
  /\ MayFault(r) /\ conn[r] = "open"
  /\ conn' = [conn EXCEPT ![r] = "stuck"]
  /\ UNCHANGED <<handler, serverVars, taken, torn, received, relayVars>>

ConnectionFails(r) ==
  /\ MayFault(r) \/ (Used(r) /\ r \in torn)
  /\ conn[r] # "failed"
  /\ conn' = [conn EXCEPT ![r] = "failed"]
  /\ UNCHANGED <<handler, serverVars, taken, torn, received, relayVars>>

Close ==
  /\ ~cancelled
  /\ cancelled' = TRUE
  /\ host' = None
  /\ clients' = {}
  /\ UNCHANGED <<handler, connVars, relayVars>>

-----------------------------------------------------------------------------
HandlerStep(r) ==
  \/ r \in Hosts /\ (SetHost(r) \/ ClearHost(r) \/ ReadHost(r) \/ SendAllClients(r))
  \/ r \in Clients /\ (RemoveClient(r) \/ ReadClient(r) \/ SendHost(r))
  \/ ReadFails(r) \/ SendSucceeds(r) \/ SendFails(r)

PeerStep(r) ==
  \/ r \in Hosts /\ (FindsSlotEmpty(r) \/ UpgradeFails(r))
  \/ r \in Clients /\ (AddClient(r) \/ GetsStuck(r))
  \/ ReadBegins(r) \/ ReadSucceeds(r) \/ ConnectionFails(r)

Next == Close \/ \E r \in Requests : HandlerStep(r) \/ PeerStep(r)

Spec == Init /\ [][Next]_vars

(* Handlers run.  Nothing makes a peer send, read or hang up.               *)
FairSpec == Spec /\ \A r \in Requests : WF_vars(HandlerStep(r))

-----------------------------------------------------------------------------
(* Properties. *)

(* Every variable has its type.                                             *)
TypeOK ==
  /\ handler \in [Requests -> {"new", "upgrading", "loop", "reading", "payload", "sending",
                               "writing", "leaving", "done"}]
  /\ host \in Hosts \cup {None} /\ clients \subseteq Clients /\ cancelled \in BOOLEAN
  /\ conn \in [Requests -> {"open", "stuck", "failed"}]
  /\ taken \in Nat /\ torn \subseteq Requests
  /\ received \in [Requests -> Seq(Relayed)]
  /\ source \in [Requests -> Requests \cup {None}] /\ msg \in [Requests -> Nat]
  /\ audience \in [Requests -> SUBSET Requests]

(* A peer gets no message twice, though two handlers may share a host, and  *)
(* what one handler relays in the order it was sent: only two handlers      *)
(* reorder a host's messages, and no failed send is made up for.  A torn one*)
(* is a host's, and only if another loopback request came: those of clients *)
(* are whole.                                                               *)
RelayedOnceInOrder ==
  \A r \in Requests : \A i, j \in DOMAIN received[r] :
    LET old == received[r][i]
        new == received[r][j]
    IN  /\ new.n = 0 => new.from \in Hosts /\ \E h \in Hosts \ {new.from} : handler[h] # "new"
        /\ i < j /\ new.n # 0 => old.n # new.n /\ (old.via = new.via => old.n < new.n)

(* A message of a host reaches every client that is there when it is read,  *)
(* unless a client has failed or does not read, or the server closes.       *)
Sending(n) == \E h \in Hosts : handler[h] = "sending" /\ msg[h] = n
Has(c, n) == \E i \in DOMAIN received[c] : received[c][i].n = n

EveryoneGetsIt ==
  \A c \in Clients : \A n \in 1..MaxMessages :
    c \in clients /\ Sending(n) ~>
      Has(c, n) \/ cancelled \/ \E d \in Clients : conn[d] # "open"
=============================================================================
