------------------------------ MODULE Loopback ------------------------------
(***************************************************************************)
(* The UDP bridge of pkg/loopback/host.go: Connect and Close, the read     *)
(* loop and the metrics loop that each Connect starts, Write, and the      *)
(* discovery of the remote address.                                        *)
(*                                                                         *)
(* LoopBack.mu guards bindPort, remote and the context, but the loops look *)
(* at bindPort and ctx without it, and Close holds it while it waits for   *)
(* the loops.  ctx is one field for all loops: a second Connect replaces   *)
(* the context that the loops of the first one look at.                    *)
(*                                                                         *)
(* NewLoopBack is taken to have bound a port, and the callback f to        *)
(* return.  Metrics are left out.  External: the UDP socket and its peers. *)
(***************************************************************************)
EXTENDS Naturals

CONSTANTS
  Peers,        \* remote addresses
  Writers,      \* goroutines that call WriteRTP
  MaxConnects   \* bound: how often Connect is called

ASSUME LoopbackAssumption == MaxConnects \in Nat \ {0} /\ "none" \notin Peers

VARIABLES
  connects,   \* the number of Connect calls so far; l.ctx is the last one's
  done,       \* the contexts that are cancelled, by number
  connector,  \* what the caller of Connect does: idle or replacing
  closer,     \* what Close does: idle, waiting or returned
  mu,         \* who holds l.mu for writing
  writing,    \* writers that hold l.mu for reading
  bound,      \* l.bindPort is set
  remote,     \* l.remote
  reader,     \* where the read loop of each Connect is
  from,       \* the sender of the packet each read loop holds
  ticker,     \* where the metrics loop of each Connect is
  watching,   \* the context whose Done each metrics loop waits for
  crashed     \* a nil bindPort was used

vars == <<connects, done, connector, closer, mu, writing, bound, remote, reader, from, ticker,
          watching, crashed>>

Loops == 1 .. MaxConnects

Init ==
  /\ connects = 0
  /\ done = {}
  /\ connector = "idle"
  /\ closer = "idle"
  /\ mu = "none"
  /\ writing = {}
  /\ bound = TRUE
  /\ remote = "none"
  /\ reader = [i \in Loops |-> "none"]
  /\ from = [i \in Loops |-> "none"]
  /\ ticker = [i \in Loops |-> "none"]
  /\ watching = [i \in Loops |-> 0]
  /\ crashed = FALSE

(* Using a nil port ends the process. *)
Running == ~crashed

Cancelled == connects \in done
Ended(s) == s \in {"none", "returned"}
CanLock == mu = "none" /\ writing = {}

-----------------------------------------------------------------------------
(* Connect cancels the previous context, then puts its own in its place.    *)
(* Its last line asks bindPort for its address.                             *)

ConnectCancels ==
  /\ Running
  /\ connector = "idle" /\ connects < MaxConnects
  /\ CanLock
  /\ mu' = "connector"
  /\ connector' = "replacing"
  /\ done' = IF connects > 0 THEN done \cup {connects} ELSE done
  /\ UNCHANGED <<connects, closer, writing, bound, remote, reader, from, ticker, watching, crashed>>

ConnectNeverUnlocks ==  \* mutant
  /\ Running
  /\ connector = "replacing"
  /\ connects' = connects + 1
  /\ reader' = [reader EXCEPT ![connects'] = "check"]
  /\ ticker' = [ticker EXCEPT ![connects'] = "waiting"]
  /\ watching' = [watching EXCEPT ![connects'] = connects']
  /\ crashed' = ~bound
  /\ connector' = "idle"
  /\ UNCHANGED <<done, closer, mu, writing, bound, remote, from>>

ConnectStarts ==
  /\ Running
  /\ connector = "replacing"
  /\ connects' = connects + 1
  /\ reader' = [reader EXCEPT ![connects'] = "check"]
  /\ ticker' = [ticker EXCEPT ![connects'] = "waiting"]
  /\ watching' = [watching EXCEPT ![connects'] = connects']
  /\ crashed' = ~bound
  /\ connector' = "idle"
  /\ mu' = "none"
  /\ UNCHANGED <<done, closer, writing, bound, remote, from>>

-----------------------------------------------------------------------------
(* Write, SetRemoteAddress and Close. *)

(* Without a port or a remote Write returns an error and changes nothing. *)
Write(w) ==
  /\ Running
  /\ w \notin writing
  /\ mu = "none"
  /\ bound /\ remote # "none"
  /\ writing' = writing \cup {w}
  /\ UNCHANGED <<connects, done, connector, closer, mu, bound, remote, reader, from, ticker,
                 watching, crashed>>

WriteReturns(w) ==
  /\ Running
  /\ w \in writing
  /\ writing' = writing \ {w}
  /\ UNCHANGED <<connects, done, connector, closer, mu, bound, remote, reader, from, ticker,
                 watching, crashed>>

SetRemoteAddress(p) ==
  /\ Running
  /\ CanLock
  /\ remote' = p
  /\ UNCHANGED <<connects, done, connector, closer, mu, writing, bound, reader, from, ticker,
                 watching, crashed>>

CloseIgnoresWrites ==  \* mutant
  /\ Running
  /\ closer = "idle"
  /\ mu = "none"
  /\ mu' = "closer"
  /\ closer' = "waiting"
  /\ done' = IF connects > 0 THEN done \cup {connects} ELSE done
  /\ bound' = FALSE
  /\ UNCHANGED <<connects, connector, writing, remote, reader, from, ticker, watching, crashed>>

Close ==
  /\ Running
  /\ closer = "idle"
  /\ CanLock
  /\ mu' = "closer"
  /\ closer' = "waiting"
  /\ done' = IF connects > 0 THEN done \cup {connects} ELSE done
  /\ bound' = FALSE
  /\ UNCHANGED <<connects, connector, writing, remote, reader, from, ticker, watching, crashed>>

LoopsEnded == \A i \in Loops : Ended(reader[i]) /\ Ended(ticker[i])

CloseReturns ==
  /\ Running
  /\ closer = "waiting"
  /\ LoopsEnded
  /\ closer' = "returned"
  /\ mu' = "none"
  /\ UNCHANGED <<connects, done, connector, writing, bound, remote, reader, from, ticker, watching,
                 crashed>>

-----------------------------------------------------------------------------
(* The read loop. *)

LoopChecks(i) ==
  /\ Running
  /\ reader[i] = "check"
  /\ reader' = [reader EXCEPT ![i] = IF Cancelled THEN "returned" ELSE "toRead"]
  /\ UNCHANGED <<connects, done, connector, closer, mu, writing, bound, remote, from, ticker,
                 watching, crashed>>

(* SetReadDeadline and ReadFromUDP use l.bindPort as it is by now. *)
StartRead(i) ==
  /\ Running
  /\ reader[i] = "toRead"
  /\ reader' = [reader EXCEPT ![i] = "reading"]
  /\ crashed' = ~bound
  /\ UNCHANGED <<connects, done, connector, closer, mu, writing, bound, remote, from, ticker,
                 watching>>

PacketArrives(i, p) ==
  /\ Running
  /\ reader[i] = "reading" /\ bound
  /\ reader' = [reader EXCEPT ![i] = "received"]
  /\ from' = [from EXCEPT ![i] = p]
  /\ UNCHANGED <<connects, done, connector, closer, mu, writing, bound, remote, ticker, watching,
                 crashed>>

(* The deadline passes, or the port is closed. *)
ReadEnds(i) ==
  /\ Running
  /\ reader[i] = "reading"
  /\ reader' = [reader EXCEPT ![i] = "check"]
  /\ UNCHANGED <<connects, done, connector, closer, mu, writing, bound, remote, from, ticker,
                 watching, crashed>>

Discovers(i) == remote = "none"

(* The sender becomes the remote if there is none; then f is called. *)
HandleMessage(i) ==
  /\ Running
  /\ reader[i] = "received"
  /\ CanLock
  /\ remote' = IF Discovers(i) THEN from[i] ELSE remote
  /\ from' = [from EXCEPT ![i] = "none"]
  /\ reader' = [reader EXCEPT ![i] = "check"]
  /\ UNCHANGED <<connects, done, connector, closer, mu, writing, bound, ticker, watching, crashed>>

-----------------------------------------------------------------------------
(* The metrics loop: a tick makes it look at l.ctx again. *)

NeverStops(i) == FALSE      \* mutant: the metrics loop does not look at Done
Stops(i) == ticker[i] = "waiting" /\ watching[i] \in done

MetricsLoopReturns(i) ==
  /\ Running
  /\ Stops(i)
  /\ ticker' = [ticker EXCEPT ![i] = "returned"]
  /\ UNCHANGED <<connects, done, connector, closer, mu, writing, bound, remote, reader, from,
                 watching, crashed>>

Tick(i) ==
  /\ Running
  /\ ticker[i] = "waiting"
  /\ watching' = [watching EXCEPT ![i] = connects]
  /\ UNCHANGED <<connects, done, connector, closer, mu, writing, bound, remote, reader, from, ticker,
                 crashed>>

-----------------------------------------------------------------------------
CallerCancels ==
  /\ Running
  /\ connects > 0 /\ ~Cancelled
  /\ done' = done \cup {connects}
  /\ UNCHANGED <<connects, connector, closer, mu, writing, bound, remote, reader, from, ticker,
                 watching, crashed>>

LoopStep(i) == LoopChecks(i) \/ StartRead(i) \/ ReadEnds(i) \/ HandleMessage(i)

Next ==
  \/ ConnectCancels \/ ConnectStarts \/ Close \/ CloseReturns \/ CallerCancels
  \/ \E w \in Writers : Write(w) \/ WriteReturns(w)
  \/ \E p \in Peers : SetRemoteAddress(p)
  \/ \E i \in Loops :
       \/ LoopStep(i) \/ MetricsLoopReturns(i) \/ Tick(i)
       \/ \E p \in Peers : PacketArrives(i, p)

Spec == Init /\ [][Next]_vars

(* Goroutines run and reads meet their deadline.  A metrics loop whose      *)
(* context stays done leaves (select picks among ready cases at random).    *)
(* Nothing makes a peer send.                                               *)
Fairness ==
  /\ WF_vars(ConnectStarts)
  /\ WF_vars(CloseReturns)
  /\ \A w \in Writers : WF_vars(WriteReturns(w))
  /\ \A i \in Loops : /\ WF_vars(LoopStep(i))
                      /\ WF_vars(Tick(i))
                      /\ SF_vars(MetricsLoopReturns(i))

FairSpec == Spec /\ Fairness

-----------------------------------------------------------------------------
(* Properties. *)

(* Every variable has its type; the lock is held by the one whose step      *)
(* needs it.                                                                *)
TypeOK ==
  /\ connects \in 0 .. MaxConnects
  /\ done \subseteq 1 .. connects
  /\ connector \in {"idle", "replacing"} /\ closer \in {"idle", "waiting", "returned"}
  /\ mu \in {"none", "connector", "closer"}
  /\ mu = "connector" <=> connector = "replacing"
  /\ mu = "closer" <=> closer = "waiting"
  /\ writing \subseteq Writers
  /\ bound \in BOOLEAN /\ crashed \in BOOLEAN
  /\ remote \in Peers \cup {"none"}
  /\ reader \in [Loops -> {"none", "check", "toRead", "reading", "received", "returned"}]
  /\ from \in [Loops -> Peers \cup {"none"}]
  /\ ticker \in [Loops -> {"none", "waiting", "returned"}]
  /\ watching \in [Loops -> 0 .. connects]

(* A write in progress has a port to write to and somewhere to send it:     *)
(* Close waits for it.                                                      *)
WriteKeepsPort == writing # {} => bound /\ remote # "none"

(* host.go:170, "Wait for goroutines to finish": Close returns when they    *)
(* have, unless a packet that arrived before it is still waiting for the    *)
(* lock Close holds, or a loop uses the port it has taken away.             *)
CloseReturnsUnlessReceiving ==
  closer = "waiting" ~>
    closer = "returned" \/ crashed \/ \E i \in Loops : reader[i] = "received"
=============================================================================
