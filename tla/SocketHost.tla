----------------------------- MODULE SocketHost -----------------------------
(***************************************************************************)
(* The WebSocket client of pkg/socket/host.go: Connect's dial-and-read     *)
(* loop, the goroutines that call WriteRTP or Write, and one that calls    *)
(* Close.                                                                  *)
(*                                                                         *)
(* Host.mux is a sync.RWMutex: readFromServer holds it for reading while   *)
(* it waits for a message and WriteRTP while it sends, so the lock is part *)
(* of the state.  The one Lock that is announced shuts out every RLock;    *)
(* once the readers are gone it runs its critical section, which blocks    *)
(* nowhere, in one step.  A read section that blocks nowhere is one step,  *)
(* too: WriteRTP without a server, and sendToSource (the application's     *)
(* callback is taken to return).                                           *)
(*                                                                         *)
(* External: the connection.  Dial, Read and Write end when their context  *)
(* does; the server may stay silent, stop reading or go away at any time.  *)
(***************************************************************************)
EXTENDS Naturals

CONSTANTS
  Writers,      \* goroutines that call WriteRTP or Write
  ConnectRetry  \* HostConfig.ConnectRetry

ASSUME HostAssumption == ConnectRetry \in BOOLEAN /\ Writers \cap {"connector"} = {}

VARIABLES
  connector,   \* where Connect is
  writer,      \* what each writer does
  closer,      \* what the goroutine that calls Close does
  reading,     \* holders of the read lock
  pending,     \* whose Lock is announced
  server,      \* h.server is set
  conn,        \* the connection dialled last: none, up or down
  cancelled,   \* h.ctx is done
  crashed      \* a nil connection was used

vars == <<connector, writer, closer, reading, pending, server, conn, cancelled, crashed>>

(* Where Connect waits for the write lock, and where it serves a connection. *)
LockSteps == {"startLock", "setLock", "unsetLock", "closeLock"}
ServeSteps == {"context", "toRead", "reading", "deliver"}
ConnectorSteps == LockSteps \cup ServeSteps \cup {"idle", "check", "dial", "retry", "returned"}

Init ==
  /\ connector = "idle"
  /\ writer = [w \in Writers |-> "idle"]
  /\ closer = "idle"
  /\ reading = {}
  /\ pending = "none"
  /\ server = FALSE
  /\ conn = "none"
  /\ cancelled = FALSE
  /\ crashed = FALSE

-----------------------------------------------------------------------------
(* The lock. *)

(* A nil dereference ends the process. *)
Running == ~crashed

MayRLock == pending = "none"
RLock(p) == MayRLock /\ reading' = reading \cup {p} /\ UNCHANGED pending
RUnlock(p) == reading' = reading \ {p} /\ UNCHANGED pending

WantsLock(p) ==
  \/ p = "connector" /\ connector \in LockSteps
  \/ p = "closer" /\ closer = "locking"

Announce(p) ==
  /\ Running
  /\ pending = "none"
  /\ WantsLock(p)
  /\ pending' = p
  /\ UNCHANGED <<connector, writer, closer, reading, server, conn, cancelled, crashed>>

(* The critical section of p, which ends in Unlock. *)
Locked(p) == pending = p /\ reading = {} /\ pending' = "none" /\ UNCHANGED reading

-----------------------------------------------------------------------------
(* Connect. *)

Connect ==
  /\ Running
  /\ connector \in {"idle", "returned"}
  /\ connector' = "startLock"
  /\ UNCHANGED <<writer, closer, reading, pending, server, conn, cancelled, crashed>>

(* The context of an earlier session is cancelled and replaced. *)
SetSession ==
  /\ Running
  /\ connector = "startLock"
  /\ Locked("connector")
  /\ connector' = "check"
  /\ cancelled' = FALSE
  /\ UNCHANGED <<writer, closer, server, conn, crashed>>

CheckContext ==
  /\ Running
  /\ connector = "check"
  /\ connector' = IF cancelled THEN "closeLock" ELSE "dial"
  /\ UNCHANGED <<writer, closer, reading, pending, server, conn, cancelled, crashed>>

DialFails ==
  /\ Running
  /\ connector = "dial"
  /\ connector' = "closeLock"
  /\ UNCHANGED <<writer, closer, reading, pending, server, conn, cancelled, crashed>>

DialSucceeds ==
  /\ Running
  /\ connector = "dial" /\ ~cancelled
  /\ connector' = "setLock"
  /\ conn' = "up"
  /\ writer' = [w \in Writers |-> IF writer[w] = "unlocked" THEN "replaced" ELSE writer[w]]
  /\ UNCHANGED <<closer, reading, pending, server, cancelled, crashed>>

SetServerNeverUnlocks ==  \* mutant
  /\ Running
  /\ connector = "setLock"
  /\ pending = "connector" /\ reading = {}
  /\ connector' = "context"
  /\ server' = TRUE
  /\ UNCHANGED <<writer, closer, reading, pending, conn, cancelled, crashed>>

SetServer ==
  /\ Running
  /\ connector = "setLock"
  /\ Locked("connector")
  /\ connector' = "context"
  /\ server' = TRUE
  /\ UNCHANGED <<writer, closer, conn, cancelled, crashed>>

HandlerNeverChecks ==      \* mutant: no look at the context between messages
  /\ Running
  /\ connector = "context"
  /\ connector' = "toRead"
  /\ UNCHANGED <<writer, closer, reading, pending, server, conn, cancelled, crashed>>

HandlerChecks ==
  /\ Running
  /\ connector = "context"
  /\ connector' = IF cancelled THEN "unsetLock" ELSE "toRead"
  /\ UNCHANGED <<writer, closer, reading, pending, server, conn, cancelled, crashed>>

(* readFromServer takes h.server under the lock, but does not ask whether   *)
(* a Close that came since the context was checked has set it to nil.       *)
ReadFromServer ==
  /\ Running
  /\ connector = "toRead"
  /\ IF server
       THEN RLock("connector") /\ connector' = "reading" /\ UNCHANGED crashed
       ELSE MayRLock /\ crashed' = TRUE /\ UNCHANGED <<connector, reading, pending>>
  /\ UNCHANGED <<writer, closer, server, conn, cancelled>>

MessageArrives ==
  /\ Running
  /\ connector = "reading" /\ conn = "up"
  /\ connector' = "deliver"
  /\ RUnlock("connector")
  /\ UNCHANGED <<writer, closer, server, conn, cancelled, crashed>>

(* context.Canceled goes back to the top of the loop, any other error ends  *)
(* the handler.  A Read cut short by its context breaks the connection.     *)
ReadFails ==
  /\ Running
  /\ connector = "reading"
  /\ \/ cancelled /\ connector' = "context"
     \/ conn = "down" /\ connector' = "unsetLock"
  /\ conn' = "down"
  /\ RUnlock("connector")
  /\ UNCHANGED <<writer, closer, server, cancelled, crashed>>

(* sendToSource; its error changes nothing. *)
Deliver ==
  /\ Running
  /\ connector = "deliver" /\ MayRLock
  /\ connector' = "context"
  /\ UNCHANGED <<writer, closer, reading, pending, server, conn, cancelled, crashed>>

UnsetSkipped ==      \* mutant: the lost connection stays in h.server
  /\ Running
  /\ connector = "unsetLock"
  /\ Locked("connector")
  /\ connector' = "retry"
  /\ UNCHANGED <<writer, closer, server, conn, cancelled, crashed>>

UnsetServer ==
  /\ Running
  /\ connector = "unsetLock"
  /\ Locked("connector")
  /\ connector' = "retry"
  /\ server' = FALSE
  /\ UNCHANGED <<writer, closer, conn, cancelled, crashed>>

(* The five seconds of sleep end here. *)
Retry ==
  /\ Running
  /\ connector = "retry"
  /\ connector' = IF ConnectRetry THEN "check" ELSE "closeLock"
  /\ UNCHANGED <<writer, closer, reading, pending, server, conn, cancelled, crashed>>

(* close(), under the lock: cancel, and close the connection if it is known. *)
CloseSession ==
  /\ cancelled' = TRUE
  /\ conn' = IF server THEN "down" ELSE conn
  /\ server' = FALSE

ConnectReturns ==
  /\ Running
  /\ connector = "closeLock"
  /\ Locked("connector")
  /\ CloseSession
  /\ connector' = "returned"
  /\ UNCHANGED <<writer, closer, crashed>>

-----------------------------------------------------------------------------
(* WriteRTP and Close. *)

WriteRTP(w) ==
  /\ Running
  /\ writer[w] = "idle"
  /\ IF server
       THEN RLock(w) /\ writer' = [writer EXCEPT ![w] = "sending"]
       ELSE MayRLock /\ UNCHANGED <<writer, reading, pending>>
  /\ UNCHANGED <<connector, closer, server, conn, cancelled, crashed>>

(* Write takes h.server as it is, without the lock.                         *)
Write(w) ==
  /\ Running
  /\ writer[w] = "idle"
  /\ crashed' = ~server
  /\ writer' = [writer EXCEPT ![w] = IF server THEN "unlocked" ELSE @]
  /\ UNCHANGED <<connector, closer, reading, pending, server, conn, cancelled>>

(* It ends on the connection it took, which may have been replaced since.   *)
WriteReturns(w) ==
  /\ Running
  /\ \/ writer[w] = "unlocked" /\ conn = "up" /\ UNCHANGED conn
     \/ writer[w] = "unlocked" /\ (cancelled \/ conn = "down") /\ conn' = "down"
     \/ writer[w] = "replaced" /\ UNCHANGED conn
  /\ writer' = [writer EXCEPT ![w] = "idle"]
  /\ UNCHANGED <<connector, closer, reading, pending, server, cancelled, crashed>>

SendSucceeds(w) ==
  /\ Running
  /\ writer[w] = "sending" /\ conn = "up"
  /\ writer' = [writer EXCEPT ![w] = "idle"]
  /\ RUnlock(w)
  /\ UNCHANGED <<connector, closer, server, conn, cancelled, crashed>>

SendFailsLocked(w) ==  \* mutant: the lock is not released on an error
  /\ Running
  /\ writer[w] = "sending" /\ (cancelled \/ conn = "down")
  /\ writer' = [writer EXCEPT ![w] = "idle"]
  /\ conn' = "down"
  /\ UNCHANGED <<connector, closer, reading, pending, server, cancelled, crashed>>

SendFails(w) ==
  /\ Running
  /\ writer[w] = "sending" /\ (cancelled \/ conn = "down")
  /\ writer' = [writer EXCEPT ![w] = "idle"]
  /\ conn' = "down"
  /\ RUnlock(w)
  /\ UNCHANGED <<connector, closer, server, cancelled, crashed>>

CloseCalled ==
  /\ Running
  /\ closer = "idle"
  /\ closer' = "locking"
  /\ UNCHANGED <<connector, writer, reading, pending, server, conn, cancelled, crashed>>

(* Before the first Connect there is no context to cancel. *)
Close ==
  /\ Running
  /\ closer = "locking"
  /\ Locked("closer")
  /\ IF connector = "idle" THEN UNCHANGED <<cancelled, conn, server>> ELSE CloseSession
  /\ closer' = "idle"
  /\ UNCHANGED <<connector, writer, crashed>>

-----------------------------------------------------------------------------
(* The environment. *)

ServerGoesAway ==
  /\ Running
  /\ conn = "up"
  /\ conn' = "down"
  /\ UNCHANGED <<connector, writer, closer, reading, pending, server, cancelled, crashed>>

CallerCancels ==
  /\ Running
  /\ connector \notin {"idle", "startLock"} /\ ~cancelled
  /\ cancelled' = TRUE
  /\ UNCHANGED <<connector, writer, closer, reading, pending, server, conn, crashed>>

ConnectStep ==
  \/ Announce("connector") \/ SetSession \/ CheckContext \/ DialFails \/ DialSucceeds
  \/ SetServer \/ HandlerChecks \/ ReadFromServer \/ ReadFails \/ Deliver \/ UnsetServer
  \/ Retry \/ ConnectReturns
CloseStep == Announce("closer") \/ Close

Next ==
  \/ Connect \/ ConnectStep \/ MessageArrives
  \/ \E w \in Writers :
       WriteRTP(w) \/ SendSucceeds(w) \/ SendFails(w) \/ Write(w) \/ WriteReturns(w)
  \/ CloseCalled \/ CloseStep
  \/ ServerGoesAway \/ CallerCancels

Spec == Init /\ [][Next]_vars

(* Goroutines run and the lock lets nobody starve (sync.RWMutex releases the *)
(* readers that waited before the next Lock, and its mutex hands over to a   *)
(* waiter that has waited for a millisecond): strong fairness for Connect    *)
(* and Close.  Nothing makes the server send, read or hang up.               *)
Fairness ==
  /\ SF_vars(ConnectStep)
  /\ SF_vars(CloseStep)
  /\ \A w \in Writers : WF_vars(SendFails(w))

FairSpec == Spec /\ Fairness

-----------------------------------------------------------------------------
(* Properties. *)

(* Every variable has its type, and the announced Lock belongs to a         *)
(* goroutine that is waiting in Lock.                                       *)
TypeOK ==
  /\ connector \in ConnectorSteps
  /\ writer \in [Writers -> {"idle", "sending", "unlocked", "replaced"}]
  /\ closer \in {"idle", "locking"}
  /\ reading \subseteq Writers \cup {"connector"}
  /\ pending = "none" \/ (pending \in {"connector", "closer"} /\ WantsLock(pending))
  /\ conn \in {"none", "up", "down"}
  /\ server \in BOOLEAN /\ cancelled \in BOOLEAN /\ crashed \in BOOLEAN

(* A read or a send under the lock keeps its connection, whatever Close and *)
(* the retry do meanwhile, and there is one only while Connect serves it: a *)
(* host that dials again, waits to, or has returned, refuses packets.       *)
UsedIsServed ==
  /\ connector = "reading" \/ (\E w \in Writers : writer[w] = "sending") => server
  /\ server => connector \in ServeSteps \cup {"unsetLock"}

(* Once the context of its session is done, Connect returns, unless the     *)
(* read that follows a Close ends the process.                              *)
CancelledConnectReturns ==
  cancelled /\ connector # "startLock" ~> connector = "returned" \/ crashed

(* socket_test.go:251 cleans up with host.Close(): it returns, unless a     *)
(* reader of the lock waits for a server that stays silent or does not      *)
(* read, or a nil connection ends the process.                              *)
WaitsForServer ==
  /\ conn = "up" /\ ~cancelled
  /\ connector = "reading" \/ \E w \in Writers : writer[w] = "sending"

CloseReturnsUnlessWaiting ==
  closer = "locking" ~> closer = "idle" \/ crashed \/ []WaitsForServer
=============================================================================
