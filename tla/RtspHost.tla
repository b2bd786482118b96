------------------------------ MODULE RtspHost ------------------------------
(***************************************************************************)
(* The RTSP publishing client of pkg/rtsp/new_host.go: the connection      *)
(* manager that Connect runs in its caller's goroutine, the goroutines     *)
(* that call WriteRTP, and a goroutine that calls Close.                   *)
(*                                                                         *)
(* They share the state (each access under stateMux), the client pointer   *)
(* (no lock; reads and writes of it are single steps), the context and the *)
(* reconnect channel.  connectionMonitor, the only receiver of that        *)
(* channel, is never started.  A client that failed to start recording has *)
(* closed itself, so only the client the pointer names is kept.  The time  *)
(* of the last write is only ever printed and is left out.                 *)
(***************************************************************************)
EXTENDS Integers

CONSTANTS
  Writers,            \* goroutines that call WriteRTP
  ReconnectAttempts,  \* HostConfig.ReconnectAttempts: 0 never, -1 for ever
  ReconnectDelay,     \* HostConfig.ReconnectDelay
  MaxDelay            \* 30 * time.Second, in the unit of ReconnectDelay

ASSUME HostAssumption ==
  /\ ReconnectAttempts \in Int
  /\ ReconnectDelay \in Nat
  /\ MaxDelay \in Nat

VARIABLES
  manager,    \* where connectionManager is
  delay,      \* currentDelay
  state,      \* h.state
  client,     \* h.client: nil, or the condition of the client it names
  cancelled,  \* h.ctx is done
  reconnect,  \* messages in reconnectChan
  writer,     \* where each WriteRTP is
  closer      \* where Close is

vars == <<manager, delay, state, client, cancelled, reconnect, writer, closer>>

HostStates == {"disconnected", "connecting", "recording", "error"}
\* A "created" client has not been started by StartRecording.
ClientStates == {"nil", "created", "starting", "recording", "broken", "closed"}
ManagerSteps == {"idle", "check", "attempt", "starting", "started", "marked", "failed",
                 "delay", "monitor", "lost", "returned"}
WriterSteps == {"idle", "allowed", "failed", "notify"}
CloserSteps == {"idle", "cancelled", "clientClosed", "returned", "crashed"}

\* No panic has ended the process.
ProcessRuns == closer # "crashed"

ReconnectCapacity == 1  \* make(chan struct{}, 1)

Init ==
  /\ manager = "idle"
  /\ delay = ReconnectDelay
  /\ state = "disconnected"
  /\ client = "nil"
  /\ cancelled = FALSE
  /\ reconnect = 0
  /\ writer = [w \in Writers |-> "idle"]
  /\ closer = "idle"
-----------------------------------------------------------------------------
(* Connect and the connection manager *)

others == <<reconnect, writer, closer>>

Connect ==
  /\ manager = "idle"
  /\ manager' = "check"
  /\ state' = "connecting"
  /\ UNCHANGED <<delay, client, cancelled, others>>

ManagerReturns ==
  /\ manager' = "returned"
  /\ state' = "disconnected"
  /\ UNCHANGED <<delay, client, cancelled, others>>

\* The select at the top of the loop.
CheckContext ==
  /\ manager = "check"
  /\ IF cancelled
     THEN ManagerReturns
     ELSE /\ manager' = "attempt"
          /\ UNCHANGED <<delay, state, client, cancelled, others>>

\* A new client replaces the old one.
AttemptConnection ==
  /\ manager = "attempt"
  /\ manager' = "starting"
  /\ client' = "created"
  /\ UNCHANGED <<delay, state, cancelled, others>>

\* StartRecording has started it and dials and announces.
StartRecordingBegins ==
  /\ manager = "starting"
  /\ client = "created"
  /\ client' = "starting"
  /\ UNCHANGED <<manager, delay, state, cancelled, others>>

\* StartRecording succeeds, unless the client was closed meanwhile.
StartRecordingSucceeds ==
  /\ manager = "starting"
  /\ client = "starting"
  /\ manager' = "started"
  /\ client' = "recording"
  /\ UNCHANGED <<delay, state, cancelled, others>>

\* It fails, at an URL it cannot parse before the client is started.
StartRecordingFails ==
  /\ manager = "starting"
  /\ manager' = "failed"
  /\ client' = IF client = "created" THEN "created" ELSE "closed"
  /\ UNCHANGED <<delay, state, cancelled, others>>

\* attemptConnection sets the state ...
MarkRecording ==
  /\ manager = "started"
  /\ manager' = "marked"
  /\ state' = "recording"
  /\ UNCHANGED <<delay, client, cancelled, others>>

\* ... and the manager sets it once more.
ConfirmRecording ==
  /\ manager = "marked"
  /\ manager' = "monitor"
  /\ state' = "recording"
  /\ delay' = ReconnectDelay
  /\ UNCHANGED <<client, cancelled, others>>

OnlyLimitedRetries == ReconnectAttempts > 0  \* mutant
Retries == ReconnectAttempts # 0

AttemptFailed ==
  /\ manager = "failed"
  /\ manager' = IF Retries THEN "delay" ELSE "returned"
  /\ state' = "error"
  /\ UNCHANGED <<delay, client, cancelled, others>>

BackoffUncapped(d) == (d * 3) \div 2  \* mutant
Backoff(d) == IF (d * 3) \div 2 > MaxDelay THEN MaxDelay ELSE (d * 3) \div 2

\* time.After and ctx.Done may both be ready.
RetryDelay ==
  /\ manager = "delay"
  /\ \/ cancelled /\ ManagerReturns
     \/ /\ manager' = "check"
        /\ delay' = Backoff(delay)
        /\ UNCHANGED <<state, client, cancelled, others>>

MonitorOnlyClient == client = "nil"  \* mutant
\* monitorConnection returns when the context is done or a tick finds no client.
MonitorEnds == cancelled \/ client = "nil"

MonitorConnection ==
  /\ manager = "monitor"
  /\ MonitorEnds
  /\ manager' = "lost"
  /\ UNCHANGED <<delay, state, client, cancelled, others>>

\* mutant
ReturnAsIs ==
  /\ manager = "lost"
  /\ manager' = IF cancelled THEN "returned" ELSE "check"
  /\ UNCHANGED <<delay, state, client, cancelled, others>>

AfterMonitor ==
  /\ manager = "lost"
  /\ IF cancelled
     THEN ManagerReturns
     ELSE /\ manager' = "check"
          /\ state' = "connecting"
          /\ UNCHANGED <<delay, client, cancelled, others>>
-----------------------------------------------------------------------------
(* WriteRTP *)

managerVars == <<manager, delay, cancelled, closer>>

\* Any other state than Recording is refused and nothing changes.
WriteAllowed(w) ==
  /\ writer[w] = "idle"
  /\ state = "recording"
  /\ writer' = [writer EXCEPT ![w] = "allowed"]
  /\ UNCHANGED <<managerVars, state, client, reconnect>>

\* WritePacketRTP on whatever client there is by now; it may fail on one that
\* records, too, when its queue is full.  Without a client there is an error
\* and nothing else.
WritePacket(w) ==
  /\ writer[w] = "allowed"
  /\ \/ client \in {"nil", "recording"} /\ writer' = [writer EXCEPT ![w] = "idle"]
     \/ client # "nil" /\ writer' = [writer EXCEPT ![w] = "failed"]
  /\ UNCHANGED <<managerVars, state, client, reconnect>>

WriteFails(w) ==
  /\ writer[w] = "failed"
  /\ writer' = [writer EXCEPT ![w] = "notify"]
  /\ state' = "error"
  /\ UNCHANGED <<managerVars, client, reconnect>>

\* mutant
SendReconnect(w) ==
  /\ writer[w] = "notify"
  /\ reconnect < ReconnectCapacity
  /\ writer' = [writer EXCEPT ![w] = "idle"]
  /\ reconnect' = reconnect + 1
  /\ UNCHANGED <<managerVars, state, client>>

\* The send to reconnectChan is skipped when the channel is full.
TriggerReconnect(w) ==
  /\ writer[w] = "notify"
  /\ writer' = [writer EXCEPT ![w] = "idle"]
  /\ reconnect' = IF reconnect < ReconnectCapacity THEN reconnect + 1 ELSE reconnect
  /\ UNCHANGED <<managerVars, state, client>>
-----------------------------------------------------------------------------
(* Close, the caller's context and the server *)

\* Before Connect there is no context to cancel.
CloseCancels ==
  /\ closer = "idle"
  /\ closer' = "cancelled"
  /\ cancelled' = (cancelled \/ manager # "idle")
  /\ UNCHANGED <<manager, delay, state, client, reconnect, writer>>

\* Client.Close calls the cancel function that starting a client sets: without
\* one it panics.
CloseClient ==
  /\ closer = "cancelled"
  /\ closer' = IF client = "created" THEN "crashed" ELSE "clientClosed"
  /\ client' = IF client \in {"nil", "created"} THEN client ELSE "closed"
  /\ UNCHANGED <<manager, delay, state, cancelled, reconnect, writer>>

CloseReturns ==
  /\ closer = "clientClosed"
  /\ closer' = "returned"
  /\ state' = "disconnected"
  /\ UNCHANGED <<manager, delay, client, cancelled, reconnect, writer>>

CallerCancels ==
  /\ manager # "idle"
  /\ ~ cancelled
  /\ cancelled' = TRUE
  /\ UNCHANGED <<manager, delay, state, client, reconnect, writer, closer>>

\* The server goes away, or replaces or reaps the stream.
ConnectionBreaks ==
  /\ client = "recording"
  /\ client' = "broken"
  /\ UNCHANGED <<manager, delay, state, cancelled, reconnect, writer, closer>>
-----------------------------------------------------------------------------
ManagerStep ==
  \/ CheckContext \/ AttemptConnection \/ StartRecordingBegins
  \/ StartRecordingSucceeds \/ StartRecordingFails \/ MarkRecording \/ ConfirmRecording
  \/ AttemptFailed \/ RetryDelay \/ MonitorConnection \/ AfterMonitor

WriterStep(w) == WriteAllowed(w) \/ WritePacket(w) \/ WriteFails(w) \/ TriggerReconnect(w)

CloserStep == CloseCancels \/ CloseClient \/ CloseReturns

Next ==
  /\ ProcessRuns
  /\ \/ Connect \/ ManagerStep \/ CloserStep
     \/ \E w \in Writers : WriterStep(w)
     \/ CallerCancels \/ ConnectionBreaks

Spec == Init /\ [][Next]_vars

\* The manager runs, StartRecording returns within its timeouts and a WriteRTP
\* that was begun goes on.  Nobody has to call anything.
Fairness ==
  /\ WF_vars(ProcessRuns /\ ManagerStep)
  /\ WF_vars(ProcessRuns /\ (CloseClient \/ CloseReturns))
  /\ \A w \in Writers :
       WF_vars(ProcessRuns /\ (WritePacket(w) \/ WriteFails(w) \/ TriggerReconnect(w)))

FairSpec == Spec /\ Fairness
-----------------------------------------------------------------------------
(* Properties *)

\* Every variable has its type; through any number of failures no delay but
\* the first exceeds the cap.
TypeOK ==
  /\ manager \in ManagerSteps
  /\ delay \in Nat
  /\ delay <= MaxDelay \/ delay = ReconnectDelay
  /\ state \in HostStates
  /\ client \in ClientStates
  /\ cancelled \in BOOLEAN
  /\ reconnect \in 0..ReconnectCapacity
  /\ writer \in [Writers -> WriterSteps]
  /\ closer \in CloserSteps

\* After Connect has returned IsConnected is false for good, whatever WriteRTP
\* and Close do: a sink is never told to write to a host nobody manages.
ReturnedNotRecording ==
  manager = "returned" => state \in {"disconnected", "error"}

\* Cancelling, by Close or by the caller, makes Connect return, from any point
\* of the loop and while writers keep failing.
CancelledConnectReturns == cancelled ~> manager = "returned" \/ ~ ProcessRuns

\* A write always returns, although nothing empties reconnectChan.
WriteReturns == \A w \in Writers : []<>(writer[w] = "idle" \/ ~ ProcessRuns)

\* A failed attempt of a host that reconnects for ever ("-1 (infinite)",
\* new_host.go:159) is followed by another one, unless it is cancelled.
NeverGivesUp ==
  ReconnectAttempts < 0 =>
    (manager = "failed" ~> manager = "starting" \/ cancelled \/ ~ ProcessRuns)

\* "Trigger reconnection attempt" (new_host.go:312), "let write errors trigger
\* reconnection" (new_host.go:219): a request to reconnect is acted on.
RequestIsServed == reconnect > 0 ~> reconnect = 0 \/ cancelled \/ ~ ProcessRuns
=============================================================================
