--------------------------- MODULE StreamRegistry ---------------------------
(***************************************************************************)
(* What the RTSP server promises about its stream table, and the WebRTC    *)
(* host about its table of browser sessions, with nothing said of          *)
(* connections, locks or timers: a path carries at most one publisher at a *)
(* time, a publisher carries at most one path in its whole life, a later   *)
(* publisher may take a path over, and a publisher that lost its path -    *)
(* replaced, reaped, gone or shut down - never gets it, or another, back.  *)
(***************************************************************************)

CONSTANTS
  Paths,        \* stream paths
  Publishers,   \* publishing sessions
  NoPublisher   \* the path carries no stream

VARIABLES
  live,         \* path -> the publisher whose stream it carries
  retired       \* publishers whose stream was closed

vars == <<live, retired>>

Init ==
  /\ live = [p \in Paths |-> NoPublisher]
  /\ retired = {}

\* A fresh publisher takes the path; the publisher it displaces is retired.
Publish(p, s) ==
  /\ s \notin retired
  /\ \A q \in Paths : live[q] # s
  /\ live' = [live EXCEPT ![p] = s]
  /\ retired' = retired \cup ({live[p]} \ {NoPublisher})

\* The streams of some live publishers are closed and their paths freed.
Withdraw(S) ==
  /\ S # {}
  /\ \A s \in S : \E p \in Paths : live[p] = s
  /\ live' = [p \in Paths |-> IF live[p] \in S THEN NoPublisher ELSE live[p]]
  /\ retired' = retired \cup S

Next ==
  \/ \E p \in Paths, s \in Publishers : Publish(p, s)
  \/ \E S \in SUBSET Publishers : Withdraw(S)

Spec == Init /\ [][Next]_vars
=============================================================================
