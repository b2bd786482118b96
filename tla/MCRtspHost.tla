----------------------------- MODULE MCRtspHost -----------------------------
(* Instance of RtspHost for TLC. *)
EXTENDS RtspHost

\* ReconnectAttempts of a host that never gives up.
Forever == -1
=============================================================================
