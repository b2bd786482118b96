--------------------------- MODULE MCSocketServer ---------------------------
(* Instance of SocketServer for TLC: requests from a loopback address, and  *)
(* others.                                                                  *)
EXTENDS SocketServer

CONSTANTS l1, l2, c1, c2
=============================================================================
