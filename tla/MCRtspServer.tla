---------------------------- MODULE MCRtspServer ----------------------------
(* Instance of RtspServer for TLC. *)
EXTENDS RtspServer, TLC

CONSTANTS s1, s2, s3

\* Sessions are interchangeable when all of them are permitted.
SessionSymmetry == Permutations({s1, s2, s3})

\* No guard, no other variable and no invariant but their type reads the times and
\* clients of a stream that is off the table, or the clock reading of a set-up
\* that found such a stream; no stream returns to the table.
LiveView ==
  <<phase, ctxDone, routines, session, role, path, streams, serverStream, setup,
    readerOf, recordTo,
    [s \in Registered |-> <<publisherIdle[s], clients[s]>>],
    [s \in Stamped |-> stamp[s]], {s \in Sessions : stamp[s] = NotClient}>>
=============================================================================
