----------------------------- MODULE LossyFifo ------------------------------
(***************************************************************************)
(* What a sink promises between its track and its host: each packet read   *)
(* is handed to the host at most once, in the order of reading; packets    *)
(* may be lost on the way, and none is made up.                            *)
(***************************************************************************)
EXTENDS Naturals, Sequences

VARIABLES
  entered,    \* how many packets were read; packets are numbered from 1
  pending,    \* packets on the way, oldest first
  delivered   \* packets the host accepted, in order

vars == <<entered, pending, delivered>>

Init ==
  /\ entered = 0
  /\ pending = <<>>
  /\ delivered = <<>>

Enter ==
  /\ entered' = entered + 1
  /\ pending' = Append(pending, entered + 1)
  /\ UNCHANGED delivered

\* Any one packet on the way is lost.
Lose ==
  /\ \E i \in 1..Len(pending) :
       pending' = SubSeq(pending, 1, i - 1) \o SubSeq(pending, i + 1, Len(pending))
  /\ UNCHANGED <<entered, delivered>>

Deliver ==
  /\ pending # <<>>
  /\ delivered' = Append(delivered, Head(pending))
  /\ pending' = Tail(pending)
  /\ UNCHANGED entered

Next == Enter \/ Lose \/ Deliver

Spec == Init /\ [][Next]_vars
=============================================================================
