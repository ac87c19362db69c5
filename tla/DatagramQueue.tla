--------------------------- MODULE DatagramQueue ---------------------------
(***************************************************************************)
(* What Transport promises of recv_batch(): datagrams come out in the      *)
(* order they arrived, each once, none lost.  A datagram is its number in  *)
(* the order of arrival.                                                   *)
(***************************************************************************)
EXTENDS Integers, Sequences

VARIABLES
  queue,      \* datagrams that arrived and were not yet delivered
  delivered   \* history: what the caller was handed

vars == <<queue, delivered>>

Init == queue = <<>> /\ delivered = <<>>

Arrive ==
  /\ queue' = Append(queue, Len(delivered) + Len(queue) + 1)
  /\ UNCHANGED delivered

Deliver ==
  \E k \in 1..Len(queue) :
    /\ delivered' = delivered \o SubSeq(queue, 1, k)
    /\ queue' = SubSeq(queue, k + 1, Len(queue))

Next == Arrive \/ Deliver
Spec == Init /\ [][Next]_vars
=============================================================================
