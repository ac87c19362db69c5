------------------------------ MODULE AntiReplay ------------------------------
(***************************************************************************)
(* What an anti-replay window promises its caller, without a bitmap: a     *)
(* packet is admitted when it is ahead of every packet admitted so far, or *)
(* less than Width behind the newest of them and not itself admitted       *)
(* before; every other packet is dropped, and counted under the reason.    *)
(***************************************************************************)
EXTENDS Integers

CONSTANTS
  Seqs,    \* the sequence numbers packets carry
  Width    \* how far behind the newest packet a packet may be

VARIABLES
  admitted,  \* every sequence number admitted since the last reset
  verdict,   \* the answer to the last call
  dup, old   \* packets dropped as duplicates, and as too old

vars == <<admitted, verdict, dup, old>>

TooOld(seq) == \E newer \in admitted : newer - seq >= Width

Init ==
  /\ admitted = {}
  /\ verdict = "none"
  /\ dup = 0
  /\ old = 0

Admit(seq) ==
  /\ ~TooOld(seq)
  /\ seq \notin admitted
  /\ admitted' = admitted \cup {seq}
  /\ verdict' = "ok"
  /\ UNCHANGED <<dup, old>>

DropDuplicate(seq) ==
  /\ ~TooOld(seq)
  /\ seq \in admitted
  /\ verdict' = "dup"
  /\ dup' = dup + 1
  /\ UNCHANGED <<admitted, old>>

DropOld(seq) ==
  /\ TooOld(seq)
  /\ verdict' = "old"
  /\ old' = old + 1
  /\ UNCHANGED <<admitted, dup>>

Reset ==
  /\ admitted' = {}
  /\ verdict' = "none"
  /\ dup' = 0
  /\ old' = 0

Next ==
  \/ \E seq \in Seqs : Admit(seq) \/ DropDuplicate(seq) \/ DropOld(seq)
  \/ Reset

Spec == Init /\ [][Next]_vars
=============================================================================
