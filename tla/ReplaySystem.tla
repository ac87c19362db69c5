---------------------------- MODULE ReplaySystem ----------------------------
(***************************************************************************)
(* A replay window and the traffic offered to it: packets arrive with      *)
(* their sequence numbers in any order, any number of times and with any   *)
(* gaps, as a datagram network delivers them, and the window is reset at   *)
(* any time.                                                               *)
(***************************************************************************)
EXTENDS ReplayWindow

CONSTANTS
  MaxSeq,     \* the largest sequence number offered
  MaxDrops    \* bound on the drop counters

ASSUME MaxSeqAssumption   == MaxSeq \in Nat
ASSUME MaxDropsAssumption == MaxDrops \in Nat

Seqs == 0 .. MaxSeq

VARIABLES
  win,       \* the window object
  verdict,   \* the answer of the last accept()
  copies     \* history: how often each sequence number was admitted since
             \* the last reset

replayVars == <<win, verdict, copies>>

ReplayInit ==
  /\ win = NewWindow
  /\ verdict = "none"
  /\ copies = [s \in Seqs |-> 0]

Offer(seq) ==
  /\ win.dup + win.old < MaxDrops
  /\ verdict' = Verdict(win, seq)
  /\ win' = Accept(win, seq)
  /\ copies' = IF Verdict(win, seq) = "ok"
               THEN [copies EXCEPT ![seq] = @ + 1] ELSE copies

Reset ==
  /\ win' = NewWindow
  /\ verdict' = "none"
  /\ copies' = [s \in Seqs |-> 0]

ReplayNext == (\E seq \in Seqs : Offer(seq)) \/ Reset

ReplaySpec == ReplayInit /\ [][ReplayNext]_replayVars

-----------------------------------------------------------------------------
\* The packets admitted since the last reset.
Admitted == {s \in Seqs : copies[s] > 0}

\* Every variable holds a value of its type.
ReplayTypeOK ==
  /\ win \in Window
  /\ verdict \in {"none", "ok", "dup", "old"}
  /\ copies \in [Seqs -> Nat]

(***************************************************************************)
(* accept() never answers true twice for one sequence number between two   *)
(* resets, whatever the order, the gaps and the duplicates in between.     *)
(***************************************************************************)
AtMostOnce == \A s \in Seqs : copies[s] <= 1

(***************************************************************************)
(* The bitmap is exact: bit b of word w is set if and only if the packet   *)
(* w * WordBits + b behind the newest one was admitted.  A carry lost or   *)
(* invented by the word-wise shift breaks it, for one particular distance  *)
(* between two arrivals.                                                   *)
(***************************************************************************)
BitmapExact ==
  win.seen =>
    \A w \in WordIndex, b \in BitIndex :
      b \in win.bits[w] <=> win.high - (w * WordBits + b) \in Admitted

(***************************************************************************)
(* The inductive invariant.  It adds to the above that high is the newest  *)
(* admitted packet, and that a window that has seen none is blank.         *)
(***************************************************************************)
HighIsNewest ==
  IF win.seen
  THEN win.high \in Admitted /\ \A s \in Admitted : s <= win.high
  ELSE Admitted = {} /\ win.bits = ZeroBits

ReplayIInv == ReplayTypeOK /\ AtMostOnce /\ BitmapExact /\ HighIsNewest

(***************************************************************************)
(* The window implements the abstract promise: every verdict the bitmap    *)
(* gives is the one the set of all admitted packets would give.            *)
(***************************************************************************)
Promise == INSTANCE AntiReplay
             WITH admitted <- Admitted, dup <- win.dup, old <- win.old

KeepsPromise == Promise!Spec
=============================================================================
