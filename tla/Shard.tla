------------------------------- MODULE Shard -------------------------------
(***************************************************************************)
(* The shard: the one hot path of the data plane (lr::Shard).              *)
(*                                                                         *)
(*   recv_batch -> replay check -> open -> rekey check -> seal             *)
(*              -> send_batch                                              *)
(*                                                                         *)
(* drain() is taken apart into the calls it makes on the transport and one *)
(* step per packet, so that datagrams may arrive between any two of them.  *)
(* The modules that extend this one say where the datagrams come from and  *)
(* who calls drain().                                                      *)
(*                                                                         *)
(* A datagram is a record of its header fields and of what was sealed.     *)
(* Opening it succeeds exactly when it was sealed under the same key and   *)
(* nonce and over the same header.  The origin tick tsc, which forwarding  *)
(* preserves, doubles as the identity of the packet.                       *)
(***************************************************************************)
EXTENDS ReplayWindow, KeySchedule

CONSTANTS
  Secret,        \* the traffic secret the shard is built with
  Period,        \* epoch_packets: packets per epoch, 0 = never rekey
  Replay,        \* whether the anti-replay window runs (cfg.replay)
  MaxBatch,      \* datagrams one transport call moves (max_batch())
  RxCap,         \* datagrams the socket's receive buffer holds
  SealOutcomes   \* what a call of seal() may report: success, failure or both

ASSUME PeriodAssumption   == Period \in Nat
ASSUME ReplayAssumption   == Replay \in BOOLEAN
ASSUME MaxBatchAssumption == MaxBatch \in Nat \ {0}
ASSUME RxCapAssumption    == RxCap \in Nat \ {0}
ASSUME SealOutcomesAssumption == SealOutcomes \subseteq BOOLEAN
ASSUME NoKeyAssumption        == NoKey \notin Materials({Secret})

VARIABLES
  keys,    \* the key schedule, used both to open and to seal
  win,     \* the replay window
  seq,     \* seq_, the next sequence number to seal with
  st,      \* the counters of ShardStats
  rxq,     \* the receive queue of the socket
  call,    \* the drain() in progress
  batch,   \* received slots not yet processed
  out,     \* sealed slots not yet sent
  egress,  \* history: the datagrams handed to the transport
  fates,   \* history: every datagram processed, with what became of it
  sealed,  \* history: the <<key, nonce>> pairs used to seal
  reused   \* history: whether such a pair was used twice

shardVars == <<keys, win, seq, st, rxq, call, batch, out, egress, fates,
               sealed, reused>>

ZeroStats == [packets |-> 0, auth_fail |-> 0, replay_drop |-> 0, rekeys |-> 0]
NoCall    == [active |-> FALSE, budget |-> 0, processed |-> 0, n |-> 0]

ShardInit ==
  /\ \E hk \in HkdfCalls : keys = NewKeySchedule(Secret, Period, hk)
  /\ win = NewWindow
  /\ seq = 0
  /\ st = ZeroStats
  /\ rxq = <<>>
  /\ call = NoCall
  /\ batch = <<>>
  /\ out = <<>>
  /\ egress = <<>>
  /\ fates = <<>>
  /\ sealed = {}
  /\ reused = FALSE

-----------------------------------------------------------------------------
\* The header is authenticated: a body opens only under the header it was
\* sealed with.
Sealed(key, nonce, epoch, s, tsc) ==
  [wellFormed |-> TRUE, epoch |-> epoch, seq |-> s, tsc |-> tsc,
   body |-> [key |-> key, nonce |-> nonce, aad |-> <<epoch, s, tsc>>]]

\* A datagram of another protocol: too short, or without the magic number.
Stray == [wellFormed |-> FALSE, epoch |-> 0, seq |-> 0, tsc |-> 0, body |-> <<>>]

Opens(d, key, nonce) ==
  d.body = [key |-> key, nonce |-> nonce, aad |-> <<d.epoch, d.seq, d.tsc>>]

\* The packet a schedule seals for sequence number s, once it has been
\* advanced by maybe_rekey(s).
SealedFor(ks, s, tsc) ==
  Sealed(ForEpoch(ks, ks.epoch), Nonce(ks, ks.epoch, s), ks.epoch, s, tsc)

\* Use of a (key, nonce) pair, remembered.
NoteSealed(d) ==
  LET pair == <<d.body.key, d.body.nonce>>
  IN  /\ sealed' = sealed \cup {pair}
      /\ reused' = (reused \/ pair \in sealed)

-----------------------------------------------------------------------------
\* The window after the datagram has been looked at.
WindowAfter(d) == IF d.wellFormed /\ Replay THEN Accept(win, d.seq) ELSE win

(***************************************************************************)
(* What drain() does with a received datagram.  The window is consulted,   *)
(* and moved, before the cipher.                                           *)
(***************************************************************************)
\* Mutant: the answer of the replay window is ignored.
Disposition_NoReplayCheck(d) ==
  CASE ~d.wellFormed -> "skip"
    [] d.wellFormed /\ ( \/ ForEpoch(keys, d.epoch) = NoKey
                         \/ ~Opens(d, ForEpoch(keys, d.epoch),
                                   Nonce(keys, d.epoch, d.seq)) ) -> "unauthentic"
    [] OTHER -> "forward"

\* Mutant: the nonce is made of the newest sequence number instead of the
\* packet's own.
Disposition_NewestNonce(d) ==
  LET key == ForEpoch(keys, d.epoch)
  IN  IF ~d.wellFormed THEN "skip"
      ELSE IF Replay /\ Verdict(win, d.seq) # "ok" THEN "replayed"
      ELSE IF key = NoKey THEN "unauthentic"
      ELSE IF ~Opens(d, key, Nonce(keys, d.epoch, WindowAfter(d).high)) THEN "unauthentic"
      ELSE "forward"

Disposition(d) ==
  LET key == ForEpoch(keys, d.epoch)
  IN  IF ~d.wellFormed THEN "skip"
      ELSE IF Replay /\ Verdict(win, d.seq) # "ok" THEN "replayed"
      ELSE IF key = NoKey THEN "unauthentic"
      ELSE IF ~Opens(d, key, Nonce(keys, d.epoch, d.seq)) THEN "unauthentic"
      ELSE "forward"

DrainCall(budget) ==
  /\ ~call.active
  /\ call' = [active |-> TRUE, budget |-> budget, processed |-> 0, n |-> 0]
  /\ UNCHANGED <<keys, win, seq, st, rxq, batch, out, egress, fates, sealed, reused>>

\* recv_batch() takes what is queued, up to the slots and the budget.
RecvCount ==
  LET want == IF call.budget - call.processed > MaxBatch THEN MaxBatch
              ELSE call.budget - call.processed
  IN  IF Len(rxq) < want THEN Len(rxq) ELSE want

BetweenBatches == call.active /\ call.n = 0

RecvBatch ==
  /\ BetweenBatches
  /\ RecvCount > 0
  /\ batch' = SubSeq(rxq, 1, RecvCount)
  /\ rxq' = SubSeq(rxq, RecvCount + 1, Len(rxq))
  /\ call' = [call EXCEPT !.n = RecvCount]
  /\ UNCHANGED <<keys, win, seq, st, out, egress, fates, sealed, reused>>

\* The next datagram of the batch is one with this disposition; it is done, and
\* fate is what became of it.
Process(what, fate) ==
  /\ batch # <<>>
  /\ Disposition(Head(batch)) = what
  /\ win' = WindowAfter(Head(batch))
  /\ batch' = Tail(batch)
  /\ fates' = Append(fates, [d |-> Head(batch), what |-> fate])

Skip ==
  /\ Process("skip", "skip")
  /\ UNCHANGED <<keys, seq, st, rxq, call, out, egress, sealed, reused>>

DropReplayed ==
  /\ Process("replayed", "replayed")
  /\ st' = [st EXCEPT !.replay_drop = @ + 1]
  /\ UNCHANGED <<keys, seq, rxq, call, out, egress, sealed, reused>>

DropUnauthentic ==
  /\ Process("unauthentic", "unauthentic")
  /\ st' = [st EXCEPT !.auth_fail = @ + 1]
  /\ UNCHANGED <<keys, seq, rxq, call, out, egress, sealed, reused>>

\* Mutant: a packet is sealed again under the number it came with.
OutSeq_Received(d) == d.seq

\* The number a forwarded packet is sealed under: a fresh one, whatever number
\* it came with.
OutSeq(d) == seq

\* The packet verified: it is sealed again under the shard's next sequence
\* number, after the rekey that number may call for.  When seal() fails the
\* number is spent and the packet is gone, uncounted.
Forward ==
  /\ \E hk \in HkdfCalls, ok \in SealOutcomes :
       LET oseq == OutSeq(Head(batch))
           ks   == MaybeRekey(keys, oseq, hk)
           o    == SealedFor(ks, oseq, Head(batch).tsc)
           rk   == IF NeedsRekey(keys, oseq) THEN 1 ELSE 0
       IN  /\ Process("forward", IF ok THEN "forward" ELSE "unsealed")
           /\ keys' = ks
           /\ st' = [st EXCEPT !.rekeys = @ + rk, !.packets = IF ok THEN @ + 1 ELSE @]
           /\ out' = IF ok THEN Append(out, o) ELSE out
           /\ IF ok THEN NoteSealed(o) ELSE UNCHANGED <<sealed, reused>>
  /\ seq' = seq + 1
  /\ UNCHANGED <<rxq, call, egress>>

SendBatch ==
  /\ call.n > 0
  /\ batch = <<>>
  /\ egress' = egress \o out
  /\ out' = <<>>
  /\ call' = [call EXCEPT !.processed = @ + call.n, !.n = 0]
  /\ UNCHANGED <<keys, win, seq, st, rxq, batch, fates, sealed, reused>>

\* drain() returns when the budget is spent or nothing is queued; the modules
\* that extend this one add what the caller does with the count.
DrainReturn ==
  /\ BetweenBatches
  /\ RecvCount = 0
  /\ call' = NoCall
  /\ UNCHANGED <<keys, win, seq, rxq, batch, out, egress, fates, sealed, reused>>

DrainStep == RecvBatch \/ Skip \/ DropReplayed \/ DropUnauthentic \/ Forward \/ SendBatch

-----------------------------------------------------------------------------
ShardTypeOK ==
  /\ win \in Window
  /\ keys.epoch \in Epochs
  /\ keys.tag \in [{0, 1} -> Epochs]
  /\ seq \in Nat
  /\ st \in [packets : Nat, auth_fail : Nat, replay_drop : Nat, rekeys : Nat]
  /\ call \in [active : BOOLEAN, budget : Nat, processed : Nat, n : Nat]
  /\ Len(rxq) <= RxCap
  /\ Len(batch) <= MaxBatch /\ Len(out) <= MaxBatch
  /\ reused \in BOOLEAN

(***************************************************************************)
(* No two packets are ever sealed under the same key and nonce.            *)
(***************************************************************************)
NoncesFresh == ~reused
=============================================================================
