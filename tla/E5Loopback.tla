------------------------------ MODULE E5Loopback ------------------------------
(***************************************************************************)
(* The loopback topology of experiment E5 (measure_loopback): a generator  *)
(* thread seals packets into the socket of the shard that the measuring    *)
(* thread drains.  The generator borrows that very shard's sealing, so     *)
(* both threads use its key schedule and its cipher at the same time,      *)
(* without a lock: make_packet() in one, drain() in the other.             *)
(*                                                                         *)
(* A call of seal() has a beginning and an end.  The OpenSSL cipher keeps  *)
(* one encryption context per key (enc_), so when two calls overlap either *)
(* of them may come out right, garbled or refused; the ciphers written in  *)
(* this repository keep nothing between calls and come out right.  The     *)
(* statistics of the two threads are plain counters: sent_ of one, read by *)
(* the other after the join, and st_ of the other.                         *)
(***************************************************************************)
EXTENDS Shard

CONSTANTS
  Contexts,  \* the ciphers to choose from: TRUE for one whose seal() works in
             \* a context of the cipher object, FALSE for the others
  MaxSent,   \* bound on the packets the generator makes
  Budget     \* the budget of a drain() call (1024 in the code)

\* The experiment leaves epoch_packets at its default: the shard never rekeys.
ASSUME E5LoopbackAssumption ==
  /\ Contexts \subseteq BOOLEAN /\ MaxSent \in Nat /\ Budget \in Nat \ {0}
  /\ Period = 0

VARIABLES
  shared,   \* the cipher in use works in a shared context
  phase,    \* the measuring thread: settling, measuring, joining the other
  stop,     \* the flag that ends the generator thread
  gpc,      \* the generator thread: head of its loop, pace (waiting for its
            \* time), seal, send, count, returned
  gseq,     \* its next sequence number
  gpkt,     \* the packet it is sealing or sending
  gsent,    \* Generator::sent_
  dpkt,     \* the packet drain() is sealing
  sealing,  \* of each thread: not in seal(), in it alone, or overlapped
  settled   \* history: datagrams processed before the statistics were reset

e5Vars == <<shared, phase, stop, gpc, gseq, gpkt, gsent, dpkt, sealing, settled>>
vars == <<shardVars, e5Vars>>

Threads  == {"tx", "rx"}
NoPacket == [wellFormed |-> FALSE]

Init ==
  /\ ShardInit
  /\ shared \in Contexts
  /\ phase = "settle"
  /\ stop = FALSE
  /\ gpc = "head"
  /\ gseq = 0
  /\ gpkt = NoPacket
  /\ gsent = 0
  /\ dpkt = NoPacket
  /\ sealing = [t \in Threads |-> "out"]
  /\ settled = 0

-----------------------------------------------------------------------------
\* Thread t enters seal().
EnterSeal(t) ==
  sealing' = IF \E other \in Threads \ {t} : sealing[other] # "out"
             THEN [other \in Threads |-> "overlapped"]
             ELSE [sealing EXCEPT ![t] = "alone"]

LeaveSeal(t) == sealing' = [sealing EXCEPT ![t] = "out"]

\* What the call of thread t that was to seal d may yield.
SealYields(t, d) ==
  IF shared /\ sealing[t] = "overlapped"
  THEN {d, [d EXCEPT !.body = <<>>], NoPacket}
  ELSE {d}

-----------------------------------------------------------------------------
(* The generator thread: emit(seq++) at every interval until it is told to *)
(* stop, which it looks for before it waits.                               *)
TxLoops ==
  /\ gpc = "head"
  /\ \/ stop /\ gpc' = "returned"
     \/ ~stop /\ gseq < MaxSent /\ gpc' = "pace"
  /\ UNCHANGED <<shardVars, shared, phase, stop, gseq, gpkt, gsent, dpkt, sealing, settled>>

EmitBegin ==
  /\ gpc = "pace"
  /\ gpc' = "seal"
  /\ \E hk \in HkdfCalls :
       LET ks == MaybeRekey(keys, gseq, hk)
       IN  keys' = ks /\ gpkt' = SealedFor(ks, gseq, gseq)
  /\ gseq' = gseq + 1
  /\ EnterSeal("tx")
  /\ UNCHANGED <<win, seq, st, rxq, call, batch, out, egress, fates, sealed, reused,
                 shared, phase, stop, gsent, dpkt, settled>>

\* make_packet() returns; a packet that could not be sealed is not sent.
EmitEnd ==
  /\ gpc = "seal"
  /\ LeaveSeal("tx")
  /\ \E d \in SealYields("tx", gpkt) :
       /\ gpkt' = d
       /\ gpc' = IF d = NoPacket THEN "head" ELSE "send"
       /\ IF d = NoPacket THEN UNCHANGED <<sealed, reused>> ELSE NoteSealed(gpkt)
  /\ UNCHANGED <<keys, win, seq, st, rxq, call, batch, out, egress, fates,
                 shared, phase, stop, gseq, gsent, dpkt, settled>>

\* sendto() is refused, or succeeds whether or not the buffer has room.
EmitSend ==
  /\ gpc = "send"
  /\ \/ gpc' = "head" /\ UNCHANGED rxq
     \/ gpc' = "count" /\ rxq' = IF Len(rxq) < RxCap THEN Append(rxq, gpkt) ELSE rxq
  /\ gpkt' = NoPacket
  /\ UNCHANGED <<keys, win, seq, st, call, batch, out, egress, fates, sealed, reused,
                 shared, phase, stop, gseq, gsent, dpkt, sealing, settled>>

\* sent_++: drain() may have forwarded the packet before it is counted.
EmitCount ==
  /\ gpc = "count"
  /\ gpc' = "head"
  /\ gsent' = gsent + 1
  /\ UNCHANGED <<shardVars, shared, phase, stop, gseq, gpkt, dpkt, sealing, settled>>

-----------------------------------------------------------------------------
\* The measuring thread calls drain() in both of its loops.
Draining == phase \in {"settle", "measure"}

Call == Draining /\ rxq # <<>> /\ DrainCall(Budget) /\ UNCHANGED e5Vars

\* Forward of the shard, with seal() taken apart.
ForwardBegin ==
  /\ dpkt = NoPacket
  /\ Process("forward", "forward")
  /\ \E hk \in HkdfCalls :
       LET oseq == OutSeq(Head(batch))
           ks   == MaybeRekey(keys, oseq, hk)
           rk   == IF NeedsRekey(keys, oseq) THEN 1 ELSE 0
       IN  /\ keys' = ks
           /\ st' = [st EXCEPT !.rekeys = @ + rk]
           /\ dpkt' = SealedFor(ks, oseq, Head(batch).tsc)
  /\ seq' = seq + 1
  /\ EnterSeal("rx")
  /\ UNCHANGED <<rxq, call, out, egress, sealed, reused,
                 shared, phase, stop, gpc, gseq, gpkt, gsent, settled>>

ForwardEnd ==
  /\ dpkt # NoPacket
  /\ LeaveSeal("rx")
  /\ dpkt' = NoPacket
  /\ \E o \in SealYields("rx", dpkt) :
       \/ /\ o = NoPacket
          /\ UNCHANGED <<out, st, sealed, reused>>
       \/ /\ o # NoPacket
          /\ out' = Append(out, o)
          /\ st' = [st EXCEPT !.packets = @ + 1]
          /\ NoteSealed(dpkt)
  /\ UNCHANGED <<keys, win, seq, rxq, call, batch, egress, fates,
                 shared, phase, stop, gpc, gseq, gpkt, gsent, settled>>

Working ==
  /\ dpkt = NoPacket
  /\ RecvBatch \/ Skip \/ DropReplayed \/ DropUnauthentic \/ SendBatch
  /\ UNCHANGED e5Vars

Return == DrainReturn /\ UNCHANGED <<st, e5Vars>>

\* Mutant: the statistics are not reset.
Settled_NoReset ==
  /\ phase = "settle"
  /\ ~call.active
  /\ phase' = "measure"
  /\ settled' = Len(fates)
  /\ UNCHANGED <<shardVars, shared, stop, gpc, gseq, gpkt, gsent, dpkt, sealing>>

\* The settling time is over: reset_stats().
Settled ==
  /\ phase = "settle"
  /\ ~call.active
  /\ phase' = "measure"
  /\ st' = ZeroStats
  /\ settled' = Len(fates)
  /\ UNCHANGED <<keys, win, seq, rxq, call, batch, out, egress, fates, sealed, reused,
                 shared, stop, gpc, gseq, gpkt, gsent, dpkt, sealing>>

\* Mutant: the generator is not told to stop before it is joined.
Deadline_NoStop ==
  /\ phase = "measure"
  /\ ~call.active
  /\ phase' = "join"
  /\ UNCHANGED <<shardVars, shared, stop, gpc, gseq, gpkt, gsent, dpkt, sealing, settled>>

\* The measured interval is over.
Deadline ==
  /\ phase = "measure"
  /\ ~call.active
  /\ phase' = "join"
  /\ stop' = TRUE
  /\ UNCHANGED <<shardVars, shared, gpc, gseq, gpkt, gsent, dpkt, sealing, settled>>

\* Mutant: the row is made without waiting for the generator thread.
Joined_NoWait ==
  /\ phase = "join"
  /\ phase' = "done"
  /\ UNCHANGED <<shardVars, shared, stop, gpc, gseq, gpkt, gsent, dpkt, sealing, settled>>

\* tx.join() returns; the row is made of st_ and sent_.
Joined ==
  /\ phase = "join"
  /\ gpc = "returned"
  /\ phase' = "done"
  /\ UNCHANGED <<shardVars, shared, stop, gpc, gseq, gpkt, gsent, dpkt, sealing, settled>>

Done == phase = "done" /\ UNCHANGED vars

Tx == TxLoops \/ EmitBegin \/ EmitEnd \/ EmitSend \/ EmitCount
Rx == Call \/ ForwardBegin \/ ForwardEnd \/ Working \/ Return \/ Settled \/ Deadline \/ Joined

Next == Tx \/ Rx \/ Done

(***************************************************************************)
(* Both threads run.  The measuring thread's two loops end by the clock,   *)
(* between two drains.                                                     *)
(***************************************************************************)
Spec ==
  /\ Init /\ [][Next]_vars
  /\ WF_vars(Tx) /\ WF_vars(Rx) /\ SF_vars(Settled) /\ SF_vars(Deadline)

-----------------------------------------------------------------------------
\* Every variable holds a value of its type.
TypeOK ==
  /\ ShardTypeOK
  /\ shared \in Contexts
  /\ phase \in {"settle", "measure", "join", "done"}
  /\ stop \in BOOLEAN /\ gpc \in {"head", "pace", "seal", "send", "count", "returned"}
  /\ gseq \in 0 .. MaxSent /\ gsent \in 0 .. gseq
  /\ sealing \in [Threads -> {"out", "alone", "overlapped"}]
  /\ settled \in 0 .. Len(fates)

(***************************************************************************)
(* What drain() has processed, holds or will receive was sent, and counted *)
(* as sent but for at most the one packet of a generator thread between    *)
(* its sendto() and its sent_++; and a finished row never has more packets *)
(* than the generator sent, which loss_ratio divides them by.  With either *)
(* kind of cipher, refused sends and a buffer that overflows.              *)
(***************************************************************************)
PacketsWereSent ==
  /\ Len(fates) + Len(batch) + Len(rxq) <= gsent + (IF gpc = "count" THEN 1 ELSE 0)
  /\ phase = "done" => st.packets <= gsent

(***************************************************************************)
(* "The packets it emits are indistinguishable from those a remote         *)
(* generator sends" (the comment of class Generator): none of them fails   *)
(* to verify.  Not so with a cipher that seals in a shared context.        *)
(***************************************************************************)
EmittedVerify == \A i \in DOMAIN fates : fates[i].what # "unauthentic"

(***************************************************************************)
(* The row counts the measured interval only: no datagram processed before *)
(* the reset is in a counter, and every one processed after it is in one,  *)
(* but for those a shared cipher context refused to seal.                  *)
(***************************************************************************)
RowCountsMeasured ==
  LET counted  == st.packets + st.auth_fail + st.replay_drop
      measured == Len(fates) - settled
  IN  /\ TypeOK
      /\ phase # "settle" /\ dpkt = NoPacket =>
           IF shared THEN counted <= measured ELSE counted = measured

(***************************************************************************)
(* A row's loss is loss: when every datagram sent was queued and processed *)
(* and forwarded, the row's loss_ratio, 1 - packets / sent, is zero.       *)
(***************************************************************************)
LossIsLoss ==
  phase = "done" /\ st.packets > 0 /\ Len(egress) = gsent =>
    st.packets >= gsent

(***************************************************************************)
(* The measurement ends: the generator sees the flag and is joined.        *)
(***************************************************************************)
Ends == <>(phase = "done")
=============================================================================
