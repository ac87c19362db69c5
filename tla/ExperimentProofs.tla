--------------------------- MODULE ExperimentProofs ---------------------------
(***************************************************************************)
(* Proofs about the loopback topology of experiment E5, for every window,  *)
(* batch, socket buffer, budget and number of packets, with either kind of *)
(* cipher and whichever HKDF calls fail.                                   *)
(*                                                                         *)
(* The argument: the shard never rekeys, so its schedule is a constant of  *)
(* the run and what either thread seals has a header.  The counters, with  *)
(* the packet drain() is sealing, are at every step what has been          *)
(* processed since the reset; and what drain() has processed, holds or     *)
(* will receive is at every step no more than what the generator thread    *)
(* has counted, or is about to count.                                      *)
(***************************************************************************)
EXTENDS E5Loopback, Scaling, DataPlaneFacts, FiniteSetTheorems

\* What a sealing call makes of a packet, and what a garbled one leaves.
Bodies ==
  [key : Materials({Secret}) \cup {NoKey}, nonce : Materials({Secret}) \X Nat,
   aad : Epochs \X Nat \X Nat]

Datagrams ==
  [wellFormed : {TRUE}, epoch : Epochs, seq : Nat, tsc : Nat, body : Bodies \cup {<<>>}]

Processed == [d : Datagrams, what : {"replayed", "unauthentic", "forward"}]

Stats == [packets : Nat, auth_fail : Nat, replay_drop : Nat, rekeys : Nat]
Calls == [active : BOOLEAN, budget : Nat, processed : Nat, n : Nat]

\* The shard and what it holds.
ShardTyped ==
  /\ keys \in Schedules({Secret}, {0}) /\ Aligned(keys)
  /\ ForEpoch(keys, keys.epoch) # NoKey
  /\ win \in Window /\ seq \in Nat /\ st \in Stats /\ call \in Calls
  /\ rxq \in Seq(Datagrams)
  /\ batch \in Seq(Datagrams)
  /\ out \in Seq(Datagrams)
  /\ fates \in Seq(Processed)
  /\ reused \in BOOLEAN

\* The two threads.
ThreadsTyped ==
  /\ shared \in Contexts
  /\ phase \in {"settle", "measure", "join", "done"}
  /\ stop \in BOOLEAN /\ gpc \in {"head", "pace", "seal", "send", "count", "returned"}
  /\ gpc \in {"seal", "send"} => gpkt # NoPacket
  /\ gseq \in 0 .. MaxSent /\ gsent \in Nat /\ settled \in Nat
  /\ gpkt \in Datagrams \cup {NoPacket}
  /\ dpkt \in Datagrams \cup {NoPacket}
  /\ sealing \in [Threads -> {"out", "alone", "overlapped"}]

Pending(p) == IF p = NoPacket THEN 0 ELSE 1

\* How full the buffers are, and how far a call of drain() is.
Buffered ==
  /\ Len(rxq) <= RxCap
  /\ Len(batch) + Len(out) + Pending(dpkt) <= call.n /\ call.n <= MaxBatch
  /\ call.n > 0 => call.active

\* A number is spent on each packet counted, and on the one on its way.
Emitting == IF gpc \in {"seal", "send", "count"} THEN 1 ELSE 0
Sent ==
  /\ gsent + Emitting <= gseq
  /\ gpc = "pace" => gseq < MaxSent

\* Nothing is processed, held or queued that was not sent.
Uncounted == IF gpc = "count" THEN 1 ELSE 0
Conserved ==
  /\ Len(fates) + Len(batch) + Len(rxq) <= gsent + Uncounted
  /\ phase = "done" => gpc = "returned"

\* What the counters and the packet being sealed account for.
Tally == st.packets + st.auth_fail + st.replay_drop + Pending(dpkt)

Accounted ==
  /\ settled <= Len(fates)
  /\ phase # "settle" =>
       /\ Tally <= Len(fates) - settled
       /\ ~shared => Tally = Len(fates) - settled

LoopInv == ShardTyped /\ ThreadsTyped /\ Buffered /\ Sent /\ Accounted /\ Conserved
-----------------------------------------------------------------------------
(***************************************************************************)
(* Datagrams.                                                              *)
(***************************************************************************)

\* A shard that never rekeys keeps its schedule.
LEMMA NeverRekeys ==
  ASSUME ShardTyped, NEW s, NEW hk
  PROVE  ~NeedsRekey(keys, s) /\ MaybeRekey(keys, s, hk) = keys
<1>1. keys.perEpoch = 0
  BY DEF ShardTyped, Schedules
<1>2. ~NeedsRekey(keys, s)
  BY <1>1 DEF NeedsRekey
<1>3. QED
  BY <1>2, NoRekey

\* A packet being sealed can be told from none.
LEMMA NoneIsNone == NoPacket \notin Datagrams
<1>1. NoPacket.wellFormed = FALSE
  BY DEF NoPacket
<1>2. QED
  BY <1>1 DEF Datagrams

LEMMA SealsDatagram ==
  ASSUME NEW k \in Schedules({Secret}, {0}), NEW s \in Nat, NEW t \in Nat
  PROVE  SealedFor(k, s, t) \in Datagrams
<1> DEFINE key == ForEpoch(k, k.epoch)
           salt == NonceSalt(k, k.epoch)
           ep == k.epoch
           body == [key |-> key, nonce |-> <<salt, s>>, aad |-> <<ep, s, t>>]
<1>1. ep \in Epochs
  BY DEF Schedules
<1>2. key \in Materials({Secret}) \cup {NoKey} /\ salt \in Materials({Secret})
  BY AnswerTypes
<1>3. SealedFor(k, s, t) = [wellFormed |-> TRUE, epoch |-> ep, seq |-> s, tsc |-> t, body |-> body]
  BY DEF SealedFor, Sealed, Nonce
<1> HIDE DEF key, salt, ep
<1>4. body \in Bodies
  BY <1>1, <1>2 DEF Bodies
<1> HIDE DEF body
<1>5. QED
  BY <1>1, <1>3, <1>4 DEF Datagrams

\* What a call of seal() yields.
LEMMA YieldsDatagram ==
  ASSUME NEW t, NEW d \in Datagrams, NEW y \in SealYields(t, d)
  PROVE  /\ y \in Datagrams \cup {NoPacket}
         /\ ~shared => y = d
<1>1. CASE y = d
  BY <1>1
<1>2. CASE y = NoPacket /\ shared
  BY <1>2
<1>3. CASE y = [d EXCEPT !.body = <<>>] /\ shared
  BY <1>3 DEF Datagrams
<1>4. QED
  BY <1>1, <1>2, <1>3 DEF SealYields

\* Whatever is queued has a header.
LEMMA NothingSkipped ==
  ASSUME NEW d \in Datagrams
  PROVE  Disposition(d) # "skip"
  BY DEF Datagrams, Disposition

-----------------------------------------------------------------------------
LEMMA LoopInit == Init => LoopInv
<1> SUFFICES ASSUME Init PROVE LoopInv
  OBVIOUS
<1>1. PICK hk \in HkdfCalls : keys = NewKeySchedule(Secret, Period, hk)
  BY DEF Init, ShardInit
<1>2. /\ keys \in Schedules({Secret}, {0})
      /\ keys.epoch = 0 /\ keys.tag[0] = 0 /\ keys.aead[0] \in Materials({Secret})
      /\ keys.salt[0] = keys.aead[0] /\ keys.aead[1] = NoKey
  BY <1>1, NewFields, E5LoopbackAssumption, SMTT(40)
<1>3. keys.aead[0] # NoKey
  BY <1>2, NoKeyAssumption
<1>4. Aligned(keys) /\ ForEpoch(keys, keys.epoch) # NoKey
  BY <1>2, <1>3 DEF Aligned, ForEpoch
<1>5. win \in Window
  BY NewIsExact DEF Init, ShardInit, Exact
<1>6. st \in Stats /\ call \in Calls /\ call.n = 0 /\ call.active = FALSE
  BY DEF Init, ShardInit, ZeroStats, NoCall, Stats, Calls
<1>7. /\ rxq = <<>> /\ batch = <<>> /\ out = <<>> /\ fates = <<>> /\ reused = FALSE
      /\ seq = 0
  BY DEF Init, ShardInit
<1>8. ShardTyped
  <2>1. \A S : <<>> \in Seq(S)
    OBVIOUS
  <2>2. reused \in BOOLEAN /\ seq \in Nat
    BY <1>7
  <2>3. QED
    BY <1>2, <1>4, <1>5, <1>6, <1>7, <2>1, <2>2 DEF ShardTyped
<1>9. ThreadsTyped
  <2>1. stop \in BOOLEAN /\ gpc = "head"
    BY DEF Init
  <2>2. sealing \in [Threads -> {"out", "alone", "overlapped"}]
    BY DEF Init
  <2>3. gseq \in 0 .. MaxSent /\ gsent \in Nat /\ settled \in Nat
    BY E5LoopbackAssumption DEF Init
  <2>4. QED
    BY <2>1, <2>2, <2>3 DEF Init, ThreadsTyped
<1>10. Buffered
  BY <1>6, <1>7, RxCapAssumption, MaxBatchAssumption DEF Init, Buffered, Pending
<1>11. Sent
  BY DEF Init, Sent, Emitting
<1>12. Accounted /\ Conserved
  BY <1>7 DEF Init, Accounted, Conserved, Uncounted
<1>13. QED
  BY <1>8, <1>9, <1>10, <1>11, <1>12 DEF LoopInv

-----------------------------------------------------------------------------
(***************************************************************************)
(* The generator thread.                                                   *)
(***************************************************************************)
LEMMA EnterKeeps ==
  ASSUME ThreadsTyped, NEW t \in Threads, EnterSeal(t)
  PROVE  sealing' \in [Threads -> {"out", "alone", "overlapped"}]
  BY DEF ThreadsTyped, EnterSeal, Threads

LEMMA LeaveKeeps ==
  ASSUME ThreadsTyped, NEW t \in Threads, LeaveSeal(t)
  PROVE  sealing' \in [Threads -> {"out", "alone", "overlapped"}]
  BY DEF ThreadsTyped, LeaveSeal, Threads

LEMMA EmitBeginKeeps == LoopInv /\ EmitBegin => LoopInv'
<1> SUFFICES ASSUME LoopInv, EmitBegin PROVE LoopInv'
  OBVIOUS
<1>1. PICK hk \in HkdfCalls :
        /\ keys' = MaybeRekey(keys, gseq, hk)
        /\ gpkt' = SealedFor(MaybeRekey(keys, gseq, hk), gseq, gseq)
  BY DEF EmitBegin
<1>2. ShardTyped /\ ThreadsTyped /\ MaxSent \in Nat
  BY E5LoopbackAssumption DEF LoopInv
<1>3. keys' = keys /\ gpkt' = SealedFor(keys, gseq, gseq)
  BY <1>1, <1>2, NeverRekeys
<1>4. /\ gseq \in Nat /\ gsent \in Nat /\ gseq < MaxSent /\ gseq' = gseq + 1
      /\ gpc = "pace" /\ gpc' = "seal"
  BY <1>2 DEF EmitBegin, ThreadsTyped, LoopInv, Sent
<1>5. gpkt' \in Datagrams /\ gpkt' # NoPacket
  BY <1>2, <1>3, <1>4, SealsDatagram, NoneIsNone DEF ShardTyped
<1>6. UNCHANGED <<win, seq, st, rxq, call, batch, out, egress, fates, sealed, reused,
                  shared, phase, stop, gsent, dpkt, settled>>
  BY DEF EmitBegin
<1>7. sealing' \in [Threads -> {"out", "alone", "overlapped"}]
  BY <1>2, EnterKeeps DEF EmitBegin, Threads
<1>8. ShardTyped'
  BY <1>2, <1>3, <1>6 DEF ShardTyped
<1>9. ThreadsTyped'
  <2>1. gseq' \in 0 .. MaxSent
    BY <1>2, <1>4
  <2>2. QED
    BY <1>2, <1>4, <1>5, <1>6, <1>7, <2>1 DEF ThreadsTyped
<1>10. Sent'
  BY <1>4, <1>6 DEF LoopInv, Sent, Emitting
<1>11. Buffered' /\ Accounted'
  BY <1>6 DEF LoopInv, Buffered, Accounted, Tally
<1>12. Conserved'
  BY <1>4, <1>6 DEF LoopInv, Conserved, Uncounted
<1>13. QED
  BY <1>8, <1>9, <1>10, <1>11, <1>12 DEF LoopInv

LEMMA EmitEndKeeps == LoopInv /\ EmitEnd => LoopInv'
<1> SUFFICES ASSUME LoopInv, EmitEnd PROVE LoopInv'
  OBVIOUS
<1>1. ShardTyped /\ ThreadsTyped
  BY DEF LoopInv
<1>2. gpkt \in Datagrams /\ gpc = "seal"
  BY <1>1 DEF EmitEnd, ThreadsTyped
<1>3. PICK d \in SealYields("tx", gpkt) :
        /\ gpkt' = d
        /\ gpc' = IF d = NoPacket THEN "head" ELSE "send"
        /\ IF d = NoPacket THEN UNCHANGED <<sealed, reused>> ELSE NoteSealed(gpkt)
  BY DEF EmitEnd
<1>4. d \in Datagrams \cup {NoPacket}
  BY <1>2, YieldsDatagram
<1>5. UNCHANGED <<keys, win, seq, st, rxq, call, batch, out, egress, fates,
                  shared, phase, stop, gseq, gsent, dpkt, settled>>
  BY DEF EmitEnd
<1>6. reused' \in BOOLEAN
  BY <1>1, <1>3 DEF ShardTyped, NoteSealed
<1>7. sealing' \in [Threads -> {"out", "alone", "overlapped"}]
  BY <1>1, LeaveKeeps DEF EmitEnd, Threads
<1>8. ShardTyped'
  BY <1>1, <1>5, <1>6 DEF ShardTyped
<1>9. ThreadsTyped'
  BY <1>1, <1>3, <1>4, <1>5, <1>7 DEF ThreadsTyped
<1>10. Sent'
  <2>1. gseq \in Nat /\ gsent \in Nat /\ gsent + 1 <= gseq
    BY <1>1, <1>2 DEF ThreadsTyped, LoopInv, Sent, Emitting
  <2>2. gpc' \in {"head", "send"} /\ gseq' = gseq /\ gsent' = gsent
    BY <1>3, <1>5
  <2>3. QED
    BY <2>1, <2>2 DEF Sent, Emitting
<1>11. Buffered' /\ Accounted'
  BY <1>5 DEF LoopInv, Buffered, Accounted, Tally
<1>12. Conserved'
  BY <1>2, <1>3, <1>5 DEF LoopInv, Conserved, Uncounted
<1>13. QED
  BY <1>8, <1>9, <1>10, <1>11, <1>12 DEF LoopInv

LEMMA EmitSendKeeps == LoopInv /\ EmitSend => LoopInv'
<1> SUFFICES ASSUME LoopInv, EmitSend PROVE LoopInv'
  OBVIOUS
<1>1. ShardTyped /\ ThreadsTyped /\ RxCap \in Nat
  BY RxCapAssumption DEF LoopInv
<1>2. gpkt \in Datagrams /\ gpc = "send" /\ gpkt' = NoPacket
  BY <1>1 DEF EmitSend, ThreadsTyped
<1>3. \/ gpc' = "head" /\ rxq' = rxq
      \/ gpc' = "count" /\ rxq' = IF Len(rxq) < RxCap THEN Append(rxq, gpkt) ELSE rxq
  BY DEF EmitSend
<1>4. UNCHANGED <<keys, win, seq, st, call, batch, out, egress, fates, sealed, reused,
                  shared, phase, stop, gseq, gsent, dpkt, sealing, settled>>
  BY DEF EmitSend
<1>5. rxq \in Seq(Datagrams) /\ Len(rxq) \in Nat /\ Len(rxq) <= RxCap
  BY <1>1 DEF ShardTyped, LoopInv, Buffered
<1>6. /\ rxq' \in Seq(Datagrams) /\ Len(rxq') \in Nat /\ Len(rxq') <= RxCap
      /\ Len(rxq') <= Len(rxq) + (IF gpc' = "count" THEN 1 ELSE 0)
  BY <1>1, <1>2, <1>3, <1>5
<1>7. ShardTyped'
  BY <1>1, <1>4, <1>6 DEF ShardTyped
<1>8. ThreadsTyped'
  BY <1>1, <1>2, <1>3, <1>4 DEF ThreadsTyped
<1>9. Sent'
  <2>1. gseq \in Nat /\ gsent \in Nat /\ gsent + 1 <= gseq
    BY <1>1, <1>2 DEF ThreadsTyped, LoopInv, Sent, Emitting
  <2>2. gpc' \in {"head", "count"} /\ gseq' = gseq /\ gsent' = gsent
    BY <1>3, <1>4
  <2>3. QED
    BY <2>1, <2>2 DEF Sent, Emitting
<1>10. Buffered' /\ Accounted'
  BY <1>4, <1>6 DEF LoopInv, Buffered, Accounted, Tally
<1>11. Conserved'
  <2>1. /\ Len(fates) \in Nat /\ Len(batch) \in Nat /\ gsent \in Nat
        /\ Len(fates) + Len(batch) + Len(rxq) <= gsent
    BY <1>1, <1>2 DEF ShardTyped, ThreadsTyped, LoopInv, Conserved, Uncounted
  <2>2. Len(fates) + Len(batch) + Len(rxq') <= gsent + Uncounted'
    BY <1>5, <1>6, <2>1 DEF Uncounted
  <2>3. phase # "done"
    BY <1>2 DEF LoopInv, Conserved
  <2>4. QED
    BY <1>4, <2>2, <2>3 DEF Conserved
<1>12. QED
  BY <1>7, <1>8, <1>9, <1>10, <1>11 DEF LoopInv

LEMMA EmitCountKeeps == LoopInv /\ EmitCount => LoopInv'
<1> SUFFICES ASSUME LoopInv, EmitCount PROVE LoopInv'
  OBVIOUS
<1>1. ShardTyped /\ ThreadsTyped
  BY DEF LoopInv
<1>2. gpc = "count" /\ gpc' = "head" /\ gsent' = gsent + 1
  BY DEF EmitCount
<1>3. UNCHANGED <<keys, win, seq, st, rxq, call, batch, out, egress, fates, sealed, reused,
                  shared, phase, stop, gseq, gpkt, dpkt, sealing, settled>>
  BY DEF EmitCount, shardVars
<1>4. gseq \in Nat /\ gsent \in Nat /\ gsent + 1 <= gseq
  BY <1>1, <1>2 DEF ThreadsTyped, LoopInv, Sent, Emitting
<1>5. ShardTyped'
  BY <1>1, <1>3 DEF ShardTyped
<1>6. ThreadsTyped'
  BY <1>1, <1>2, <1>3, <1>4 DEF ThreadsTyped
<1>7. Sent'
  BY <1>2, <1>3, <1>4 DEF Sent, Emitting
<1>8. Buffered' /\ Accounted'
  BY <1>3 DEF LoopInv, Buffered, Accounted, Tally
<1>9. Conserved'
  <2>1. Len(fates) + Len(batch) + Len(rxq) <= gsent + 1 /\ phase # "done"
    BY <1>2 DEF LoopInv, Conserved, Uncounted
  <2>2. gsent + 1 + 0 = gsent + 1
    BY <1>4
  <2>3. QED
    BY <1>2, <1>3, <2>1, <2>2 DEF Conserved, Uncounted
<1>10. QED
  BY <1>5, <1>6, <1>7, <1>8, <1>9 DEF LoopInv

\* A step of either thread that moves nothing: the generator thread looks at
\* the flag and returns, the measuring thread sets it and waits.
LEMMA ThreadsMove ==
  ASSUME LoopInv, UNCHANGED <<shardVars, shared, gseq, gpkt, gsent, dpkt, sealing, settled>>,
         stop' \in BOOLEAN,
         gpc' = gpc \/ (gpc = "head" /\ (gpc' = "returned" \/ (gpc' = "pace" /\ gseq < MaxSent))),
         phase' \in {"settle", "measure", "join", "done"},
         phase = "settle" => phase' = "settle",
         phase' = "done" => phase = "done" \/ gpc = "returned"
  PROVE  LoopInv'
<1>1. ShardTyped'
  BY DEF LoopInv, ShardTyped, shardVars
<1>2. ThreadsTyped'
  BY DEF LoopInv, ThreadsTyped, shardVars
<1>3. Buffered'
  BY DEF LoopInv, Buffered, shardVars
<1>4. Accounted'
  BY DEF LoopInv, Accounted, Tally, shardVars
<1>5. Emitting' = Emitting /\ Uncounted' = Uncounted
  BY DEF Emitting, Uncounted
<1>6. Sent'
  BY <1>5 DEF LoopInv, Sent
<1>7. Conserved'
  BY <1>5 DEF LoopInv, Conserved, shardVars
<1>8. QED
  BY <1>1, <1>2, <1>3, <1>4, <1>6, <1>7 DEF LoopInv

-----------------------------------------------------------------------------
(***************************************************************************)
(* The measuring thread, between two datagrams.                            *)
(***************************************************************************)
\* A step of drain() on the transport keeps what is said of the threads and of
\* what has been processed.
LEMMA CarriedKeeps ==
  ASSUME LoopInv, UNCHANGED <<keys, win, seq, st, fates, sealed, reused>>, UNCHANGED e5Vars,
         call' \in Calls,
         rxq' \in Seq(Datagrams), batch' \in Seq(Datagrams),
         out' \in Seq(Datagrams), Buffered',
         Len(batch') + Len(rxq') = Len(batch) + Len(rxq)
  PROVE  LoopInv'
<1>1. ShardTyped'
  BY DEF LoopInv, ShardTyped, e5Vars
<1>2. ThreadsTyped'
  BY DEF LoopInv, ThreadsTyped, e5Vars
<1>3. Sent' /\ Accounted'
  BY DEF LoopInv, Sent, Emitting, Accounted, Tally, e5Vars
<1>4. Conserved'
  <2>1. \A a, b, c, d, e \in Nat : b + c = d + e => a + b + c = a + d + e
    OBVIOUS
  <2>2. Len(fates) + Len(batch') + Len(rxq') = Len(fates) + Len(batch) + Len(rxq)
    <3>1. /\ Len(fates) \in Nat /\ Len(batch) \in Nat /\ Len(rxq) \in Nat
          /\ Len(batch') \in Nat /\ Len(rxq') \in Nat
      BY DEF LoopInv, ShardTyped
    <3>2. QED
      BY <2>1, <3>1
  <2>3. QED
    BY <2>2 DEF LoopInv, Conserved, Uncounted, e5Vars
<1>5. QED
  BY <1>1, <1>2, <1>3, <1>4 DEF LoopInv

\* Sizes are numbers.
LEMMA Sizes ==
  ASSUME LoopInv
  PROVE  /\ call \in Calls /\ call.n \in Nat /\ call.n <= MaxBatch
         /\ call.n > 0 => call.active
         /\ Len(rxq) \in Nat /\ Len(batch) \in Nat /\ Len(out) \in Nat
         /\ Len(rxq) <= RxCap /\ Pending(dpkt) \in {0, 1}
         /\ Len(batch) + Len(out) + Pending(dpkt) <= call.n
         /\ MaxBatch \in Nat /\ RxCap \in Nat /\ MaxBatch > 0
         /\ Len(fates) \in Nat /\ settled \in Nat /\ settled <= Len(fates)
<1>1. call \in Calls /\ call.n \in Nat
  BY DEF LoopInv, ShardTyped, Calls
<1>2. Len(rxq) \in Nat /\ Len(batch) \in Nat /\ Len(out) \in Nat /\ Len(fates) \in Nat
  BY DEF LoopInv, ShardTyped
<1>3. Pending(dpkt) \in {0, 1}
  BY DEF Pending
<1>4. MaxBatch \in Nat /\ RxCap \in Nat /\ MaxBatch > 0
  BY MaxBatchAssumption, RxCapAssumption
<1>5. settled \in Nat /\ settled <= Len(fates)
  BY DEF LoopInv, ThreadsTyped, Accounted
<1>6. QED
  BY <1>1, <1>2, <1>3, <1>4, <1>5 DEF LoopInv, Buffered

\* Between two batches nothing is held.
LEMMA NothingHeld ==
  ASSUME LoopInv, call.n = 0
  PROVE  Len(batch) = 0 /\ Len(out) = 0 /\ dpkt = NoPacket
<1>1. Len(batch) = 0 /\ Len(out) = 0 /\ Pending(dpkt) = 0
  BY Sizes
<1>2. QED
  BY <1>1 DEF Pending

LEMMA CallKeeps == LoopInv /\ Call => LoopInv'
<1> SUFFICES ASSUME LoopInv, Call PROVE LoopInv'
  OBVIOUS
<1>1. /\ ~call.active
      /\ call' = [active |-> TRUE, budget |-> Budget, processed |-> 0, n |-> 0]
      /\ UNCHANGED <<keys, win, seq, st, rxq, batch, out, egress, fates, sealed, reused>>
      /\ UNCHANGED e5Vars
  BY DEF Call, DrainCall
<1>2. call' \in Calls /\ call'.n = 0
  BY <1>1, E5LoopbackAssumption DEF Calls
<1>3. call.n = 0
  BY <1>1, Sizes
<1>4. Buffered'
  BY <1>1, <1>2, <1>3, Sizes DEF e5Vars, Buffered
<1>5. QED
  BY <1>1, <1>2, <1>4, CarriedKeeps DEF LoopInv, ShardTyped

LEMMA ReturnKeeps == LoopInv /\ Return => LoopInv'
<1> SUFFICES ASSUME LoopInv, Return PROVE LoopInv'
  OBVIOUS
<1>1. /\ call.n = 0 /\ call' = NoCall
      /\ UNCHANGED <<keys, win, seq, st, rxq, batch, out, egress, fates, sealed, reused>>
      /\ UNCHANGED e5Vars
  BY DEF Return, DrainReturn, BetweenBatches
<1>2. call' \in Calls /\ call'.n = 0
  BY <1>1 DEF Calls, NoCall
<1>3. Buffered'
  BY <1>1, <1>2, Sizes DEF e5Vars, Buffered
<1>4. QED
  BY <1>1, <1>2, <1>3, CarriedKeeps DEF LoopInv, ShardTyped

LEMMA RecvKeeps == LoopInv /\ RecvBatch /\ UNCHANGED e5Vars => LoopInv'
<1> SUFFICES ASSUME LoopInv, RecvBatch, UNCHANGED e5Vars PROVE LoopInv'
  OBVIOUS
<1> DEFINE r == RecvCount
           S == Datagrams
<1>1. /\ rxq \in Seq(S) /\ Len(rxq) \in Nat /\ Len(rxq) <= RxCap
      /\ RxCap \in Nat /\ MaxBatch \in Nat /\ out \in Seq(S)
      /\ call \in [active : BOOLEAN, budget : Nat, processed : Nat, n : Nat]
  BY Sizes DEF LoopInv, ShardTyped, Calls
<1>2. r \in 1 .. Len(rxq) /\ r <= MaxBatch
  BY <1>1, SMTT(40) DEF RecvBatch, RecvCount
<1>3. /\ call.active /\ call.n = 0 /\ call' = [call EXCEPT !.n = r]
      /\ batch' = SubSeq(rxq, 1, r) /\ rxq' = SubSeq(rxq, r + 1, Len(rxq))
      /\ UNCHANGED <<keys, win, seq, st, out, egress, fates, sealed, reused>>
  BY DEF RecvBatch, BetweenBatches
<1>4. Len(out) = 0 /\ dpkt = NoPacket /\ Len(out') = 0 /\ dpkt' = NoPacket
  BY <1>3, NothingHeld DEF e5Vars
<1> HIDE DEF r, S
<1>5. batch' \in Seq(S) /\ Len(batch') = r
  BY <1>1, <1>2, <1>3, SMTT(40)
<1>6. rxq' \in Seq(S) /\ Len(rxq') = Len(rxq) - r
  BY <1>1, <1>2, <1>3, SMTT(40)
<1>7. call' \in Calls /\ call'.n = r /\ r \in Nat
  <2>1. r \in Nat
    BY <1>1, <1>2
  <2>2. QED
    BY <1>1, <1>3, <2>1 DEF Calls
<1>8. call'.active
  BY <1>1, <1>3
<1>9. Len(rxq') <= RxCap
  BY <1>1, <1>2, <1>6
<1>10. Len(batch') + Len(out') + Pending(dpkt') <= call'.n
  BY <1>4, <1>5, <1>7 DEF Pending
<1>11. Buffered'
  BY <1>2, <1>7, <1>8, <1>9, <1>10 DEF Buffered
<1>12. Len(batch') + Len(rxq') = Len(batch) + Len(rxq)
  <2>1. Len(batch) = 0
    BY <1>3, NothingHeld
  <2>2. QED
    BY <1>1, <1>2, <1>5, <1>6, <2>1
<1>13. QED
  BY <1>1, <1>3, <1>5, <1>6, <1>7, <1>11, <1>12, CarriedKeeps DEF S

LEMMA SendKeeps == LoopInv /\ SendBatch /\ dpkt = NoPacket /\ UNCHANGED e5Vars => LoopInv'
<1> SUFFICES ASSUME LoopInv, SendBatch, dpkt = NoPacket, UNCHANGED e5Vars PROVE LoopInv'
  OBVIOUS
<1>1. /\ call \in Calls /\ rxq \in Seq(Datagrams) /\ Len(rxq) <= RxCap
      /\ batch \in Seq(Datagrams) /\ MaxBatch \in Nat
  BY Sizes DEF LoopInv, ShardTyped
<1>2. /\ batch = <<>> /\ out' = <<>>
      /\ call' = [call EXCEPT !.processed = @ + call.n, !.n = 0]
      /\ UNCHANGED <<keys, win, seq, st, rxq, batch, fates, sealed, reused>>
  BY DEF SendBatch
<1>3. call' \in Calls /\ call'.n = 0
  <2> DEFINE p == call.processed + call.n
  <2>1. p \in Nat /\ call' = [call EXCEPT !.processed = p, !.n = 0]
    BY <1>1, <1>2 DEF Calls
  <2> HIDE DEF p
  <2>2. QED
    BY <1>1, <2>1 DEF Calls
<1>4. /\ out' \in Seq(Datagrams) /\ Len(out') = 0 /\ Len(batch') = 0
      /\ rxq' \in Seq(Datagrams) /\ batch' \in Seq(Datagrams)
      /\ Len(rxq') <= RxCap
  BY <1>1, <1>2
<1>5. Pending(dpkt') = 0
  BY DEF e5Vars, Pending
<1>6. Buffered'
  BY <1>1, <1>3, <1>4, <1>5 DEF Buffered
<1>7. QED
  BY <1>2, <1>3, <1>4, <1>6, CarriedKeeps

-----------------------------------------------------------------------------
(***************************************************************************)
(* The measuring thread, processing a datagram.                            *)
(***************************************************************************)
\* What has been processed, once one more datagram has been.
LEMMA ProcessFields ==
  ASSUME LoopInv, NEW what \in {"replayed", "unauthentic", "forward"}, Process(what, what)
  PROVE  /\ Head(batch) \in Datagrams /\ win' \in Window
         /\ batch' \in Seq(Datagrams) /\ Len(batch') = Len(batch) - 1
         /\ fates' \in Seq(Processed) /\ Len(fates') = Len(fates) + 1
         /\ UNCHANGED <<rxq, gsent, gpc, phase>> => Conserved'
<1> DEFINE d == Head(batch)
           f == [d |-> d, what |-> what]
<1>1. ShardTyped /\ batch \in Seq(Datagrams) /\ batch # <<>> /\ fates \in Seq(Processed)
  BY DEF LoopInv, ShardTyped, Process
<1>2. d \in Datagrams /\ Tail(batch) \in Seq(Datagrams) /\ Len(Tail(batch)) = Len(batch) - 1
  BY <1>1
<1>3. f \in Processed
  BY <1>2 DEF Processed
<1>4. batch' = Tail(batch) /\ fates' = Append(fates, f) /\ win' = WindowAfter(d)
  BY DEF Process
<1>5. d.seq \in Nat
  BY <1>2 DEF Datagrams
<1>6. win' \in Window
  BY <1>1, <1>4, <1>5, AcceptType DEF ShardTyped, WindowAfter
<1> HIDE DEF f, d
<1>7. Append(fates, f) \in Seq(Processed) /\ Len(Append(fates, f)) = Len(fates) + 1
  BY <1>1, <1>3
<1>8. ASSUME UNCHANGED <<rxq, gsent, gpc, phase>> PROVE Conserved'
  <2>1. \A a, b, c \in Nat : (a + 1) + (b - 1) + c = a + b + c
    OBVIOUS
  <2>2. Len(fates') + Len(batch') + Len(rxq') = Len(fates) + Len(batch) + Len(rxq)
    BY <1>2, <1>4, <1>7, <1>8, <2>1, Sizes
  <2>3. QED
    BY <1>8, <2>2 DEF LoopInv, Conserved, Uncounted
<1>9. QED
  BY <1>2, <1>4, <1>6, <1>7, <1>8 DEF d

LEMMA TallyType == ASSUME LoopInv PROVE Tally \in Nat
<1>1. st.packets \in Nat /\ st.auth_fail \in Nat /\ st.replay_drop \in Nat
  BY DEF LoopInv, ShardTyped, Stats
<1>2. QED
  <2>1. Pending(dpkt) \in Nat
    BY Sizes
  <2>2. \A a, b, c, d \in Nat : a + b + c + d \in Nat
    OBVIOUS
  <2>3. QED
    BY <1>1, <2>1, <2>2 DEF Tally

\* One more datagram processed and one more counted.
LEMMA AccountedStep ==
  ASSUME LoopInv, Len(fates') = Len(fates) + 1, Tally' = Tally + 1,
         UNCHANGED <<shared, phase, settled>>
  PROVE  Accounted'
<1> DEFINE c == Tally
           l == Len(fates)
           b == settled
<1>1. c \in Nat /\ l \in Nat /\ b \in Nat /\ b <= l
  BY TallyType, Sizes
<1>2. phase # "settle" => c <= l - b /\ (~shared => c = l - b)
  BY DEF LoopInv, Accounted
<1>3. Tally' = c + 1 /\ Len(fates') = l + 1 /\ settled' = b
  OBVIOUS
<1> HIDE DEF c, l, b
<1>4. /\ b <= l + 1
      /\ phase # "settle" => c + 1 <= (l + 1) - b
      /\ phase # "settle" /\ ~shared => c + 1 = (l + 1) - b
  BY <1>1, <1>2
<1>5. phase' = phase /\ shared' = shared
  OBVIOUS
<1>6. QED
  BY <1>3, <1>4, <1>5 DEF Accounted

\* A datagram that is dropped.
LEMMA DropKeeps ==
  ASSUME LoopInv, NEW what \in {"replayed", "unauthentic"}, Process(what, what),
         UNCHANGED <<keys, seq, rxq, call, out, egress, sealed, reused>>, UNCHANGED e5Vars,
         st' \in Stats, Tally' = Tally + 1
  PROVE  LoopInv'
<1>0. what \in {"replayed", "unauthentic", "forward"} /\ UNCHANGED <<rxq, gsent, gpc, phase>>
  BY DEF e5Vars
<1>1. /\ win' \in Window
      /\ batch' \in Seq(Datagrams) /\ Len(batch') = Len(batch) - 1
      /\ fates' \in Seq(Processed) /\ Len(fates') = Len(fates) + 1
      /\ Conserved'
  BY <1>0, ProcessFields
<1>2. ShardTyped'
  BY <1>0, <1>1 DEF LoopInv, ShardTyped
<1>3. ThreadsTyped'
  BY DEF LoopInv, ThreadsTyped, e5Vars
<1>4. Len(batch') + Len(out) + Pending(dpkt) <= call.n
  BY <1>1, Sizes
<1>5. Buffered'
  BY <1>4, Sizes DEF Buffered, e5Vars
<1>6. Sent'
  BY DEF LoopInv, Sent, Emitting, e5Vars
<1>7. Accounted'
  BY <1>1, AccountedStep DEF e5Vars
<1>8. QED
  BY <1>1, <1>2, <1>3, <1>5, <1>6, <1>7 DEF LoopInv

\* A counter of the statistics goes up by one.
LEMMA OneMore ==
  ASSUME NEW s \in Stats
  PROVE  /\ LET t == [s EXCEPT !.packets = @ + 1]
            IN  /\ t \in Stats /\ t.packets = s.packets + 1
                /\ t.auth_fail = s.auth_fail /\ t.replay_drop = s.replay_drop
         /\ LET t == [s EXCEPT !.auth_fail = @ + 1]
            IN  /\ t \in Stats /\ t.auth_fail = s.auth_fail + 1
                /\ t.packets = s.packets /\ t.replay_drop = s.replay_drop
         /\ LET t == [s EXCEPT !.replay_drop = @ + 1]
            IN  /\ t \in Stats /\ t.replay_drop = s.replay_drop + 1
                /\ t.packets = s.packets /\ t.auth_fail = s.auth_fail
         /\ LET t == [s EXCEPT !.rekeys = @ + 0]
            IN  /\ t \in Stats /\ t.replay_drop = s.replay_drop
                /\ t.packets = s.packets /\ t.auth_fail = s.auth_fail
  BY DEF Stats

\* The sum goes up with each of its counters.
LEMMA SumGoesUp ==
  ASSUME NEW p \in Nat, NEW a \in Nat, NEW d \in Nat, NEW x \in Nat
  PROVE  /\ p + 1 + a + d + x = p + a + d + x + 1
         /\ p + (a + 1) + d + x = p + a + d + x + 1
         /\ p + a + (d + 1) + x = p + a + d + x + 1
  OBVIOUS

LEMMA WorkingKeeps == LoopInv /\ Working => LoopInv'
<1> SUFFICES ASSUME LoopInv, Working PROVE LoopInv'
  OBVIOUS
<1>1. dpkt = NoPacket /\ UNCHANGED e5Vars
  BY DEF Working
<1>2. /\ st \in Stats /\ st.packets \in Nat /\ st.auth_fail \in Nat /\ st.replay_drop \in Nat
      /\ Pending(dpkt) \in Nat /\ Pending(dpkt') = Pending(dpkt)
  BY <1>1, Sizes DEF LoopInv, ShardTyped, Stats, e5Vars
<1>3. CASE RecvBatch
  BY <1>1, <1>3, RecvKeeps
<1>4. CASE SendBatch
  BY <1>1, <1>4, SendKeeps
<1>5. CASE Skip
  <2>1. batch \in Seq(Datagrams) /\ batch # <<>>
    BY <1>5 DEF Skip, Process, LoopInv, ShardTyped
  <2>2. Head(batch) \in Datagrams
    BY <2>1
  <2>3. Disposition(Head(batch)) = "skip"
    BY <1>5 DEF Skip, Process
  <2>4. QED
    BY <2>1, <2>2, <2>3, NothingSkipped
<1>6. CASE DropReplayed
  <2>1. /\ Process("replayed", "replayed") /\ st' = [st EXCEPT !.replay_drop = @ + 1]
        /\ UNCHANGED <<keys, seq, rxq, call, out, egress, sealed, reused>>
    BY <1>6 DEF DropReplayed
  <2>2. /\ st' \in Stats /\ st'.replay_drop = st.replay_drop + 1
        /\ st'.packets = st.packets /\ st'.auth_fail = st.auth_fail
    BY <1>2, <2>1, OneMore
  <2>3. Tally' = Tally + 1
    BY <1>2, <2>2, SumGoesUp DEF Tally
  <2>4. QED
    BY <1>1, <2>1, <2>2, <2>3, DropKeeps
<1>7. CASE DropUnauthentic
  <2>1. /\ Process("unauthentic", "unauthentic") /\ st' = [st EXCEPT !.auth_fail = @ + 1]
        /\ UNCHANGED <<keys, seq, rxq, call, out, egress, sealed, reused>>
    BY <1>7 DEF DropUnauthentic
  <2>2. /\ st' \in Stats /\ st'.auth_fail = st.auth_fail + 1
        /\ st'.packets = st.packets /\ st'.replay_drop = st.replay_drop
    BY <1>2, <2>1, OneMore
  <2>3. Tally' = Tally + 1
    BY <1>2, <2>2, SumGoesUp DEF Tally
  <2>4. QED
    BY <1>1, <2>1, <2>2, <2>3, DropKeeps
<1>8. QED
  BY <1>3, <1>4, <1>5, <1>6, <1>7 DEF Working

-----------------------------------------------------------------------------
(***************************************************************************)
(* Forwarding, and the phases of the measurement.                          *)
(***************************************************************************)
LEMMA ForwardBeginKeeps == LoopInv /\ ForwardBegin => LoopInv'
<1> SUFFICES ASSUME LoopInv, ForwardBegin PROVE LoopInv'
  OBVIOUS
<1> DEFINE S == Datagrams
           t == Head(batch).tsc
<1>0. ShardTyped /\ ThreadsTyped /\ st \in Stats /\ seq \in Nat
  BY DEF LoopInv, ShardTyped
<1>1. /\ dpkt = NoPacket /\ Process("forward", "forward") /\ seq' = seq + 1
      /\ EnterSeal("rx")
      /\ UNCHANGED <<rxq, call, out, egress, sealed, reused,
                     shared, phase, stop, gpc, gseq, gpkt, gsent, settled>>
  BY DEF ForwardBegin
<1>2. /\ Head(batch) \in S /\ win' \in Window
      /\ batch' \in Seq(S) /\ Len(batch') = Len(batch) - 1
      /\ fates' \in Seq(Processed) /\ Len(fates') = Len(fates) + 1
      /\ Conserved'
  BY <1>1, ProcessFields
<1>3. keys' = keys /\ dpkt' = SealedFor(keys, seq, t) /\ st' = [st EXCEPT !.rekeys = @ + 0]
  BY <1>0, NeverRekeys DEF ForwardBegin, OutSeq
<1>4. t \in Nat
  BY <1>2 DEF Datagrams
<1>5. dpkt' \in Datagrams
  BY <1>0, <1>3, <1>4, SealsDatagram DEF ShardTyped
<1>6. dpkt' # NoPacket
  BY <1>5, NoneIsNone
<1>7. /\ st' \in Stats /\ st'.replay_drop = st.replay_drop
      /\ st'.packets = st.packets /\ st'.auth_fail = st.auth_fail
  BY <1>0, <1>3, OneMore
<1>8. Pending(dpkt) = 0 /\ Pending(dpkt') = 1
  BY <1>1, <1>6 DEF Pending
<1>9. Tally' = Tally + 1
  <2>1. st.packets \in Nat /\ st.auth_fail \in Nat /\ st.replay_drop \in Nat
    BY <1>0 DEF Stats
  <2>2. \A a, b, c \in Nat : a + b + c + 1 = a + b + c + 0 + 1
    OBVIOUS
  <2>3. QED
    BY <1>7, <1>8, <2>1, <2>2 DEF Tally
<1>10. sealing' \in [Threads -> {"out", "alone", "overlapped"}]
  BY <1>0, <1>1, EnterKeeps DEF Threads
<1>11. ShardTyped'
  <2>1. seq' \in Nat
    BY <1>0, <1>1
  <2>2. QED
    BY <1>0, <1>1, <1>2, <1>3, <1>7, <2>1 DEF ShardTyped
<1>12. ThreadsTyped'
  BY <1>0, <1>1, <1>3, <1>5, <1>10 DEF ThreadsTyped
<1>13. Len(batch') + Len(out) + 1 <= call.n
  BY <1>2, <1>8, Sizes
<1>14. Buffered'
  BY <1>1, <1>8, <1>13, Sizes DEF Buffered
<1>15. Sent'
  BY <1>1 DEF LoopInv, Sent, Emitting
<1>16. Accounted'
  BY <1>1, <1>2, <1>9, AccountedStep
<1>17. QED
  BY <1>2, <1>11, <1>12, <1>14, <1>15, <1>16 DEF LoopInv

LEMMA ForwardEndKeeps == LoopInv /\ ForwardEnd => LoopInv'
<1> SUFFICES ASSUME LoopInv, ForwardEnd PROVE LoopInv'
  OBVIOUS
<1> DEFINE S == Datagrams
<1>0. ShardTyped /\ ThreadsTyped /\ st \in Stats /\ out \in Seq(S)
  BY DEF LoopInv, ShardTyped
<1>1. /\ dpkt \in Datagrams /\ dpkt # NoPacket /\ dpkt' = NoPacket
      /\ LeaveSeal("rx")
      /\ UNCHANGED <<keys, win, seq, rxq, call, batch, egress, fates,
                     shared, phase, stop, gpc, gseq, gpkt, gsent, settled>>
  BY <1>0 DEF ForwardEnd, ThreadsTyped
<1>2. PICK o \in SealYields("rx", dpkt) :
       \/ o = NoPacket /\ UNCHANGED <<out, st, sealed, reused>>
       \/ /\ o # NoPacket
          /\ out' = Append(out, o)
          /\ st' = [st EXCEPT !.packets = @ + 1]
          /\ NoteSealed(dpkt)
  BY DEF ForwardEnd
<1>3. o \in S \cup {NoPacket} /\ (~shared => o = dpkt)
  BY <1>1, YieldsDatagram
<1>4. Pending(dpkt) = 1 /\ Pending(dpkt') = 0
  BY <1>1 DEF Pending
<1>5. st.packets \in Nat /\ st.auth_fail \in Nat /\ st.replay_drop \in Nat
  BY <1>0 DEF Stats
<1>6. /\ st' \in Stats
      /\ \/ st' = st /\ shared
         \/ /\ st'.packets = st.packets + 1 /\ st'.auth_fail = st.auth_fail
            /\ st'.replay_drop = st.replay_drop
  BY <1>0, <1>1, <1>2, <1>3, OneMore
<1>7. \/ Tally' = Tally
      \/ shared /\ Tally' + 1 = Tally /\ Tally' \in Nat
  <2>1. \A a, b, c \in Nat : /\ a + 1 + b + c + 0 = a + b + c + 1
                             /\ a + b + c + 0 + 1 = a + b + c + 1
                             /\ a + b + c + 0 \in Nat
    OBVIOUS
  <2>2. QED
    BY <1>4, <1>5, <1>6, <2>1 DEF Tally
<1>8. sealing' \in [Threads -> {"out", "alone", "overlapped"}]
  BY <1>0, <1>1, LeaveKeeps DEF Threads
<1>9. out' \in Seq(S) /\ Len(out') <= Len(out) + 1 /\ Len(out') \in Nat
  <2>1. CASE out' = out
    BY <1>0, <2>1
  <2>2. CASE out' = Append(out, o) /\ o \in S
    BY <1>0, <2>2
  <2>3. QED
    BY <1>2, <1>3, <2>1, <2>2
<1>10. reused' \in BOOLEAN
  BY <1>0, <1>2 DEF ShardTyped, NoteSealed
<1>11. ShardTyped'
  BY <1>0, <1>1, <1>6, <1>9, <1>10 DEF ShardTyped
<1>12. ThreadsTyped'
  BY <1>0, <1>1, <1>8 DEF ThreadsTyped
<1>13. Len(batch) + Len(out') + 0 <= call.n
  BY <1>4, <1>9, Sizes
<1>14. Buffered'
  BY <1>1, <1>4, <1>13, Sizes DEF Buffered
<1>15. Sent' /\ Conserved'
  BY <1>1 DEF LoopInv, Sent, Emitting, Conserved, Uncounted
<1>16. Accounted'
  <2> DEFINE c == Tally
             e == Tally'
             m == Len(fates) - settled
  <2>1. c \in Nat /\ m \in Int
    BY TallyType, Sizes
  <2>2. e = c \/ (shared /\ e \in Nat /\ e + 1 = c)
    BY <1>7
  <2>3. phase # "settle" => c <= m /\ (~shared => c = m)
    BY DEF LoopInv, Accounted
  <2>4. /\ settled' <= Len(fates') /\ phase' = phase /\ shared' = shared
        /\ Len(fates') - settled' = m
    BY <1>1, Sizes
  <2> HIDE DEF c, m, e
  <2>5. phase # "settle" => e <= m
    BY <2>1, <2>2, <2>3
  <2>6. phase # "settle" /\ ~shared => e = m
    BY <2>2, <2>3
  <2>7. QED
    BY <2>4, <2>5, <2>6 DEF Accounted, e
<1>17. QED
  BY <1>11, <1>12, <1>14, <1>15, <1>16 DEF LoopInv

LEMMA SettledKeeps == LoopInv /\ Settled => LoopInv'
<1> SUFFICES ASSUME LoopInv, Settled PROVE LoopInv'
  OBVIOUS
<1>1. /\ ~call.active /\ phase' = "measure" /\ st' = ZeroStats /\ settled' = Len(fates)
      /\ UNCHANGED <<keys, win, seq, rxq, call, batch, out, egress, fates, sealed, reused,
                     shared, stop, gpc, gseq, gpkt, gsent, dpkt, sealing>>
  BY DEF Settled
<1>2. call.n = 0
  BY <1>1, Sizes
<1>3. dpkt = NoPacket
  BY <1>2, NothingHeld
<1>4. /\ st' \in Stats /\ st'.packets = 0 /\ st'.auth_fail = 0 /\ st'.replay_drop = 0
  BY <1>1 DEF ZeroStats, Stats
<1>5. ShardTyped'
  BY <1>1, <1>4 DEF LoopInv, ShardTyped
<1>6. ThreadsTyped'
  <2>1. settled' \in Nat
    BY <1>1, Sizes
  <2>2. QED
    BY <1>1, <2>1 DEF LoopInv, ThreadsTyped
<1>7. Buffered' /\ Sent' /\ Conserved'
  BY <1>1 DEF LoopInv, Buffered, Sent, Emitting, Conserved, Uncounted
<1>8. Tally' = 0
  BY <1>1, <1>3, <1>4 DEF Tally, Pending
<1>9. Accounted'
  <2>1. Len(fates) \in Nat /\ Len(fates') = Len(fates)
    BY <1>1, Sizes
  <2>2. \A l \in Nat : l <= l /\ l - l = 0 /\ 0 <= 0
    OBVIOUS
  <2>3. QED
    BY <1>1, <1>8, <2>1, <2>2 DEF Accounted
<1>10. QED
  BY <1>5, <1>6, <1>7, <1>9 DEF LoopInv

LEMMA LoopStep == LoopInv /\ [Next]_vars => LoopInv'
<1> SUFFICES ASSUME LoopInv, [Next]_vars PROVE LoopInv'
  OBVIOUS
<1>0. stop \in BOOLEAN /\ phase \in {"settle", "measure", "join", "done"}
  BY DEF LoopInv, ThreadsTyped
<1>1. CASE TxLoops
  BY <1>0, <1>1, ThreadsMove DEF TxLoops
<1>2. CASE Deadline
  BY <1>0, <1>2, ThreadsMove DEF Deadline
<1>3. CASE Joined
  BY <1>0, <1>3, ThreadsMove DEF Joined
<1>4. CASE UNCHANGED vars
  BY <1>0, <1>4, ThreadsMove DEF vars, e5Vars
<1>5. QED
  BY <1>1, <1>2, <1>3, <1>4, EmitBeginKeeps, EmitEndKeeps, EmitSendKeeps, EmitCountKeeps, CallKeeps,
     ForwardBeginKeeps, ForwardEndKeeps, WorkingKeeps, ReturnKeeps, SettledKeeps
     DEF Next, Tx, Rx, Done

-----------------------------------------------------------------------------
(***************************************************************************)
(* Both threads of measure_loopback() and the shard they share stay within *)
(* the inductive invariant, whatever the interleaving.                     *)
(***************************************************************************)
THEOREM LoopbackInvariance == Spec => []LoopInv
<1>1. QED
  BY LoopInit, LoopStep, PTL DEF Spec

(***************************************************************************)
(* What the measuring thread has processed, holds or will receive was      *)
(* sent, and a finished row has no more packets than were sent: with       *)
(* either kind of cipher, although sent_ is raised after the packet is     *)
(* visible to the other thread.                                            *)
(***************************************************************************)
THEOREM PacketsAlwaysSent == Spec => []PacketsWereSent
<1>1. LoopInv => PacketsWereSent
  <2> SUFFICES ASSUME LoopInv PROVE PacketsWereSent
    OBVIOUS
  <2>1. Len(fates) + Len(batch) + Len(rxq) <= gsent + Uncounted
    BY DEF LoopInv, Conserved
  <2>2. ASSUME phase = "done" PROVE st.packets <= gsent
    <3> DEFINE p == st.packets
               c == st.auth_fail + st.replay_drop + Pending(dpkt)
               l == Len(fates)
               q == Len(batch) + Len(rxq)
    <3>1. Uncounted = 0 /\ gsent \in Nat
      BY <2>2 DEF LoopInv, Conserved, Uncounted, ThreadsTyped
    <3>2. p \in Nat /\ c \in Nat
      BY Sizes DEF LoopInv, ShardTyped, Stats
    <3>3. l \in Nat /\ q \in Nat /\ settled \in Nat
      BY Sizes
    <3>4. Tally = p + c
      <4>1. \A x, y, z, u \in Nat : x + y + z + u = x + (y + z + u)
        OBVIOUS
      <4>2. st.auth_fail \in Nat /\ st.replay_drop \in Nat /\ Pending(dpkt) \in Nat
        BY Sizes DEF LoopInv, ShardTyped, Stats
      <4>3. QED
        BY <3>2, <4>1, <4>2 DEF Tally
    <3>5. p + c <= l - settled
      BY <2>2, <3>4 DEF LoopInv, Accounted
    <3>6. l + q <= gsent
      <4>1. \A x, y, z \in Nat : x + y + z = x + (y + z)
        OBVIOUS
      <4>2. l + q = Len(fates) + Len(batch) + Len(rxq)
        BY <4>1, Sizes
      <4>3. gsent + 0 = gsent
        BY <3>1
      <4>4. QED
        BY <2>1, <3>1, <4>2, <4>3
    <3> HIDE DEF p, c, l, q
    <3>7. p <= gsent
      BY <3>1, <3>2, <3>3, <3>5, <3>6
    <3>8. QED
      BY <3>7 DEF p
  <2>3. QED
    BY <2>1, <2>2 DEF PacketsWereSent, Uncounted
<1>2. QED
  BY <1>1, LoopbackInvariance, PTL

(***************************************************************************)
(* The counters a row is made of are of the measured interval: all of it   *)
(* and nothing before the reset.                                           *)
(***************************************************************************)
THEOREM RowsCountMeasured == Spec => []RowCountsMeasured
<1>1. LoopInv => RowCountsMeasured
  <2> SUFFICES ASSUME LoopInv PROVE RowCountsMeasured
    OBVIOUS
  <2>1. ShardTypeOK
    <3>1. keys.epoch \in Epochs /\ keys.tag \in [{0, 1} -> Epochs]
      <4>1. Slots = {0, 1}
        BY DEF Slots
      <4>2. QED
        BY <4>1 DEF LoopInv, ShardTyped, Schedules
    <3>2. Len(batch) <= MaxBatch /\ Len(out) <= MaxBatch
      BY Sizes
    <3>3. QED
      BY <3>1, <3>2, Sizes DEF ShardTypeOK, LoopInv, ShardTyped, Stats, Calls
  <2>2. gsent \in 0 .. gseq
    <3>1. gsent \in Nat /\ gseq \in Nat /\ Emitting \in {0, 1}
      BY E5LoopbackAssumption DEF LoopInv, ThreadsTyped, Emitting
    <3>2. gsent + Emitting <= gseq
      BY DEF LoopInv, Sent
    <3>3. QED
      BY <3>1, <3>2
  <2>3. settled \in 0 .. Len(fates)
    BY Sizes
  <2>4. TypeOK
    BY <2>1, <2>2, <2>3 DEF TypeOK, LoopInv, ThreadsTyped
  <2>5. ASSUME phase # "settle", dpkt = NoPacket
        PROVE  LET counted == st.packets + st.auth_fail + st.replay_drop
               IN  /\ counted <= Len(fates) - settled
                   /\ ~shared => counted = Len(fates) - settled
    <3> DEFINE k == st.packets + st.auth_fail + st.replay_drop
    <3>1. k \in Nat
      BY DEF LoopInv, ShardTyped, Stats
    <3>2. Tally = k + 0
      BY <2>5 DEF Tally, Pending
    <3> HIDE DEF k
    <3>3. Tally = k
      BY <3>1, <3>2
    <3>4. QED
      BY <2>5, <3>3 DEF LoopInv, Accounted, k
  <2>6. QED
    BY <2>4, <2>5 DEF RowCountsMeasured
<1>2. QED
  BY <1>1, LoopbackInvariance, PTL

-----------------------------------------------------------------------------
(***************************************************************************)
(* The scaling experiment, for any number of shards, replicates and        *)
(* packets, with threads, an OpenMP team or MPI ranks, whichever shards    *)
(* cannot be built.                                                        *)
(*                                                                         *)
(* In a pool, the counter `ready' is the number of threads at the barrier, *)
(* which tells the main thread that they all are.  The ranks of MPI have   *)
(* no counter: what keeps them together is that the code between two       *)
(* collective calls is the same for all, so that all ranks are always in   *)
(* the same stretch of it.                                                 *)
(***************************************************************************)
Workers ==
  [pc: Collectives \cup {"none", "single", "implied", "arrive", "spin", "run",
                         "build", "write", "ended"},
   round: Rounds, done: 0..Quota, guard: 0..GuardLimit + 1,
   failed: BOOLEAN, all_error: BOOLEAN]

Mains ==
  [pc: {"none", "start", "refused", "build", "spawn", "ready", "go", "join", "row", "exit"},
   n: Shards, round: Rounds, i: Shards]

Row == [strong: 0..Reps, weak: 0..Reps, error: BOOLEAN]

ScalingTyped ==
  /\ kind \in {"std::thread", "openmp", "mpi"} /\ kind \in Kinds
  /\ plan \in [round: Rounds, who: SUBSET Shards]
  /\ main \in Mains /\ w \in [Shards -> Workers]
  /\ ready \in 0..MaxShards /\ go \in BOOLEAN /\ clock \in {"on", "off"}
  /\ rows \in [Shards -> Row]

\* A shard still at work has patience left.
Patient == \A i \in Shards : w[i].pc \in {"barrier", "arrive", "spin", "run"} => w[i].guard <= GuardLimit

\* The threads that have counted themselves in.
Reached ==
  {i \in Team : w[i].pc \in {"spin", "run"} \/ (main.pc = "join" /\ w[i].pc = "ended")}

Filling == {"spawn", "ready", "go", "join"}

\* The team while its threads are started, waited for, let go and joined.
Together ==
  /\ main.pc \notin Filling => \A i \in Shards : w[i].pc \in {"none", "ended"}
  /\ \A i \in Shards \ Team : w[i].pc \in {"none", "ended"}
  /\ main.pc \in {"spawn", "ready", "go"} => ~go
  /\ main.pc \in {"build", "spawn"} => main.i <= main.n
  /\ main.pc = "spawn" =>
       /\ kind = "openmp" => main.i = 1
       /\ \A i \in Team : w[i].pc \in (IF i < main.i THEN {"arrive", "spin"} ELSE {"none", "ended"})
  /\ main.pc = "ready" => kind # "openmp" /\ \A i \in Team : w[i].pc \in {"arrive", "spin"}
  /\ main.pc = "go" =>
       kind # "openmp" /\ clock = "on" /\ \A i \in Team : w[i].pc = "spin"
  /\ main.pc = "join" =>
       \/ /\ kind = "openmp"
          /\ \A i \in Team : w[i].pc \in {"single", "implied"}
          /\ (\E i \in Team : w[i].pc = "implied") => go /\ clock = "on"
       \/ go /\ clock = "on" /\ \A i \in Team : w[i].pc \in Arrived

CountedIn == main.pc \in Filling => ready = Cardinality(Reached)

NoRow == [strong |-> 0, weak |-> 0, error |-> FALSE]

\* The row of the width being measured has the rounds gone by, and no shard of
\* this width was to fail before.
Tallied ==
  /\ \A n \in Shards : n > main.n => rows[n] = NoRow
  /\ main.pc \in {"start", "build"} \cup Filling =>
       /\ rows[main.n].strong + rows[main.n].weak = main.round - 1
       /\ rows[main.n].strong - rows[main.n].weak = IF Odd(main.round) THEN 0 ELSE 1
       /\ ~rows[main.n].error
       /\ \A i \in plan.who \cap Team :
            \/ main.round < plan.round
            \/ main.round = plan.round /\ main.pc \in {"start", "build"} /\ i >= main.i
  /\ main.pc = "start" => main.n = 1 /\ main.round = 1 /\ main.i = 1

PoolInv ==
  kind # "mpi" => main.pc # "none" /\ Together /\ CountedIn /\ Tallied /\ RowsCountWholePools

\* The stretch between two collective calls that a rank is in.
Stretch(r) ==
  CASE r.pc \in {"build", "barrier"} \/ (r.pc = "errors" /\ r.failed) ->
         IF Odd(r.round) THEN <<"first", r.round>> ELSE <<"second", r.round - 1>>
    [] r.pc = "run"    -> <<IF Odd(r.round) THEN "second" ELSE "third", r.round>>
    [] r.pc = "reduce" -> <<"third", r.round>>
    [] r.pc \in {"write", "ended"} -> <<"end", 0>>
    [] OTHER -> <<r.pc, 0>>

Finishing == {"errors", "coordination", "write", "ended"}

\* Where a rank can be, given the round and the ranks of the failure.
RankInv(i) ==
  LET r == w[i]
  IN  /\ r.pc \in Collectives \cup {"build", "run", "write", "ended"}
      /\ r.pc = "gather" => r.round = 1
      /\ r.pc = "reduce" => ~Odd(r.round)
      /\ r.failed => i \in plan.who /\ r.round = plan.round /\ r.pc \in Finishing
      /\ ~r.failed /\ i \in plan.who =>
           \/ r.round < plan.round
           \/ r.round = plan.round /\ r.pc \in {"gather", "build"}
      /\ ~r.failed /\ r.pc \in Finishing => r.round = 2 * Reps
      /\ r.pc \in {"coordination", "write", "ended"} => (r.all_error <=> plan.who # {})

RanksInv ==
  kind = "mpi" =>
    /\ main.pc = "none" /\ ready = 0
    /\ \A i \in Shards : RankInv(i)
    /\ \A i, j \in Shards : Stretch(w[i]) = Stretch(w[j])
    /\ fragment.written => (fragment.available <=> plan.who = {})

ScalingInv == ScalingTyped /\ Patient /\ PoolInv /\ RanksInv


-----------------------------------------------------------------------------
\* The bounds, one by one.
LEMMA ScalingBounds ==
  /\ MaxShards \in Nat /\ MaxShards > 0 /\ Reps \in Nat /\ Reps > 0
  /\ Quota \in Nat /\ Quota > 0 /\ GuardLimit \in Nat
  BY BoundsAssumption

\* Strong and weak rounds alternate, and a replicate ends with the weak one.
LEMMA Alternate ==
  ASSUME NEW r \in Nat
  PROVE  Odd(r + 1) <=> ~Odd(r)
  BY DEF Odd

LEMMA RoundFacts ==
  /\ 1 \in Rounds /\ 2 * Reps \in Rounds /\ Odd(1) /\ ~Odd(2 * Reps)
  /\ \A r \in Rounds : /\ r \in Nat /\ r >= 1 /\ r <= 2 * Reps
                       /\ r < 2 * Reps \/ Odd(r) => r + 1 \in Rounds
<1>1. Odd(1) /\ ~Odd(2 * Reps)
  BY ScalingBounds DEF Odd
<1>2. 1 \in Rounds /\ 2 * Reps \in Rounds
  BY ScalingBounds DEF Rounds
<1>3. \A r \in Rounds : r \in Nat /\ r >= 1 /\ r <= 2 * Reps
  BY ScalingBounds DEF Rounds
<1>4. ASSUME NEW r \in Rounds, r < 2 * Reps \/ Odd(r) PROVE r + 1 \in Rounds
  <2>1. r # 2 * Reps
    BY <1>1, <1>3, <1>4, ScalingBounds
  <2>2. QED
    BY <1>3, <2>1, ScalingBounds DEF Rounds
<1>5. QED
  BY <1>1, <1>2, <1>3, <1>4

Pcs == Collectives \cup {"none", "single", "implied", "arrive", "spin", "run",
                         "build", "write", "ended"}

\* A shard moves on, and no other.
Moved(f, g, i, p) ==
  /\ g \in [Shards -> Workers] /\ g[i].pc = p
  /\ g[i].round = f[i].round /\ g[i].guard = f[i].guard
  /\ g[i].failed = f[i].failed /\ g[i].all_error = f[i].all_error
  /\ \A j \in Shards \ {i} : g[j] = f[j]

LEMMA MovesTo ==
  ASSUME NEW f \in [Shards -> Workers], NEW i \in Shards, NEW p \in Pcs
  PROVE  Moved(f, [f EXCEPT ![i].pc = p], i, p)
<1> DEFINE g == [f EXCEPT ![i].pc = p]
<1>1. f[i] \in Workers
  OBVIOUS
<1> DEFINE r == [f[i] EXCEPT !.pc = p]
<1>2. r \in Workers
  BY <1>1 DEF Workers, Pcs
<1>3. /\ r.pc = p /\ r.round = f[i].round /\ r.guard = f[i].guard
      /\ r.failed = f[i].failed /\ r.all_error = f[i].all_error
  BY <1>1 DEF Workers
<1>4. g = [f EXCEPT ![i] = r]
  OBVIOUS
<1> HIDE DEF r, g
<1>5. g[i] = r /\ g \in [Shards -> Workers] /\ \A j \in Shards \ {i} : g[j] = f[j]
  BY <1>2, <1>4
<1>6. Moved(f, g, i, p)
  BY <1>3, <1>5 DEF Moved
<1>7. QED
  BY <1>6 DEF g

\* A thread that is started.
LEMMA BlankFields ==
  ASSUME NEW p \in Pcs
  PROVE  /\ Blank(p) \in Workers /\ Blank(p).pc = p /\ Blank(p).guard = 0
         /\ Blank(p).round = 1 /\ Blank(p).failed = FALSE
<1>1. 0 \in 0..Quota /\ 0 \in 0..GuardLimit + 1 /\ 1 \in Rounds
  BY ScalingBounds, RoundFacts
<1>2. QED
  BY <1>1 DEF Blank, Workers, Pcs

\* The fields of the state, one by one.
LEMMA Fields ==
  ASSUME ScalingTyped
  PROVE  /\ main \in Mains /\ main.n \in Shards /\ main.i \in Shards /\ main.round \in Rounds
         /\ main.n \in Nat /\ main.i \in Nat /\ main.round \in Nat
         /\ main.n >= 1 /\ main.n <= MaxShards /\ main.i >= 1
         /\ w \in [Shards -> Workers]
         /\ Team \subseteq Shards /\ 1 \in Team /\ Team = 1..main.n
         /\ plan.round \in Rounds /\ plan.round \in Nat /\ plan.who \subseteq Shards
<1>1. main \in Mains /\ main.n \in Shards /\ main.i \in Shards /\ main.round \in Rounds
  BY DEF ScalingTyped, Mains
<1>2. \A n \in Shards : n \in Nat /\ n >= 1 /\ n <= MaxShards
  BY ScalingBounds DEF Shards
<1>3. plan.round \in Rounds /\ plan.who \subseteq Shards /\ w \in [Shards -> Workers]
  BY DEF ScalingTyped
<1>4. Team = 1..main.n
  BY DEF Team
<1>5. Team \subseteq Shards /\ 1 \in Team
  BY <1>1, <1>2, <1>4, ScalingBounds DEF Shards
<1>6. QED
  BY <1>1, <1>2, <1>3, <1>4, <1>5, RoundFacts

LEMMA ScalingInitInv == ScalingInit => ScalingInv
<1> SUFFICES ASSUME ScalingInit PROVE ScalingInv
  OBVIOUS
<1> DEFINE p == IF kind = "mpi" THEN "gather" ELSE "none"
<1>1. p \in Pcs
  BY DEF Pcs, Collectives
<1>2. w = [i \in Shards |-> Blank(p)]
  BY DEF ScalingInit
<1> HIDE DEF p
<1>3. w \in [Shards -> Workers] /\ \A i \in Shards : w[i] = Blank(p)
  BY <1>1, <1>2, BlankFields
<1>4. 1 \in Shards /\ 1 \in Rounds
  BY ScalingBounds, RoundFacts DEF Shards
<1>5. main \in Mains /\ main.n = 1 /\ main.round = 1 /\ main.i = 1
      /\ main.pc = IF kind = "mpi" THEN "none" ELSE "start"
  BY <1>4 DEF ScalingInit, Mains
<1>6. rows \in [Shards -> Row] /\ \A n \in Shards : rows[n] = NoRow
  BY ScalingBounds DEF ScalingInit, Row, NoRow
<1>7. ScalingTyped
  <2>1. kind \in Kinds /\ kind \in {"std::thread", "openmp", "mpi"}
    BY KindsAssumption DEF ScalingInit
  <2>2. ready \in 0..MaxShards
    BY ScalingBounds DEF ScalingInit
  <2>3. go \in BOOLEAN /\ clock \in {"on", "off"} /\ plan \in [round: Rounds, who: SUBSET Shards]
    BY DEF ScalingInit
  <2>4. QED
    BY <1>3, <1>5, <1>6, <2>1, <2>2, <2>3 DEF ScalingTyped
<1>8. Patient
  <2>1. \A i \in Shards : w[i].guard = 0
    BY <1>1, <1>3, BlankFields
  <2>2. 0 <= GuardLimit
    BY ScalingBounds
  <2>3. QED
    BY <2>1, <2>2 DEF Patient
<1>9. ASSUME kind # "mpi" PROVE main.pc # "none" /\ Together /\ CountedIn /\ Tallied /\ RowsCountWholePools
  <2>1. main.pc = "start" /\ p = "none"
    BY <1>5, <1>9 DEF p
  <2>2. \A i \in Shards : w[i].pc = "none"
    BY <1>1, <1>3, <2>1, BlankFields
  <2>3. Together
    BY <2>1, <2>2 DEF Together, Filling
  <2>4. CountedIn
    BY <2>1 DEF CountedIn, Filling
  <2>5. Tallied
    <3>1. rows[main.n] = NoRow /\ main.n \in Shards
      BY <1>4, <1>5, <1>6
    <3>2. \A i \in plan.who : i \in Nat /\ i >= 1
      BY <1>7, Fields, ScalingBounds DEF Shards
    <3>3. plan.round \in Nat /\ plan.round >= 1
      BY <1>7, Fields, RoundFacts
    <3>4. NoRow.strong = 0 /\ NoRow.weak = 0 /\ NoRow.error = FALSE
      BY DEF NoRow
    <3>5. \A i \in plan.who \cap Team :
            \/ main.round < plan.round
            \/ main.round = plan.round /\ main.pc \in {"start", "build"} /\ i >= main.i
      BY <1>5, <2>1, <3>2, <3>3
    <3>6. QED
      BY <1>5, <1>6, <2>1, <3>1, <3>4, <3>5, RoundFacts DEF Tallied, Filling
  <2>6. RowsCountWholePools
    BY <1>9, <2>1 DEF RowsCountWholePools
  <2>7. QED
    BY <2>1, <2>3, <2>4, <2>5, <2>6
<1>10. ASSUME kind = "mpi" PROVE RanksInv
  <2>1. p = "gather"
    BY <1>10 DEF p
  <2>2. \A i \in Shards : /\ w[i].pc = "gather" /\ w[i].round = 1 /\ w[i].failed = FALSE
                          /\ w[i] = Blank("gather")
    BY <1>1, <1>3, <2>1, BlankFields
  <2>3. ASSUME NEW i \in Shards PROVE RankInv(i)
    <3>1. plan.round \in Nat /\ plan.round >= 1
      BY <1>7, Fields, RoundFacts
    <3>2. QED
      BY <2>2, <3>1 DEF RankInv, Collectives, Finishing
  <2>4. fragment.written = FALSE
    BY DEF ScalingInit, NoFile
  <2>5. main.pc = "none" /\ ready = 0
    BY <1>5, <1>10 DEF ScalingInit
  <2>6. QED
    BY <2>2, <2>3, <2>4, <2>5 DEF RanksInv
<1>11. QED
  BY <1>7, <1>8, <1>9, <1>10 DEF ScalingInv, PoolInv, RanksInv


-----------------------------------------------------------------------------
(***************************************************************************)
(* A pool: its threads.                                                    *)
(***************************************************************************)
\* The invariant of a pool, taken apart.
LEMMA InPool ==
  ASSUME ScalingInv, kind # "mpi"
  PROVE  ScalingTyped /\ Patient /\ main.pc # "none" /\ Together /\ CountedIn /\ Tallied
         /\ RowsCountWholePools
  BY DEF ScalingInv, PoolInv

\* A team is finite, and so is every part of it.
LEMMA TeamCount ==
  ASSUME ScalingTyped
  PROVE  /\ IsFiniteSet(Team) /\ Cardinality(Team) = main.n
         /\ \A S \in SUBSET Team :
              /\ IsFiniteSet(S) /\ Cardinality(S) \in Nat /\ Cardinality(S) <= main.n
              /\ Cardinality(S) = main.n => S = Team
<1>1. IsFiniteSet(Team) /\ Cardinality(Team) = main.n
  <2>1. 1 \in Int /\ main.n \in Int /\ main.n >= 1 /\ Team = 1..main.n
    BY Fields
  <2>2. IsFiniteSet(1..main.n) /\ Cardinality(1..main.n) = IF 1 > main.n THEN 0 ELSE main.n - 1 + 1
    BY <2>1, FS_Interval
  <2>3. QED
    BY <2>1, <2>2
<1>2. ASSUME NEW S \in SUBSET Team
      PROVE  /\ IsFiniteSet(S) /\ Cardinality(S) \in Nat /\ Cardinality(S) <= main.n
             /\ Cardinality(S) = main.n => S = Team
  <2>1. IsFiniteSet(S) /\ Cardinality(S) <= Cardinality(Team)
        /\ (Cardinality(Team) = Cardinality(S) => Team = S)
    BY <1>1, FS_Subset
  <2>2. QED
    BY <1>1, <2>1, FS_CardinalityType
<1>3. QED
  BY <1>1, <1>2

\* A step of a thread keeps what is said of rows and of the other program.
LEMMA ThreadStep ==
  ASSUME ScalingInv, kind # "mpi", UNCHANGED <<kind, plan, main, rows, fragment>>,
         w' \in [Shards -> Workers], ready' \in 0..MaxShards, go' \in BOOLEAN,
         clock' \in {"on", "off"}, Patient', Together', CountedIn'
  PROVE  ScalingInv'
<1>1. ScalingTyped'
  BY DEF ScalingInv, ScalingTyped
<1>2. Tallied'
  BY InPool DEF Tallied, Team
<1>3. RowsCountWholePools'
  BY InPool DEF RowsCountWholePools, Team
<1>4. main'.pc # "none"
  BY InPool
<1>5. QED
  BY <1>1, <1>2, <1>3, <1>4 DEF ScalingInv, PoolInv, RanksInv

\* A thread that is neither waiting to be started nor done is one of the team,
\* and a pool is being filled.
LEMMA InTeam ==
  ASSUME ScalingInv, kind # "mpi", NEW i \in Shards, w[i].pc \notin {"none", "ended"}
  PROVE  i \in Team /\ main.pc \in Filling
  BY InPool DEF Together

LEMMA SingleKeeps == ASSUME ScalingInv, kind # "mpi", NEW i \in Shards, Single(i) PROVE ScalingInv'
<1>1. /\ w[i].pc = "single" /\ clock' = "on" /\ go' = TRUE /\ w' = [w EXCEPT ![i].pc = "implied"]
      /\ UNCHANGED <<kind, plan, main, ready, rows, fragment>>
  BY DEF Single
<1>2. "implied" \in Pcs /\ w \in [Shards -> Workers]
  BY InPool, Fields DEF Pcs
<1>3. /\ w' \in [Shards -> Workers] /\ w'[i].pc = "implied" /\ w'[i].guard = w[i].guard
      /\ \A j \in Shards \ {i} : w'[j] = w[j]
  BY <1>1, <1>2, MovesTo DEF Moved
<1>4. i \in Team /\ main.pc \in Filling /\ Team \subseteq Shards /\ Team' = Team
  BY <1>1, InPool, InTeam, Fields DEF Team
<1>5. /\ main.pc = "join" /\ kind = "openmp"
      /\ \A j \in Team : w[j].pc \in {"single", "implied"}
  BY <1>1, <1>4, InPool DEF Together, Filling, Arrived
<1>6. Together'
  <2>1. \A j \in Team : w'[j].pc \in {"single", "implied"}
    BY <1>3, <1>4, <1>5
  <2>2. \A j \in Shards \ Team : w'[j].pc \in {"none", "ended"}
    BY <1>3, <1>4, InPool DEF Together
  <2>3. QED
    BY <1>1, <1>4, <1>5, <2>1, <2>2 DEF Together, Filling
<1>7. Reached' = Reached
  BY <1>1, <1>3, <1>4, <1>5 DEF Reached
<1>8. CountedIn'
  BY <1>1, <1>7, InPool DEF CountedIn
<1>9. Patient'
  BY <1>3, InPool DEF Patient
<1>10. QED
  BY <1>1, <1>3, <1>6, <1>8, <1>9, InPool, ThreadStep DEF ScalingTyped

LEMMA ImpliedKeeps == ASSUME ScalingInv, kind # "mpi", ImpliedBarrier PROVE ScalingInv'
<1>1. /\ kind = "openmp" /\ \A i \in Team : w[i].pc = "implied"
      /\ w' = [i \in Shards |-> IF i \in Team THEN Blank("arrive") ELSE w[i]]
      /\ UNCHANGED <<kind, plan, main, ready, go, clock, rows, fragment>>
  BY DEF ImpliedBarrier, pool
<1>2. "arrive" \in Pcs /\ w \in [Shards -> Workers] /\ Team \subseteq Shards /\ 1 \in Team /\ Team' = Team
  BY <1>1, InPool, Fields DEF Pcs, Team
<1>3. /\ Blank("arrive") \in Workers /\ Blank("arrive").pc = "arrive" /\ Blank("arrive").guard = 0
  BY <1>2, BlankFields
<1>4. /\ w' \in [Shards -> Workers]
      /\ \A j \in Team : w'[j].pc = "arrive" /\ w'[j].guard = 0
      /\ \A j \in Shards \ Team : w'[j] = w[j]
  BY <1>1, <1>2, <1>3
<1>5. main.pc = "join"
  <2>1. w[1].pc = "implied" /\ 1 \in Shards
    BY <1>1, <1>2
  <2>2. main.pc \in Filling
    BY <2>1, InTeam
  <2>3. QED
    BY <1>1, <1>2, <2>1, <2>2, InPool DEF Together, Filling
<1>6. go /\ clock = "on"
  BY <1>1, <1>2, <1>5, InPool DEF Together
<1>7. Together'
  BY <1>1, <1>2, <1>4, <1>5, <1>6, InPool DEF Together, Filling, Arrived
<1>8. Reached' = Reached
  BY <1>1, <1>2, <1>4, <1>5 DEF Reached
<1>9. CountedIn'
  BY <1>1, <1>8, InPool DEF CountedIn
<1>10. Patient'
  BY <1>2, <1>4, InPool, ScalingBounds DEF Patient
<1>11. QED
  BY <1>1, <1>4, <1>7, <1>9, <1>10, InPool, ThreadStep DEF ScalingTyped

LEMMA ArriveKeeps == ASSUME ScalingInv, kind # "mpi", NEW i \in Shards, Arrive(i) PROVE ScalingInv'
<1>1. /\ w[i].pc = "arrive" /\ ready' = ready + 1 /\ w' = [w EXCEPT ![i].pc = "spin"]
      /\ UNCHANGED <<kind, plan, main, go, clock, rows, fragment>>
  BY DEF Arrive
<1>2. "spin" \in Pcs /\ w \in [Shards -> Workers]
  BY InPool, Fields DEF Pcs
<1>3. /\ w' \in [Shards -> Workers] /\ w'[i].pc = "spin" /\ w'[i].guard = w[i].guard
      /\ \A j \in Shards \ {i} : w'[j] = w[j]
  BY <1>1, <1>2, MovesTo DEF Moved
<1>4. i \in Team /\ main.pc \in Filling /\ Team \subseteq Shards /\ Team' = Team
  BY <1>1, InPool, InTeam, Fields DEF Team
<1>5. main.pc # "go" /\ (main.pc = "join" => go /\ clock = "on" /\ \A j \in Team : w[j].pc \in Arrived)
  BY <1>1, <1>4, InPool DEF Together
<1>6. Together'
  <2>1. \A j \in Shards \ Team : w'[j].pc \in {"none", "ended"}
    BY <1>3, <1>4, InPool DEF Together
  <2>2. main.pc = "spawn" =>
          /\ kind = "openmp" => main.i = 1
          /\ \A j \in Team : w'[j].pc \in (IF j < main.i THEN {"arrive", "spin"} ELSE {"none", "ended"})
    BY <1>1, <1>3, <1>4, InPool DEF Together
  <2>3. main.pc = "ready" => kind # "openmp" /\ \A j \in Team : w'[j].pc \in {"arrive", "spin"}
    BY <1>3, <1>4, InPool DEF Together
  <2>4. main.pc = "join" => go /\ clock = "on" /\ \A j \in Team : w'[j].pc \in Arrived
    BY <1>3, <1>4, <1>5 DEF Arrived
  <2>5. QED
    BY <1>1, <1>4, <1>5, <2>1, <2>2, <2>3, <2>4, InPool DEF Together, Arrived
<1>7. Reached' = Reached \cup {i} /\ i \notin Reached
  BY <1>1, <1>3, <1>4 DEF Reached
<1>8. /\ Reached \in SUBSET Team /\ Reached \cup {i} \in SUBSET Team
      /\ ready = Cardinality(Reached)
  BY <1>4, InPool DEF Reached, CountedIn
<1>9. IsFiniteSet(Reached)
  BY <1>8, InPool, TeamCount
<1>10. Cardinality(Reached \cup {i}) = ready + 1
  BY <1>7, <1>8, <1>9, FS_AddElement
<1>11. CountedIn'
  BY <1>1, <1>7, <1>10 DEF CountedIn
<1>12. ready' \in 0..MaxShards
  <2>1. Cardinality(Reached \cup {i}) \in Nat /\ Cardinality(Reached \cup {i}) <= main.n
    BY <1>8, InPool, TeamCount
  <2>2. main.n \in Nat /\ main.n <= MaxShards
    BY InPool, Fields
  <2>3. QED
    BY <1>1, <1>10, <2>1, <2>2, ScalingBounds
<1>13. Patient'
  BY <1>1, <1>3, InPool DEF Patient
<1>14. QED
  BY <1>1, <1>3, <1>6, <1>11, <1>12, <1>13, InPool, ThreadStep DEF ScalingTyped

\* A thread that goes on after the barrier, to work or to its end.
LEMMA BeyondBarrier ==
  ASSUME ScalingInv, kind # "mpi", NEW i \in Shards,
         w[i].pc = "run" \/ (w[i].pc = "spin" /\ go),
         w' \in [Shards -> Workers], w'[i].pc \in {"run", "ended"},
         w'[i].pc = "run" => w'[i].guard <= GuardLimit,
         \A j \in Shards \ {i} : w'[j] = w[j],
         UNCHANGED <<kind, plan, main, ready, go, clock, rows, fragment>>
  PROVE  ScalingInv'
<1>1. i \in Team /\ main.pc \in Filling /\ Team \subseteq Shards /\ Team' = Team
  BY InPool, InTeam, Fields DEF Team
<1>2. main.pc = "join"
  BY <1>1, InPool DEF Together, Filling
<1>3. go /\ clock = "on" /\ \A j \in Team : w[j].pc \in Arrived
  BY <1>1, <1>2, InPool DEF Together
<1>4. Together'
  <2>1. \A j \in Shards \ Team : w'[j].pc \in {"none", "ended"}
    BY <1>1, InPool DEF Together
  <2>2. \A j \in Team : w'[j].pc \in Arrived
    BY <1>1, <1>3 DEF Arrived
  <2>3. QED
    BY <1>1, <1>2, <1>3, <2>1, <2>2 DEF Together, Filling, Arrived
<1>5. Reached' = Reached
  BY <1>1, <1>2 DEF Reached
<1>6. CountedIn'
  BY <1>5, InPool DEF CountedIn
<1>7. Patient'
  BY InPool DEF Patient
<1>8. QED
  BY <1>4, <1>6, <1>7, InPool, ThreadStep DEF ScalingTyped

LEMMA ReleasedKeeps == ASSUME ScalingInv, kind # "mpi", NEW i \in Shards, Released(i) PROVE ScalingInv'
<1>1. /\ w[i].pc = "spin" /\ go /\ w' = [w EXCEPT ![i].pc = "run"]
      /\ UNCHANGED <<kind, plan, main, ready, go, clock, rows, fragment>>
  BY DEF Released, pool
<1>2. "run" \in Pcs /\ w \in [Shards -> Workers]
  BY InPool, Fields DEF Pcs
<1>3. /\ w' \in [Shards -> Workers] /\ w'[i].pc = "run" /\ w'[i].guard = w[i].guard
      /\ \A j \in Shards \ {i} : w'[j] = w[j]
  BY <1>1, <1>2, MovesTo DEF Moved
<1>4. w[i].guard <= GuardLimit
  BY <1>1, InPool DEF Patient
<1>5. QED
  BY <1>1, <1>3, <1>4, BeyondBarrier


\* What a cycle leaves of a shard at work: more work, or what comes after it.
Worked(q, x) ==
  /\ x \in Workers /\ x.failed = q.failed /\ x.all_error = q.all_error
  /\ \/ x.pc = "run" /\ x.round = q.round /\ x.guard <= GuardLimit
     \/ kind # "mpi" /\ x.pc = "ended"
     \/ kind = "mpi" /\ Odd(q.round) /\ x.pc = "build" /\ x.round = q.round + 1
     \/ kind = "mpi" /\ ~Odd(q.round) /\ x.pc = "reduce" /\ x.round = q.round

LEMMA AfterWorkFields ==
  ASSUME NEW q \in Workers
  PROVE  Worked(q, AfterWork(q))
<1>1. q.round \in Rounds
  BY DEF Workers
<1>2. CASE kind # "mpi"
  <2>1. [q EXCEPT !.pc = "ended"] \in Workers
    BY DEF Workers
  <2>2. AfterWork(q) = [q EXCEPT !.pc = "ended"]
    BY <1>2 DEF AfterWork
  <2>3. QED
    BY <1>2, <2>1, <2>2 DEF Worked, Workers
<1>3. CASE kind = "mpi" /\ Odd(q.round)
  <2> DEFINE n == q.round + 1
             x == [q EXCEPT !.pc = "build", !.round = n]
  <2>1. n \in Rounds
    BY <1>1, <1>3, RoundFacts
  <2>2. AfterWork(q) = x
    BY <1>3 DEF AfterWork, RankReturns
  <2> HIDE DEF n
  <2>3. /\ x \in Workers /\ x.failed = q.failed /\ x.all_error = q.all_error
        /\ x.pc = "build" /\ x.round = n
    BY <2>1 DEF Workers
  <2> HIDE DEF x
  <2>4. QED
    BY <1>3, <2>2, <2>3 DEF Worked, n
<1>4. CASE kind = "mpi" /\ ~Odd(q.round)
  <2> DEFINE x == [q EXCEPT !.pc = "reduce"]
  <2>1. AfterWork(q) = x
    BY <1>4 DEF AfterWork, RankReturns
  <2>2. /\ x \in Workers /\ x.failed = q.failed /\ x.all_error = q.all_error
        /\ x.pc = "reduce" /\ x.round = q.round
    BY DEF Workers, Collectives
  <2> HIDE DEF x
  <2>3. QED
    BY <1>4, <2>1, <2>2 DEF Worked
<1>5. QED
  BY <1>2, <1>3, <1>4

LEMMA CycleFields ==
  ASSUME NEW q \in Workers, q.pc = "run", q.guard <= GuardLimit,
         NEW staged \in 0..Quota, NEW drained \in 0..Quota,
         staged <= Quota - q.done, drained <= staged
  PROVE  LET r == IF staged = 0 THEN [q EXCEPT !.guard = @ + 1]
                  ELSE [q EXCEPT !.guard = 0, !.done = @ + drained]
         IN  Worked(q, IF r.done = Quota \/ r.guard > GuardLimit THEN AfterWork(r) ELSE r)
<1> DEFINE g == q.guard + 1
           d == q.done + drained
           r == IF staged = 0 THEN [q EXCEPT !.guard = g] ELSE [q EXCEPT !.guard = 0, !.done = d]
           x == IF r.done = Quota \/ r.guard > GuardLimit THEN AfterWork(r) ELSE r
<1>1. q.guard \in 0..GuardLimit + 1 /\ q.done \in 0..Quota
  BY DEF Workers
<1>2. g \in 0..GuardLimit + 1 /\ d \in 0..Quota /\ 0 \in 0..GuardLimit + 1
  BY <1>1, ScalingBounds
<1> HIDE DEF g, d
<1>3. /\ r \in Workers /\ r.failed = q.failed /\ r.all_error = q.all_error
      /\ r.pc = q.pc /\ r.round = q.round
  BY <1>2 DEF Workers
<1> HIDE DEF r
<1>4. Worked(r, AfterWork(r))
  BY <1>3, AfterWorkFields
<1>5. r.guard \in Nat
  BY <1>3, ScalingBounds DEF Workers
<1>6. ASSUME r.done = Quota \/ r.guard > GuardLimit PROVE Worked(q, x)
  <2>1. x = AfterWork(r)
    BY <1>6
  <2>2. QED
    BY <1>3, <1>4, <2>1 DEF Worked
<1>7. ASSUME ~(r.done = Quota \/ r.guard > GuardLimit) PROVE Worked(q, x)
  <2>0. x = r
    BY <1>7
  <2>1. r.guard <= GuardLimit
    BY <1>5, <1>7, ScalingBounds
  <2>2. QED
    BY <1>3, <2>0, <2>1 DEF Worked
<1>8. Worked(q, x)
  BY <1>6, <1>7
<1>9. QED
  BY <1>8 DEF x, r, g, d

LEMMA CycleMoves ==
  ASSUME ScalingTyped, Patient, NEW i \in Shards,
         NEW staged \in 0..Quota, NEW drained \in 0..Quota, Cycle(i, staged, drained)
  PROVE  /\ w[i].pc = "run" /\ Worked(w[i], w'[i]) /\ w' \in [Shards -> Workers]
         /\ \A j \in Shards \ {i} : w'[j] = w[j]
         /\ UNCHANGED <<kind, plan, main, ready, go, clock, rows, fragment>>
<1> DEFINE q == w[i]
           r == IF staged = 0 THEN [q EXCEPT !.guard = @ + 1]
                ELSE [q EXCEPT !.guard = 0, !.done = @ + drained]
           x == IF r.done = Quota \/ r.guard > GuardLimit THEN AfterWork(r) ELSE r
<1>1. /\ q.pc = "run" /\ staged <= Quota - q.done /\ drained <= staged
      /\ w' = [w EXCEPT ![i] = x]
      /\ UNCHANGED <<kind, plan, main, ready, go, clock, rows, fragment>>
  BY DEF Cycle, pool
<1>2. w \in [Shards -> Workers] /\ q \in Workers /\ q.guard <= GuardLimit
  BY <1>1 DEF ScalingTyped, Patient
<1>3. Worked(q, x)
  BY <1>1, <1>2, CycleFields
<1>4. x \in Workers
  BY <1>3 DEF Worked
<1> HIDE DEF x
<1>5. w'[i] = x /\ w' \in [Shards -> Workers] /\ \A j \in Shards \ {i} : w'[j] = w[j]
  BY <1>1, <1>2, <1>4
<1>6. QED
  BY <1>1, <1>3, <1>5

LEMMA CycleKeeps ==
  ASSUME ScalingInv, kind # "mpi", NEW i \in Shards,
         NEW staged \in 0..Quota, NEW drained \in 0..Quota, Cycle(i, staged, drained)
  PROVE  ScalingInv'
<1>1. /\ w[i].pc = "run" /\ Worked(w[i], w'[i]) /\ w' \in [Shards -> Workers]
      /\ \A j \in Shards \ {i} : w'[j] = w[j]
      /\ UNCHANGED <<kind, plan, main, ready, go, clock, rows, fragment>>
  BY InPool, CycleMoves
<1>2. w'[i].pc \in {"run", "ended"} /\ (w'[i].pc = "run" => w'[i].guard <= GuardLimit)
  BY <1>1 DEF Worked
<1>3. QED
  BY <1>1, <1>2, BeyondBarrier

-----------------------------------------------------------------------------
(***************************************************************************)
(* A pool: the main thread.                                                *)
(***************************************************************************)
\* The main thread goes on to another place.
At(m, p, n, r, i) == m \in Mains /\ m.pc = p /\ m.n = n /\ m.round = r /\ m.i = i

LEMMA MainAt ==
  ASSUME NEW m \in Mains, NEW p \in {"start", "refused", "build", "spawn", "ready", "go", "join", "row", "exit"}
  PROVE  /\ At([m EXCEPT !.pc = p], p, m.n, m.round, m.i)
         /\ At([m EXCEPT !.pc = p, !.i = 1], p, m.n, m.round, 1)
         /\ m.i + 1 \in Shards => At([m EXCEPT !.i = @ + 1], m.pc, m.n, m.round, m.i + 1)
         /\ m.round + 1 \in Rounds =>
              At([m EXCEPT !.pc = p, !.round = @ + 1, !.i = 1], p, m.n, m.round + 1, 1)
<1>1. 1 \in Shards
  BY ScalingBounds DEF Shards
<1>2. At([m EXCEPT !.pc = p], p, m.n, m.round, m.i)
  BY DEF At, Mains
<1>3. At([m EXCEPT !.pc = p, !.i = 1], p, m.n, m.round, 1)
  BY <1>1 DEF At, Mains
<1>4. ASSUME m.i + 1 \in Shards PROVE At([m EXCEPT !.i = @ + 1], m.pc, m.n, m.round, m.i + 1)
  BY <1>4 DEF At, Mains
<1>5. ASSUME m.round + 1 \in Rounds
      PROVE  At([m EXCEPT !.pc = p, !.round = @ + 1, !.i = 1], p, m.n, m.round + 1, 1)
  BY <1>1, <1>5 DEF At, Mains
<1>6. QED
  BY <1>2, <1>3, <1>4, <1>5

\* A step of the main thread that touches no row.
LEMMA MainStep ==
  ASSUME ScalingInv, kind # "mpi", UNCHANGED <<kind, plan, rows>>,
         main' \in Mains, main'.pc # "none", main'.n = main.n, main'.round = main.round,
         w' \in [Shards -> Workers], ready' \in 0..MaxShards, go' \in BOOLEAN,
         clock' \in {"on", "off"}, Patient', Together', CountedIn',
         main.pc \in {"start", "build"} \cup Filling,
         main'.pc \in {"refused", "build"} \cup Filling,
         main'.pc = "build" => main.pc \in {"start", "build"},
         \A i \in plan.who \cap Team :
           main.round = plan.round /\ main.pc \in {"start", "build"} /\ i >= main.i
             => main'.pc = "refused" \/ (main'.pc = "build" /\ i >= main'.i)
  PROVE  ScalingInv'
<1>1. ScalingTyped'
  BY DEF ScalingInv, ScalingTyped
<1>2. Team' = Team
  BY DEF Team
<1>3. Tallied'
  <2>1. \A i \in plan.who \cap Team : main'.pc # "refused" =>
            \/ main.round < plan.round
            \/ main.round = plan.round /\ main'.pc \in {"start", "build"} /\ i >= main'.i
    BY InPool DEF Tallied
  <2>2. main'.pc # "start"
    BY DEF Filling
  <2>3. QED
    BY <1>2, <2>1, <2>2, InPool DEF Tallied, Filling
<1>4. RowsCountWholePools'
  BY DEF RowsCountWholePools, Filling
<1>5. QED
  BY <1>1, <1>3, <1>4 DEF ScalingInv, PoolInv, RanksInv

LEMMA PermissionKeeps ==
  ASSUME ScalingInv, kind # "mpi", NEW permitted \in BOOLEAN, NEW stored \in BOOLEAN,
         Permission(permitted, stored)
  PROVE  ScalingInv'
<1> DEFINE p == IF permitted THEN "build" ELSE "refused"
<1>1. /\ main.pc = "start" /\ main' = [main EXCEPT !.pc = p]
      /\ UNCHANGED <<kind, plan, w, ready, go, clock, rows>>
  BY DEF Permission
<1>2. main \in Mains /\ p \in {"build", "refused"}
  BY InPool, Fields
<1> HIDE DEF p
<1>3. At(main', p, main.n, main.round, main.i)
  BY <1>1, <1>2, MainAt
<1>4. main.n = 1 /\ main.i = 1
  BY <1>1, InPool DEF Tallied
<1>5. Together'
  BY <1>1, <1>2, <1>3, <1>4, InPool DEF Together, At, Team, Filling
<1>6. CountedIn'
  BY <1>2, <1>3 DEF CountedIn, At, Filling
<1>7. Patient'
  BY <1>1, InPool DEF Patient
<1>8. QED
  BY <1>1, <1>2, <1>3, <1>4, <1>5, <1>6, <1>7, InPool, MainStep DEF At, ScalingTyped


LEMMA BuildKeeps == ASSUME ScalingInv, kind # "mpi", BuildShard PROVE ScalingInv'
<1>1. /\ main.pc = "build" /\ ready' = 0 /\ go' = FALSE /\ UNCHANGED <<kind, plan, w, clock, fragment>>
  BY DEF BuildShard
<1>2. /\ main \in Mains /\ main.n \in Nat /\ main.i \in Nat /\ main.i >= 1 /\ main.i <= main.n
      /\ main.n \in Shards /\ main.i \in Shards /\ main.n <= MaxShards /\ Team = 1..main.n
      /\ main.i \in Team
  <2>1. /\ main \in Mains /\ main.n \in Nat /\ main.i \in Nat /\ main.i >= 1
        /\ main.n \in Shards /\ main.i \in Shards /\ main.n <= MaxShards /\ Team = 1..main.n
    BY InPool, Fields
  <2>2. main.i <= main.n
    BY <1>1, InPool DEF Together
  <2>3. QED
    BY <2>1, <2>2
<1>3. \A j \in Shards : w'[j].pc \in {"none", "ended"}
  BY <1>1, InPool DEF Together, Filling
<1>4. ready' \in 0..MaxShards /\ go' \in BOOLEAN /\ clock' \in {"on", "off"} /\ w' \in [Shards -> Workers]
  <2>1. ready' \in 0..MaxShards
    BY <1>1, ScalingBounds
  <2>2. QED
    BY <1>1, <2>1, InPool DEF ScalingTyped
<1>5. Patient'
  BY <1>1, InPool DEF Patient
<1>6. Team \subseteq Shards
  BY InPool, Fields
<1>7. CASE Fails(main.i, main.round)
  <2>1. /\ main' = [main EXCEPT !.pc = "row"]
        /\ rows' = [rows EXCEPT ![main.n].error = (main.i = 1)]
    BY <1>7 DEF BuildShard
  <2>2. At(main', "row", main.n, main.round, main.i)
    BY <1>2, <2>1, MainAt
  <2>3. /\ rows' \in [Shards -> Row] /\ rows'[main.n].strong = rows[main.n].strong
        /\ rows'[main.n].weak = rows[main.n].weak
        /\ \A n \in Shards \ {main.n} : rows'[n] = rows[n]
    <3> DEFINE e == [rows[main.n] EXCEPT !.error = (main.i = 1)]
    <3>1. rows \in [Shards -> Row] /\ rows[main.n] \in Row
      BY <1>2, InPool DEF ScalingTyped
    <3>2. e \in Row /\ e.strong = rows[main.n].strong /\ e.weak = rows[main.n].weak
      BY <3>1 DEF Row
    <3>3. rows' = [rows EXCEPT ![main.n] = e]
      BY <2>1
    <3> HIDE DEF e
    <3>4. QED
      BY <1>2, <3>1, <3>2, <3>3
  <2>4. ScalingTyped'
    BY <1>1, <1>4, <2>2, <2>3, InPool DEF ScalingTyped, At
  <2>5. Together'
    BY <1>3, <2>2 DEF Together, Filling, At
  <2>6. CountedIn'
    BY <2>2 DEF CountedIn, Filling, At
  <2>7. Tallied'
    <3>1. \A n \in Shards : n > main.n => n # main.n
      BY <1>2, ScalingBounds DEF Shards
    <3>2. QED
      BY <2>2, <2>3, <3>1, InPool DEF Tallied, Filling, At
  <2>8. RowsCountWholePools'
    <3>1. plan.round = main.round /\ main.i \in plan.who \cap Team
      BY <1>2, <1>7 DEF Fails
    <3>2. /\ rows[main.n].strong + rows[main.n].weak = main.round - 1
          /\ rows[main.n].strong - rows[main.n].weak \in {0, 1}
      BY <1>1, InPool DEF Tallied
    <3>3. Team' = Team
      BY <2>2 DEF Team, At
    <3>4. plan' = plan /\ kind' # "mpi" /\ main'.n = main.n
      BY <1>1, <2>2 DEF At
    <3>5. QED
      BY <2>3, <3>1, <3>2, <3>3, <3>4 DEF RowsCountWholePools
  <2>9. QED
    BY <1>1, <1>5, <2>2, <2>4, <2>5, <2>6, <2>7, <2>8 DEF ScalingInv, PoolInv, RanksInv, At
<1>8. CASE ~Fails(main.i, main.round) /\ main.i < main.n
  <2>1. main' = [main EXCEPT !.i = @ + 1] /\ UNCHANGED rows
    BY <1>8 DEF BuildShard
  <2>2. main.i + 1 \in Shards
    BY <1>2, <1>8, ScalingBounds DEF Shards
  <2>3. At(main', "build", main.n, main.round, main.i + 1)
    BY <1>1, <1>2, <2>1, <2>2, MainAt
  <2>4. Together'
    <3>1. main.i + 1 <= main.n
      BY <1>2, <1>8
    <3>2. QED
      BY <1>3, <2>3, <3>1 DEF Together, Filling, At
  <2>5. CountedIn'
    BY <2>3 DEF CountedIn, Filling, At
  <2>6. \A j \in plan.who \cap Team :
          main.round = plan.round /\ j >= main.i => j >= main.i + 1
    BY <1>2, <1>8 DEF Fails
  <2>7. QED
    BY <1>1, <1>4, <1>5, <2>1, <2>3, <2>4, <2>5, <2>6, MainStep DEF At
<1>9. CASE ~Fails(main.i, main.round) /\ ~(main.i < main.n)
  <2>1. main' = [main EXCEPT !.pc = "spawn", !.i = 1] /\ UNCHANGED rows
    BY <1>9 DEF BuildShard
  <2>2. At(main', "spawn", main.n, main.round, 1)
    BY <1>2, <2>1, MainAt
  <2>3. Together'
    <3>1. \A j \in Team : ~(j < 1) /\ j \in Shards
      BY <1>2, <1>6
    <3>2. 1 <= main.n /\ Team' = Team
      BY <1>2, <2>2 DEF Team, At
    <3>3. go' = FALSE /\ kind' = kind
      BY <1>1
    <3>4. QED
      BY <1>3, <2>2, <3>1, <3>2, <3>3 DEF Together, Filling, At
  <2>4. Reached' = {}
    BY <1>3, <1>6, <2>2 DEF Reached, At, Team
  <2>5. CountedIn'
    BY <1>1, <2>4, FS_EmptySet DEF CountedIn
  <2>6. \A j \in plan.who \cap Team : ~(main.round = plan.round /\ j >= main.i)
    BY <1>2, <1>9 DEF Fails
  <2>7. QED
    BY <1>1, <1>4, <1>5, <2>1, <2>2, <2>3, <2>5, <2>6, MainStep DEF At, Filling
<1>10. QED
  BY <1>7, <1>8, <1>9


LEMMA SpawnKeeps == ASSUME ScalingInv, kind # "mpi", Spawn PROVE ScalingInv'
<1>1. main.pc = "spawn" /\ UNCHANGED <<kind, plan, ready, go, clock, rows, fragment>>
  BY DEF Spawn
<1>2. /\ main \in Mains /\ main.n \in Nat /\ main.i \in Nat /\ main.i >= 1 /\ main.i <= main.n
      /\ main.i \in Shards /\ Team = 1..main.n /\ Team \subseteq Shards /\ 1 \in Team
      /\ main.n <= MaxShards /\ w \in [Shards -> Workers]
  <2>1. main.i <= main.n
    BY <1>1, InPool DEF Together
  <2>2. QED
    BY <2>1, InPool, Fields
<1>3. /\ ~go /\ (kind = "openmp" => main.i = 1)
      /\ \A j \in Team : w[j].pc \in (IF j < main.i THEN {"arrive", "spin"} ELSE {"none", "ended"})
      /\ \A j \in Shards \ Team : w[j].pc \in {"none", "ended"}
  BY <1>1, InPool DEF Together
<1>4. {"single", "arrive"} \subseteq Pcs
  BY DEF Pcs
<1>5. CASE kind = "openmp"
  <2>1. /\ w' = [i \in Shards |-> IF i \in Team THEN Blank("single") ELSE w[i]]
        /\ main' = [main EXCEPT !.pc = "join"]
    BY <1>5 DEF Spawn
  <2>2. Blank("single") \in Workers /\ Blank("single").pc = "single" /\ Blank("single").guard = 0
    BY <1>4, BlankFields
  <2>3. /\ w' \in [Shards -> Workers]
        /\ \A j \in Team : w'[j].pc = "single" /\ w'[j].guard = 0
        /\ \A j \in Shards \ Team : w'[j] = w[j]
    BY <1>2, <2>1, <2>2
  <2>4. At(main', "join", main.n, main.round, main.i) /\ Team' = Team
    <3>1. At(main', "join", main.n, main.round, main.i)
      BY <1>2, <2>1, MainAt
    <3>2. QED
      BY <3>1 DEF At, Team
  <2>5. Together'
    BY <1>1, <1>3, <1>5, <2>3, <2>4 DEF Together, Filling, At
  <2>6. Reached' = {}
    BY <2>3, <2>4 DEF Reached
  <2>7. Reached = {}
    <3>1. \A j \in Team : ~(j < main.i)
      BY <1>2, <1>3, <1>5
    <3>2. QED
      BY <1>1, <1>3, <3>1 DEF Reached
  <2>8. CountedIn'
    BY <1>1, <2>6, <2>7, InPool DEF CountedIn, Filling
  <2>9. Patient'
    <3>1. \A j \in Team : w'[j].guard <= GuardLimit
      BY <2>3, ScalingBounds
    <3>2. QED
      BY <2>3, <3>1, InPool DEF Patient
  <2>10. QED
    BY <1>1, <2>3, <2>4, <2>5, <2>8, <2>9, InPool, MainStep DEF At, Filling, ScalingTyped
<1>6. CASE kind # "openmp"
  <2>1. /\ w' = [w EXCEPT ![main.i] = Blank("arrive")]
        /\ main' = IF main.i < main.n THEN [main EXCEPT !.i = @ + 1] ELSE [main EXCEPT !.pc = "ready"]
    BY <1>6 DEF Spawn
  <2>2. Blank("arrive") \in Workers /\ Blank("arrive").pc = "arrive" /\ Blank("arrive").guard = 0
    BY <1>4, BlankFields
  <2>3. /\ w' \in [Shards -> Workers]
        /\ w'[main.i].pc = "arrive" /\ w'[main.i].guard = 0
        /\ \A j \in Shards \ {main.i} : w'[j] = w[j]
    BY <1>2, <2>1, <2>2
  <2>4. /\ main' \in Mains /\ main'.n = main.n /\ main'.round = main.round
        /\ IF main.i < main.n THEN main'.pc = "spawn" /\ main'.i = main.i + 1 ELSE main'.pc = "ready"
    <3>1. CASE main.i < main.n
      <4>1. main.i + 1 \in Shards
        BY <1>2, <3>1, ScalingBounds DEF Shards
      <4>2. At(main', "spawn", main.n, main.round, main.i + 1)
        BY <1>1, <1>2, <2>1, <3>1, <4>1, MainAt
      <4>3. QED
        BY <3>1, <4>2 DEF At
    <3>2. CASE ~(main.i < main.n)
      <4>1. At(main', "ready", main.n, main.round, main.i)
        BY <1>2, <2>1, <3>2, MainAt
      <4>2. QED
        BY <3>2, <4>1 DEF At
    <3>3. QED
      BY <3>1, <3>2
  <2>5. Team' = Team /\ main.i \in Team
    BY <1>2, <2>4 DEF Team
  <2>6. Together'
    <3>1. \A j \in Shards \ Team : w'[j].pc \in {"none", "ended"}
      BY <1>3, <2>3, <2>5
    <3>2. ASSUME main.i < main.n
          PROVE  \A j \in Team : w'[j].pc \in (IF j < main.i + 1 THEN {"arrive", "spin"} ELSE {"none", "ended"})
      <4> SUFFICES ASSUME NEW j \in Team
                   PROVE  w'[j].pc \in (IF j < main.i + 1 THEN {"arrive", "spin"} ELSE {"none", "ended"})
        OBVIOUS
      <4>1. j \in Nat /\ j \in Shards /\ (j < main.i + 1 <=> j < main.i \/ j = main.i)
        BY <1>2
      <4>2. QED
        BY <1>2, <1>3, <2>3, <4>1
    <3>3. ASSUME ~(main.i < main.n) PROVE \A j \in Team : w'[j].pc \in {"arrive", "spin"}
      <4> SUFFICES ASSUME NEW j \in Team PROVE w'[j].pc \in {"arrive", "spin"}
        OBVIOUS
      <4>1. j \in Nat /\ j \in Shards /\ (j < main.i \/ j = main.i)
        BY <1>2, <3>3
      <4>2. QED
        BY <1>3, <2>3, <4>1
    <3>4. main.i < main.n => main.i + 1 <= main.n
      BY <1>2
    <3>5. QED
      BY <1>1, <1>3, <1>6, <2>4, <2>5, <3>1, <3>2, <3>3, <3>4 DEF Together, Filling
  <2>7. Reached' = Reached
    <3>1. w[main.i].pc \in {"none", "ended"}
      BY <1>2, <1>3, <2>5
    <3>2. main'.pc # "join"
      BY <2>4
    <3>3. QED
      BY <1>1, <1>2, <2>3, <2>5, <3>1, <3>2 DEF Reached
  <2>8. CountedIn'
    BY <1>1, <2>7, InPool DEF CountedIn, Filling
  <2>9. Patient'
    <3>1. w'[main.i].guard <= GuardLimit
      BY <2>3, ScalingBounds
    <3>2. QED
      BY <2>3, <3>1, InPool DEF Patient
  <2>10. QED
    BY <1>1, <2>3, <2>4, <2>6, <2>8, <2>9, InPool, MainStep DEF Filling, ScalingTyped
<1>7. QED
  BY <1>5, <1>6

\* The counter says that the whole team is at the barrier.
LEMMA StartClockKeeps == ASSUME ScalingInv, kind # "mpi", StartClock PROVE ScalingInv'
<1>1. /\ main.pc = "ready" /\ ready >= main.n /\ clock' = "on" /\ main' = [main EXCEPT !.pc = "go"]
      /\ UNCHANGED <<kind, plan, w, ready, go, rows, fragment>>
  BY DEF StartClock
<1>2. main \in Mains /\ main.n \in Nat
  BY InPool, Fields
<1>3. At(main', "go", main.n, main.round, main.i) /\ Team' = Team
  <2>1. At(main', "go", main.n, main.round, main.i)
    BY <1>1, <1>2, MainAt
  <2>2. QED
    BY <2>1 DEF At, Team
<1>4. Reached = Team
  <2>1. Reached \in SUBSET Team /\ ready = Cardinality(Reached)
    BY <1>1, InPool DEF Reached, CountedIn, Filling
  <2>2. Cardinality(Reached) \in Nat /\ Cardinality(Reached) <= main.n
    BY <2>1, InPool, TeamCount
  <2>3. Cardinality(Reached) = main.n
    BY <1>1, <1>2, <2>1, <2>2
  <2>4. QED
    BY <2>1, <2>3, InPool, TeamCount
<1>5. \A i \in Team : w[i].pc = "spin"
  BY <1>1, <1>4, InPool DEF Reached, Together
<1>6. Together'
  BY <1>1, <1>3, <1>5, InPool DEF Together, Filling, At
<1>7. Reached' = Reached
  BY <1>1, <1>3 DEF Reached, At
<1>8. CountedIn'
  BY <1>1, <1>7, InPool DEF CountedIn, Filling
<1>9. Patient'
  BY <1>1, InPool DEF Patient
<1>10. QED
  BY <1>1, <1>3, <1>6, <1>8, <1>9, InPool, MainStep DEF At, Filling, ScalingTyped

LEMMA GoKeeps == ASSUME ScalingInv, kind # "mpi", Go PROVE ScalingInv'
<1>1. /\ main.pc = "go" /\ go' = TRUE /\ main' = [main EXCEPT !.pc = "join"]
      /\ UNCHANGED <<kind, plan, w, ready, clock, rows, fragment>>
  BY DEF Go
<1>2. main \in Mains
  BY InPool, Fields
<1>3. At(main', "join", main.n, main.round, main.i) /\ Team' = Team
  <2>1. At(main', "join", main.n, main.round, main.i)
    BY <1>1, <1>2, MainAt
  <2>2. QED
    BY <2>1 DEF At, Team
<1>4. clock = "on" /\ \A i \in Team : w[i].pc = "spin"
  BY <1>1, InPool DEF Together
<1>5. Together'
  BY <1>1, <1>3, <1>4, InPool DEF Together, Filling, At, Arrived
<1>6. Reached' = Reached
  BY <1>1, <1>3, <1>4 DEF Reached, At
<1>7. CountedIn'
  BY <1>1, <1>6, InPool DEF CountedIn, Filling
<1>8. Patient'
  BY <1>1, InPool DEF Patient
<1>9. QED
  BY <1>1, <1>3, <1>5, <1>7, <1>8, InPool, MainStep DEF At, Filling, ScalingTyped

\* A pool that ran counts once, as a strong or as a weak one.
LEMMA CountedFields ==
  ASSUME NEW row \in Row, NEW r \in Rounds,
         row.strong + row.weak = r - 1,
         row.strong - row.weak = IF Odd(r) THEN 0 ELSE 1
  PROVE  /\ Counted(row, r) \in Row /\ Counted(row, r).error = row.error
         /\ Counted(row, r).strong + Counted(row, r).weak = r
         /\ Counted(row, r).strong - Counted(row, r).weak = IF Odd(r) THEN 1 ELSE 0
<1> DEFINE s == row.strong
           k == row.weak
<1>1. s \in Nat /\ k \in Nat /\ r \in Nat /\ r <= 2 * Reps /\ row.error \in BOOLEAN
      /\ s \in 0..Reps /\ k \in 0..Reps
  BY RoundFacts, ScalingBounds DEF Row
<1>2. CASE Odd(r)
  <2> DEFINE t == s + 1
             c == [row EXCEPT !.strong = t]
  <2>1. Counted(row, r) = c
    BY <1>2 DEF Counted
  <2>2. s = k /\ t \in Nat /\ t + k = r /\ t - k = 1
    BY <1>1, <1>2
  <2>3. t \in 0..Reps
    BY <1>1, <2>2, ScalingBounds
  <2> HIDE DEF t
  <2>4. c \in Row /\ c.strong = t /\ c.weak = k /\ c.error = row.error
    BY <2>3 DEF Row
  <2> HIDE DEF c
  <2>5. QED
    BY <1>2, <2>1, <2>2, <2>4
<1>3. CASE ~Odd(r)
  <2> DEFINE t == k + 1
             c == [row EXCEPT !.weak = t]
  <2>1. Counted(row, r) = c
    BY <1>3 DEF Counted
  <2>2. t = s /\ t \in Nat /\ s + t = r /\ s - t = 0
    BY <1>1, <1>3
  <2>3. t \in 0..Reps
    BY <1>1, <2>2
  <2> HIDE DEF t
  <2>4. c \in Row /\ c.strong = s /\ c.weak = t /\ c.error = row.error
    BY <2>3 DEF Row
  <2> HIDE DEF c
  <2>5. QED
    BY <1>3, <2>1, <2>2, <2>4
<1>4. QED
  BY <1>2, <1>3


LEMMA JoinKeeps == ASSUME ScalingInv, kind # "mpi", Join PROVE ScalingInv'
<1> DEFINE n == main.n
           c == Counted(rows[n], main.round)
<1>1. /\ main.pc = "join" /\ \A i \in Team : w[i].pc = "ended"
      /\ clock' = "off" /\ UNCHANGED <<kind, plan, w, ready, go, fragment>>
      /\ main' = IF main.round < 2 * Reps THEN [main EXCEPT !.pc = "build", !.round = @ + 1, !.i = 1]
                 ELSE [main EXCEPT !.pc = "row"]
  BY DEF Join
<1>2. rows' = [rows EXCEPT ![n] = c]
  BY DEF Join
<1>3. /\ main \in Mains /\ n \in Shards /\ n \in Nat /\ main.round \in Rounds /\ main.round \in Nat
      /\ n >= 1 /\ plan.round \in Rounds /\ plan.round \in Nat /\ plan.who \subseteq Shards
      /\ rows \in [Shards -> Row] /\ main.round >= 1 /\ main.round <= 2 * Reps
      /\ plan.round <= 2 * Reps
  BY InPool, Fields, RoundFacts DEF ScalingTyped
<1>4. /\ rows[n] \in Row /\ rows[n].strong + rows[n].weak = main.round - 1
      /\ rows[n].strong - rows[n].weak = IF Odd(main.round) THEN 0 ELSE 1
      /\ ~rows[n].error
  BY <1>1, <1>3, InPool DEF Tallied, Filling
<1>5. /\ c \in Row /\ c.error = rows[n].error /\ c.strong + c.weak = main.round
      /\ c.strong - c.weak = IF Odd(main.round) THEN 1 ELSE 0
  BY <1>3, <1>4, CountedFields
<1> HIDE DEF c
<1>6. rows' \in [Shards -> Row] /\ rows'[n] = c /\ \A m \in Shards \ {n} : rows'[m] = rows[m]
  BY <1>2, <1>3, <1>5
<1>7. \A j \in Shards : w[j].pc \in {"none", "ended"}
  BY <1>1, InPool DEF Together
<1>8. \A i \in plan.who \cap Team : main.round < plan.round
  BY <1>1, InPool DEF Tallied, Filling
<1>9. Patient'
  BY <1>1, InPool DEF Patient
<1>10. \A m \in Shards : m > n => rows'[m] = NoRow
  <2>1. \A m \in Shards : m > n => m # n
    BY <1>3, ScalingBounds DEF Shards
  <2>2. QED
    BY <1>6, <2>1, InPool DEF Tallied
<1>11. CASE main.round < 2 * Reps
  <2>1. At(main', "build", n, main.round + 1, 1) /\ Team' = Team
    <3>1. main.round + 1 \in Rounds
      BY <1>3, <1>11, RoundFacts
    <3>2. At(main', "build", n, main.round + 1, 1)
      BY <1>1, <1>3, <1>11, <3>1, MainAt
    <3>3. QED
      BY <3>2 DEF At, Team
  <2>2. ScalingTyped'
    BY <1>1, <1>6, <2>1, InPool DEF ScalingTyped, At
  <2>3. Together'
    BY <1>1, <1>3, <1>7, <2>1 DEF Together, Filling, At
  <2>4. CountedIn'
    BY <2>1 DEF CountedIn, Filling, At
  <2>5. Tallied'
    <3>1. Odd(main.round + 1) <=> ~Odd(main.round)
      BY <1>3, Alternate
    <3>2. c.strong - c.weak = IF Odd(main.round + 1) THEN 0 ELSE 1
      BY <1>5, <3>1
    <3>3. c.strong + c.weak = (main.round + 1) - 1
      BY <1>3, <1>5
    <3>4. ASSUME NEW i \in plan.who \cap Team
          PROVE  main.round + 1 < plan.round \/ (main.round + 1 = plan.round /\ i >= 1)
      <4>1. i \in Nat /\ i >= 1
        BY <1>3, ScalingBounds DEF Shards
      <4>2. QED
        BY <1>3, <1>8, <4>1
    <3>5. /\ main'.pc = "build" /\ main'.n = n /\ main'.round = main.round + 1 /\ main'.i = 1
          /\ plan' = plan
      BY <1>1, <2>1 DEF At
    <3> HIDE DEF n
    <3>6. rows'[main'.n] = c /\ ~c.error
      BY <1>4, <1>5, <1>6, <3>5
    <3>7. \A i \in plan'.who \cap Team' :
            \/ main'.round < plan'.round
            \/ main'.round = plan'.round /\ main'.pc \in {"start", "build"} /\ i >= main'.i
      BY <2>1, <3>4, <3>5
    <3>8. /\ rows'[main'.n].strong + rows'[main'.n].weak = main'.round - 1
          /\ rows'[main'.n].strong - rows'[main'.n].weak = IF Odd(main'.round) THEN 0 ELSE 1
      BY <3>2, <3>3, <3>5, <3>6
    <3>9. QED
      BY <1>10, <3>5, <3>6, <3>7, <3>8 DEF Tallied
  <2>6. RowsCountWholePools'
    BY <1>1, <2>1 DEF RowsCountWholePools, At
  <2>7. QED
    BY <1>1, <1>9, <2>1, <2>2, <2>3, <2>4, <2>5, <2>6 DEF ScalingInv, PoolInv, RanksInv, At
<1>12. CASE ~(main.round < 2 * Reps)
  <2>1. At(main', "row", n, main.round, main.i) /\ Team' = Team
    <3>1. At(main', "row", n, main.round, main.i)
      BY <1>1, <1>3, <1>12, MainAt
    <3>2. QED
      BY <3>1 DEF At, Team
  <2>2. ScalingTyped'
    BY <1>1, <1>6, <2>1, InPool DEF ScalingTyped, At
  <2>3. Together'
    BY <1>1, <1>7, <2>1 DEF Together, Filling, At
  <2>4. CountedIn'
    BY <2>1 DEF CountedIn, Filling, At
  <2>5. Tallied'
    BY <1>10, <2>1 DEF Tallied, Filling, At
  <2>6. RowsCountWholePools'
    <3>1. main.round = 2 * Reps
      BY <1>3, <1>12, ScalingBounds
    <3>2. plan.who \cap Team = {}
      BY <1>3, <1>8, <3>1, ScalingBounds
    <3>3. c.strong + c.weak = 2 * Reps /\ c.strong - c.weak = 0
      BY <1>5, <3>1, RoundFacts
    <3>4. plan' = plan /\ kind' # "mpi" /\ main'.n = n
      BY <1>1, <2>1 DEF At
    <3>5. QED
      BY <1>4, <1>5, <1>6, <2>1, <3>2, <3>3, <3>4 DEF RowsCountWholePools
  <2>7. QED
    BY <1>1, <1>9, <2>1, <2>2, <2>3, <2>4, <2>5, <2>6 DEF ScalingInv, PoolInv, RanksInv, At
<1>13. QED
  BY <1>11, <1>12

LEMMA EndRowKeeps ==
  ASSUME ScalingInv, kind # "mpi", NEW stored \in BOOLEAN, EndRow(stored)
  PROVE  ScalingInv'
<1>1. main.pc = "row" /\ UNCHANGED <<kind, plan, w, ready, go, clock, rows>>
  BY DEF EndRow
<1>2. /\ main \in Mains /\ main.n \in Nat /\ main.n \in Shards
      /\ plan.round \in Nat /\ plan.round >= 1 /\ plan.who \subseteq Shards
  BY InPool, Fields, RoundFacts
<1>3. \A j \in Shards : w[j].pc \in {"none", "ended"}
  BY <1>1, InPool DEF Together, Filling
<1>4. Patient'
  BY <1>1, InPool DEF Patient
<1>5. CASE main.n < MaxShards
  <2> DEFINE n == main.n + 1
  <2>1. main' = [pc |-> "build", n |-> n, round |-> 1, i |-> 1]
    BY <1>5 DEF EndRow
  <2>2. n \in Shards /\ n \in Nat /\ 1 \in Shards /\ n > main.n /\ n >= 1
    BY <1>2, <1>5, ScalingBounds DEF Shards
  <2> HIDE DEF n
  <2>3. At(main', "build", n, 1, 1)
    BY <2>1, <2>2, RoundFacts DEF At, Mains
  <2>4. ScalingTyped'
    BY <1>1, <2>3, InPool DEF ScalingTyped, At
  <2>5. Together'
    BY <1>1, <1>3, <2>2, <2>3 DEF Together, Filling, At
  <2>6. CountedIn'
    BY <2>3 DEF CountedIn, Filling, At
  <2>7. Tallied'
    <3>1. \A m \in Shards : m > n => m > main.n
      BY <1>2, <2>2, ScalingBounds DEF Shards
    <3>2. \A m \in Shards : m > n => rows[m] = NoRow
      BY <3>1, InPool DEF Tallied
    <3>3. rows[n] = NoRow
      BY <2>2, InPool DEF Tallied
    <3>4. NoRow.strong = 0 /\ NoRow.weak = 0 /\ NoRow.error = FALSE
      BY DEF NoRow
    <3>5. \A i \in plan.who : 1 < plan.round \/ (1 = plan.round /\ i >= 1)
      BY <1>2, ScalingBounds DEF Shards
    <3>6. /\ main'.pc = "build" /\ main'.n = n /\ main'.round = 1 /\ main'.i = 1
          /\ plan' = plan /\ rows' = rows
      BY <1>1, <2>3 DEF At
    <3>7. QED
      BY <3>2, <3>3, <3>4, <3>5, <3>6, RoundFacts DEF Tallied, Filling
  <2>8. RowsCountWholePools'
    BY <1>1, <2>3 DEF RowsCountWholePools, At
  <2>9. QED
    BY <1>1, <1>4, <2>3, <2>4, <2>5, <2>6, <2>7, <2>8 DEF ScalingInv, PoolInv, RanksInv, At
<1>6. CASE ~(main.n < MaxShards)
  <2>1. main' = [main EXCEPT !.pc = "exit"]
    BY <1>6 DEF EndRow
  <2>2. At(main', "exit", main.n, main.round, main.i)
    BY <1>2, <2>1, MainAt
  <2>3. Team' = Team
    BY <2>2 DEF At, Team
  <2>4. ScalingTyped'
    BY <1>1, <2>2, InPool DEF ScalingTyped, At
  <2>5. Together'
    BY <1>1, <1>3, <2>2 DEF Together, Filling, At
  <2>6. CountedIn'
    BY <2>2 DEF CountedIn, Filling, At
  <2>7. Tallied'
    BY <1>1, <2>2, InPool DEF Tallied, Filling, At
  <2>8. RowsCountWholePools'
    BY <1>1, <2>2, <2>3, InPool DEF RowsCountWholePools, At
  <2>9. QED
    BY <1>1, <1>4, <2>2, <2>4, <2>5, <2>6, <2>7, <2>8 DEF ScalingInv, PoolInv, RanksInv, At
<1>7. QED
  BY <1>5, <1>6

\* Every step of a pool.
LEMMA PoolKeeps == ASSUME ScalingInv, kind # "mpi", ScalingNext PROVE ScalingInv'
<1>1. CASE Main
  BY <1>1, PermissionKeeps, BuildKeeps, SpawnKeeps, StartClockKeeps, GoKeeps, JoinKeeps, EndRowKeeps
     DEF Main
<1>2. CASE Joint
  BY <1>2, ImpliedKeeps DEF Joint, Collective
<1>3. ASSUME NEW i \in Shards, Worker(i) PROVE ScalingInv'
  BY <1>3, SingleKeeps, ArriveKeeps, ReleasedKeeps, CycleKeeps DEF Worker, RankBuild, RankEnd
<1>4. CASE UNCHANGED scalingVars
  <2>1. UNCHANGED <<kind, plan, main, w, ready, go, clock, rows, fragment>>
    BY <1>4 DEF scalingVars
  <2>2. Patient' /\ Together' /\ CountedIn'
    BY <2>1, InPool DEF Patient, Together, CountedIn, Reached, Team, Arrived
  <2>3. QED
    BY <2>1, <2>2, InPool, ThreadStep DEF ScalingTyped
<1>5. QED
  BY <1>1, <1>2, <1>3, <1>4 DEF ScalingNext


-----------------------------------------------------------------------------
(***************************************************************************)
(* The ranks of MPI.                                                       *)
(***************************************************************************)
LEMMA InRanks ==
  ASSUME ScalingInv, kind = "mpi"
  PROVE  /\ ScalingTyped /\ Patient /\ main.pc = "none" /\ ready = 0
         /\ \A i \in Shards : RankInv(i) /\ w[i] \in Workers /\ w[i].round \in Rounds
         /\ \A i, j \in Shards : Stretch(w[i]) = Stretch(w[j])
         /\ fragment.written => (fragment.available <=> plan.who = {})
         /\ plan.round \in Rounds /\ plan.round \in Nat /\ w \in [Shards -> Workers]
<1>1. ScalingTyped /\ w \in [Shards -> Workers] /\ plan.round \in Rounds /\ plan.round \in Nat
  BY Fields DEF ScalingInv
<1>2. \A i \in Shards : w[i] \in Workers /\ w[i].round \in Rounds
  BY <1>1 DEF Workers
<1>3. QED
  BY <1>1, <1>2 DEF ScalingInv, RanksInv

LEMMA RanksStep ==
  ASSUME ScalingInv, kind = "mpi", UNCHANGED <<kind, plan, main, ready, go, clock, rows>>,
         w' \in [Shards -> Workers], Patient', \A i \in Shards : RankInv(i)',
         \A i, j \in Shards : Stretch(w'[i]) = Stretch(w'[j]),
         fragment'.written => (fragment'.available <=> plan.who = {})
  PROVE  ScalingInv'
<1>1. ScalingTyped'
  BY InRanks DEF ScalingTyped
<1>2. RanksInv'
  BY InRanks DEF RanksInv
<1>3. QED
  BY <1>1, <1>2 DEF ScalingInv, PoolInv

\* One rank moves on within its stretch.
LEMMA OneRank ==
  ASSUME ScalingInv, kind = "mpi", UNCHANGED <<kind, plan, main, ready, go, clock, rows>>,
         NEW i \in Shards, w' \in [Shards -> Workers], \A j \in Shards \ {i} : w'[j] = w[j],
         RankInv(i)', Stretch(w'[i]) = Stretch(w[i]),
         w'[i].pc \in {"barrier", "run"} => w'[i].guard <= GuardLimit,
         fragment'.written => (fragment'.available <=> plan.who = {})
  PROVE  ScalingInv'
<1>1. \A j \in Shards : RankInv(j)'
  BY InRanks DEF RankInv
<1>2. \A j, k \in Shards : Stretch(w'[j]) = Stretch(w'[k])
  BY InRanks
<1>3. w'[i].pc \notin {"arrive", "spin"}
  BY DEF RankInv, Collectives
<1>4. Patient'
  BY <1>3, InRanks DEF Patient
<1>5. QED
  BY <1>1, <1>2, <1>4, RanksStep

\* The stretches, by the place a rank is at.
LEMMA Stretches ==
  ASSUME NEW r
  PROVE  /\ r.pc = "gather" => Stretch(r) = <<"gather", 0>>
         /\ r.pc \in {"build", "barrier"} \/ (r.pc = "errors" /\ r.failed) =>
              Stretch(r) = IF Odd(r.round) THEN <<"first", r.round>> ELSE <<"second", r.round - 1>>
         /\ r.pc = "run" => Stretch(r) = IF Odd(r.round) THEN <<"second", r.round>> ELSE <<"third", r.round>>
         /\ r.pc = "reduce" => Stretch(r) = <<"third", r.round>>
         /\ r.pc = "errors" /\ ~r.failed => Stretch(r) = <<"errors", 0>>
         /\ r.pc = "coordination" => Stretch(r) = <<"coordination", 0>>
         /\ r.pc \in {"write", "ended"} => Stretch(r) = <<"end", 0>>
  BY DEF Stretch

LEMMA RankBuildKeeps == ASSUME ScalingInv, NEW i \in Shards, RankBuild(i) PROVE ScalingInv'
<1> DEFINE r == w[i]
           x == IF Fails(i, r.round) THEN [r EXCEPT !.pc = "errors", !.failed = TRUE]
                ELSE [r EXCEPT !.pc = "barrier", !.done = 0, !.guard = 0]
<1>1. /\ kind = "mpi" /\ r.pc = "build" /\ w' = [w EXCEPT ![i] = x]
      /\ UNCHANGED <<kind, plan, main, ready, go, clock, rows, fragment>>
  BY DEF RankBuild, pool
<1>2. r \in Workers /\ RankInv(i) /\ w \in [Shards -> Workers] /\ plan.round \in Nat /\ r.round \in Nat
  BY <1>1, InRanks, RoundFacts
<1>3. 0 \in 0..Quota /\ 0 \in 0..GuardLimit + 1 /\ 0 <= GuardLimit
  BY ScalingBounds
<1>4. /\ x \in Workers /\ x.round = r.round
      /\ Fails(i, r.round) => x.pc = "errors" /\ x.failed = TRUE
      /\ ~Fails(i, r.round) => x.pc = "barrier" /\ x.failed = r.failed /\ x.guard = 0
  BY <1>2, <1>3 DEF Workers, Collectives
<1> HIDE DEF x
<1>5. w' \in [Shards -> Workers] /\ w'[i] = x /\ \A j \in Shards \ {i} : w'[j] = w[j]
  BY <1>1, <1>2, <1>4
<1>6. r.failed = FALSE
  BY <1>1, <1>2 DEF RankInv, Finishing, Workers
<1>7. RankInv(i)'
  <2>1. CASE Fails(i, r.round)
    <3>1. /\ w'[i].pc = "errors" /\ w'[i].failed = TRUE /\ w'[i].round = plan.round
          /\ i \in plan.who /\ plan' = plan
      BY <1>1, <1>4, <1>5, <2>1 DEF Fails
    <3>2. QED
      BY <3>1 DEF RankInv, Finishing, Collectives
  <2>2. CASE ~Fails(i, r.round)
    <3>1. /\ w'[i].pc = "barrier" /\ w'[i].failed = FALSE /\ w'[i].round = r.round /\ plan' = plan
      BY <1>1, <1>4, <1>5, <1>6, <2>2
    <3>2. i \in plan.who => r.round < plan.round
      BY <1>2, <1>6, <2>2 DEF RankInv, Fails
    <3>3. QED
      BY <3>1, <3>2 DEF RankInv, Finishing, Collectives
  <2>3. QED
    BY <2>1, <2>2
<1>8. Stretch(w'[i]) = Stretch(w[i])
  BY <1>1, <1>4, <1>5, Stretches
<1>9. w'[i].pc \in {"barrier", "run"} => w'[i].guard <= GuardLimit
  BY <1>3, <1>4, <1>5
<1>10. QED
  BY <1>1, <1>5, <1>7, <1>8, <1>9, InRanks, OneRank

LEMMA RankCycleKeeps ==
  ASSUME ScalingInv, kind = "mpi", NEW i \in Shards,
         NEW staged \in 0..Quota, NEW drained \in 0..Quota, Cycle(i, staged, drained)
  PROVE  ScalingInv'
<1> DEFINE r == w[i]
           x == w'[i]
<1>1. /\ r.pc = "run" /\ Worked(r, x) /\ w' \in [Shards -> Workers]
      /\ \A j \in Shards \ {i} : w'[j] = w[j]
      /\ UNCHANGED <<kind, plan, main, ready, go, clock, rows, fragment>>
  BY InRanks, CycleMoves
<1>2. RankInv(i) /\ r.round \in Rounds /\ r.round \in Nat /\ plan.round \in Nat /\ r \in Workers
  BY InRanks, RoundFacts
<1>3. r.failed = FALSE /\ x.failed = FALSE
  BY <1>1, <1>2 DEF RankInv, Finishing, Workers, Worked
<1>4. i \in plan.who => r.round < plan.round
  BY <1>1, <1>2, <1>3 DEF RankInv
<1>5. \/ x.pc = "run" /\ x.round = r.round /\ x.guard <= GuardLimit
      \/ Odd(r.round) /\ x.pc = "build" /\ x.round = r.round + 1
      \/ ~Odd(r.round) /\ x.pc = "reduce" /\ x.round = r.round
  BY <1>1 DEF Worked
<1>6. RankInv(i)'
  <2>1. /\ x.pc \in {"run", "build", "reduce"} /\ (x.pc = "reduce" => ~Odd(x.round))
        /\ i \in plan.who => x.round < plan.round \/ (x.round = plan.round /\ x.pc = "build")
    BY <1>2, <1>4, <1>5
  <2>2. plan' = plan
    BY <1>1
  <2> HIDE DEF x
  <2>3. QED
    BY <1>3, <2>1, <2>2 DEF RankInv, Finishing, Collectives, x
<1>7. Stretch(x) = Stretch(r)
  <2>1. CASE x.pc = "run" /\ x.round = r.round
    BY <1>1, <2>1, Stretches
  <2>2. CASE Odd(r.round) /\ x.pc = "build" /\ x.round = r.round + 1
    <3>1. ~Odd(x.round) /\ x.round - 1 = r.round
      BY <1>2, <2>2, Alternate
    <3>2. Stretch(x) = <<"second", x.round - 1>>
      BY <2>2, <3>1, Stretches
    <3>3. Stretch(r) = <<"second", r.round>>
      BY <1>1, <2>2, Stretches
    <3>4. QED
      BY <3>1, <3>2, <3>3
  <2>3. CASE ~Odd(r.round) /\ x.pc = "reduce" /\ x.round = r.round
    BY <1>1, <2>3, Stretches
  <2>4. QED
    BY <1>5, <2>1, <2>2, <2>3
<1>8. x.pc \in {"barrier", "run"} => x.guard <= GuardLimit
  BY <1>5
<1>9. QED
  BY <1>1, <1>6, <1>7, <1>8, InRanks, OneRank

LEMMA RankEndKeeps ==
  ASSUME ScalingInv, NEW i \in Shards, NEW stored \in BOOLEAN, RankEnd(i, stored)
  PROVE  ScalingInv'
<1>1. /\ kind = "mpi" /\ w[i].pc = "write" /\ w' = [w EXCEPT ![i].pc = "ended"]
      /\ UNCHANGED <<kind, plan, main, ready, go, clock, rows>>
      /\ fragment' = IF i # 1 THEN fragment
                     ELSE [tried |-> TRUE, written |-> stored, available |-> ~w[i].all_error]
  BY DEF RankEnd, pool
<1>2. "ended" \in Pcs /\ w \in [Shards -> Workers] /\ RankInv(i)
  BY <1>1, InRanks DEF Pcs
<1>3. /\ w' \in [Shards -> Workers] /\ w'[i].pc = "ended" /\ w'[i].round = w[i].round
      /\ w'[i].failed = w[i].failed /\ w'[i].all_error = w[i].all_error
      /\ \A j \in Shards \ {i} : w'[j] = w[j]
  BY <1>1, <1>2, MovesTo DEF Moved
<1>4. RankInv(i)'
  BY <1>1, <1>2, <1>3 DEF RankInv, Finishing
<1>5. Stretch(w'[i]) = Stretch(w[i])
  BY <1>1, <1>3, Stretches
<1>6. w[i].all_error <=> plan.who # {}
  BY <1>1, <1>2 DEF RankInv
<1>7. fragment'.written => (fragment'.available <=> plan.who = {})
  <2>1. CASE i # 1
    BY <1>1, <2>1, InRanks
  <2>2. CASE i = 1
    <3>1. fragment'.available <=> ~w[i].all_error
      BY <1>1, <2>2
    <3>2. QED
      BY <1>6, <3>1
  <2>3. QED
    BY <2>1, <2>2
<1>8. QED
  BY <1>1, <1>3, <1>4, <1>5, <1>7, OneRank


\* What a rank does after a collective call.
Resumed(q, x, any) ==
  /\ x \in Workers /\ x.failed = q.failed /\ x.guard = q.guard
  /\ \/ q.pc = "gather" /\ x.pc = "build" /\ x.round = q.round
     \/ q.pc = "barrier" /\ x.pc = "run" /\ x.round = q.round
     \/ q.pc = "reduce" /\ q.round < 2 * Reps /\ x.pc = "build" /\ x.round = q.round + 1
     \/ q.pc = "reduce" /\ q.round = 2 * Reps /\ x.pc = "errors" /\ x.round = q.round
     \/ q.pc = "errors" /\ x.pc = "coordination" /\ x.round = q.round /\ x.all_error = any
     \/ q.pc = "coordination" /\ x.pc = "write" /\ x.round = q.round /\ x.all_error = q.all_error

LEMMA ResumedFields ==
  ASSUME NEW q \in Workers, q.pc \in Collectives, NEW any \in BOOLEAN
  PROVE  Resumed(q, AfterCollective(q, any), any)
<1> DEFINE x == AfterCollective(q, any)
<1>0. q.round \in Rounds /\ q.round \in Nat /\ q.round <= 2 * Reps
  BY RoundFacts DEF Workers
<1>1. CASE q.pc = "gather"
  <2>1. x = [q EXCEPT !.pc = "build"]
    BY <1>1 DEF AfterCollective
  <2>2. QED
    BY <1>1, <2>1 DEF Resumed, Workers
<1>2. CASE q.pc = "barrier"
  <2>1. x = [q EXCEPT !.pc = "run"]
    BY <1>2 DEF AfterCollective
  <2>2. QED
    BY <1>2, <2>1 DEF Resumed, Workers
<1>3. CASE q.pc = "reduce" /\ q.round < 2 * Reps
  <2> DEFINE n == q.round + 1
  <2>1. x = [q EXCEPT !.pc = "build", !.round = n]
    BY <1>3 DEF AfterCollective
  <2>2. n \in Rounds
    BY <1>0, <1>3, RoundFacts
  <2> HIDE DEF n, x
  <2>3. /\ x \in Workers /\ x.failed = q.failed /\ x.guard = q.guard
        /\ x.pc = "build" /\ x.round = n
    BY <2>1, <2>2 DEF Workers
  <2>4. QED
    BY <1>3, <2>3 DEF Resumed, n, x
<1>4. CASE q.pc = "reduce" /\ ~(q.round < 2 * Reps)
  <2>1. x = [q EXCEPT !.pc = "errors"] /\ q.round = 2 * Reps
    BY <1>0, <1>4, ScalingBounds DEF AfterCollective
  <2>2. QED
    BY <1>4, <2>1 DEF Resumed, Workers, Collectives
<1>5. CASE q.pc = "errors"
  <2>1. x = [q EXCEPT !.pc = "coordination", !.all_error = any]
    BY <1>5 DEF AfterCollective
  <2> HIDE DEF x
  <2>2. /\ x \in Workers /\ x.failed = q.failed /\ x.guard = q.guard
        /\ x.pc = "coordination" /\ x.round = q.round /\ x.all_error = any
    BY <2>1 DEF Workers, Collectives
  <2>3. QED
    BY <1>5, <2>2 DEF Resumed, x
<1>6. CASE q.pc = "coordination"
  <2>1. x = [q EXCEPT !.pc = "write"]
    BY <1>6 DEF AfterCollective
  <2>2. QED
    BY <1>6, <2>1 DEF Resumed, Workers
<1>7. QED
  BY <1>1, <1>2, <1>3, <1>4, <1>5, <1>6 DEF Collectives

\* Two ranks of one stretch that wait in the same call are in the same round.
LEMMA SameRound ==
  ASSUME NEW q \in Workers, NEW r \in Workers, q.pc = r.pc, q.pc \in {"barrier", "reduce"},
         Stretch(q) = Stretch(r)
  PROVE  q.round = r.round
<1>1. q.round \in Nat /\ r.round \in Nat
  BY RoundFacts DEF Workers
<1>2. CASE q.pc = "reduce"
  <2>1. <<"third", q.round>> = <<"third", r.round>>
    BY <1>2, Stretches
  <2>2. QED
    BY <2>1
<1>3. CASE q.pc = "barrier"
  <2>1. (IF Odd(q.round) THEN <<"first", q.round>> ELSE <<"second", q.round - 1>>) =
        (IF Odd(r.round) THEN <<"first", r.round>> ELSE <<"second", r.round - 1>>)
    BY <1>3, Stretches
  <2>2. QED
    BY <1>1, <2>1
<1>4. QED
  BY <1>2, <1>3

LEMMA CollectiveKeeps == ASSUME ScalingInv, NEW c \in Collectives, Collective(c) PROVE ScalingInv'
<1> DEFINE any == \E j \in Shards : w[j].failed
<1>1. /\ kind = "mpi" /\ \A i \in Shards : w[i].pc = c
      /\ w' = [i \in Shards |-> AfterCollective(w[i], any)]
      /\ UNCHANGED <<kind, plan, main, ready, go, clock, rows, fragment>>
  BY DEF Collective, pool
<1>2. any \in BOOLEAN
  OBVIOUS
<1> HIDE DEF any
<1>3. ASSUME NEW i \in Shards
      PROVE  /\ Resumed(w[i], w'[i], any) /\ w[i] \in Workers /\ w'[i] \in Workers
             /\ RankInv(i) /\ w[i].pc = c
             /\ w[i].round \in Nat /\ w[i].round <= 2 * Reps
             /\ w[i].failed \in BOOLEAN /\ w[i].all_error \in BOOLEAN
  <2>1. w[i] \in Workers /\ RankInv(i) /\ w[i].round \in Rounds /\ w[i].pc \in Collectives /\ w[i].pc = c
    BY <1>1, InRanks
  <2>2. w'[i] = AfterCollective(w[i], any)
    BY <1>1
  <2>3. Resumed(w[i], w'[i], any)
    BY <1>2, <2>1, <2>2, ResumedFields
  <2>4. w[i].failed \in BOOLEAN /\ w[i].all_error \in BOOLEAN
    BY <2>1 DEF Workers
  <2>5. QED
    BY <2>1, <2>3, <2>4, RoundFacts DEF Resumed
<1>4. w' \in [Shards -> Workers]
  <2>1. \A i \in Shards : AfterCollective(w[i], any) \in Workers
    BY <1>1, <1>3
  <2>2. QED
    BY <1>1, <2>1
<1>5. plan.round \in Nat /\ plan.round <= 2 * Reps /\ plan.who \subseteq Shards /\ 2 * Reps \in Nat
  BY <1>1, InRanks, Fields, RoundFacts, ScalingBounds
<1>6. ASSUME c = "errors" PROVE any <=> plan.who # {}
  <2>1. ASSUME NEW j \in Shards, w[j].failed PROVE j \in plan.who
    BY <1>3, <2>1 DEF RankInv
  <2>2. ASSUME NEW j \in plan.who PROVE w[j].failed
    <3>1. j \in Shards
      BY <1>5
    <3>2. SUFFICES ASSUME ~w[j].failed PROVE FALSE
      OBVIOUS
    <3>3. w[j].round = 2 * Reps
      BY <1>3, <1>6, <3>1, <3>2 DEF RankInv, Finishing
    <3>4. w[j].round < plan.round
      BY <1>3, <1>6, <3>1, <3>2 DEF RankInv
    <3>5. QED
      BY <1>5, <3>3, <3>4
  <2>3. QED
    BY <1>5, <2>1, <2>2 DEF any
<1>7. ASSUME NEW i \in Shards PROVE RankInv(i)'
  <2> DEFINE r == w[i]
             x == w'[i]
  <2>1. /\ Resumed(r, x, any) /\ RankInv(i) /\ r.pc = c /\ plan' = plan
        /\ r.round \in Nat /\ r.round <= 2 * Reps /\ x.failed = r.failed
    BY <1>1, <1>3 DEF Resumed
  <2>2. CASE c = "gather"
    <3>1. x.pc = "build" /\ x.round = r.round
      BY <2>1, <2>2 DEF Resumed
    <3>2. QED
      BY <2>1, <2>2, <3>1 DEF RankInv, Finishing
  <2>3. CASE c = "barrier"
    <3>1. x.pc = "run" /\ x.round = r.round
      BY <2>1, <2>3 DEF Resumed
    <3>2. QED
      BY <2>1, <2>3, <3>1 DEF RankInv, Finishing
  <2>4. CASE c = "reduce"
    <3>1. ~r.failed /\ (i \in plan.who => r.round < plan.round)
      BY <2>1, <2>4 DEF RankInv, Finishing
    <3>2. CASE r.round < 2 * Reps /\ x.pc = "build" /\ x.round = r.round + 1
      <4>1. i \in plan.who => x.round < plan.round \/ x.round = plan.round
        BY <1>5, <2>1, <3>1, <3>2
      <4>2. QED
        BY <2>1, <3>1, <3>2, <4>1 DEF RankInv, Finishing
    <3>3. CASE r.round = 2 * Reps /\ x.pc = "errors" /\ x.round = r.round
      <4>1. i \notin plan.who
        BY <1>5, <2>1, <3>1, <3>3
      <4>2. QED
        BY <2>1, <3>1, <3>3, <4>1 DEF RankInv, Finishing, Collectives
    <3>4. QED
      BY <2>1, <2>4, <3>2, <3>3 DEF Resumed
  <2>5. CASE c = "errors"
    <3>1. x.pc = "coordination" /\ x.round = r.round /\ x.all_error = any
      BY <2>1, <2>5 DEF Resumed
    <3>2. x.all_error <=> plan.who # {}
      BY <1>6, <2>5, <3>1
    <3>3. QED
      BY <2>1, <2>5, <3>1, <3>2 DEF RankInv, Finishing, Collectives
  <2>6. CASE c = "coordination"
    <3>1. x.pc = "write" /\ x.round = r.round /\ x.all_error = r.all_error
      BY <2>1, <2>6 DEF Resumed
    <3>2. QED
      BY <2>1, <2>6, <3>1 DEF RankInv, Finishing
  <2>7. QED
    BY <2>2, <2>3, <2>4, <2>5, <2>6 DEF Collectives
<1>8. ASSUME NEW i \in Shards, NEW j \in Shards PROVE Stretch(w'[i]) = Stretch(w'[j])
  <2> DEFINE q == w[i]
             r == w[j]
             x == w'[i]
             y == w'[j]
  <2>1. /\ Resumed(q, x, any) /\ Resumed(r, y, any) /\ q.pc = c /\ r.pc = c
        /\ RankInv(i) /\ RankInv(j) /\ Stretch(q) = Stretch(r) /\ q \in Workers /\ r \in Workers
    BY <1>1, <1>3, InRanks
  <2>2. CASE c = "gather"
    <3>1. x.pc = "build" /\ y.pc = "build" /\ x.round = 1 /\ y.round = 1
      BY <2>1, <2>2 DEF Resumed, RankInv
    <3>2. QED
      BY <3>1, Stretches
  <2>3. CASE c = "barrier"
    <3>1. q.round = r.round
      BY <2>1, <2>3, SameRound
    <3>2. x.pc = "run" /\ y.pc = "run" /\ x.round = y.round
      BY <2>1, <2>3, <3>1 DEF Resumed
    <3>3. QED
      BY <3>2, Stretches
  <2>4. CASE c = "reduce"
    <3>1. q.round = r.round
      BY <2>1, <2>4, SameRound
    <3>2. ~x.failed /\ ~y.failed
      BY <2>1, <2>4 DEF Resumed, RankInv, Finishing
    <3>3. x.pc = y.pc /\ x.round = y.round /\ x.pc \in {"build", "errors"}
      BY <1>3, <2>1, <2>4, <3>1 DEF Resumed
    <3>4. QED
      BY <3>2, <3>3, Stretches
  <2>5. CASE c = "errors"
    BY <2>1, <2>5, Stretches DEF Resumed
  <2>6. CASE c = "coordination"
    BY <2>1, <2>6, Stretches DEF Resumed
  <2>7. QED
    BY <2>2, <2>3, <2>4, <2>5, <2>6 DEF Collectives
<1>9. Patient'
  <2>1. ASSUME NEW i \in Shards, w'[i].pc \in {"barrier", "arrive", "spin", "run"}
        PROVE  w'[i].guard <= GuardLimit
    <3>1. w[i].pc = "barrier" /\ w'[i].guard = w[i].guard
      BY <1>3, <2>1 DEF Resumed
    <3>2. QED
      BY <1>1, <3>1, InRanks DEF Patient
  <2>2. QED
    BY <2>1 DEF Patient
<1>10. QED
  BY <1>1, <1>4, <1>7, <1>8, <1>9, InRanks, RanksStep

\* Every step of the ranks.
LEMMA RanksKeep == ASSUME ScalingInv, kind = "mpi", ScalingNext PROVE ScalingInv'
<1>1. \A i \in Shards : w[i].pc \in Collectives \cup {"build", "run", "write", "ended"}
  BY InRanks DEF RankInv
<1>2. CASE Main
  BY <1>2, InRanks DEF Main, Permission, BuildShard, Spawn, StartClock, Go, Join, EndRow
<1>3. CASE Joint
  BY <1>3, CollectiveKeeps DEF Joint, ImpliedBarrier
<1>4. ASSUME NEW i \in Shards, Worker(i) PROVE ScalingInv'
  <2>1. ~Single(i) /\ ~Arrive(i) /\ ~Released(i)
    BY <1>1 DEF Single, Arrive, Released, Collectives
  <2>2. QED
    BY <1>4, <2>1, RankBuildKeeps, RankEndKeeps, RankCycleKeeps DEF Worker
<1>5. CASE UNCHANGED scalingVars
  <2>1. UNCHANGED <<kind, plan, main, w, ready, go, clock, rows, fragment>>
    BY <1>5 DEF scalingVars
  <2>2. Patient'
    BY <2>1, InRanks DEF Patient
  <2>3. \A i \in Shards : RankInv(i)'
    BY <2>1, InRanks DEF RankInv
  <2>4. QED
    BY <2>1, <2>2, <2>3, InRanks, RanksStep
<1>6. QED
  BY <1>2, <1>3, <1>4, <1>5 DEF ScalingNext

LEMMA ScalingStep == ScalingInv /\ [ScalingNext]_scalingVars => ScalingInv'
<1> SUFFICES ASSUME ScalingInv, [ScalingNext]_scalingVars PROVE ScalingInv'
  OBVIOUS
<1>1. CASE ScalingNext
  BY <1>1, PoolKeeps, RanksKeep
<1>2. CASE UNCHANGED scalingVars
  <2>1. UNCHANGED <<kind, plan, main, w, ready, go, clock, rows, fragment>>
    BY <1>2 DEF scalingVars
  <2>2. ScalingTyped' /\ Patient'
    BY <2>1 DEF ScalingInv, ScalingTyped, Patient
  <2>3. PoolInv'
    BY <2>1 DEF ScalingInv, PoolInv, Together, CountedIn, Reached, Tallied, RowsCountWholePools,
                Team, Arrived
  <2>4. RanksInv'
    BY <2>1 DEF ScalingInv, RanksInv, RankInv
  <2>5. QED
    BY <2>2, <2>3, <2>4 DEF ScalingInv
<1>3. QED
  BY <1>1, <1>2

-----------------------------------------------------------------------------
(***************************************************************************)
(* Threads, teams and ranks stay within the inductive invariant, whatever  *)
(* their interleaving and whichever shards cannot be built.                *)
(***************************************************************************)
THEOREM ScalingInvariance == ScalingSpec => []ScalingInv
<1>1. QED
  BY ScalingInitInv, ScalingStep, PTL DEF ScalingSpec

(***************************************************************************)
(* No shard works outside the wall time it is divided by, nor before every *)
(* shard of its round has arrived: with the spin barrier of run_pool(),    *)
(* with OpenMP's single region and with MPI_Barrier alike.                 *)
(***************************************************************************)
THEOREM AlwaysTimedTogether == ScalingSpec => []TimedTogether
<1>1. ScalingInv => TimedTogether
  <2> SUFFICES ASSUME ScalingInv PROVE TimedTogether
    OBVIOUS
  <2>1. ScalingTypeOK
    BY DEF ScalingTypeOK, ScalingInv, ScalingTyped, Mains, Workers, Row
  <2>2. ASSUME NEW i \in Shards, w[i].pc = "run", kind # "mpi"
        PROVE  clock = "on" /\ \A j \in Team : w[j].pc \in Arrived
    <3>1. i \in Team /\ main.pc \in Filling
      BY <2>2, InTeam
    <3>2. QED
      BY <2>2, <3>1, InPool DEF Together, Filling
  <2>3. ASSUME NEW i \in Shards, w[i].pc = "run", kind = "mpi", NEW j \in Shards
        PROVE  AtBarrier(j, w[i].round)
    <3> DEFINE q == w[i]
               r == w[j]
    <3>1. Stretch(q) = Stretch(r) /\ RankInv(j) /\ q.round \in Nat /\ r.round \in Nat
      BY <2>3, InRanks, RoundFacts
    <3>2. Stretch(q) = IF Odd(q.round) THEN <<"second", q.round>> ELSE <<"third", q.round>>
      BY <2>3, Stretches
    <3>3. Stretch(q)[1] \in {"second", "third"} /\ Stretch(q)[2] = q.round
      BY <3>2
    <3>4. r.pc # "gather"
      <4>1. r.pc = "gather" => Stretch(r)[1] = "gather"
        BY Stretches
      <4>2. QED
        BY <3>1, <3>3, <4>1
    <3>5. CASE r.pc \in {"build", "barrier"}
      <4>1. Stretch(r) = IF Odd(r.round) THEN <<"first", r.round>> ELSE <<"second", r.round - 1>>
        BY <3>5, Stretches
      <4>2. r.round - 1 = q.round
        BY <3>1, <3>3, <4>1
      <4>3. r.round > q.round
        BY <3>1, <4>2
      <4>4. QED
        BY <4>3 DEF AtBarrier
    <3>6. CASE r.pc = "errors" /\ r.failed
      <4>1. Stretch(r) = IF Odd(r.round) THEN <<"first", r.round>> ELSE <<"second", r.round - 1>>
        BY <3>6, Stretches
      <4>2. r.round - 1 = q.round
        BY <3>1, <3>3, <4>1
      <4>3. r.round > q.round
        BY <3>1, <4>2
      <4>4. QED
        BY <4>3 DEF AtBarrier
    <3>7. CASE r.pc \in {"run", "reduce"}
      <4>1. Stretch(r)[2] = r.round
        BY <3>7, Stretches
      <4>2. QED
        BY <3>1, <3>3, <3>7, <4>1 DEF AtBarrier
    <3>8. CASE (r.pc = "errors" /\ ~r.failed) \/ r.pc \in {"coordination", "write", "ended"}
      <4>1. Stretch(r)[1] \in {"errors", "coordination", "end"}
        BY <3>8, Stretches
      <4>2. QED
        BY <3>1, <3>3, <4>1
    <3>9. QED
      BY <3>1, <3>4, <3>5, <3>6, <3>7, <3>8 DEF RankInv, Collectives
  <2>4. QED
    BY <2>1, <2>2, <2>3 DEF TimedTogether
<1>2. QED
  BY <1>1, ScalingInvariance, PTL

(***************************************************************************)
(* A row of E2 counts the pools that ran with all their shards, and the    *)
(* fragment of lr_mpi_scale is available exactly when no rank failed.      *)
(***************************************************************************)
THEOREM RowsAlwaysWhole == ScalingSpec => []RowsCountWholePools
<1>1. ScalingInv => RowsCountWholePools
  <2> SUFFICES ASSUME ScalingInv PROVE RowsCountWholePools
    OBVIOUS
  <2>1. CASE kind # "mpi"
    BY <2>1, InPool
  <2>2. CASE kind = "mpi"
    BY <2>2, InRanks DEF RowsCountWholePools
  <2>3. QED
    BY <2>1, <2>2
<1>2. QED
  BY <1>1, ScalingInvariance, PTL

(***************************************************************************)
(* Ranks that wait in collective calls wait in the same one, whichever     *)
(* ranks fail, but for the pair lr_mpi_scale.cpp:67 makes: a rank that     *)
(* failed in a round and one that waits at the barrier of that round.      *)
(***************************************************************************)
THEOREM CallsAlwaysMatch == ScalingSpec => []CollectivesMatch
<1>1. ScalingInv => CollectivesMatch
  <2> SUFFICES ASSUME ScalingInv, NEW i \in Shards, NEW j \in Shards,
                      {w[i].pc, w[j].pc} \subseteq Collectives, w[i].pc # w[j].pc
               PROVE  /\ {w[i].pc, w[j].pc} = {"errors", "barrier"}
                      /\ w[i].failed # w[j].failed /\ w[i].round = w[j].round
    BY DEF CollectivesMatch
  <2>1. kind = "mpi"
    <3>1. SUFFICES ASSUME kind # "mpi" PROVE FALSE
      OBVIOUS
    <3>2. w[i].pc \in {"none", "ended"} \/ (i \in Team /\ main.pc \in Filling)
      BY <3>1, InTeam
    <3>3. w[i].pc \in {"none", "ended", "single", "implied", "arrive", "spin", "run"}
      BY <3>1, <3>2, InPool DEF Together, Filling, Arrived
    <3>4. QED
      BY <3>3 DEF Collectives
  <2>2. /\ Stretch(w[i]) = Stretch(w[j])
        /\ \A a \in Shards : RankInv(a) /\ w[a].round \in Nat /\ w[a].failed \in BOOLEAN
    BY <2>1, InRanks, RoundFacts DEF Workers
  <2>3. \A a \in Shards : w[a].pc = "gather" => Stretch(w[a])[1] = "gather"
    BY Stretches
  <2>4. \A a \in Shards : w[a].pc = "barrier" => Stretch(w[a])[1] \in {"first", "second"}
    BY Stretches
  <2>5. \A a \in Shards : w[a].pc = "reduce" => Stretch(w[a])[1] = "third"
    BY Stretches
  <2>6. \A a \in Shards : w[a].pc = "errors" =>
          Stretch(w[a])[1] \in IF w[a].failed THEN {"first", "second"} ELSE {"errors"}
    BY Stretches
  <2>7. \A a \in Shards : w[a].pc = "coordination" => Stretch(w[a])[1] = "coordination"
    BY Stretches
  <2>8. {w[i].pc, w[j].pc} = {"errors", "barrier"}
    BY <2>2, <2>3, <2>4, <2>5, <2>6, <2>7 DEF Collectives
  <2>9. ASSUME NEW a \in Shards, NEW b \in Shards, w[a].pc = "barrier", w[b].pc = "errors",
               Stretch(w[a]) = Stretch(w[b])
        PROVE  w[a].failed = FALSE /\ w[b].failed = TRUE /\ w[a].round = w[b].round
    <3>1. w[a].failed = FALSE
      BY <2>2, <2>9 DEF RankInv, Finishing
    <3>2. w[b].failed = TRUE
      BY <2>2, <2>4, <2>6, <2>9
    <3>3. Stretch(w[a]) = IF Odd(w[a].round) THEN <<"first", w[a].round>> ELSE <<"second", w[a].round - 1>>
      BY <2>9, Stretches
    <3>4. Stretch(w[b]) = IF Odd(w[b].round) THEN <<"first", w[b].round>> ELSE <<"second", w[b].round - 1>>
      BY <2>9, <3>2, Stretches
    <3> DEFINE m == w[a].round
               n == w[b].round
    <3>5. m \in Nat /\ n \in Nat
      BY <2>2
    <3>6. (IF Odd(m) THEN <<"first", m>> ELSE <<"second", m - 1>>)
          = (IF Odd(n) THEN <<"first", n>> ELSE <<"second", n - 1>>)
      BY <2>9, <3>3, <3>4
    <3> HIDE DEF m, n
    <3>7. m = n
      BY <3>5, <3>6
    <3>8. QED
      BY <3>1, <3>2, <3>7 DEF m, n
  <2>10. CASE w[i].pc = "barrier" /\ w[j].pc = "errors"
    BY <2>2, <2>8, <2>9, <2>10
  <2>11. CASE w[i].pc = "errors" /\ w[j].pc = "barrier"
    BY <2>2, <2>8, <2>9, <2>11
  <2>12. QED
    BY <2>8, <2>10, <2>11
<1>2. QED
  BY <1>1, ScalingInvariance, PTL
===============================================================================
