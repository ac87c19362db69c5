----------------------------- MODULE WireProofs -----------------------------
(***************************************************************************)
(* Proofs about the data plane with a peer, for every window, every rekey  *)
(* period of either side, every batch and queue size, and whatever the     *)
(* network loses, duplicates, reorders and damages.                        *)
(*                                                                         *)
(* The argument: the sequence number an undamaged datagram carries is the  *)
(* identity of the packet (Incoming), the window is exact for the numbers  *)
(* of the packets that passed it (lemmas of DataPlaneFacts), so a number   *)
(* passes once; and what is forwarded passed it undamaged.                 *)
(***************************************************************************)
EXTENDS WirePath, DataPlaneFacts

Secrets == {Secret, GenSecret}

\* The bodies of sealed packets, and what damage leaves of one.
SealedBodies ==
  [key : Materials(Secrets) \cup {NoKey}, nonce : Materials(Secrets) \X Nat,
   aad : Epochs \X Nat \X Nat]

Datagrams ==
  [wellFormed : BOOLEAN, epoch : Epochs, seq : Nat, tsc : Nat,
   body : SealedBodies \cup {<<>>}]

(***************************************************************************)
(* What can be in the network and beyond, when g is the schedule of the    *)
(* generator: a stray, or a packet of the generator, whose origin is its   *)
(* number unless it is damaged; and, when the generator never rekeys,      *)
(* sealed under its one key or damaged.                                    *)
(***************************************************************************)
BodyFor(g, s) ==
  [key |-> g.aead[0], nonce |-> <<g.aead[0], s>>, aad |-> <<0, s, s>>]

Genuine(g, d) ==
  /\ d.body # <<>> => d.tsc = d.seq
  /\ GenPeriod = 0 => d.epoch = 0 /\ d.body \in {<<>>, BodyFor(g, d.seq)}

Incoming(g) == {d \in Datagrams : d.wellFormed => Genuine(g, d)}

Outcomes == {"skip", "replayed", "unauthentic", "forward", "unsealed"}

Fates(g) == [d : Incoming(g), what : Outcomes]

\* The types, in the detail the proofs need, and how full the buffers are.
Typed ==
  /\ keys \in Schedules(Secrets, {Period}) /\ Aligned(keys)
  /\ gkeys \in Schedules(Secrets, {GenPeriod}) /\ Aligned(gkeys)
  /\ win \in Window
  /\ seq \in Nat
  /\ st \in [packets : Nat, auth_fail : Nat, replay_drop : Nat, rekeys : Nat]
  /\ call \in [active : BOOLEAN, budget : Nat, processed : Nat, n : Nat]
  /\ net \in Seq(Incoming(gkeys)) /\ rxq \in Seq(Incoming(gkeys))
  /\ batch \in Seq(Incoming(gkeys))
  /\ fates \in Seq(Fates(gkeys))
  /\ out \in Seq(Datagrams) /\ egress \in Seq(Datagrams)
  /\ reused \in BOOLEAN
  /\ gseq \in 0 .. MaxSent
  /\ lost \in 0 .. MaxLost /\ duplicated \in 0 .. MaxDuplicated
  /\ damaged \in 0 .. MaxDamaged /\ strays \in 0 .. MaxStray
  /\ refused \in 0 .. MaxRefused

Buffered ==
  /\ Len(net) <= gseq /\ Len(rxq) <= RxCap
  /\ Len(batch) + Len(out) <= call.n /\ call.n <= MaxBatch
  /\ call.n > 0 => call.active

\* A side that never rekeys stays in epoch 0 with one key.
OneKey ==
  /\ Period = 0 => keys.epoch = 0 /\ keys.aead[1] = NoKey
  /\ GenPeriod = 0 => gkeys.epoch = 0 /\ gkeys.aead[1] = NoKey

\* The numbers of the packets that passed the window.
Passed(f) ==
  {f[j].d.seq : j \in {i \in DOMAIN f : f[i].d.wellFormed /\ f[i].what # "replayed"}}

WindowTrue == Replay => Exact(win, Passed(fates))

\* Nothing has been sealed under a number not yet given out.
Sealing ==
  /\ ~reused
  /\ sealed \subseteq (Materials(Secrets) \cup {NoKey}) \X (Materials(Secrets) \X Nat)
  /\ \A p \in sealed : p[2][2] < seq

NoneUnsealed == \A j \in DOMAIN fates : fates[j].what # "unsealed"

Numbered ==
  /\ \A i \in DOMAIN Forwarded : Forwarded[i].seq < seq
  /\ \A i \in DOMAIN Forwarded : \A j \in 1 .. i - 1 : Forwarded[j].seq < Forwarded[i].seq
  /\ NoneUnsealed =>
       /\ seq = Len(Forwarded)
       /\ \A i \in DOMAIN Forwarded : Forwarded[i].seq = i - 1

\* What was forwarded came in undamaged, and passed the window.
Traced ==
  \A i \in DOMAIN Forwarded :
    \E j \in DOMAIN fates :
      /\ fates[j].what = "forward" /\ Intact(fates[j].d)
      /\ fates[j].d.tsc = Forwarded[i].tsc

Distinct ==
  Replay => \A i, j \in DOMAIN Forwarded : Forwarded[i].tsc = Forwarded[j].tsc => i = j

Justified == \A i \in DOMAIN fates : fates[i].what = "replayed" => PastWindow(i)

IInv ==
  /\ Typed /\ Buffered /\ OneKey
  /\ WindowTrue /\ Sealing
  /\ Numbered /\ Traced /\ Distinct
  /\ Justified /\ (SameKey => OnlyDamageFailsAuth)
-----------------------------------------------------------------------------
(***************************************************************************)
(* Datagrams.                                                              *)
(***************************************************************************)

\* A sealed body is not what damage leaves.
LEMMA BodyIsSome ==
  ASSUME NEW k, NEW n, NEW a
  PROVE  [key |-> k, nonce |-> n, aad |-> a] # <<>>
<1>1. DOMAIN [key |-> k, nonce |-> n, aad |-> a] = {"key", "nonce", "aad"}
  OBVIOUS
<1>2. DOMAIN <<>> = {}
  OBVIOUS
<1>3. QED
  BY <1>1, <1>2

\* The datagram a schedule seals.
LEMMA SealedFields ==
  ASSUME NEW P, NEW k \in Schedules(Secrets, P), NEW s \in Nat, NEW t \in Nat
  PROVE  LET o == SealedFor(k, s, t)
         IN  /\ o \in Datagrams
             /\ o.wellFormed = TRUE /\ o.epoch = k.epoch /\ o.seq = s /\ o.tsc = t
             /\ o.body \in SealedBodies /\ o.body # <<>>
             /\ o.body.key = ForEpoch(k, k.epoch)
             /\ o.body.nonce = <<NonceSalt(k, k.epoch), s>>
             /\ o.body = [key |-> ForEpoch(k, k.epoch),
                          nonce |-> <<NonceSalt(k, k.epoch), s>>,
                          aad |-> <<k.epoch, s, t>>]
<1> DEFINE key == ForEpoch(k, k.epoch)
           salt == NonceSalt(k, k.epoch)
           ep == k.epoch
           body == [key |-> key, nonce |-> <<salt, s>>, aad |-> <<ep, s, t>>]
<1>1. ep \in Epochs
  BY DEF Schedules
<1>2. key \in Materials(Secrets) \cup {NoKey} /\ salt \in Materials(Secrets)
  BY AnswerTypes
<1>3. SealedFor(k, s, t) =
        [wellFormed |-> TRUE, epoch |-> ep, seq |-> s, tsc |-> t, body |-> body]
  BY DEF SealedFor, Sealed, Nonce
<1> HIDE DEF key, salt, ep
<1>4. body \in SealedBodies
  BY <1>1, <1>2 DEF SealedBodies
<1>5. body # <<>>
  BY BodyIsSome
<1>6. body.key = key /\ body.nonce = <<salt, s>>
  OBVIOUS
<1>7. SealedFor(k, s, t) \in Datagrams
  <2> HIDE DEF body
  <2>1. QED
    BY <1>1, <1>3, <1>4 DEF Datagrams
<1>8. QED
  BY <1>3, <1>4, <1>5, <1>6, <1>7 DEF key, salt, ep

\* The numbers of datagrams are numbers.
LEMMA SeqsAreNumbers ==
  ASSUME NEW s \in Seq(Datagrams), NEW i \in DOMAIN s
  PROVE  s[i].seq \in Nat
<1>1. s[i] \in Datagrams
  OBVIOUS
<1>2. QED
  BY <1>1 DEF Datagrams

LEMMA StrayComesIn == ASSUME NEW g PROVE Stray \in Incoming(g)
<1>1. 0 \in Epochs
  BY EpochModAssumption DEF Epochs
<1>2. Stray \in Datagrams
  BY <1>1 DEF Stray, Datagrams
<1>3. QED
  BY <1>2 DEF Incoming, Stray

\* What damage leaves of a datagram is one that can come in.
LEMMA DamagedComesIn ==
  ASSUME NEW g, NEW d \in Incoming(g), NEW s \in Nat
  PROVE  [d EXCEPT !.seq = s, !.body = <<>>] \in Incoming(g)
<1> DEFINE e == [d EXCEPT !.seq = s, !.body = <<>>]
<1>1. d \in Datagrams /\ (d.wellFormed => Genuine(g, d))
  BY DEF Incoming
<1>2. e \in Datagrams
  BY <1>1 DEF Datagrams
<1>3. /\ e.wellFormed = d.wellFormed /\ e.epoch = d.epoch /\ e.seq = s
      /\ e.tsc = d.tsc /\ e.body = <<>>
  BY <1>1 DEF Datagrams
<1> HIDE DEF e
<1>4. e.wellFormed => Genuine(g, e)
  BY <1>1, <1>3 DEF Genuine
<1>5. e \in Incoming(g)
  BY <1>2, <1>4 DEF Incoming
<1>6. QED
  BY <1>5 DEF e

\* The generator's packets are genuine, and a generator that never rekeys
\* keeps its schedule.
LEMMA EmitsGenuine ==
  ASSUME NEW g \in Schedules(Secrets, {GenPeriod}), Aligned(g),
         GenPeriod = 0 => g.epoch = 0 /\ g.aead[1] = NoKey,
         NEW s \in Nat, NEW hk \in HkdfCalls
  PROVE  LET n == MaybeRekey(g, s, hk)
         IN  /\ n \in Schedules(Secrets, {GenPeriod}) /\ Aligned(n)
             /\ GenPeriod = 0 => n = g
             /\ SealedFor(n, s, s) \in Incoming(n)
             /\ Incoming(n) = Incoming(g)
<1> DEFINE n == MaybeRekey(g, s, hk)
           o == SealedFor(n, s, s)
<1>0. g.perEpoch = GenPeriod /\ {GenPeriod} \in SUBSET Nat
  BY WirePathAssumption DEF Schedules
<1>1. n \in Schedules(Secrets, {GenPeriod}) /\ Aligned(n)
  BY <1>0, MaybeRekeyAligned, WirePathAssumption DEF Secrets
<1>2. GenPeriod = 0 => n = g
  BY <1>0 DEF MaybeRekey, NeedsRekey
<1> HIDE DEF n
<1>3. Incoming(n) = Incoming(g)
  BY <1>2 DEF Incoming, Genuine
<1>4. /\ o \in Datagrams /\ o.seq = s /\ o.tsc = s /\ o.epoch = n.epoch
      /\ o.body = [key |-> ForEpoch(n, n.epoch),
                   nonce |-> <<NonceSalt(n, n.epoch), s>>,
                   aad |-> <<n.epoch, s, s>>]
  <2>1. o \in Datagrams
    BY <1>1, SealedFields
  <2>2. QED
    BY <2>1 DEF SealedFor, Sealed, Nonce
<1>5. ASSUME GenPeriod = 0 PROVE o.epoch = 0 /\ o.body = BodyFor(n, s)
  <2>1. n.epoch = 0 /\ n.aead[1] = NoKey
    BY <1>2, <1>5
  <2>2. ForEpoch(n, 0) = n.aead[0] /\ NonceSalt(n, 0) = n.aead[0]
    BY <1>1, <2>1 DEF Aligned, ForEpoch, NonceSalt
  <2>3. QED
    BY <1>4, <2>1, <2>2 DEF BodyFor
<1>6. o \in Incoming(n)
  <2> HIDE DEF o
  <2>1. QED
    BY <1>4, <1>5 DEF Incoming, Genuine
<1>7. QED
  BY <1>1, <1>2, <1>3, <1>6 DEF n

-----------------------------------------------------------------------------
(***************************************************************************)
(* Sequences.                                                              *)
(***************************************************************************)
LEMMA WithoutOne ==
  ASSUME NEW S, NEW s \in Seq(S), NEW i \in DOMAIN s
  PROVE  Without(s, i) \in Seq(S) /\ Len(Without(s, i)) = Len(s) - 1
<1> DEFINE a == SubSeq(s, 1, i - 1)
           b == SubSeq(s, i + 1, Len(s))
<1>1. i \in 1 .. Len(s) /\ Len(s) \in Nat
  OBVIOUS
<1>2. a \in Seq(S) /\ Len(a) = i - 1
  BY <1>1
<1>3. b \in Seq(S) /\ Len(b) = Len(s) - i
  BY <1>1
<1>4. Without(s, i) = a \o b
  BY DEF Without
<1> HIDE DEF a, b
<1>5. a \o b \in Seq(S) /\ Len(a \o b) = Len(s) - 1
  BY <1>1, <1>2, <1>3
<1>6. QED
  BY <1>4, <1>5

\* A datagram appended to out is the last of what is forwarded.
LEMMA ConcatAppend ==
  ASSUME NEW S, NEW a \in Seq(S), NEW b \in Seq(S), NEW x \in S
  PROVE  a \o Append(b, x) = Append(a \o b, x)
  OBVIOUS

LEMMA ConcatEmpty ==
  ASSUME NEW S, NEW a \in Seq(S)
  PROVE  a \o <<>> = a
  OBVIOUS

-----------------------------------------------------------------------------
(***************************************************************************)
(* The steps that process no datagram and seal nothing for the receiver.   *)
(***************************************************************************)
LEMMA Undisturbed ==
  ASSUME IInv, UNCHANGED <<keys, win, seq, fates, sealed, reused>>,
         Forwarded' = Forwarded, GenPeriod = 0 => gkeys' = gkeys
  PROVE  /\ OneKey' /\ WindowTrue' /\ Sealing' /\ Numbered' /\ Traced' /\ Distinct'
         /\ Justified' /\ (SameKey => OnlyDamageFailsAuth)'
<1>1. OneKey'
  BY DEF IInv, OneKey
<1>2. WindowTrue' /\ Justified'
  BY DEF IInv, WindowTrue, Justified, PastWindow
<1>3. Sealing'
  BY DEF IInv, Sealing
<1>4. Numbered' /\ Traced' /\ Distinct'
  BY DEF IInv, Numbered, NoneUnsealed, Traced, Distinct
<1>5. (SameKey => OnlyDamageFailsAuth)'
  BY DEF IInv, SameKey, OnlyDamageFailsAuth
<1>6. QED
  BY <1>1, <1>2, <1>3, <1>4, <1>5

LEMMA EmitKeeps == IInv /\ Emit => IInv'
<1> SUFFICES ASSUME IInv, Emit PROVE IInv'
  OBVIOUS
<1>1. PICK hk \in HkdfCalls : gkeys' = MaybeRekey(gkeys, gseq, hk)
  BY DEF Emit
<1>12. \/ net' = Append(net, SealedFor(gkeys', gseq, gseq)) /\ refused' = refused
       \/ net' = net /\ refused < MaxRefused /\ refused' = refused + 1
  BY DEF Emit
<1>13. refused' \in 0 .. MaxRefused
  <2>1. refused \in 0 .. MaxRefused /\ MaxRefused \in Nat
    BY WirePathAssumption DEF IInv, Typed
  <2>2. refused' = refused \/ (refused < MaxRefused /\ refused' = refused + 1)
    BY <1>12
  <2>3. QED
    BY <2>1, <2>2
<1>2. /\ gseq \in Nat /\ gseq < MaxSent /\ gseq' = gseq + 1 /\ MaxSent \in Nat
      /\ Len(net) <= gseq
  BY WirePathAssumption DEF Emit, IInv, Typed, Buffered
<1>3. /\ gkeys \in Schedules(Secrets, {GenPeriod}) /\ Aligned(gkeys)
      /\ GenPeriod = 0 => gkeys.epoch = 0 /\ gkeys.aead[1] = NoKey
  BY DEF IInv, Typed, OneKey
<1>4. /\ gkeys' \in Schedules(Secrets, {GenPeriod}) /\ Aligned(gkeys')
      /\ GenPeriod = 0 => gkeys' = gkeys
      /\ SealedFor(gkeys', gseq, gseq) \in Incoming(gkeys')
      /\ Incoming(gkeys') = Incoming(gkeys)
  BY <1>1, <1>2, <1>3, EmitsGenuine
<1>5. UNCHANGED <<shardVars, lost, duplicated, damaged, strays>>
  BY DEF Emit
<1>6. net' \in Seq(Incoming(gkeys')) /\ Len(net') <= Len(net) + 1 /\ Len(net) \in Nat
      /\ Len(net') \in Nat
  <2>1. net \in Seq(Incoming(gkeys'))
    BY <1>4 DEF IInv, Typed
  <2>2. QED
    BY <1>4, <1>12, <2>1
<1>7. Fates(gkeys') = Fates(gkeys)
  BY <1>4 DEF Fates
<1>8. Typed'
  <2>1. /\ keys \in Schedules(Secrets, {Period}) /\ Aligned(keys)
        /\ keys' = keys /\ gseq' \in 0 .. MaxSent
    BY <1>2, <1>5 DEF shardVars, IInv, Typed
  <2>2. /\ rxq' \in Seq(Incoming(gkeys')) /\ batch' \in Seq(Incoming(gkeys'))
        /\ fates' \in Seq(Fates(gkeys'))
    BY <1>4, <1>5, <1>7 DEF shardVars, IInv, Typed
  <2>3. QED
    BY <1>4, <1>5, <1>6, <1>13, <2>1, <2>2 DEF shardVars, IInv, Typed
<1>9. Buffered'
  BY <1>2, <1>5, <1>6 DEF shardVars, IInv, Buffered
<1>10. Forwarded' = Forwarded
  BY <1>5 DEF shardVars, Forwarded
<1>11. QED
  BY <1>4, <1>5, <1>8, <1>9, <1>10, Undisturbed DEF shardVars, IInv

\* A datagram reaches the socket, or finds its buffer full.
LEMMA ArriveKeeps ==
  ASSUME IInv, NEW d \in Incoming(gkeys), Arrive(d)
  PROVE  rxq' \in Seq(Incoming(gkeys)) /\ Len(rxq') <= RxCap
<1>1. rxq \in Seq(Incoming(gkeys)) /\ Len(rxq) \in Nat /\ RxCap \in Nat /\ Len(rxq) <= RxCap
  BY RxCapAssumption DEF IInv, Typed, Buffered
<1>2. QED
  BY <1>1 DEF Arrive

\* What a step of the network may do to the receiver's queue and to what is
\* in flight keeps the invariant.
LEMMA CarriedKeeps ==
  ASSUME IInv,
         UNCHANGED <<keys, win, seq, st, call, batch, out, egress, fates, sealed,
                     reused, gkeys, gseq, refused>>,
         rxq' \in Seq(Incoming(gkeys)), Len(rxq') <= RxCap,
         net' \in Seq(Incoming(gkeys)), Len(net') <= gseq,
         lost' \in 0 .. MaxLost, duplicated' \in 0 .. MaxDuplicated,
         damaged' \in 0 .. MaxDamaged, strays' \in 0 .. MaxStray
  PROVE  IInv'
<1>1. Typed'
  BY DEF IInv, Typed
<1>2. Buffered'
  BY DEF IInv, Buffered
<1>3. Forwarded' = Forwarded
  BY DEF Forwarded
<1>4. QED
  BY <1>1, <1>2, <1>3, Undisturbed DEF IInv

LEMMA NetworkKeeps == IInv /\ Network => IInv'
<1> SUFFICES ASSUME IInv, Network PROVE IInv'
  OBVIOUS
<1>0. /\ net \in Seq(Incoming(gkeys)) /\ Len(net) \in Nat /\ gseq \in Nat /\ Len(net) <= gseq
      /\ rxq \in Seq(Incoming(gkeys)) /\ Len(rxq) <= RxCap
  BY DEF IInv, Typed, Buffered
<1>1. /\ MaxLost \in Nat /\ MaxDuplicated \in Nat /\ MaxDamaged \in Nat /\ MaxStray \in Nat
      /\ lost \in 0 .. MaxLost /\ duplicated \in 0 .. MaxDuplicated
      /\ damaged \in 0 .. MaxDamaged /\ strays \in 0 .. MaxStray
  BY WirePathAssumption DEF IInv, Typed
<1>2. ASSUME NEW i \in DOMAIN net
      PROVE  /\ net[i] \in Incoming(gkeys)
             /\ Without(net, i) \in Seq(Incoming(gkeys))
             /\ Len(Without(net, i)) <= gseq
  BY <1>0, WithoutOne
<1>3. ASSUME NEW i \in DOMAIN net, Deliver(i) PROVE IInv'
  <2>1. rxq' \in Seq(Incoming(gkeys)) /\ Len(rxq') <= RxCap
    BY <1>2, <1>3, ArriveKeeps DEF Deliver
  <2>2. net' \in Seq(Incoming(gkeys)) /\ Len(net') <= gseq
    BY <1>2, <1>3 DEF Deliver
  <2>3. QED
    BY <1>1, <1>3, <2>1, <2>2, CarriedKeeps DEF Deliver, Arrive
<1>4. ASSUME NEW i \in DOMAIN net, Duplicate(i) PROVE IInv'
  <2>1. rxq' \in Seq(Incoming(gkeys)) /\ Len(rxq') <= RxCap
    BY <1>2, <1>4, ArriveKeeps DEF Duplicate
  <2>2. net' \in Seq(Incoming(gkeys)) /\ Len(net') <= gseq
    BY <1>0, <1>4 DEF Duplicate
  <2>3. duplicated' \in 0 .. MaxDuplicated
    BY <1>1, <1>4 DEF Duplicate
  <2>4. QED
    BY <1>1, <1>4, <2>1, <2>2, <2>3, CarriedKeeps DEF Duplicate, Arrive
<1>5. ASSUME NEW i \in DOMAIN net, Lose(i) PROVE IInv'
  <2>1. rxq' \in Seq(Incoming(gkeys)) /\ Len(rxq') <= RxCap
    BY <1>0, <1>5 DEF Lose, shardVars
  <2>2. net' \in Seq(Incoming(gkeys)) /\ Len(net') <= gseq
    BY <1>2, <1>5 DEF Lose
  <2>3. lost' \in 0 .. MaxLost
    BY <1>1, <1>5 DEF Lose
  <2>4. QED
    BY <1>1, <1>5, <2>1, <2>2, <2>3, CarriedKeeps DEF Lose, shardVars
<1>6. ASSUME NEW i \in DOMAIN net, Damage(i) PROVE IInv'
  <2>1. rxq' \in Seq(Incoming(gkeys)) /\ Len(rxq') <= RxCap
    BY <1>0, <1>6 DEF Damage, shardVars
  <2>2. net' \in Seq(Incoming(gkeys)) /\ Len(net') <= gseq
    <3>0. PICK s \in HeaderSeqs \cup {net[i].seq} :
            net' = [net EXCEPT ![i].seq = s, ![i].body = <<>>]
      BY <1>6 DEF Damage
    <3>4. s \in Nat
      BY <1>2, WirePathAssumption DEF Incoming, Datagrams
    <3> DEFINE e == [net[i] EXCEPT !.seq = s, !.body = <<>>]
    <3>1. e \in Incoming(gkeys)
      BY <1>2, <3>4, DamagedComesIn
    <3>2. net' = [net EXCEPT ![i] = e]
      BY <3>0
    <3> HIDE DEF e
    <3>3. QED
      BY <1>0, <3>1, <3>2
  <2>3. damaged' \in 0 .. MaxDamaged
    BY <1>1, <1>6 DEF Damage
  <2>4. QED
    BY <1>1, <1>6, <2>1, <2>2, <2>3, CarriedKeeps DEF Damage, shardVars
<1>7. ASSUME StrayArrives PROVE IInv'
  <2>1. rxq' \in Seq(Incoming(gkeys)) /\ Len(rxq') <= RxCap
    BY <1>7, StrayComesIn, ArriveKeeps DEF StrayArrives
  <2>2. net' \in Seq(Incoming(gkeys)) /\ Len(net') <= gseq
    BY <1>0, <1>7 DEF StrayArrives
  <2>3. strays' \in 0 .. MaxStray
    BY <1>1, <1>7 DEF StrayArrives
  <2>4. QED
    BY <1>1, <1>7, <2>1, <2>2, <2>3, CarriedKeeps DEF StrayArrives, Arrive
<1>8. QED
  BY <1>3, <1>4, <1>5, <1>6, <1>7 DEF Network

\* The calls drain() makes on the transport, and its call and its return.
LEMMA CallKeeps == IInv /\ Call => IInv'
<1> SUFFICES ASSUME IInv, Call PROVE IInv'
  OBVIOUS
<1>1. /\ ~call.active
      /\ call' = [active |-> TRUE, budget |-> Budget, processed |-> 0, n |-> 0]
      /\ UNCHANGED <<keys, win, seq, st, rxq, batch, out, egress, fates, sealed, reused>>
      /\ UNCHANGED wireVars
  BY DEF Call, DrainCall
<1>2. call' \in [active : BOOLEAN, budget : Nat, processed : Nat, n : Nat] /\ call'.n = 0
  BY <1>1, WirePathAssumption
<1>3. Typed'
  BY <1>1, <1>2 DEF wireVars, IInv, Typed
<1>4. Buffered'
  <2>1. call.n = 0
    BY <1>1 DEF IInv, Typed, Buffered
  <2>2. 0 <= MaxBatch
    BY MaxBatchAssumption
  <2>3. QED
    BY <1>1, <1>2, <2>1, <2>2 DEF wireVars, IInv, Buffered
<1>5. Forwarded' = Forwarded
  BY <1>1 DEF Forwarded
<1>6. QED
  BY <1>1, <1>3, <1>4, <1>5, Undisturbed DEF wireVars, IInv

LEMMA ReturnKeeps == IInv /\ Return => IInv'
<1> SUFFICES ASSUME IInv, Return PROVE IInv'
  OBVIOUS
<1>1. /\ call.n = 0 /\ call' = NoCall
      /\ UNCHANGED <<keys, win, seq, st, rxq, batch, out, egress, fates, sealed, reused>>
      /\ UNCHANGED wireVars
  BY DEF Return, DrainReturn, BetweenBatches
<1>2. call' \in [active : BOOLEAN, budget : Nat, processed : Nat, n : Nat] /\ call'.n = 0
  BY <1>1 DEF NoCall
<1>3. Typed'
  BY <1>1, <1>2 DEF wireVars, IInv, Typed
<1>4. Buffered'
  BY <1>1, <1>2 DEF wireVars, IInv, Buffered
<1>5. Forwarded' = Forwarded
  BY <1>1 DEF Forwarded
<1>6. QED
  BY <1>1, <1>3, <1>4, <1>5, Undisturbed DEF wireVars, IInv

LEMMA RecvKeeps == IInv /\ RecvBatch /\ UNCHANGED wireVars => IInv'
<1> SUFFICES ASSUME IInv, RecvBatch, UNCHANGED wireVars PROVE IInv'
  OBVIOUS
<1> DEFINE r == RecvCount
<1>1. /\ rxq \in Seq(Incoming(gkeys)) /\ Len(rxq) \in Nat /\ Len(rxq) <= RxCap
      /\ RxCap \in Nat /\ MaxBatch \in Nat
      /\ call \in [active : BOOLEAN, budget : Nat, processed : Nat, n : Nat]
  BY RxCapAssumption, MaxBatchAssumption DEF IInv, Typed, Buffered
<1>2. r \in 1 .. Len(rxq) /\ r <= MaxBatch
  BY <1>1 DEF RecvBatch, RecvCount
<1>3. /\ call.active /\ call.n = 0 /\ call' = [call EXCEPT !.n = r]
      /\ batch' = SubSeq(rxq, 1, r) /\ rxq' = SubSeq(rxq, r + 1, Len(rxq))
      /\ UNCHANGED <<keys, win, seq, st, out, egress, fates, sealed, reused>>
  BY DEF RecvBatch, BetweenBatches
<1> HIDE DEF r
<1>4. /\ batch' \in Seq(Incoming(gkeys)) /\ Len(batch') = r
      /\ rxq' \in Seq(Incoming(gkeys)) /\ Len(rxq') <= RxCap
  BY <1>1, <1>2, <1>3, SMTT(40)
<1>5. call' \in [active : BOOLEAN, budget : Nat, processed : Nat, n : Nat] /\ call'.n = r
  BY <1>1, <1>2, <1>3
<1>6. call'.active
  BY <1>1, <1>3
<1>7. Len(out) = 0
  BY <1>1, <1>3, SMTT(40) DEF IInv, Typed, Buffered
<1>8. Typed'
  BY <1>3, <1>4, <1>5 DEF wireVars, IInv, Typed
<1>9. Buffered'
  BY <1>2, <1>3, <1>4, <1>5, <1>6, <1>7 DEF wireVars, IInv, Buffered
<1>10. Forwarded' = Forwarded
  BY <1>3 DEF Forwarded
<1>11. QED
  BY <1>3, <1>8, <1>9, <1>10, Undisturbed DEF wireVars, IInv

LEMMA SendKeeps == IInv /\ SendBatch /\ UNCHANGED wireVars => IInv'
<1> SUFFICES ASSUME IInv, SendBatch, UNCHANGED wireVars PROVE IInv'
  OBVIOUS
<1>1. /\ out \in Seq(Datagrams) /\ egress \in Seq(Datagrams) /\ MaxBatch \in Nat
      /\ call \in [active : BOOLEAN, budget : Nat, processed : Nat, n : Nat]
  BY MaxBatchAssumption DEF IInv, Typed
<1>2. /\ batch = <<>> /\ egress' = egress \o out /\ out' = <<>>
      /\ call' = [call EXCEPT !.processed = @ + call.n, !.n = 0]
      /\ UNCHANGED <<keys, win, seq, st, rxq, batch, fates, sealed, reused>>
  BY DEF SendBatch
<1>3. egress' \in Seq(Datagrams) /\ out' \in Seq(Datagrams) /\ Len(out') = 0 /\ Len(batch') = 0
  BY <1>1, <1>2
<1>4. call' \in [active : BOOLEAN, budget : Nat, processed : Nat, n : Nat] /\ call'.n = 0
  <2> DEFINE p == call.processed + call.n
  <2>1. p \in Nat /\ call' = [call EXCEPT !.processed = p, !.n = 0]
    BY <1>1, <1>2
  <2> HIDE DEF p
  <2>2. QED
    BY <1>1, <2>1
<1>5. Typed'
  BY <1>2, <1>3, <1>4 DEF wireVars, IInv, Typed
<1>6. Buffered'
  BY <1>1, <1>2, <1>3, <1>4 DEF wireVars, IInv, Buffered
<1>7. Forwarded' = Forwarded
  BY <1>1, <1>2, <1>3, ConcatEmpty DEF Forwarded
<1>8. QED
  BY <1>2, <1>5, <1>6, <1>7, Undisturbed DEF wireVars, IInv

-----------------------------------------------------------------------------
(***************************************************************************)
(* The steps that process a datagram.                                      *)
(***************************************************************************)
\* The fates, once one more datagram has been processed.
LEMMA ProcessFields ==
  ASSUME Typed, NEW what, NEW fate \in Outcomes, Process(what, fate)
  PROVE  /\ Head(batch) \in Incoming(gkeys)
         /\ batch' \in Seq(Incoming(gkeys)) /\ Len(batch') = Len(batch) - 1
         /\ fates' \in Seq(Fates(gkeys)) /\ Len(fates) \in Nat
         /\ DOMAIN fates = 1 .. Len(fates) /\ DOMAIN fates' = 1 .. Len(fates) + 1
         /\ \A j \in DOMAIN fates : fates'[j] = fates[j]
         /\ fates'[Len(fates) + 1].d = Head(batch)
         /\ fates'[Len(fates) + 1].what = fate
<1> DEFINE f == [d |-> Head(batch), what |-> fate]
<1>1. batch \in Seq(Incoming(gkeys)) /\ batch # <<>> /\ fates \in Seq(Fates(gkeys))
  BY DEF Typed, Process
<1>2. /\ Head(batch) \in Incoming(gkeys)
      /\ Tail(batch) \in Seq(Incoming(gkeys)) /\ Len(Tail(batch)) = Len(batch) - 1
  BY <1>1
<1>3. f \in Fates(gkeys) /\ f.d = Head(batch) /\ f.what = fate
  BY <1>2 DEF Fates
<1>4. batch' = Tail(batch) /\ fates' = Append(fates, f)
  BY DEF Process
<1> HIDE DEF f
<1>5. /\ Append(fates, f) \in Seq(Fates(gkeys)) /\ Len(fates) \in Nat
      /\ DOMAIN fates = 1 .. Len(fates) /\ DOMAIN Append(fates, f) = 1 .. Len(fates) + 1
      /\ \A j \in DOMAIN fates : Append(fates, f)[j] = fates[j]
      /\ Append(fates, f)[Len(fates) + 1] = f
  BY <1>1, <1>3
<1>6. QED
  BY <1>2, <1>3, <1>4, <1>5

\* The numbers that have passed the window, once it has been processed.
LEMMA PassedStep ==
  ASSUME Typed, NEW what, NEW fate \in Outcomes, Process(what, fate)
  PROVE  Passed(fates') =
           IF Head(batch).wellFormed /\ fate # "replayed"
           THEN Passed(fates) \cup {Head(batch).seq} ELSE Passed(fates)
<1> DEFINE n == Len(fates) + 1
           d == Head(batch)
           new == d.wellFormed /\ fate # "replayed"
<1>0. Len(fates) \in Nat /\ DOMAIN fates = 1 .. Len(fates) /\ DOMAIN fates' = 1 .. n
  BY ProcessFields
<1>1. /\ DOMAIN fates' = DOMAIN fates \cup {n} /\ n \notin DOMAIN fates
      /\ \A j \in DOMAIN fates : fates'[j] = fates[j]
      /\ fates'[n].d = d /\ fates'[n].what = fate
  <2>1. DOMAIN fates' = DOMAIN fates \cup {n} /\ n \notin DOMAIN fates
    BY <1>0
  <2>2. QED
    BY <2>1, ProcessFields
<1> HIDE DEF n, d
<1>2. \A x : x \in Passed(fates') <=>
               \/ x \in Passed(fates)
               \/ new /\ x = d.seq
  BY <1>1 DEF Passed
<1>3. QED
  BY <1>2 DEF d

\* What drain()'s branches test.
LEMMA DispositionCases ==
  ASSUME NEW d
  PROVE  /\ Disposition(d) = "skip" => ~d.wellFormed
         /\ ~d.wellFormed => Disposition(d) = "skip"
         /\ Disposition(d) = "replayed" =>
              d.wellFormed /\ Replay /\ Verdict(win, d.seq) # "ok"
         /\ d.wellFormed /\ Replay /\ Verdict(win, d.seq) # "ok" =>
              Disposition(d) = "replayed"
         /\ Disposition(d) = "unauthentic" =>
              /\ d.wellFormed
              /\ \/ ForEpoch(keys, d.epoch) = NoKey
                 \/ ~Opens(d, ForEpoch(keys, d.epoch), Nonce(keys, d.epoch, d.seq))
         /\ Disposition(d) = "forward" =>
              /\ d.wellFormed
              /\ Opens(d, ForEpoch(keys, d.epoch), Nonce(keys, d.epoch, d.seq))
  BY DEF Disposition

(***************************************************************************)
(* Whatever becomes of a datagram, the window stays true to the packets    *)
(* that passed it, and a packet it refuses is refused for a reason.        *)
(***************************************************************************)
LEMMA WindowStep ==
  ASSUME IInv, NEW what, NEW fate \in Outcomes, Process(what, fate),
         fate = "replayed" <=> what = "replayed"
  PROVE  win' \in Window /\ WindowTrue' /\ Justified'
<1> DEFINE d == Head(batch)
           n == Len(fates) + 1
<1>0. Typed
  BY DEF IInv
<1>1. /\ d \in Datagrams /\ d.seq \in Nat /\ win \in Window
      /\ Disposition(d) = what /\ win' = WindowAfter(d)
  BY <1>0, ProcessFields DEF Incoming, Datagrams, Typed, Process
<1>2. /\ Len(fates) \in Nat /\ DOMAIN fates = 1 .. Len(fates) /\ DOMAIN fates' = 1 .. n
      /\ \A j \in DOMAIN fates : fates'[j] = fates[j]
      /\ fates'[n].d = d /\ fates'[n].what = fate
  BY <1>0, ProcessFields
<1>3. Passed(fates') = IF d.wellFormed /\ fate # "replayed"
                       THEN Passed(fates) \cup {d.seq} ELSE Passed(fates)
  BY <1>0, PassedStep
<1> HIDE DEF d, n
<1>4. win' \in Window
  BY <1>1, AcceptType DEF WindowAfter
<1>5. WindowTrue'
  <2> SUFFICES ASSUME Replay PROVE Exact(win', Passed(fates'))
    BY DEF WindowTrue
  <2>1. Exact(win, Passed(fates))
    BY DEF IInv, WindowTrue
  <2>2. CASE ~d.wellFormed
    BY <1>1, <1>3, <2>1, <2>2 DEF WindowAfter
  <2>3. CASE d.wellFormed
    <3>1. win' = Accept(win, d.seq)
      BY <1>1, <2>3 DEF WindowAfter
    <3>2. fate # "replayed" <=> Verdict(win, d.seq) = "ok"
      BY <1>1, <2>3, DispositionCases
    <3>3. Exact(Accept(win, d.seq), IF Verdict(win, d.seq) = "ok"
                                    THEN Passed(fates) \cup {d.seq} ELSE Passed(fates))
      BY <1>1, <2>1, AcceptExact
    <3>4. CASE Verdict(win, d.seq) = "ok"
      BY <1>3, <2>3, <3>1, <3>2, <3>3, <3>4
    <3>5. CASE Verdict(win, d.seq) # "ok"
      BY <1>3, <2>3, <3>1, <3>2, <3>3, <3>5
    <3>6. QED
      BY <3>4, <3>5
  <2>4. QED
    BY <2>2, <2>3
<1>6. Justified'
  <2> SUFFICES ASSUME NEW i \in 1 .. n, fates'[i].what = "replayed"
               PROVE  PastWindow(i)'
    BY <1>2 DEF Justified
  <2>1. CASE i \in DOMAIN fates
    <3>1. PastWindow(i)
      BY <1>2, <2>1 DEF IInv, Justified
    <3>2. \A j \in 1 .. i : fates'[j] = fates[j]
      BY <1>2, <2>1
    <3>3. QED
      BY <1>2, <2>1, <3>1, <3>2 DEF PastWindow
  <2>2. CASE i = n
    <3>1. Replay /\ Verdict(win, d.seq) # "ok"
      BY <1>1, <1>2, <2>2, DispositionCases
    <3>2. Exact(win, Passed(fates))
      BY <3>1 DEF IInv, WindowTrue
    <3>3. \E a \in Passed(fates) : a = d.seq \/ a - d.seq >= Width
      <4>1. CASE Verdict(win, d.seq) = "dup"
        BY <1>1, <3>2, <4>1, DupIsKnown
      <4>2. CASE Verdict(win, d.seq) = "old"
        BY <1>1, <3>2, <4>2, OldIsFar
      <4>3. QED
        BY <3>1, <4>1, <4>2, VerdictCases
    <3>4. PICK j \in DOMAIN fates :
            /\ fates[j].d.wellFormed
            /\ fates[j].d.seq = d.seq \/ fates[j].d.seq - d.seq >= Width
      BY <3>3 DEF Passed
    <3>5. j \in 1 .. i - 1 /\ fates'[j] = fates[j] /\ fates'[i].d = d
      BY <1>2, <2>2 DEF n
    <3>6. QED
      BY <3>4, <3>5 DEF PastWindow
  <2>3. QED
    BY <1>2, <2>1, <2>2 DEF n
<1>7. QED
  BY <1>4, <1>5, <1>6

(***************************************************************************)
(* Between two sides with the same key, a packet that is not damaged       *)
(* opens: it was sealed under the key and the nonce drain() tries.         *)
(***************************************************************************)
LEMMA IntactOpens ==
  ASSUME IInv, SameKey, NEW d \in Incoming(gkeys), Intact(d)
  PROVE  Disposition(d) # "unauthentic"
<1>1. d.wellFormed /\ d.body # <<>> /\ Genuine(gkeys, d)
  BY DEF Incoming, Intact
<1>2. d.tsc = d.seq /\ d.epoch = 0 /\ d.body = BodyFor(gkeys, d.seq)
  BY <1>1 DEF SameKey, Genuine, BodyFor
<1>3. /\ keys.epoch = 0 /\ keys.aead[1] = NoKey /\ Aligned(keys)
      /\ keys.aead[0] = gkeys.aead[0]
  BY DEF IInv, OneKey, SameKey, Typed
<1>4. /\ ForEpoch(keys, 0) = gkeys.aead[0] /\ ForEpoch(keys, 0) # NoKey
      /\ NonceSalt(keys, 0) = gkeys.aead[0]
  BY <1>3 DEF Aligned, ForEpoch, NonceSalt
<1>5. Opens(d, ForEpoch(keys, d.epoch), Nonce(keys, d.epoch, d.seq))
  BY <1>2, <1>4 DEF Opens, Nonce, BodyFor
<1>6. QED
  BY <1>2, <1>4, <1>5, DispositionCases

LEMMA AuthStep ==
  ASSUME IInv, NEW what, NEW fate \in Outcomes, Process(what, fate),
         fate = "unauthentic" => what = "unauthentic",
         Period = 0 => keys' = keys, gkeys' = gkeys
  PROVE  (SameKey => OnlyDamageFailsAuth)'
<1> DEFINE n == Len(fates) + 1
<1>0. Typed
  BY DEF IInv
<1>1. SUFFICES ASSUME SameKey',
                      NEW i \in DOMAIN fates', fates'[i].what = "unauthentic"
               PROVE  ~Intact(fates'[i].d)
  BY DEF OnlyDamageFailsAuth
<1>2. SameKey
  BY <1>1 DEF SameKey
<1>3. /\ Len(fates) \in Nat /\ DOMAIN fates = 1 .. Len(fates) /\ DOMAIN fates' = 1 .. n
      /\ \A j \in DOMAIN fates : fates'[j] = fates[j]
      /\ fates'[n].d = Head(batch) /\ fates'[n].what = fate
      /\ Head(batch) \in Incoming(gkeys)
  BY <1>0, ProcessFields
<1>4. CASE i \in DOMAIN fates
  BY <1>1, <1>2, <1>3, <1>4 DEF IInv, OnlyDamageFailsAuth
<1>5. CASE i = n
  <2>1. Disposition(Head(batch)) = "unauthentic"
    BY <1>1, <1>3, <1>5 DEF Process
  <2>2. ~Intact(Head(batch))
    BY <1>2, <1>3, <2>1, IntactOpens
  <2>3. QED
    BY <1>3, <1>5, <2>2
<1>6. QED
  BY <1>1, <1>3, <1>4, <1>5

\* What is said of the datagrams forwarded stays true when there are no more of
\* them.
LEMMA StillTraced ==
  ASSUME IInv, NEW what, NEW fate \in Outcomes, Process(what, fate),
         Forwarded' = Forwarded
  PROVE  Traced' /\ Distinct'
<1>0. Typed
  BY DEF IInv
<1>1. /\ Len(fates) \in Nat /\ DOMAIN fates = 1 .. Len(fates)
      /\ DOMAIN fates' = 1 .. Len(fates) + 1
      /\ \A j \in DOMAIN fates : fates'[j] = fates[j]
  BY <1>0, ProcessFields
<1>2. \A j \in DOMAIN fates : j \in DOMAIN fates' /\ fates'[j] = fates[j]
  BY <1>1
<1>3. Traced'
  BY <1>2 DEF IInv, Traced
<1>4. QED
  BY <1>3 DEF IInv, Distinct

LEMMA NoneUnsealedStep ==
  ASSUME Typed, NEW what, NEW fate \in Outcomes, Process(what, fate), NoneUnsealed'
  PROVE  NoneUnsealed /\ fate # "unsealed"
<1>1. /\ Len(fates) \in Nat /\ DOMAIN fates = 1 .. Len(fates)
      /\ DOMAIN fates' = 1 .. Len(fates) + 1
      /\ \A j \in DOMAIN fates : fates'[j] = fates[j]
      /\ fates'[Len(fates) + 1].what = fate
  BY ProcessFields
<1>2. \A j \in DOMAIN fates : j \in DOMAIN fates' /\ fates'[j] = fates[j]
  BY <1>1
<1>3. Len(fates) + 1 \in DOMAIN fates'
  BY <1>1
<1>4. QED
  BY <1>1, <1>2, <1>3 DEF NoneUnsealed

\* A datagram that is dropped.
LEMMA DropKeeps ==
  ASSUME IInv, NEW what \in {"skip", "replayed", "unauthentic"}, Process(what, what),
         UNCHANGED <<keys, seq, rxq, call, out, egress, sealed, reused>>,
         UNCHANGED wireVars,
         st' \in [packets : Nat, auth_fail : Nat, replay_drop : Nat, rekeys : Nat]
  PROVE  IInv'
<1>0. Typed /\ what \in Outcomes
  BY DEF IInv, Outcomes
<1>1. /\ batch' \in Seq(Incoming(gkeys)) /\ Len(batch') = Len(batch) - 1
      /\ fates' \in Seq(Fates(gkeys))
  BY <1>0, ProcessFields
<1>2. win' \in Window /\ WindowTrue' /\ Justified'
  BY <1>0, WindowStep
<1>3. Typed'
  BY <1>0, <1>1, <1>2 DEF wireVars, Typed
<1>4. Buffered'
  <2>0. batch \in Seq(Incoming(gkeys)) /\ out \in Seq(Datagrams)
    BY <1>0 DEF Typed
  <2>1. call \in [active : BOOLEAN, budget : Nat, processed : Nat, n : Nat]
    BY <1>0 DEF Typed
  <2>2. Len(batch) \in Nat /\ Len(out) \in Nat /\ call.n \in Nat
    BY <2>0, <2>1
  <2>3. QED
    BY <1>1, <2>2 DEF wireVars, IInv, Buffered
<1>5. OneKey' /\ Sealing'
  BY DEF wireVars, IInv, OneKey, Sealing
<1>6. Forwarded' = Forwarded
  BY DEF Forwarded
<1>7. Traced' /\ Distinct'
  BY <1>0, <1>6, StillTraced
<1>8. Numbered'
  <2>1. NoneUnsealed' => NoneUnsealed
    BY <1>0, NoneUnsealedStep
  <2>2. QED
    BY <1>6, <2>1 DEF IInv, Numbered
<1>9. (SameKey => OnlyDamageFailsAuth)'
  BY <1>0, AuthStep DEF wireVars
<1>10. QED
  BY <1>2, <1>3, <1>4, <1>5, <1>7, <1>8, <1>9 DEF IInv

LEMMA DropsKeep ==
  IInv /\ (Skip \/ DropReplayed \/ DropUnauthentic) /\ UNCHANGED wireVars => IInv'
<1> SUFFICES ASSUME IInv, Skip \/ DropReplayed \/ DropUnauthentic, UNCHANGED wireVars
             PROVE  IInv'
  OBVIOUS
<1>0. st \in [packets : Nat, auth_fail : Nat, replay_drop : Nat, rekeys : Nat]
  BY DEF IInv, Typed
<1>1. CASE Skip
  BY <1>0, <1>1, DropKeeps DEF Skip
<1>2. CASE DropReplayed
  <2>1. st' \in [packets : Nat, auth_fail : Nat, replay_drop : Nat, rekeys : Nat]
    BY <1>0, <1>2 DEF DropReplayed
  <2>2. QED
    BY <1>2, <2>1, DropKeeps DEF DropReplayed
<1>3. CASE DropUnauthentic
  <2>1. st' \in [packets : Nat, auth_fail : Nat, replay_drop : Nat, rekeys : Nat]
    BY <1>0, <1>3 DEF DropUnauthentic
  <2>2. QED
    BY <1>3, <2>1, DropKeeps DEF DropUnauthentic
<1>4. QED
  BY <1>1, <1>2, <1>3

-----------------------------------------------------------------------------
(***************************************************************************)
(* A datagram that is forwarded.                                           *)
(***************************************************************************)
\* A packet that is forwarded came in undamaged, and its number had not
\* passed the window before.
LEMMA ForwardsFresh ==
  ASSUME IInv, NEW d \in Incoming(gkeys), Disposition(d) = "forward"
  PROVE  /\ Intact(d) /\ d.tsc = d.seq /\ d.seq \in Nat
         /\ Replay => d.seq \notin Passed(fates)
<1>2. d.body # <<>>
  BY DispositionCases, BodyIsSome DEF Opens
<1>1. d.wellFormed /\ d \in Datagrams /\ d.tsc = d.seq /\ d.seq \in Nat
  BY <1>2, DispositionCases DEF Incoming, Genuine, Datagrams
<1>3. ASSUME Replay PROVE d.seq \notin Passed(fates)
  <2>1. Verdict(win, d.seq) = "ok"
    BY <1>1, <1>3, DispositionCases
  <2>2. Exact(win, Passed(fates))
    BY <1>3 DEF IInv, WindowTrue
  <2>3. QED
    BY <1>1, <2>1, <2>2, OkIsFresh
<1>4. QED
  BY <1>1, <1>2, <1>3 DEF Intact

\* The origins of what has been forwarded are numbers that passed the window.
LEMMA TracedPassed ==
  ASSUME IInv, NEW i \in DOMAIN Forwarded
  PROVE  Forwarded[i].tsc \in Passed(fates)
<1>1. PICK j \in DOMAIN fates :
        /\ fates[j].what = "forward" /\ Intact(fates[j].d)
        /\ fates[j].d.tsc = Forwarded[i].tsc
  BY DEF IInv, Traced
<1>2. fates[j] \in Fates(gkeys)
  BY SMTT(40) DEF IInv, Typed
<1>3. fates[j].d \in Incoming(gkeys) /\ fates[j].d.wellFormed /\ fates[j].d.body # <<>>
  BY <1>1, <1>2 DEF Fates, Intact
<1>4. fates[j].d.tsc = fates[j].d.seq
  BY <1>3 DEF Incoming, Genuine
<1>5. fates[j].d.seq \in Passed(fates)
  BY <1>1, <1>3 DEF Passed
<1>6. QED
  BY <1>1, <1>4, <1>5

LEMMA ForwardKeeps == IInv /\ Forward /\ UNCHANGED wireVars => IInv'
<1> SUFFICES ASSUME IInv, Forward, UNCHANGED wireVars PROVE IInv'
  OBVIOUS
<1> DEFINE d == Head(batch)
           n == Len(fates) + 1
<1>1. PICK hk \in HkdfCalls, ok \in SealOutcomes :
        LET ks == MaybeRekey(keys, seq, hk)
            o  == SealedFor(ks, seq, Head(batch).tsc)
            rk == IF NeedsRekey(keys, seq) THEN 1 ELSE 0
        IN  /\ Process("forward", IF ok THEN "forward" ELSE "unsealed")
            /\ keys' = ks
            /\ st' = [st EXCEPT !.rekeys = @ + rk, !.packets = IF ok THEN @ + 1 ELSE @]
            /\ out' = IF ok THEN Append(out, o) ELSE out
            /\ IF ok THEN NoteSealed(o) ELSE UNCHANGED <<sealed, reused>>
  BY DEF Forward, OutSeq
<1> DEFINE fate == IF ok THEN "forward" ELSE "unsealed"
           o == SealedFor(keys', seq, Head(batch).tsc)
           pair == <<o.body.key, o.body.nonce>>
<1>2. /\ Process("forward", fate)
      /\ keys' = MaybeRekey(keys, seq, hk)
      /\ seq' = seq + 1 /\ UNCHANGED <<rxq, call, egress>>
  BY <1>1 DEF Forward
<1>3. /\ ok => /\ out' = Append(out, o) /\ sealed' = sealed \cup {pair}
               /\ reused' = (reused \/ pair \in sealed)
      /\ ~ok => UNCHANGED <<out, sealed, reused>>
  BY <1>1 DEF NoteSealed
<1>4. Typed /\ fate \in Outcomes /\ seq \in Nat
  BY DEF IInv, Typed, Outcomes
<1>5. st' \in [packets : Nat, auth_fail : Nat, replay_drop : Nat, rekeys : Nat]
  <2> DEFINE r == st.rekeys + (IF NeedsRekey(keys, seq) THEN 1 ELSE 0)
             p == IF ok THEN st.packets + 1 ELSE st.packets
  <2>1. st \in [packets : Nat, auth_fail : Nat, replay_drop : Nat, rekeys : Nat]
    BY <1>4 DEF Typed
  <2>2. r \in Nat /\ p \in Nat
    BY <2>1
  <2>3. st' = [st EXCEPT !.rekeys = r, !.packets = p]
    BY <1>1, <2>1
  <2> HIDE DEF r, p
  <2>4. QED
    BY <2>1, <2>2, <2>3
<1>6. /\ d \in Incoming(gkeys)
      /\ batch' \in Seq(Incoming(gkeys)) /\ Len(batch') = Len(batch) - 1
      /\ fates' \in Seq(Fates(gkeys))
      /\ Len(fates) \in Nat /\ DOMAIN fates = 1 .. Len(fates) /\ DOMAIN fates' = 1 .. n
      /\ \A j \in DOMAIN fates : fates'[j] = fates[j]
      /\ fates'[n].d = d /\ fates'[n].what = fate
  BY <1>2, <1>4, ProcessFields
<1>7. /\ Intact(d) /\ d.tsc = d.seq /\ d.seq \in Nat
      /\ Replay => d.seq \notin Passed(fates)
  BY <1>2, <1>6, ForwardsFresh DEF Process
<1>8. /\ keys' \in Schedules(Secrets, {Period}) /\ Aligned(keys')
      /\ Period = 0 => keys' = keys
  <2>1. /\ keys \in Schedules(Secrets, {Period}) /\ Aligned(keys)
        /\ keys.perEpoch = Period /\ {Period} \in SUBSET Nat
    BY <1>4, PeriodAssumption DEF Typed, Schedules
  <2>2. NoKey \notin Materials(Secrets)
    BY WirePathAssumption DEF Secrets
  <2>3. Period = 0 => MaybeRekey(keys, seq, hk) = keys
    BY <2>1 DEF MaybeRekey, NeedsRekey
  <2>4. MaybeRekey(keys, seq, hk) \in Schedules(Secrets, {Period})
        /\ Aligned(MaybeRekey(keys, seq, hk))
    BY <1>4, <2>1, <2>2, MaybeRekeyAligned
  <2>5. QED
    BY <1>2, <2>3, <2>4
<1>9. /\ o \in Datagrams /\ o.seq = seq /\ o.tsc = d.seq
      /\ o.body.key \in Materials(Secrets) \cup {NoKey}
      /\ o.body.nonce \in Materials(Secrets) \X Nat /\ o.body.nonce[2] = seq
  <2> DEFINE key == ForEpoch(keys', keys'.epoch)
             salt == NonceSalt(keys', keys'.epoch)
  <2>1. key \in Materials(Secrets) \cup {NoKey} /\ salt \in Materials(Secrets)
    BY <1>8, AnswerTypes
  <2>2. o \in Datagrams
    BY <1>4, <1>7, <1>8, SealedFields
  <2>3. o.seq = seq /\ o.tsc = d.tsc /\ o.body.key = key /\ o.body.nonce = <<salt, seq>>
    BY DEF SealedFor, Sealed, Nonce
  <2> HIDE DEF o, key, salt
  <2>4. QED
    BY <1>4, <1>7, <2>1, <2>2, <2>3
<1>10. /\ out \in Seq(Datagrams) /\ egress \in Seq(Datagrams)
       /\ Forwarded \in Seq(Datagrams) /\ Len(Forwarded) \in Nat
       /\ batch \in Seq(Incoming(gkeys)) /\ Len(batch) \in Nat /\ Len(out) \in Nat
  <2>1. out \in Seq(Datagrams) /\ egress \in Seq(Datagrams) /\ batch \in Seq(Incoming(gkeys))
    BY <1>4 DEF Typed
  <2>2. QED
    BY <2>1 DEF Forwarded
<1> HIDE DEF d, n, fate, o, pair
<1>11. /\ ok => Forwarded' = Append(Forwarded, o)
       /\ ~ok => Forwarded' = Forwarded
  <2>1. Forwarded = egress \o out /\ Forwarded' = egress \o out'
    BY <1>2 DEF Forwarded
  <2>2. CASE ok
    <3>1. out' = Append(out, o)
      BY <1>3, <2>2
    <3>2. egress \o Append(out, o) = Append(egress \o out, o)
      BY <1>9, <1>10, ConcatAppend
    <3>3. QED
      BY <2>1, <2>2, <3>1, <3>2
  <2>3. CASE ~ok
    BY <1>3, <2>1, <2>3
  <2>4. QED
    BY <2>2, <2>3
<1>12. win' \in Window /\ WindowTrue' /\ Justified'
  BY <1>2, <1>4, WindowStep DEF fate
<1>13. Typed'
  <2>1. out' \in Seq(Datagrams)
    <3>1. CASE ok
      <4>1. out' = Append(out, o)
        BY <1>3, <3>1
      <4>2. o \in Datagrams /\ out \in Seq(Datagrams)
        BY <1>9, <1>10
      <4>3. QED
        BY <4>1, <4>2
    <3>2. CASE ~ok
      BY <1>3, <1>10, <3>2
    <3>3. QED
      BY <3>1, <3>2
  <2>2. reused' \in BOOLEAN
    BY <1>3, <1>4 DEF Typed
  <2>3. seq' \in Nat
    BY <1>2, <1>4
  <2>4. QED
    BY <1>2, <1>4, <1>5, <1>6, <1>8, <1>12, <2>1, <2>2, <2>3 DEF wireVars, Typed
<1>14. Buffered'
  <2>1. Len(out') <= Len(out) + 1 /\ Len(out') \in Nat
    BY <1>3, <1>9, <1>10
  <2>2. call.n \in Nat
    BY <1>4 DEF Typed
  <2>3. QED
    BY <1>2, <1>6, <1>10, <2>1, <2>2, SMTT(40) DEF wireVars, IInv, Buffered
<1>15. OneKey'
  BY <1>8 DEF wireVars, IInv, OneKey
<1>16. Sealing'
  <2>0. /\ ~reused
        /\ sealed \subseteq (Materials(Secrets) \cup {NoKey}) \X (Materials(Secrets) \X Nat)
        /\ \A p \in sealed : p[2][2] < seq
    BY DEF IInv, Sealing
  <2>1. /\ pair \in (Materials(Secrets) \cup {NoKey}) \X (Materials(Secrets) \X Nat)
        /\ pair[2][2] = seq
    BY <1>9 DEF pair
  <2>2. pair \notin sealed
    BY <1>4, <2>0, <2>1
  <2>3. ~reused'
    BY <1>3, <2>0, <2>2
  <2>4. sealed' \subseteq sealed \cup {pair}
    BY <1>3
  <2>5. \A p \in sealed : p[2][2] \in Nat
    BY <2>0
  <2>6. \A p \in sealed' : p[2][2] < seq'
    BY <1>2, <1>4, <2>0, <2>1, <2>4, <2>5
  <2>7. QED
    BY <2>0, <2>1, <2>3, <2>4, <2>6 DEF Sealing
<1>17. Traced' /\ Distinct' /\ Numbered'
  <2>1. CASE ~ok
    <3>1. Traced' /\ Distinct'
      BY <1>2, <1>4, <1>11, <2>1, StillTraced
    <3>2. ~NoneUnsealed'
      BY <1>2, <1>4, <2>1, NoneUnsealedStep DEF fate
    <3>3. \A i \in DOMAIN Forwarded : Forwarded[i].seq \in Nat
      BY <1>10, SeqsAreNumbers
    <3>4. Numbered'
      BY <1>2, <1>4, <1>11, <2>1, <3>2, <3>3 DEF IInv, Numbered
    <3>5. QED
      BY <3>1, <3>4
  <2>2. CASE ok
    <3> DEFINE F == Forwarded
               G == Forwarded'
               m == Len(Forwarded) + 1
    <3>0. F \in Seq(Datagrams) /\ G = Append(F, o)
      BY <1>10, <1>11, <2>2
    <3>1. /\ DOMAIN F = 1 .. Len(F) /\ DOMAIN G = 1 .. m /\ Len(G) = m
          /\ \A i \in DOMAIN F : G[i] = F[i]
          /\ G[m] = o
      <4> HIDE DEF F, G
      <4>1. m = Len(F) + 1
        BY DEF F, m
      <4>2. QED
        BY <1>9, <3>0, <4>1
    <3>2. \A i \in DOMAIN F : F[i].seq \in Nat
      BY <1>10, SeqsAreNumbers
    <3> HIDE DEF F, G, m
    <3>3. m = Len(F) + 1 /\ Len(F) \in Nat
      BY <1>10 DEF F, m
    <3>4. Traced'
      <4>1. \A j \in DOMAIN fates : j \in DOMAIN fates' /\ fates'[j] = fates[j]
        BY <1>6 DEF n
      <4>2. n \in DOMAIN fates' /\ fates'[n].what = "forward" /\ fates'[n].d = d
        BY <1>6, <2>2 DEF n, fate
      <4>3. ASSUME NEW i \in DOMAIN G
            PROVE  \E j \in DOMAIN fates' :
                     /\ fates'[j].what = "forward" /\ Intact(fates'[j].d)
                     /\ fates'[j].d.tsc = G[i].tsc
        <5>1. CASE i \in DOMAIN F
          BY <3>1, <4>1, <5>1 DEF IInv, Traced, F
        <5>2. CASE i = m
          BY <1>7, <1>9, <3>1, <4>2, <5>2
        <5>3. QED
          BY <3>1, <3>3, <5>1, <5>2
      <4>4. QED
        BY <4>3 DEF Traced, G
    <3>5. Distinct'
      <4>1. SUFFICES ASSUME Replay, NEW i \in DOMAIN G, NEW j \in DOMAIN G,
                            G[i].tsc = G[j].tsc
                     PROVE  i = j
        BY DEF Distinct, G
      <4>2. \A k \in DOMAIN F : G[k].tsc \in Passed(fates)
        BY <3>1, TracedPassed DEF F
      <4>3. G[m].tsc \notin Passed(fates)
        BY <1>7, <1>9, <3>1, <4>1
      <4>4. CASE i \in DOMAIN F /\ j \in DOMAIN F
        BY <3>1, <4>1, <4>4 DEF IInv, Distinct, F
      <4>5. QED
        BY <3>1, <3>3, <4>1, <4>2, <4>3, <4>4
    <3>6. Numbered'
      <4>1. \A i \in DOMAIN F : F[i].seq < seq
        BY DEF IInv, Numbered, F
      <4>2. \A i \in DOMAIN G : G[i].seq < seq'
        BY <1>2, <1>4, <1>9, <3>1, <3>2, <3>3, <4>1
      <4>3. \A i \in DOMAIN G : \A j \in 1 .. i - 1 : G[j].seq < G[i].seq
        <5>1. \A i \in DOMAIN F : \A j \in 1 .. i - 1 : F[j].seq < F[i].seq
          BY DEF IInv, Numbered, F
        <5>2. QED
          BY <1>9, <3>1, <3>3, <4>1, <5>1
      <4>4. NoneUnsealed' => seq' = Len(G) /\ \A i \in DOMAIN G : G[i].seq = i - 1
        <5>1. NoneUnsealed' => NoneUnsealed
          BY <1>2, <1>4, NoneUnsealedStep
        <5>2. NoneUnsealed => seq = Len(F) /\ \A i \in DOMAIN F : F[i].seq = i - 1
          BY DEF IInv, Numbered, F
        <5>3. QED
          BY <1>2, <1>9, <3>1, <3>3, <5>1, <5>2
      <4>5. QED
        BY <4>2, <4>3, <4>4 DEF Numbered, G
    <3>7. QED
      BY <3>4, <3>5, <3>6
  <2>3. QED
    BY <2>1, <2>2
<1>18. (SameKey => OnlyDamageFailsAuth)'
  BY <1>2, <1>4, <1>8, AuthStep DEF wireVars, fate
<1>19. QED
  BY <1>12, <1>13, <1>14, <1>15, <1>16, <1>17, <1>18 DEF IInv

-----------------------------------------------------------------------------
LEMMA InitIInv == Init => IInv
<1> SUFFICES ASSUME Init PROVE IInv
  OBVIOUS
<1>1. PICK hk \in HkdfCalls : keys = NewKeySchedule(Secret, Period, hk)
  BY DEF Init, ShardInit
<1>2. PICK gh \in HkdfCalls : gkeys = NewKeySchedule(GenSecret, GenPeriod, gh)
  BY DEF Init
<1>3. NoKey \notin Materials(Secrets) /\ Secret \in Secrets /\ GenSecret \in Secrets
  BY WirePathAssumption DEF Secrets
<1>4. /\ keys \in Schedules(Secrets, {Period})
      /\ keys.epoch = 0 /\ keys.tag[0] = 0 /\ keys.salt[0] = keys.aead[0]
      /\ keys.aead[0] \in Materials(Secrets) /\ keys.aead[1] = NoKey
  BY <1>1, <1>3, NewFields, SMTT(40)
<1>5. /\ gkeys \in Schedules(Secrets, {GenPeriod})
      /\ gkeys.epoch = 0 /\ gkeys.tag[0] = 0 /\ gkeys.salt[0] = gkeys.aead[0]
      /\ gkeys.aead[0] \in Materials(Secrets) /\ gkeys.aead[1] = NoKey
  BY <1>2, <1>3, NewFields
<1>6. Aligned(keys) /\ Aligned(gkeys)
  BY <1>3, <1>4, <1>5 DEF Aligned
<1>7. /\ win = NewWindow /\ seq = 0 /\ st = ZeroStats /\ rxq = <<>> /\ call = NoCall
      /\ batch = <<>> /\ out = <<>> /\ egress = <<>> /\ fates = <<>>
      /\ sealed = {} /\ ~reused /\ gseq = 0 /\ net = <<>>
      /\ lost = 0 /\ duplicated = 0 /\ damaged = 0 /\ strays = 0 /\ refused = 0
  BY DEF Init, ShardInit
<1>8. Exact(win, {}) /\ win \in Window
  BY <1>7, NewIsExact DEF Exact
<1>9. Typed
  <2>1. st \in [packets : Nat, auth_fail : Nat, replay_drop : Nat, rekeys : Nat]
    BY <1>7 DEF ZeroStats
  <2>2. call \in [active : BOOLEAN, budget : Nat, processed : Nat, n : Nat]
    BY <1>7 DEF NoCall
  <2>3. reused \in BOOLEAN
    BY Zenon DEF Init, ShardInit
  <2>4. /\ gseq \in 0 .. MaxSent /\ lost \in 0 .. MaxLost
        /\ duplicated \in 0 .. MaxDuplicated
        /\ damaged \in 0 .. MaxDamaged /\ strays \in 0 .. MaxStray
        /\ refused \in 0 .. MaxRefused
    BY <1>7, WirePathAssumption
  <2>5. QED
    BY <1>4, <1>5, <1>6, <1>7, <1>8, <2>1, <2>2, <2>3, <2>4 DEF Typed
<1>10. Buffered
  BY <1>7, RxCapAssumption, MaxBatchAssumption DEF Buffered, NoCall
<1>11. Forwarded = <<>>
  BY <1>7 DEF Forwarded
<1>12. Passed(fates) = {}
  BY <1>7 DEF Passed
<1>13. OneKey /\ WindowTrue /\ Sealing
  BY <1>4, <1>5, <1>7, <1>8, <1>12 DEF OneKey, WindowTrue, Sealing
<1>14. Numbered /\ Traced /\ Distinct /\ Justified /\ OnlyDamageFailsAuth
  BY <1>7, <1>11 DEF Numbered, Traced, Distinct, Justified, OnlyDamageFailsAuth
<1>15. QED
  BY <1>9, <1>10, <1>13, <1>14 DEF IInv

LEMMA StutterKeeps == IInv /\ UNCHANGED vars => IInv'
<1> SUFFICES ASSUME IInv, UNCHANGED vars PROVE IInv'
  OBVIOUS
<1>1. UNCHANGED shardVars /\ UNCHANGED wireVars
  BY DEF vars
<1>2. Typed' /\ Buffered'
  BY <1>1 DEF shardVars, wireVars, IInv, Typed, Buffered
<1>3. Forwarded' = Forwarded
  BY <1>1 DEF shardVars, Forwarded
<1>4. QED
  BY <1>1, <1>2, <1>3, Undisturbed DEF shardVars, wireVars, IInv

(***************************************************************************)
(* Every step of the generator, the network and drain() keeps the          *)
(* inductive invariant.                                                    *)
(***************************************************************************)
THEOREM WireInvariance == Spec => []IInv
<1>1. IInv /\ [Next]_vars => IInv'
  <2> SUFFICES ASSUME IInv, [Next]_vars PROVE IInv'
    OBVIOUS
  <2>1. CASE Emit
    BY <2>1, EmitKeeps
  <2>2. CASE Network
    BY <2>2, NetworkKeeps
  <2>3. CASE Call
    BY <2>3, CallKeeps
  <2>4. CASE Working
    BY <2>4, RecvKeeps, SendKeeps, DropsKeep, ForwardKeeps DEF Working, DrainStep
  <2>5. CASE Return
    BY <2>5, ReturnKeeps
  <2>6. CASE UNCHANGED vars
    BY <2>6, StutterKeeps
  <2>7. QED
    BY <2>1, <2>2, <2>3, <2>4, <2>5, <2>6 DEF Next, Quiet
<1>2. QED
  BY <1>1, InitIInv, PTL DEF Spec

(***************************************************************************)
(* However the network loses, duplicates, reorders and damages, drain()    *)
(* forwards no packet twice while the window runs, and forwards nothing    *)
(* but what arrived undamaged, under increasing sequence numbers.          *)
(***************************************************************************)
THEOREM ForwardsOnce == Spec => []ForwardedOnce
<1>1. IInv => ForwardedOnce
  <2> SUFFICES ASSUME IInv PROVE ForwardedOnce
    OBVIOUS
  <2>1. TypeOK
    <3>1. /\ net \in Seq(Incoming(gkeys)) /\ batch \in Seq(Incoming(gkeys))
          /\ out \in Seq(Datagrams) /\ gseq \in 0 .. MaxSent
          /\ call \in [active : BOOLEAN, budget : Nat, processed : Nat, n : Nat]
      BY DEF IInv, Typed
    <3>2. /\ Len(net) \in Nat /\ Len(batch) \in Nat /\ Len(out) \in Nat
          /\ call.n \in Nat /\ MaxSent \in Nat /\ MaxBatch \in Nat
      BY <3>1, WirePathAssumption, MaxBatchAssumption
    <3>3. Len(net) <= MaxSent /\ Len(batch) <= MaxBatch /\ Len(out) <= MaxBatch
      BY <3>1, <3>2 DEF IInv, Buffered
    <3>4. keys.epoch \in Epochs /\ keys.tag \in [{0, 1} -> Epochs]
      <4>1. Slots = {0, 1}
        BY DEF Slots
      <4>2. QED
        BY <4>1 DEF IInv, Typed, Schedules
    <3>5. ShardTypeOK
      BY <3>3, <3>4 DEF IInv, Typed, Buffered, ShardTypeOK
    <3>6. /\ lost <= MaxLost /\ duplicated <= MaxDuplicated
          /\ damaged <= MaxDamaged /\ strays <= MaxStray /\ refused <= MaxRefused
      BY WirePathAssumption DEF IInv, Typed
    <3>7. QED
      BY <3>1, <3>3, <3>5, <3>6 DEF TypeOK
  <2>2. QED
    BY <2>1 DEF IInv, Distinct, Numbered, NoneUnsealed, Traced, ForwardedOnce
<1>2. QED
  BY <1>1, WireInvariance, PTL

(***************************************************************************)
(* drain() drops a packet as a replay only when its number passed before   *)
(* or the window is past it; and between two sides with the same key only  *)
(* a damaged packet fails authentication.                                  *)
(***************************************************************************)
THEOREM DropsAreJustified == Spec => []DropsJustified
<1>1. IInv => DropsJustified
  BY DEF IInv, Justified, DropsJustified
<1>2. QED
  BY <1>1, WireInvariance, PTL

(***************************************************************************)
(* drain() never seals two packets under the same key and nonce: also when *)
(* rekeys recur, HKDF fails and leaves zero keys, or seal() fails.         *)
(***************************************************************************)
THEOREM ForwardsUnderFreshNonces == Spec => []NoncesFresh
<1>1. IInv => NoncesFresh
  BY DEF IInv, Sealing, NoncesFresh
<1>2. QED
  BY <1>1, WireInvariance, PTL
=============================================================================
