---------------------------- MODULE HotPathProofs ----------------------------
(***************************************************************************)
(* Proofs about the staged measurement, for every window, rekey period,    *)
(* batch, buffer and target, and whatever sends, seals and HKDF calls      *)
(* fail.                                                                   *)
(*                                                                         *)
(* The argument for StagedVerify: the packets waiting are in the order of  *)
(* their numbers, the i-th of them at most StageWindow - i behind the last *)
(* number sealed (Queued).  Staging moves the last number away from them,  *)
(* and draining too, but draining also takes the oldest.  So none is ever  *)
(* further behind than one packet less than a window, which spans at most  *)
(* two epochs, and the schedule has the keys of the last two (KeysAt).     *)
(***************************************************************************)
EXTENDS HotPath, DataPlaneFacts

SealedBodies ==
  [key : Materials({Secret}) \cup {NoKey}, nonce : Materials({Secret}) \X Nat,
   aad : Epochs \X Nat \X Nat]

\* Only packets of the shard itself reach its socket.
Datagrams ==
  [wellFormed : {TRUE}, epoch : Epochs, seq : Nat, tsc : Nat, body : SealedBodies]

Outcomes == {"skip", "replayed", "unauthentic", "forward", "unsealed"}

Stats == [packets : Nat, auth_fail : Nat, replay_drop : Nat, rekeys : Nat]
Calls == [active : BOOLEAN, budget : Nat, processed : Nat, n : Nat]

Typed ==
  /\ win \in Window
  /\ seq \in Nat
  /\ st \in Stats
  /\ call \in Calls
  /\ rxq \in Seq(Datagrams) /\ batch \in Seq(Datagrams) /\ out \in Seq(Datagrams)
  /\ fates \in Seq([d : Datagrams, what : Outcomes])
  /\ reused \in BOOLEAN
  /\ phase \in {"stage", "drain", "finished", "failed"}
  /\ cycles \in 0 .. Warmup
  /\ left \in 0 .. StageWindow
  /\ staged \in 0 .. StageWindow
  /\ done \in 0 .. Target
  /\ guard \in 0 .. GuardLimit + 1

-----------------------------------------------------------------------------
\* The epochs counted without wrapping around, and the turn the schedule is
\* in when s is the next number.
Turn(s) == IF Period = 0 THEN 0 ELSE s \div Period
TurnAt(s) == IF s = 0 THEN 0 ELSE Turn(s - 1)

\* A schedule that has come to turn t: it has its key and that of the turn
\* before.
KeysAt(k, t) ==
  /\ k \in Schedules({Secret}, {Period}) /\ Aligned(k)
  /\ Period = 0 => k.epoch = 0 /\ k.aead[1] = NoKey
  /\ Period > 0 =>
       /\ k.epoch = t % EpochMod
       /\ t >= 1 => k.aead[1] # NoKey /\ k.tag[1] = (t - 1) % EpochMod

BodyUnder(key, d) ==
  [key |-> key, nonce |-> <<key, d.seq>>, aad |-> <<d.epoch, d.seq, d.tsc>>]

\* What a packet of turn t, or of the turn before, was sealed under.
SealedUnder(k, t, d) ==
  IF Period = 0 THEN d.epoch = 0 /\ d.body = BodyUnder(k.aead[0], d)
  ELSE /\ d.epoch = Turn(d.seq) % EpochMod
       /\ Turn(d.seq) = t => d.body = BodyUnder(k.aead[0], d)
       /\ Turn(d.seq) = t - 1 => d.body = BodyUnder(k.aead[1], d)

(***************************************************************************)
(* The packets p wait, in the order of their numbers, for the schedule k   *)
(* and the window w; s is the next number, and the i-th of them is at most *)
(* room - i numbers behind the last one.                                   *)
(***************************************************************************)
Queued(p, k, w, s, room) ==
  \A i \in DOMAIN p :
    /\ p[i].seq < s
    /\ s - 1 - p[i].seq <= room - i
    /\ w.seen => w.high < p[i].seq
    /\ \A j \in 1 .. i - 1 : p[j].seq < p[i].seq
    /\ SealedUnder(k, TurnAt(s), p[i])

\* The packets received or to be received, in their order.
Pending == batch \o rxq

Waiting ==
  /\ KeysAt(keys, TurnAt(seq))
  /\ win.seen => win.high < seq
  /\ Queued(Pending, keys, win, seq, StageWindow - left)

-----------------------------------------------------------------------------
\* What preload() has staged is no more than is wanted, and what drain() has
\* still to do is no more than was staged.
Wants == IF cycles = 0 THEN Target - done ELSE StageWindow

Staging ==
  phase # "drain" =>
    /\ call = NoCall /\ batch = <<>> /\ out = <<>>
    /\ phase = "stage" => Len(rxq) <= staged /\ staged + left <= StageWindow
                          /\ staged + left <= Wants

Draining ==
  phase = "drain" =>
    /\ call.active /\ call.budget = staged /\ left = 0 /\ staged <= Wants
    /\ Len(rxq) + call.processed + call.n <= staged
    /\ Len(batch) + Len(out) <= call.n /\ call.n <= MaxBatch

Buffered ==
  /\ Len(rxq) <= RxCap
  /\ cycles > 0 => done = 0
  /\ phase # "finished" => guard <= GuardLimit

Sealing ==
  /\ ~reused
  /\ sealed \subseteq (Materials({Secret}) \cup {NoKey}) \X (Materials({Secret}) \X Nat)
  /\ \A p \in sealed : p[2][2] < seq

\* Every datagram processed since the reset is in one counter, but for those
\* that could not be sealed.
Counted == st.packets + st.auth_fail + st.replay_drop
Handled == done + call.processed + call.n - Len(batch)

Counting ==
  cycles = 0 =>
    /\ Counted <= Handled
    /\ Counted < Handled => \E i \in DOMAIN fates : fates[i].what = "unsealed"

IInv ==
  /\ Typed /\ Waiting
  /\ Staging /\ Draining /\ Buffered
  /\ Sealing /\ Counting /\ StagedVerify
-----------------------------------------------------------------------------
(***************************************************************************)
(* Arithmetic of turns.                                                    *)
(***************************************************************************)
LEMMA Division ==
  ASSUME NEW m \in Nat \ {0}, NEW n \in Nat
  PROVE  /\ n \div m \in Nat /\ n % m \in 0 .. m - 1
         /\ n = (n \div m) * m + (n % m)
  BY SMT

\* Numbers at most a period apart are at most a turn apart.
LEMMA TurnDistance ==
  ASSUME Period > 0, NEW a \in Nat, NEW b \in Nat, a <= b
  PROVE  /\ Turn(a) \in Nat /\ Turn(b) \in Nat /\ Turn(a) <= Turn(b)
         /\ b - a <= Period => Turn(b) = Turn(a) \/ Turn(b) = Turn(a) + 1
<1> DEFINE x == a \div Period
           y == b \div Period
           u == a % Period
           v == b % Period
<1>0. Period \in Nat \ {0}
  BY PeriodAssumption
<1>1. x \in Nat /\ u \in 0 .. Period - 1 /\ a = x * Period + u
  BY <1>0, Division
<1>2. y \in Nat /\ v \in 0 .. Period - 1 /\ b = y * Period + v
  BY <1>0, Division
<1>3. Turn(a) = x /\ Turn(b) = y
  BY <1>0 DEF Turn
<1> HIDE DEF x, y, u, v
<1>4. ASSUME NEW m \in Int, NEW n \in Int, m <= n PROVE m * Period <= n * Period
  BY <1>0, <1>4
<1>5. ASSUME y < x PROVE FALSE
  <2>1. (y + 1) * Period <= x * Period
    BY <1>1, <1>2, <1>4, <1>5
  <2>2. (y + 1) * Period = y * Period + Period
    BY <1>0, <1>2
  <2>3. x * Period \in Nat /\ y * Period \in Nat
    BY <1>0, <1>1, <1>2
  <2>4. QED
    BY <1>0, <1>1, <1>2, <2>1, <2>2, <2>3
<1>6. ASSUME b - a <= Period, x + 1 < y PROVE FALSE
  <2>1. (x + 2) * Period <= y * Period
    BY <1>1, <1>2, <1>4, <1>6
  <2>2. (x + 2) * Period = x * Period + Period + Period
    BY <1>0, <1>1
  <2>3. x * Period \in Nat /\ y * Period \in Nat
    BY <1>0, <1>1, <1>2
  <2>4. QED
    BY <1>0, <1>1, <1>2, <1>6, <2>1, <2>2, <2>3
<1>7. QED
  BY <1>1, <1>2, <1>3, <1>5, <1>6

\* Two turns in a row have different epoch numbers.
LEMMA NextEpochDiffers ==
  ASSUME NEW t \in Nat
  PROVE  (t + 1) % EpochMod # t % EpochMod
<1> DEFINE x == t \div EpochMod
           y == (t + 1) \div EpochMod
           u == t % EpochMod
           v == (t + 1) % EpochMod
<1>0. EpochMod \in Nat \ {0} /\ EpochMod >= 2
  BY EpochModAssumption
<1>1. x \in Nat /\ u \in 0 .. EpochMod - 1 /\ t = x * EpochMod + u
  BY <1>0, Division
<1>2. y \in Nat /\ v \in 0 .. EpochMod - 1 /\ t + 1 = y * EpochMod + v
  <2>1. t + 1 \in Nat
    OBVIOUS
  <2>2. QED
    BY <1>0, <2>1, Division
<1> HIDE DEF x, y, u, v
<1>3. SUFFICES ASSUME u = v PROVE FALSE
  BY DEF u, v
<1>4. x * EpochMod \in Nat /\ y * EpochMod \in Nat /\ y * EpochMod = x * EpochMod + 1
  BY <1>0, <1>1, <1>2, <1>3
<1>5. ASSUME NEW m \in Int, NEW n \in Int, m <= n PROVE m * EpochMod <= n * EpochMod
  BY <1>0, <1>5
<1>6. CASE y <= x
  BY <1>1, <1>2, <1>4, <1>5, <1>6
<1>7. CASE y >= x + 1
  <2>1. (x + 1) * EpochMod <= y * EpochMod
    BY <1>1, <1>2, <1>5, <1>7
  <2>2. (x + 1) * EpochMod = x * EpochMod + EpochMod
    BY <1>0, <1>1
  <2>3. QED
    BY <1>0, <1>4, <2>1, <2>2
<1>8. QED
  BY <1>1, <1>2, <1>6, <1>7

\* Taking the next number leaves the turn or goes to the one after it.
LEMMA TurnStep ==
  ASSUME NEW s \in Nat
  PROVE  /\ TurnAt(s) \in Nat /\ Turn(s) \in Nat /\ TurnAt(s + 1) = Turn(s)
         /\ Turn(s) = TurnAt(s) \/ (Period > 0 /\ Turn(s) = TurnAt(s) + 1)
<1>1. TurnAt(s + 1) = Turn(s)
  BY DEF TurnAt
<1>2. CASE Period = 0
  BY <1>1, <1>2 DEF Turn, TurnAt
<1>3. CASE Period # 0
  <2>1. Period \in Nat /\ Period > 0
    BY <1>3, PeriodAssumption
  <2>2. CASE s = 0
    <3>1. Turn(0) \in Nat
      BY <2>1, TurnDistance
    <3>2. 0 \div Period = 0
      BY <2>1
    <3>3. QED
      BY <1>1, <2>1, <2>2, <3>2 DEF Turn, TurnAt
  <2>3. CASE s # 0
    <3>1. s - 1 \in Nat /\ s - 1 <= s /\ s - (s - 1) <= Period
      BY <2>1, <2>3
    <3>2. TurnAt(s) = Turn(s - 1)
      BY <2>3 DEF TurnAt
    <3>3. QED
      BY <1>1, <2>1, <3>1, <3>2, TurnDistance
  <2>4. QED
    BY <2>2, <2>3
<1>4. QED
  BY <1>2, <1>3

-----------------------------------------------------------------------------
(***************************************************************************)
(* The schedule and the packets sealed under it.                           *)
(***************************************************************************)

\* maybe_rekey(s) brings the schedule to the turn of s, and keeps the key it
\* had as that of the turn before when it rekeys.
LEMMA RekeyTo ==
  ASSUME NEW k, NEW s \in Nat, KeysAt(k, TurnAt(s)), NEW hk \in HkdfCalls
  PROVE  /\ KeysAt(MaybeRekey(k, s, hk), Turn(s))
         /\ Turn(s) = TurnAt(s) => MaybeRekey(k, s, hk) = k
         /\ Turn(s) # TurnAt(s) => MaybeRekey(k, s, hk).aead[1] = k.aead[0]
<1> DEFINE n == MaybeRekey(k, s, hk)
           t == TurnAt(s)
           u == Turn(s)
<1>1. t \in Nat /\ u \in Nat /\ (u = t \/ (Period > 0 /\ u = t + 1))
  BY TurnStep
<1>2. /\ k \in Schedules({Secret}, {Period}) /\ k.perEpoch = Period /\ Aligned(k)
      /\ Period > 0 => k.epoch = t % EpochMod
  BY DEF KeysAt, Schedules
<1>3. Period > 0 => WantedEpoch(k, s) = u % EpochMod
  BY <1>2, PeriodAssumption DEF WantedEpoch, Turn
<1> HIDE DEF t, u
<1>4. CASE u = t
  <2>1. ~NeedsRekey(k, s)
    BY <1>2, <1>3, <1>4 DEF NeedsRekey
  <2>2. n = k
    BY <2>1, NoRekey
  <2>3. QED
    BY <1>4, <2>2 DEF t, u
<1>5. CASE Period > 0 /\ u = t + 1
  <2>1. u % EpochMod # t % EpochMod
    BY <1>1, <1>5, NextEpochDiffers
  <2>2. NeedsRekey(k, s)
    BY <1>2, <1>3, <1>5, <2>1 DEF NeedsRekey
  <2>3. {Period} \in SUBSET Nat
    BY PeriodAssumption
  <2>4. /\ n \in Schedules({Secret}, {Period}) /\ n.epoch = WantedEpoch(k, s)
        /\ n.aead[1] = k.aead[0] /\ n.tag[1] = k.epoch
    BY <1>2, <2>2, <2>3, RekeyFields
  <2>5. Aligned(n)
    BY <1>2, <2>3, MaybeRekeyAligned, NoKeyAssumption
  <2>6. k.aead[0] # NoKey
    BY <1>2 DEF Aligned
  <2> HIDE DEF n
  <2>7. KeysAt(n, u)
    BY <1>1, <1>2, <1>3, <1>5, <2>4, <2>5, <2>6 DEF KeysAt
  <2>8. QED
    BY <1>1, <1>5, <2>4, <2>7 DEF t, u, n
<1>6. QED
  BY <1>1, <1>4, <1>5

\* The datagram a schedule seals.
LEMMA SealedFields ==
  ASSUME NEW k \in Schedules({Secret}, {Period}), NEW s \in Nat, NEW t \in Nat
  PROVE  LET o == SealedFor(k, s, t)
         IN  /\ o \in Datagrams
             /\ o.epoch = k.epoch /\ o.seq = s /\ o.tsc = t
<1> DEFINE key == ForEpoch(k, k.epoch)
           salt == NonceSalt(k, k.epoch)
           ep == k.epoch
           body == [key |-> key, nonce |-> <<salt, s>>, aad |-> <<ep, s, t>>]
           o == SealedFor(k, s, t)
<1>1. ep \in Epochs
  BY DEF Schedules
<1>2. key \in Materials({Secret}) \cup {NoKey} /\ salt \in Materials({Secret})
  BY AnswerTypes
<1>3. o = [wellFormed |-> TRUE, epoch |-> ep, seq |-> s, tsc |-> t, body |-> body]
  BY DEF SealedFor, Sealed, Nonce
<1> HIDE DEF key, salt, ep, o
<1>5. body \in SealedBodies
  BY <1>1, <1>2 DEF SealedBodies
<1>7. o \in Datagrams
  <2> HIDE DEF body
  <2>1. QED
    BY <1>1, <1>3, <1>5 DEF Datagrams
<1>8. o.epoch = ep /\ o.seq = s /\ o.tsc = t
  BY <1>3
<1>9. QED
  BY <1>7, <1>8 DEF o, ep

\* With the slots aligned it is sealed under the current key.
LEMMA SealedByCurrent ==
  ASSUME NEW k, Aligned(k), NEW s, NEW t
  PROVE  SealedFor(k, s, t).body = BodyUnder(k.aead[0], SealedFor(k, s, t))
<1>1. ForEpoch(k, k.epoch) = k.aead[0] /\ NonceSalt(k, k.epoch) = k.aead[0]
  BY DEF Aligned, ForEpoch, NonceSalt
<1>2. QED
  BY <1>1 DEF SealedFor, Sealed, Nonce, BodyUnder

\* The key and the nonce it is sealed under.
LEMMA SealedPair ==
  ASSUME NEW k \in Schedules({Secret}, {Period}), NEW s \in Nat, NEW t \in Nat
  PROVE  LET o == SealedFor(k, s, t)
         IN  /\ o.body.key \in Materials({Secret}) \cup {NoKey}
             /\ o.body.nonce \in Materials({Secret}) \X Nat /\ o.body.nonce[2] = s
<1> DEFINE key == ForEpoch(k, k.epoch)
           salt == NonceSalt(k, k.epoch)
           o == SealedFor(k, s, t)
<1>1. key \in Materials({Secret}) \cup {NoKey} /\ salt \in Materials({Secret})
  BY AnswerTypes
<1>2. o.body.key = key /\ o.body.nonce = <<salt, s>>
  BY DEF SealedFor, Sealed, Nonce
<1> HIDE DEF key, salt, o
<1>3. QED
  BY <1>1, <1>2 DEF o
-----------------------------------------------------------------------------
(***************************************************************************)
(* The packets that wait.                                                  *)
(***************************************************************************)

\* The numbers of datagrams are numbers.
LEMMA SeqsAreNumbers ==
  ASSUME NEW p \in Seq(Datagrams), NEW i \in DOMAIN p
  PROVE  p[i] \in Datagrams /\ p[i].seq \in Nat /\ p[i].wellFormed
<1>1. p[i] \in Datagrams
  OBVIOUS
<1>2. QED
  BY <1>1 DEF Datagrams

\* A packet that waits is still what it was sealed as when the next number is
\* taken.
LEMMA StillSealed ==
  ASSUME NEW k, NEW s \in Nat, KeysAt(k, TurnAt(s)), NEW hk \in HkdfCalls,
         NEW d, d.seq \in Nat, d.seq < s, SealedUnder(k, TurnAt(s), d)
  PROVE  SealedUnder(MaybeRekey(k, s, hk), Turn(s), d)
<1> DEFINE n == MaybeRekey(k, s, hk)
           t == TurnAt(s)
           u == Turn(s)
<1>1. t \in Nat /\ u \in Nat /\ (u = t \/ (Period > 0 /\ u = t + 1))
  BY TurnStep
<1>2. (u = t => n = k) /\ (u # t => n.aead[1] = k.aead[0])
  BY RekeyTo
<1>3. CASE u = t
  BY <1>2, <1>3
<1>4. CASE Period > 0 /\ u = t + 1
  <2>1. s - 1 \in Nat /\ d.seq <= s - 1 /\ t = Turn(s - 1)
    BY DEF TurnAt
  <2>2. Turn(d.seq) \in Nat /\ Turn(d.seq) <= t
    BY <1>4, <2>1, TurnDistance
  <2>3. n.aead[1] = k.aead[0]
    BY <1>1, <1>2, <1>4
  <2> HIDE DEF n, t, u
  <2>4. Turn(d.seq) # u /\ (Turn(d.seq) = u - 1 <=> Turn(d.seq) = t)
    BY <1>1, <1>4, <2>2
  <2>5. SealedUnder(k, t, d)
    BY DEF t
  <2>6. SealedUnder(n, u, d)
    BY <1>4, <2>3, <2>4, <2>5 DEF SealedUnder
  <2>7. QED
    BY <2>6 DEF n, u
<1>5. QED
  BY <1>1, <1>3, <1>4

\* Taking the next number moves every waiting packet one further behind.
LEMMA QueueAges ==
  ASSUME NEW p \in Seq(Datagrams), NEW k, NEW w, NEW s \in Nat, NEW room \in Int,
         Queued(p, k, w, s, room), KeysAt(k, TurnAt(s)), NEW hk \in HkdfCalls
  PROVE  Queued(p, MaybeRekey(k, s, hk), w, s + 1, room + 1)
<1> DEFINE n == MaybeRekey(k, s, hk)
           z == s + 1
           r == room + 1
<1>0. z \in Nat /\ z = s + 1 /\ r = room + 1 /\ TurnAt(z) = Turn(s)
  BY TurnStep
<1> HIDE DEF n, z, r
<1> SUFFICES ASSUME NEW i \in DOMAIN p
             PROVE  /\ p[i].seq < z
                    /\ z - 1 - p[i].seq <= r - i
                    /\ w.seen => w.high < p[i].seq
                    /\ \A j \in 1 .. i - 1 : p[j].seq < p[i].seq
                    /\ SealedUnder(n, TurnAt(z), p[i])
  BY DEF Queued, n, z, r
<1>1. /\ p[i].seq < s
      /\ s - 1 - p[i].seq <= room - i
      /\ w.seen => w.high < p[i].seq
      /\ \A j \in 1 .. i - 1 : p[j].seq < p[i].seq
      /\ SealedUnder(k, TurnAt(s), p[i])
  BY DEF Queued
<1>2. p[i].seq \in Nat /\ i \in Nat
  BY SeqsAreNumbers
<1>3. SealedUnder(n, Turn(s), p[i])
  BY <1>1, <1>2, StillSealed DEF n
<1>4. p[i].seq < z /\ z - 1 - p[i].seq <= r - i
  BY <1>0, <1>1, <1>2
<1>5. QED
  BY <1>0, <1>1, <1>3, <1>4

\* The packet sealed under the next number is the last in the queue.
LEMMA QueueGrows ==
  ASSUME NEW p \in Seq(Datagrams), NEW k, NEW w, w.high \in Nat, NEW s \in Nat,
         NEW room \in Int, Queued(p, k, w, s, room), Len(p) <= room,
         w.seen => w.high < s, KeysAt(k, TurnAt(s)), NEW hk \in HkdfCalls
  PROVE  LET n == MaybeRekey(k, s, hk)
         IN  Queued(Append(p, SealedFor(n, s, s)), n, w, s + 1, room + 1)
<1> DEFINE n == MaybeRekey(k, s, hk)
           o == SealedFor(n, s, s)
           q == Append(p, o)
           m == Len(p) + 1
           z == s + 1
           r == room + 1
<1>1. Queued(p, n, w, z, r)
  BY QueueAges
<1>2. KeysAt(n, Turn(s)) /\ TurnAt(z) = Turn(s) /\ z = s + 1 /\ r = room + 1
  BY RekeyTo, TurnStep
<1>3. n \in Schedules({Secret}, {Period}) /\ Aligned(n)
  BY <1>2 DEF KeysAt
<1> HIDE DEF n, z, r
<1>4. /\ o \in Datagrams /\ o.seq = s /\ o.epoch = n.epoch
      /\ o.body = BodyUnder(n.aead[0], o)
  <2>1. o \in Datagrams
    BY <1>3, SealedFields
  <2>2. o.seq = s /\ o.epoch = n.epoch
    BY DEF SealedFor, Sealed
  <2>3. o.body = BodyUnder(n.aead[0], o)
    BY <1>3, SealedByCurrent
  <2>4. QED
    BY <2>1, <2>2, <2>3
<1> HIDE DEF o
<1>5. SealedUnder(n, TurnAt(z), o)
  <2>1. CASE Period = 0
    BY <1>2, <1>4, <2>1 DEF KeysAt, SealedUnder
  <2>2. CASE Period # 0
    <3>1. Period > 0 /\ Turn(s) \in Nat
      BY <2>2, PeriodAssumption, TurnStep
    <3>2. o.epoch = Turn(o.seq) % EpochMod
      BY <1>2, <1>4, <3>1 DEF KeysAt
    <3>3. Turn(o.seq) # Turn(s) - 1
      BY <1>4, <3>1
    <3>4. QED
      BY <1>2, <1>4, <2>2, <3>2, <3>3 DEF SealedUnder
  <2>3. QED
    BY <2>1, <2>2
<1>6. /\ DOMAIN p = 1 .. Len(p) /\ Len(p) \in Nat /\ DOMAIN q = 1 .. m
      /\ \A i \in DOMAIN p : q[i] = p[i]
      /\ q[m] = o
  BY <1>4
<1> HIDE DEF q
<1>7. ASSUME NEW i \in DOMAIN q
      PROVE  /\ q[i].seq < z
             /\ z - 1 - q[i].seq <= r - i
             /\ w.seen => w.high < q[i].seq
             /\ \A j \in 1 .. i - 1 : q[j].seq < q[i].seq
             /\ SealedUnder(n, TurnAt(z), q[i])
  <2>1. CASE i \in DOMAIN p
    <3>1. q[i] = p[i] /\ \A j \in 1 .. i - 1 : j \in DOMAIN p /\ q[j] = p[j]
      BY <1>6, <2>1
    <3>2. QED
      BY <1>1, <2>1, <3>1 DEF Queued
  <2>2. CASE i = m
    <3>1. \A j \in 1 .. i - 1 : j \in DOMAIN p /\ q[j] = p[j]
      BY <1>6, <2>2
    <3>2. \A j \in DOMAIN p : p[j].seq < s
      BY DEF Queued
    <3>3. q[i] = o
      BY <1>6, <2>2
    <3>4. s < z /\ z - 1 - s <= r - i
      BY <1>2, <1>6, <2>2
    <3>5. QED
      BY <1>4, <1>5, <3>1, <3>2, <3>3, <3>4
  <2>3. QED
    BY <1>6, <1>7, <2>1, <2>2
<1>8. Queued(q, n, w, z, r)
  BY <1>7 DEF Queued
<1>9. QED
  BY <1>8 DEF q, n, o, z, r

\* More room is no harm.
LEMMA QueueHasRoom ==
  ASSUME NEW p \in Seq(Datagrams), NEW k, NEW w, NEW s \in Nat, NEW room \in Int,
         NEW more \in Int, room <= more, Queued(p, k, w, s, room)
  PROVE  Queued(p, k, w, s, more)
<1>1. \A i \in DOMAIN p : i \in Nat /\ p[i].seq \in Nat
  BY SeqsAreNumbers
<1>2. QED
  BY <1>1 DEF Queued

\* The window passes the first in the queue and moves to it at most.
LEMMA WindowMoves ==
  ASSUME NEW w \in Window, NEW s \in Nat, w.seen => w.high < s
  PROVE  /\ Verdict(w, s) = "ok"
         /\ Accept(w, s) \in Window /\ Accept(w, s).high = s
<1>1. w.high \in Nat
  BY DEF Window
<1>2. CASE ~w.seen
  BY <1>1, <1>2, AcceptType DEF Verdict, Accept, AcceptFirst, Window
<1>3. CASE w.seen
  <2>1. s > w.high
    BY <1>1, <1>3
  <2>2. Verdict(w, s) = "ok" /\ Accept(w, s) = AcceptAhead(w, s)
    BY <1>3, <2>1 DEF Verdict, Accept
  <2>3. AcceptAhead(w, s).high = s
    BY DEF AcceptAhead, Window
  <2>4. QED
    BY <2>2, <2>3, AcceptType
<1>4. QED
  BY <1>2, <1>3

\* The first in the queue is taken.
LEMMA QueueShrinks ==
  ASSUME NEW p \in Seq(Datagrams), p # <<>>, NEW k, NEW w, NEW s \in Nat,
         NEW room \in Int, Queued(p, k, w, s, room), NEW v,
         v = w \/ v.high = Head(p).seq
  PROVE  Queued(Tail(p), k, v, s, room - 1)
<1> DEFINE q == Tail(p)
<1>1. /\ Len(p) \in Nat /\ Len(p) >= 1 /\ DOMAIN p = 1 .. Len(p)
      /\ DOMAIN q = 1 .. Len(p) - 1
      /\ \A i \in DOMAIN q : q[i] = p[i + 1]
      /\ Head(p) = p[1]
  OBVIOUS
<1>2. \A i \in DOMAIN p : p[i].seq \in Nat
  BY SeqsAreNumbers
<1> HIDE DEF q
<1>3. ASSUME NEW i \in DOMAIN q
      PROVE  /\ q[i].seq < s
             /\ s - 1 - q[i].seq <= room - 1 - i
             /\ v.seen => v.high < q[i].seq
             /\ \A j \in 1 .. i - 1 : q[j].seq < q[i].seq
             /\ SealedUnder(k, TurnAt(s), q[i])
  <2>1. i \in Nat /\ i >= 1 /\ i + 1 \in DOMAIN p /\ q[i] = p[i + 1]
    BY <1>1
  <2> DEFINE h == i + 1
  <2>2. h \in DOMAIN p /\ h \in Nat /\ h = i + 1
    BY <2>1
  <2> HIDE DEF h
  <2>3. /\ p[h].seq < s
        /\ s - 1 - p[h].seq <= room - h
        /\ w.seen => w.high < p[h].seq
        /\ \A j \in 1 .. h - 1 : p[j].seq < p[h].seq
        /\ SealedUnder(k, TurnAt(s), p[h])
    BY <2>2 DEF Queued
  <2>4. q[i] = p[h] /\ p[h].seq \in Nat
    BY <1>2, <2>1, <2>2
  <2>5. \A j \in 1 .. i - 1 : j + 1 \in 1 .. h - 1 /\ q[j] = p[j + 1]
    BY <1>1, <2>1, <2>2
  <2>6. \A j \in 1 .. i - 1 : q[j].seq < q[i].seq
    BY <2>3, <2>4, <2>5
  <2>7. s - 1 - q[i].seq <= room - 1 - i
    BY <2>1, <2>2, <2>3, <2>4
  <2>8. p[1].seq < p[h].seq
    BY <2>1, <2>2, <2>3
  <2>9. v.seen => v.high < q[i].seq
    BY <1>1, <2>3, <2>4, <2>8
  <2>10. QED
    BY <2>3, <2>4, <2>6, <2>7, <2>9
<1>4. QED
  BY <1>3 DEF Queued, q

\* A packet at most an epoch behind the last number opens.
LEMMA RecentOpens ==
  ASSUME NEW k, NEW s \in Nat, KeysAt(k, TurnAt(s)), NEW d, d.seq \in Nat,
         d.seq < s, Period = 0 \/ s - 1 - d.seq <= Period,
         SealedUnder(k, TurnAt(s), d)
  PROVE  /\ ForEpoch(k, d.epoch) # NoKey
         /\ Opens(d, ForEpoch(k, d.epoch), Nonce(k, d.epoch, d.seq))
<1> DEFINE t == TurnAt(s)
<1>1. Aligned(k)
  BY DEF KeysAt
<1>2. ASSUME NEW key, ForEpoch(k, d.epoch) = key, key # NoKey, d.body = BodyUnder(key, d)
      PROVE  Opens(d, ForEpoch(k, d.epoch), Nonce(k, d.epoch, d.seq))
  <2>1. NonceSalt(k, d.epoch) = key
    BY <1>1, <1>2, SaltOfKey
  <2>2. QED
    BY <1>2, <2>1 DEF Opens, Nonce, BodyUnder
<1>3. CASE Period = 0
  <2>1. d.epoch = 0 /\ d.body = BodyUnder(k.aead[0], d)
    BY <1>3 DEF SealedUnder
  <2>2. ForEpoch(k, d.epoch) = k.aead[0] /\ k.aead[0] # NoKey
    BY <1>1, <1>3, <2>1 DEF KeysAt, Aligned, ForEpoch
  <2>3. QED
    BY <1>2, <2>1, <2>2
<1>4. CASE Period # 0
  <2>0. Period > 0 /\ Period \in Nat
    BY <1>4, PeriodAssumption
  <2>1. s - 1 \in Nat /\ d.seq <= s - 1 /\ t = Turn(s - 1) /\ s - 1 - d.seq <= Period
    BY <1>4 DEF TurnAt
  <2>2. /\ t \in Nat /\ Turn(d.seq) \in Nat
        /\ t = Turn(d.seq) \/ t = Turn(d.seq) + 1
    BY <2>0, <2>1, TurnDistance
  <2> HIDE DEF t
  <2>3. /\ d.epoch = Turn(d.seq) % EpochMod
        /\ Turn(d.seq) = t => d.body = BodyUnder(k.aead[0], d)
        /\ Turn(d.seq) = t - 1 => d.body = BodyUnder(k.aead[1], d)
    BY <1>4 DEF SealedUnder, t
  <2>4. /\ k.epoch = t % EpochMod /\ k.tag[0] = k.epoch /\ k.aead[0] # NoKey
        /\ t >= 1 => k.aead[1] # NoKey /\ k.tag[1] = (t - 1) % EpochMod
    BY <2>0 DEF KeysAt, Aligned, t
  <2>5. CASE t = Turn(d.seq)
    <3>1. ForEpoch(k, d.epoch) = k.aead[0]
      BY <2>3, <2>4, <2>5 DEF ForEpoch
    <3>2. QED
      BY <1>2, <2>3, <2>4, <2>5, <3>1
  <2>6. CASE t = Turn(d.seq) + 1
    <3>1. Turn(d.seq) = t - 1 /\ t >= 1
      BY <2>2, <2>6
    <3>2. k.tag[0] # d.epoch
      BY <2>2, <2>3, <2>4, <2>6, NextEpochDiffers
    <3>3. k.aead[1] # NoKey /\ k.tag[1] = d.epoch
      BY <2>3, <2>4, <3>1
    <3>4. ForEpoch(k, d.epoch) = k.aead[1]
      BY <3>2, <3>3 DEF ForEpoch
    <3>5. QED
      BY <1>2, <2>3, <3>1, <3>3, <3>4
  <2>7. QED
    BY <2>2, <2>5, <2>6
<1>5. QED
  BY <1>3, <1>4
-----------------------------------------------------------------------------
(***************************************************************************)
(* Staging.                                                                *)
(***************************************************************************)

\* A packet sealed under the next number uses a fresh pair.
LEMMA SealKeeps ==
  ASSUME Sealing, reused \in BOOLEAN, seq \in Nat, seq' = seq + 1, NEW o,
         o.body.key \in Materials({Secret}) \cup {NoKey},
         o.body.nonce \in Materials({Secret}) \X Nat, o.body.nonce[2] = seq,
         NoteSealed(o) \/ UNCHANGED <<sealed, reused>>
  PROVE  Sealing' /\ reused' \in BOOLEAN
<1> DEFINE pair == <<o.body.key, o.body.nonce>>
<1>1. /\ ~reused
      /\ sealed \subseteq (Materials({Secret}) \cup {NoKey}) \X (Materials({Secret}) \X Nat)
      /\ \A p \in sealed : p[2][2] < seq
  BY DEF Sealing
<1>2. \A p \in sealed : p[2][2] \in Nat
  BY <1>1
<1>3. CASE UNCHANGED <<sealed, reused>>
  <2>1. \A p \in sealed' : p[2][2] < seq'
    BY <1>1, <1>2, <1>3
  <2>2. QED
    BY <1>1, <1>3, <2>1 DEF Sealing
<1>4. CASE NoteSealed(o)
  <2>1. /\ pair \in (Materials({Secret}) \cup {NoKey}) \X (Materials({Secret}) \X Nat)
        /\ pair[2][2] = seq
    OBVIOUS
  <2>2. sealed' = sealed \cup {pair}
    BY <1>4 DEF NoteSealed
  <2>3. reused' = (reused \/ pair \in sealed)
    BY <1>4 DEF NoteSealed
  <2> HIDE DEF pair
  <2>4. pair \notin sealed
    BY <1>1, <2>1
  <2>5. reused' = FALSE
    BY <1>1, <2>3, <2>4, Zenon
  <2>6. \A p \in sealed' : p[2][2] < seq'
    BY <1>1, <1>2, <2>1, <2>2
  <2>7. QED
    BY <1>1, <2>1, <2>2, <2>5, <2>6 DEF Sealing
<1>5. QED
  BY <1>3, <1>4

\* While packets are staged, what waits is in the receive queue.
LEMMA StageFacts ==
  ASSUME IInv, phase = "stage"
  PROVE  /\ call = NoCall /\ batch = <<>> /\ out = <<>> /\ Pending = rxq
         /\ rxq \in Seq(Datagrams) /\ Len(rxq) \in Nat /\ Len(rxq) <= staged
         /\ left \in Nat /\ staged \in Nat /\ StageWindow \in Nat
         /\ staged + left <= StageWindow /\ staged + left <= Wants
         /\ seq \in Nat /\ win \in Window /\ win.high \in Nat
         /\ done \in 0 .. Target /\ Target \in Nat /\ Wants \in Int
<1>1. /\ rxq \in Seq(Datagrams) /\ left \in 0 .. StageWindow /\ staged \in 0 .. StageWindow
      /\ seq \in Nat /\ win \in Window /\ done \in 0 .. Target
  BY DEF IInv, Typed
<1>2. StageWindow \in Nat /\ Target \in Nat
  BY HotPathAssumption
<1>3. call = NoCall /\ batch = <<>> /\ out = <<>>
  BY DEF IInv, Staging
<1>4. Len(rxq) <= staged /\ staged + left <= StageWindow /\ staged + left <= Wants
  BY DEF IInv, Staging
<1>5. Pending = rxq
  <2>1. <<>> \o rxq = rxq
    BY <1>1
  <2>2. QED
    BY <1>3, <2>1 DEF Pending
<1>6. win.high \in Nat
  BY <1>1 DEF Window
<1>7. Wants \in Int
  BY <1>1, <1>2 DEF Wants
<1>8. QED
  BY <1>1, <1>2, <1>3, <1>4, <1>5, <1>6, <1>7

LEMMA SumsFit ==
  ASSUME NEW a \in Nat, NEW b \in Nat, NEW c \in Nat, NEW d \in Nat, NEW e \in Int,
         a + b <= c + d, c + d <= e
  PROVE  a + b <= e
  OBVIOUS

LEMMA SumBounds ==
  ASSUME NEW a \in Nat, NEW b \in Nat, NEW e \in Nat, a + b <= e
  PROVE  a \in 0 .. e /\ b \in 0 .. e
  OBVIOUS

LEMMA PreloadKeeps == IInv /\ PreloadPacket => IInv'
<1> SUFFICES ASSUME IInv, PreloadPacket PROVE IInv'
  OBVIOUS
<1>1. phase = "stage" /\ left > 0 /\ seq' = seq + 1
  BY DEF PreloadPacket
<1>2. UNCHANGED <<win, st, call, batch, out, egress, fates, phase, cycles, done, guard>>
  BY DEF PreloadPacket
<1>3. /\ call = NoCall /\ batch = <<>> /\ out = <<>> /\ Pending = rxq
      /\ rxq \in Seq(Datagrams) /\ Len(rxq) \in Nat /\ Len(rxq) <= staged
      /\ left \in Nat /\ staged \in Nat /\ StageWindow \in Nat
      /\ staged + left <= StageWindow /\ staged + left <= Wants
      /\ seq \in Nat /\ win \in Window /\ win.high \in Nat /\ Wants \in Int
  BY <1>1, StageFacts
<1>4. PICK hk \in HkdfCalls, sealOk \in SealOutcomes :
        /\ keys' = MaybeRekey(keys, seq, hk)
        /\ \/ /\ ~sealOk
              /\ left' = 0
              /\ UNCHANGED <<rxq, staged, sealed, reused>>
           \/ /\ sealOk
              /\ left' = left - 1
              /\ NoteSealed(SealedFor(keys', seq, seq))
              /\ \/ /\ rxq' = IF Len(rxq) < RxCap
                              THEN Append(rxq, SealedFor(keys', seq, seq)) ELSE rxq
                    /\ staged' = staged + 1
                 \/ UNCHANGED <<rxq, staged>>
  BY DEF PreloadPacket
<1> DEFINE o == SealedFor(keys', seq, seq)
           room == StageWindow - left
<1>5. /\ KeysAt(keys, TurnAt(seq)) /\ (win.seen => win.high < seq)
      /\ Queued(rxq, keys, win, seq, room)
  BY <1>3 DEF IInv, Waiting
<1>6. KeysAt(keys', TurnAt(seq'))
  BY <1>1, <1>3, <1>4, <1>5, RekeyTo, TurnStep
<1>7. keys' \in Schedules({Secret}, {Period})
  BY <1>6 DEF KeysAt
<1>8. o \in Datagrams
  BY <1>3, <1>7, SealedFields
<1>9. /\ o.body.key \in Materials({Secret}) \cup {NoKey}
      /\ o.body.nonce \in Materials({Secret}) \X Nat /\ o.body.nonce[2] = seq
  BY <1>3, <1>7, SealedPair, ZenonT(60)
<1>10. room \in Int /\ Len(rxq) <= room /\ room = StageWindow - left
  BY <1>3
<1>11. /\ Queued(rxq, keys', win, seq', room + 1)
       /\ Queued(Append(rxq, o), keys', win, seq', room + 1)
  BY <1>1, <1>3, <1>4, <1>5, <1>10, QueueAges, QueueGrows
<1> HIDE DEF o, room
<1>12. /\ rxq' \in Seq(Datagrams) /\ Len(rxq') <= RxCap
       /\ staged' \in Nat /\ left' \in Nat /\ Len(rxq') <= staged'
       /\ staged' + left' <= staged + left
       /\ Queued(rxq', keys', win, seq', StageWindow - left')
  <2>0. Len(rxq) <= RxCap /\ RxCap \in Nat
    BY RxCapAssumption DEF IInv, Buffered
  <2>1. CASE left' = 0 /\ UNCHANGED <<rxq, staged>>
    <3>1. Queued(rxq, keys', win, seq', StageWindow)
      BY <1>1, <1>3, <1>10, <1>11, QueueHasRoom
    <3>2. StageWindow - left' = StageWindow
      BY <1>3, <2>1
    <3>3. QED
      BY <1>1, <1>3, <2>0, <2>1, <3>1, <3>2
  <2>2. CASE left' = left - 1 /\ UNCHANGED <<rxq, staged>>
    <3>1. StageWindow - left' = room + 1
      BY <1>3, <1>10, <2>2
    <3>2. QED
      BY <1>1, <1>3, <1>11, <2>0, <2>2, <3>1
  <2>3. CASE /\ left' = left - 1 /\ staged' = staged + 1
             /\ rxq' = IF Len(rxq) < RxCap THEN Append(rxq, o) ELSE rxq
    <3>1. StageWindow - left' = room + 1
      BY <1>3, <1>10, <2>3
    <3>2. rxq' \in Seq(Datagrams) /\ Len(rxq') <= RxCap /\ Len(rxq') <= staged'
      BY <1>3, <1>8, <2>0, <2>3
    <3>3. Queued(rxq', keys', win, seq', room + 1)
      BY <1>11, <2>3
    <3>4. QED
      BY <1>1, <1>3, <2>3, <3>1, <3>2, <3>3
  <2>4. QED
    BY <1>4, <2>1, <2>2, <2>3 DEF o
<1>n. /\ staged' \in 0 .. StageWindow /\ left' \in 0 .. StageWindow
      /\ staged' + left' <= StageWindow
  <2>1. /\ StageWindow \in Nat /\ staged \in Nat /\ left \in Nat
        /\ staged + left <= StageWindow
    BY <1>3
  <2>2. staged' \in Nat /\ left' \in Nat /\ staged' + left' <= staged + left
    BY <1>12
  <2>3. StageWindow \in Int
    BY <2>1
  <2>4. staged' \in Nat /\ left' \in Nat /\ StageWindow \in Nat
    BY <2>1, <2>2
  <2>5. staged' + left' <= StageWindow
    BY <2>1, <2>2, <2>3, SumsFit
  <2>6. QED
    BY <2>4, <2>5, SumBounds
<1>13. Sealing' /\ reused' \in BOOLEAN
  <2>1. NoteSealed(o) \/ UNCHANGED <<sealed, reused>>
    BY <1>4 DEF o
  <2>2. Sealing /\ reused \in BOOLEAN
    BY DEF IInv, Typed
  <2>3. QED
    BY <1>1, <1>3, <1>9, <2>1, <2>2, SealKeeps
<1>14. Typed'
  <2>1. seq' \in Nat
    BY <1>1, <1>3
  <2>2. QED
    BY <1>2, <1>12, <1>13, <1>n, <2>1 DEF IInv, Typed
<1>15. Waiting'
  <2>1. Pending' = rxq'
    <3>1. <<>> \o rxq' = rxq'
      BY <1>12
    <3>2. QED
      BY <1>2, <1>3, <3>1 DEF Pending
  <2>2. win.seen => win.high < seq'
    BY <1>1, <1>3, <1>5
  <2>3. QED
    BY <1>2, <1>6, <1>12, <2>1, <2>2 DEF Waiting
<1>16. Staging'
  <2>1. Wants' = Wants
    BY <1>2 DEF Wants
  <2>2. staged' + left' <= Wants'
    BY <1>3, <1>12, <2>1, SumsFit
  <2>3. QED
    BY <1>2, <1>3, <1>12, <1>n, <2>2 DEF Staging
<1>17. Draining' /\ Buffered'
  BY <1>1, <1>2, <1>12 DEF IInv, Draining, Buffered
<1>18. Counting' /\ StagedVerify'
  BY <1>2 DEF IInv, Counting, Counted, Handled, StagedVerify
<1>19. QED
  BY <1>13, <1>14, <1>15, <1>16, <1>17, <1>18 DEF IInv

LEMMA DrainKeeps == IInv /\ Drain => IInv'
<1> SUFFICES ASSUME IInv, Drain PROVE IInv'
  OBVIOUS
<1>1. phase = "stage" /\ left = 0 /\ staged > 0 /\ phase' = "drain"
  BY DEF Drain
<1>2. /\ call' = [active |-> TRUE, budget |-> staged, processed |-> 0, n |-> 0]
      /\ UNCHANGED <<keys, win, seq, st, rxq, batch, out, fates, sealed, reused>>
      /\ UNCHANGED <<cycles, left, staged, done>>
  BY DEF Drain, DrainCall
<1>3. /\ call = NoCall /\ batch = <<>> /\ out = <<>>
      /\ Len(rxq) \in Nat /\ Len(rxq) <= staged /\ staged \in Nat
      /\ staged + left <= Wants /\ Wants \in Int
  BY <1>1, StageFacts
<1>4. call' \in Calls /\ call'.active /\ call'.budget = staged
      /\ call'.processed = 0 /\ call'.n = 0
  BY <1>2, <1>3 DEF Calls
<1>5. guard' \in 0 .. GuardLimit + 1 /\ guard' <= GuardLimit
  <2>1. guard \in 0 .. GuardLimit + 1 /\ GuardLimit \in Nat /\ guard <= GuardLimit
    BY <1>1, HotPathAssumption DEF IInv, Typed, Buffered
  <2>2. guard' = IF cycles = 0 THEN 0 ELSE guard
    BY DEF Drain
  <2>3. QED
    BY <2>1, <2>2
<1>6. Typed'
  BY <1>1, <1>2, <1>4, <1>5 DEF IInv, Typed
<1>7. Waiting' /\ Sealing' /\ StagedVerify'
  BY <1>2 DEF IInv, Waiting, Pending, Sealing, StagedVerify
<1>8. Staging' /\ Buffered'
  BY <1>1, <1>2, <1>5 DEF IInv, Staging, Buffered
<1>9. Draining'
  <2>1. Wants' = Wants
    BY <1>2 DEF Wants
  <2>2. MaxBatch \in Nat
    BY MaxBatchAssumption
  <2>3. QED
    BY <1>1, <1>2, <1>3, <1>4, <2>1, <2>2 DEF Draining
<1>10. Counting'
  <2>1. Counted' = Counted
    BY <1>2 DEF Counted
  <2>2. Handled' = Handled
    BY <1>2, <1>3, <1>4 DEF Handled, NoCall
  <2>3. QED
    BY <1>2, <2>1, <2>2 DEF IInv, Counting
<1>11. QED
  BY <1>6, <1>7, <1>8, <1>9, <1>10 DEF IInv

\* What preload() is asked for fits the window and what is missing.
LEMMA WantedFits ==
  ASSUME NEW d \in 0 .. Target
  PROVE  Wanted(d) \in 0 .. StageWindow /\ Wanted(d) <= Target - d
  BY HotPathAssumption DEF Wanted

\* An empty queue is in order.
LEMMA NothingQueued ==
  ASSUME NEW k, NEW w, NEW s, NEW room
  PROVE  Queued(<<>>, k, w, s, room)
  BY DEF Queued

LEMMA StagedNothingKeeps == IInv /\ StagedNothing => IInv'
<1> SUFFICES ASSUME IInv, StagedNothing PROVE IInv'
  OBVIOUS
<1>1. phase = "stage" /\ left = 0 /\ staged = 0
  BY DEF StagedNothing
<1>2. /\ UNCHANGED <<keys, win, seq, st, rxq, call, batch, out, fates, sealed, reused>>
      /\ UNCHANGED <<cycles, staged, done>>
  BY DEF StagedNothing, shardVars
<1>3. /\ call = NoCall /\ batch = <<>> /\ out = <<>> /\ Pending = rxq
      /\ rxq \in Seq(Datagrams) /\ Len(rxq) \in Nat /\ Len(rxq) <= staged
      /\ done \in 0 .. Target /\ StageWindow \in Nat
  BY <1>1, StageFacts
<1>4. rxq = <<>> /\ Pending' = <<>>
  BY <1>1, <1>2, <1>3 DEF Pending
<1>5. Wanted(done) \in 0 .. StageWindow /\ Wanted(done) <= Target - done
  BY <1>3, WantedFits
<1>6. guard \in Nat /\ GuardLimit \in Nat /\ guard <= GuardLimit
  BY <1>1, HotPathAssumption DEF IInv, Typed, Buffered
<1>7. \/ /\ phase' = "failed" /\ left' = 0 /\ guard' = guard
      \/ /\ phase' = "finished" /\ left' = 0 /\ guard' = guard + 1
      \/ /\ cycles = 0 /\ phase' = "stage" /\ left' = Wanted(done)
         /\ guard' = guard + 1 /\ guard' <= GuardLimit
  BY <1>1, <1>6 DEF StagedNothing
<1>8. /\ phase' \in {"stage", "finished", "failed"} /\ phase' # "drain"
      /\ left' \in 0 .. StageWindow /\ guard' \in 0 .. GuardLimit + 1
      /\ phase' # "finished" => guard' <= GuardLimit
      /\ phase' = "stage" => cycles = 0 /\ left' = Wanted(done)
  BY <1>3, <1>5, <1>6, <1>7
<1>9. Typed'
  BY <1>2, <1>8 DEF IInv, Typed
<1>10. Waiting'
  BY <1>2, <1>4, NothingQueued DEF IInv, Waiting
<1>11. Staging'
  <2>1. phase' = "stage" => Wants' = Target - done
    BY <1>2, <1>8 DEF Wants
  <2>2. phase' = "stage" => staged' + left' = Wanted(done)
    BY <1>1, <1>2, <1>5, <1>8
  <2>3. phase' = "stage" => staged' + left' <= StageWindow /\ staged' + left' <= Wants'
    BY <1>3, <1>5, <2>1, <2>2
  <2>4. QED
    BY <1>1, <1>2, <1>3, <2>3 DEF Staging
<1>12. Draining' /\ Buffered'
  BY <1>2, <1>8 DEF IInv, Draining, Buffered
<1>13. Sealing' /\ Counting' /\ StagedVerify'
  BY <1>2 DEF IInv, Sealing, Counting, Counted, Handled, StagedVerify
<1>14. QED
  BY <1>9, <1>10, <1>11, <1>12, <1>13 DEF IInv
-----------------------------------------------------------------------------
(***************************************************************************)
(* Draining.                                                               *)
(***************************************************************************)
LEMMA DrainFacts ==
  ASSUME IInv, phase = "drain"
  PROVE  /\ rxq \in Seq(Datagrams) /\ batch \in Seq(Datagrams) /\ out \in Seq(Datagrams)
         /\ Len(rxq) \in Nat /\ Len(batch) \in Nat /\ Len(out) \in Nat
         /\ call \in Calls /\ call.active
         /\ call.budget \in Nat /\ call.processed \in Nat /\ call.n \in Nat
         /\ call.budget = staged /\ staged \in Nat /\ left = 0 /\ staged <= Wants
         /\ Len(rxq) + call.processed + call.n <= staged
         /\ Len(batch) + Len(out) <= call.n /\ call.n <= MaxBatch
         /\ seq \in Nat /\ win \in Window /\ done \in Nat
         /\ StageWindow \in Nat /\ MaxBatch \in Nat /\ MaxBatch > 0
<1>1. /\ rxq \in Seq(Datagrams) /\ batch \in Seq(Datagrams) /\ out \in Seq(Datagrams)
      /\ call \in Calls /\ staged \in 0 .. StageWindow
      /\ seq \in Nat /\ win \in Window /\ done \in 0 .. Target
  BY DEF IInv, Typed
<1>2. StageWindow \in Nat /\ Target \in Nat /\ MaxBatch \in Nat /\ MaxBatch > 0
  BY HotPathAssumption, MaxBatchAssumption
<1>3. call.budget \in Nat /\ call.processed \in Nat /\ call.n \in Nat
  BY <1>1 DEF Calls
<1>4. /\ call.active /\ call.budget = staged /\ left = 0 /\ staged <= Wants
      /\ Len(rxq) + call.processed + call.n <= staged
      /\ Len(batch) + Len(out) <= call.n /\ call.n <= MaxBatch
  BY DEF IInv, Draining
<1>5. QED
  BY <1>1, <1>2, <1>3, <1>4

\* What recv_batch() returns is what is queued, to the slots and the budget.
LEMMA RecvCountIs ==
  ASSUME IInv, phase = "drain", call.n = 0
  PROVE  /\ RecvCount \in 0 .. Len(rxq) /\ RecvCount <= MaxBatch
         /\ RecvCount = 0 => Len(rxq) = 0
<1>1. /\ Len(rxq) \in Nat /\ call.budget \in Nat /\ call.processed \in Nat
      /\ call.budget = staged /\ staged \in Nat /\ call.n \in Nat
      /\ Len(rxq) + call.processed + call.n <= staged
      /\ MaxBatch \in Nat /\ MaxBatch > 0
  BY DrainFacts
<1> DEFINE b == call.budget
           p == call.processed
           l == Len(rxq)
<1>2. b \in Nat /\ p \in Nat /\ l \in Nat /\ l + p <= b
  BY <1>1
<1>3. RecvCount = LET want == IF b - p > MaxBatch THEN MaxBatch ELSE b - p
                  IN  IF l < want THEN l ELSE want
  BY DEF RecvCount
<1> HIDE DEF b, p, l
<1>4. /\ RecvCount \in 0 .. l /\ RecvCount <= MaxBatch
      /\ RecvCount = 0 => l = 0
  BY <1>1, <1>2, <1>3
<1>5. QED
  BY <1>4 DEF l

\* A queue cut in two and joined is the queue.
LEMMA CutAndJoin ==
  ASSUME NEW S, NEW q \in Seq(S), NEW r \in 0 .. Len(q)
  PROVE  /\ SubSeq(q, 1, r) \in Seq(S) /\ Len(SubSeq(q, 1, r)) = r
         /\ SubSeq(q, r + 1, Len(q)) \in Seq(S)
         /\ Len(SubSeq(q, r + 1, Len(q))) = Len(q) - r
         /\ SubSeq(q, 1, r) \o SubSeq(q, r + 1, Len(q)) = q
<1> DEFINE a == SubSeq(q, 1, r)
           b == SubSeq(q, r + 1, Len(q))
<1>1. Len(q) \in Nat /\ r \in Nat /\ r <= Len(q)
  OBVIOUS
<1>2. a \in Seq(S) /\ Len(a) = r /\ \A i \in 1 .. r : a[i] = q[i]
  BY <1>1
<1>3. b \in Seq(S) /\ Len(b) = Len(q) - r /\ \A i \in 1 .. Len(q) - r : b[i] = q[r + i]
  BY <1>1
<1> HIDE DEF a, b
<1>4. /\ a \o b \in Seq(S) /\ Len(a \o b) = Len(q)
      /\ \A i \in 1 .. Len(q) : (a \o b)[i] = IF i <= r THEN a[i] ELSE b[i - r]
  BY <1>1, <1>2, <1>3
<1>5. \A i \in 1 .. Len(q) : (a \o b)[i] = q[i]
  <2> SUFFICES ASSUME NEW i \in 1 .. Len(q) PROVE (a \o b)[i] = q[i]
    OBVIOUS
  <2>1. CASE i <= r
    BY <1>1, <1>2, <1>4, <2>1
  <2>2. CASE ~(i <= r)
    <3> DEFINE j == i - r
    <3>1. j \in 1 .. Len(q) - r /\ r + j = i
      BY <1>1, <2>2
    <3>2. (a \o b)[i] = b[j]
      BY <1>4, <2>2
    <3> HIDE DEF j
    <3>3. QED
      BY <1>3, <3>1, <3>2
  <2>3. QED
    BY <2>1, <2>2
<1>6. a \o b = q
  <2> DEFINE c == a \o b
  <2>1. c \in Seq(S) /\ Len(c) = Len(q) /\ \A i \in 1 .. Len(q) : c[i] = q[i]
    BY <1>4, <1>5
  <2> HIDE DEF c
  <2>2. c = q
    BY <2>1
  <2>3. QED
    BY <2>2 DEF c
<1>7. QED
  BY <1>2, <1>3, <1>6 DEF a, b

LEMMA RecvKeeps == IInv /\ Working /\ RecvBatch => IInv'
<1> SUFFICES ASSUME IInv, Working, RecvBatch PROVE IInv'
  OBVIOUS
<1>1. phase = "drain" /\ UNCHANGED <<phase, cycles, left, staged, done, guard>>
  BY DEF Working, hotVars
<1>2. /\ call.active /\ call.n = 0
      /\ batch' = SubSeq(rxq, 1, RecvCount)
      /\ rxq' = SubSeq(rxq, RecvCount + 1, Len(rxq))
      /\ call' = [call EXCEPT !.n = RecvCount]
      /\ UNCHANGED <<keys, win, seq, st, out, fates, sealed, reused>>
  BY DEF RecvBatch, BetweenBatches
<1>3. /\ rxq \in Seq(Datagrams) /\ batch \in Seq(Datagrams) /\ out \in Seq(Datagrams)
      /\ Len(rxq) \in Nat /\ Len(batch) \in Nat /\ Len(out) \in Nat
      /\ call \in Calls /\ call.budget \in Nat /\ call.processed \in Nat
      /\ call.budget = staged /\ staged \in Nat /\ left = 0 /\ staged <= Wants
      /\ Len(rxq) + call.processed + call.n <= staged
      /\ Len(batch) + Len(out) <= call.n /\ done \in Nat
  BY <1>1, DrainFacts
<1> DEFINE r == RecvCount
<1>4. r \in 0 .. Len(rxq) /\ r <= MaxBatch /\ r \in Nat
  BY <1>1, <1>2, <1>3, RecvCountIs
<1> HIDE DEF r
<1>5. /\ batch' \in Seq(Datagrams) /\ Len(batch') = r
      /\ rxq' \in Seq(Datagrams) /\ Len(rxq') = Len(rxq) - r
      /\ batch' \o rxq' = rxq
  BY <1>2, <1>3, <1>4, CutAndJoin, ZenonT(60) DEF r
<1>6. batch = <<>> /\ Len(out) = 0
  BY <1>2, <1>3
<1>7. Pending' = Pending
  <2>1. <<>> \o rxq = rxq
    BY <1>3
  <2>2. QED
    BY <1>5, <1>6, <2>1 DEF Pending
<1>8. /\ call' \in Calls /\ call'.active = call.active /\ call'.budget = call.budget
      /\ call'.processed = call.processed /\ call'.n = r
  BY <1>2, <1>3, <1>4 DEF Calls, r
<1>9. Typed'
  BY <1>1, <1>2, <1>5, <1>8 DEF IInv, Typed
<1>10. Waiting' /\ Sealing' /\ StagedVerify'
  BY <1>1, <1>2, <1>7 DEF IInv, Waiting, Sealing, StagedVerify
<1>11. Staging'
  BY <1>1 DEF Staging
<1>12. Draining'
  <2>1. Wants' = Wants
    BY <1>1 DEF Wants
  <2>2. Len(rxq') + call'.processed + call'.n <= staged
    <3>1. (Len(rxq) - r) + call.processed + r <= staged
      BY <1>2, <1>3, <1>4
    <3>2. QED
      BY <1>5, <1>8, <3>1
  <2>3. Len(batch') + Len(out) <= call'.n /\ call'.n <= MaxBatch
    BY <1>3, <1>4, <1>5, <1>6, <1>8
  <2>4. QED
    BY <1>1, <1>2, <1>3, <1>8, <2>1, <2>2, <2>3 DEF Draining
<1>13. Buffered'
  <2>1. Len(rxq) <= RxCap /\ RxCap \in Nat
    BY RxCapAssumption DEF IInv, Buffered
  <2>2. Len(rxq') <= RxCap
    BY <1>3, <1>4, <1>5, <2>1
  <2>3. QED
    BY <1>1, <2>2 DEF IInv, Buffered
<1>14. Counting'
  <2>1. Counted' = Counted
    BY <1>2 DEF Counted
  <2>2. Handled' = Handled
    <3>1. Len(batch) = 0
      BY <1>6
    <3>2. Handled = done + call.processed + call.n - 0
      BY <3>1 DEF Handled
    <3>3. Handled' = done + call.processed + r - r
      BY <1>1, <1>5, <1>8 DEF Handled
    <3>4. QED
      BY <1>2, <1>3, <1>4, <3>2, <3>3
  <2>3. QED
    BY <1>1, <1>2, <2>1, <2>2 DEF IInv, Counting
<1>15. QED
  BY <1>9, <1>10, <1>11, <1>12, <1>13, <1>14 DEF IInv

LEMMA SendKeeps == IInv /\ Working /\ SendBatch => IInv'
<1> SUFFICES ASSUME IInv, Working, SendBatch PROVE IInv'
  OBVIOUS
<1>1. phase = "drain" /\ UNCHANGED <<phase, cycles, left, staged, done, guard>>
  BY DEF Working, hotVars
<1>2. /\ call.n > 0 /\ batch = <<>> /\ out' = <<>>
      /\ call' = [call EXCEPT !.processed = @ + call.n, !.n = 0]
      /\ UNCHANGED <<keys, win, seq, st, rxq, batch, fates, sealed, reused>>
  BY DEF SendBatch
<1>3. /\ Len(rxq) \in Nat
      /\ call \in Calls /\ call.active
      /\ call.budget \in Nat /\ call.processed \in Nat /\ call.n \in Nat
      /\ call.budget = staged /\ staged \in Nat /\ left = 0 /\ staged <= Wants
      /\ Len(rxq) + call.processed + call.n <= staged
      /\ done \in Nat /\ MaxBatch \in Nat
  BY <1>1, DrainFacts
<1> DEFINE p == call.processed + call.n
<1>4. p \in Nat /\ p = call.processed + call.n /\ call' = [call EXCEPT !.processed = p, !.n = 0]
  BY <1>2, <1>3 DEF Calls
<1> HIDE DEF p
<1>5. /\ call' \in Calls /\ call'.active = call.active /\ call'.budget = call.budget
      /\ call'.processed = p /\ call'.n = 0
  BY <1>3, <1>4 DEF Calls
<1>6. out' \in Seq(Datagrams) /\ Len(out') = 0 /\ Len(batch') = 0
  BY <1>2
<1>7. Typed'
  BY <1>1, <1>2, <1>5, <1>6 DEF IInv, Typed
<1>8. Waiting' /\ Sealing' /\ StagedVerify'
  BY <1>1, <1>2 DEF IInv, Waiting, Pending, Sealing, StagedVerify
<1>9. Staging' /\ Buffered'
  BY <1>1, <1>2 DEF IInv, Staging, Buffered
<1>10. Draining'
  <2>1. Wants' = Wants
    BY <1>1 DEF Wants
  <2>2. Len(rxq) + p + 0 <= staged
    BY <1>3, <1>4
  <2>3. QED
    BY <1>1, <1>2, <1>3, <1>5, <1>6, <2>1, <2>2 DEF Draining
<1>11. Counting'
  <2>1. Counted' = Counted
    BY <1>2 DEF Counted
  <2>2. Handled' = Handled
    <3>1. Handled = done + call.processed + call.n - 0
      BY <1>2 DEF Handled
    <3>2. Handled' = done + p + 0 - 0
      BY <1>1, <1>5, <1>6 DEF Handled
    <3>3. QED
      BY <1>3, <1>4, <3>1, <3>2
  <2>3. QED
    BY <1>1, <1>2, <2>1, <2>2 DEF IInv, Counting
<1>12. QED
  BY <1>7, <1>8, <1>9, <1>10, <1>11 DEF IInv
-----------------------------------------------------------------------------
(***************************************************************************)
(* One datagram of the batch.                                              *)
(***************************************************************************)

\* The first of the batch is the first that waits.
LEMMA HeadOfPending ==
  ASSUME NEW S, NEW b \in Seq(S), NEW q \in Seq(S), b # <<>>
  PROVE  /\ Len(b) >= 1 /\ Head(b) \in S /\ Tail(b) \in Seq(S) /\ Len(Tail(b)) = Len(b) - 1
         /\ b \o q \in Seq(S) /\ b \o q # <<>> /\ Head(b \o q) = Head(b)
         /\ Tail(b \o q) = Tail(b) \o q
<1>1. /\ Len(b) \in Nat /\ Len(q) \in Nat /\ Len(b) >= 1
      /\ Head(b) = b[1] /\ Head(b) \in S
      /\ Tail(b) \in Seq(S) /\ Len(Tail(b)) = Len(b) - 1
      /\ \A i \in 1 .. Len(b) - 1 : Tail(b)[i] = b[i + 1]
  OBVIOUS
<1> DEFINE c == b \o q
           d == Tail(b) \o q
<1>2. /\ c \in Seq(S) /\ Len(c) = Len(b) + Len(q)
      /\ \A i \in 1 .. Len(c) : c[i] = IF i <= Len(b) THEN b[i] ELSE q[i - Len(b)]
  BY <1>1
<1>3. /\ d \in Seq(S) /\ Len(d) = Len(b) - 1 + Len(q)
      /\ \A i \in 1 .. Len(d) :
           d[i] = IF i <= Len(b) - 1 THEN Tail(b)[i] ELSE q[i - (Len(b) - 1)]
  BY <1>1
<1> HIDE DEF c, d
<1>4. /\ c # <<>> /\ Head(c) = c[1] /\ Tail(c) \in Seq(S) /\ Len(Tail(c)) = Len(c) - 1
      /\ \A i \in 1 .. Len(c) - 1 : Tail(c)[i] = c[i + 1]
  <2>1. c \in Seq(S) /\ Len(c) >= 1
    BY <1>1, <1>2
  <2>2. QED
    BY <2>1
<1>5. Head(c) = Head(b)
  BY <1>1, <1>2, <1>4
<1>6. Len(Tail(c)) = Len(d)
  BY <1>1, <1>2, <1>3, <1>4
<1>7. ASSUME NEW i \in 1 .. Len(d) PROVE Tail(c)[i] = d[i]
  <2> DEFINE j == i + 1
  <2>1. i \in 1 .. Len(c) - 1 /\ j \in 1 .. Len(c) /\ j = i + 1 /\ i \in Nat
    BY <1>1, <1>2, <1>3
  <2>2. Tail(c)[i] = c[j]
    BY <1>4, <2>1
  <2> HIDE DEF j
  <2>3. CASE i <= Len(b) - 1
    <3>1. c[j] = b[j] /\ d[i] = Tail(b)[i] /\ Tail(b)[i] = b[j]
      BY <1>1, <1>2, <1>3, <2>1, <2>3
    <3>2. QED
      BY <2>2, <3>1
  <2>4. CASE ~(i <= Len(b) - 1)
    <3>1. c[j] = q[j - Len(b)] /\ d[i] = q[i - (Len(b) - 1)]
      BY <1>1, <1>2, <1>3, <2>1, <2>4
    <3>2. j - Len(b) = i - (Len(b) - 1)
      BY <1>1, <2>1
    <3>3. QED
      BY <2>2, <3>1, <3>2
  <2>5. QED
    BY <2>3, <2>4
<1>8. Tail(c) = d
  <2> DEFINE e == Tail(c)
  <2>1. e \in Seq(S) /\ Len(e) = Len(d) /\ \A i \in 1 .. Len(d) : e[i] = d[i]
    BY <1>4, <1>6, <1>7
  <2> HIDE DEF e
  <2>2. e = d
    BY <1>3, <2>1
  <2>3. QED
    BY <2>2 DEF e
<1>9. QED
  BY <1>1, <1>2, <1>4, <1>5, <1>8 DEF c, d

\* What is known of the datagram drain() has come to.
LEMMA HeadFacts ==
  ASSUME IInv, phase = "drain", batch # <<>>
  PROVE  LET d == Head(batch)
         IN  /\ d \in Datagrams /\ d.wellFormed /\ d.seq \in Nat /\ d.tsc \in Nat
             /\ d.seq < seq /\ seq - 1 - d.seq <= StageWindow - 1
             /\ win.seen => win.high < d.seq
             /\ SealedUnder(keys, TurnAt(seq), d)
             /\ KeysAt(keys, TurnAt(seq))
<1> DEFINE d == Head(batch)
           p == Pending
<1>1. /\ rxq \in Seq(Datagrams) /\ batch \in Seq(Datagrams)
      /\ left = 0 /\ seq \in Nat /\ StageWindow \in Nat
  BY DrainFacts
<1>2. d \in Datagrams /\ p \in Seq(Datagrams) /\ p # <<>> /\ Head(p) = d
  BY <1>1, HeadOfPending DEF Pending
<1>3. StageWindow - left = StageWindow
  BY <1>1
<1>4. Queued(p, keys, win, seq, StageWindow) /\ KeysAt(keys, TurnAt(seq))
  BY <1>3 DEF IInv, Waiting
<1> HIDE DEF p
<1>5. 1 \in DOMAIN p /\ Head(p) = p[1]
  BY <1>2
<1>6. /\ p[1].seq < seq /\ seq - 1 - p[1].seq <= StageWindow - 1
      /\ win.seen => win.high < p[1].seq
      /\ SealedUnder(keys, TurnAt(seq), p[1])
  BY <1>4, <1>5 DEF Queued
<1>7. d.wellFormed /\ d.seq \in Nat /\ d.tsc \in Nat
  BY <1>2 DEF Datagrams
<1>8. QED
  BY <1>2, <1>4, <1>5, <1>6, <1>7

\* It verifies, when a window is at most one packet longer than an epoch; and
\* it is never skipped nor called a replay.
LEMMA HeadVerifies ==
  ASSUME IInv, phase = "drain", batch # <<>>
  PROVE  /\ Disposition(Head(batch)) \in {"unauthentic", "forward"}
         /\ Period = 0 \/ StageWindow <= Period + 1
              => Disposition(Head(batch)) = "forward"
<1> DEFINE d == Head(batch)
<1>1. /\ d.wellFormed /\ d.seq \in Nat /\ d.seq < seq
      /\ seq - 1 - d.seq <= StageWindow - 1
      /\ win.seen => win.high < d.seq
      /\ SealedUnder(keys, TurnAt(seq), d) /\ KeysAt(keys, TurnAt(seq))
  BY HeadFacts
<1>2. seq \in Nat /\ win \in Window /\ StageWindow \in Nat /\ Period \in Nat
  BY DrainFacts, PeriodAssumption
<1> HIDE DEF d
<1>3. Verdict(win, d.seq) = "ok"
  BY <1>1, <1>2, WindowMoves
<1>4. Disposition(d) =
        IF ForEpoch(keys, d.epoch) = NoKey THEN "unauthentic"
        ELSE IF ~Opens(d, ForEpoch(keys, d.epoch), Nonce(keys, d.epoch, d.seq))
        THEN "unauthentic" ELSE "forward"
  BY <1>1, <1>3 DEF Disposition
<1>5. Disposition(d) \in {"unauthentic", "forward"}
  BY <1>4
<1>6. ASSUME Period = 0 \/ StageWindow <= Period + 1 PROVE Disposition(d) = "forward"
  <2>1. Period = 0 \/ seq - 1 - d.seq <= Period
    BY <1>1, <1>2, <1>6
  <2>2. /\ ForEpoch(keys, d.epoch) # NoKey
        /\ Opens(d, ForEpoch(keys, d.epoch), Nonce(keys, d.epoch, d.seq))
    BY <1>1, <1>2, <2>1, RecentOpens
  <2>3. QED
    BY <1>4, <2>2
<1>7. QED
  BY <1>5, <1>6 DEF d

\* What processing it changes, whatever becomes of it.
LEMMA ProcessFields ==
  ASSUME IInv, phase = "drain", NEW what, NEW fate \in Outcomes, Process(what, fate)
  PROVE  /\ Len(batch) >= 1
         /\ batch' \in Seq(Datagrams) /\ Len(batch') = Len(batch) - 1
         /\ win' \in Window /\ (win'.seen => win'.high < seq)
         /\ Queued(batch' \o rxq, keys, win', seq, StageWindow - 1)
         /\ batch' \o rxq \in Seq(Datagrams)
         /\ fates' \in Seq([d : Datagrams, what : Outcomes])
         /\ (\E i \in DOMAIN fates : fates[i].what = "unsealed")
              => \E i \in DOMAIN fates' : fates'[i].what = "unsealed"
         /\ fate = "unsealed" => \E i \in DOMAIN fates' : fates'[i].what = "unsealed"
<1> DEFINE d == Head(batch)
           p == Pending
<1>1. /\ batch # <<>> /\ win' = WindowAfter(d) /\ batch' = Tail(batch)
      /\ fates' = Append(fates, [d |-> d, what |-> fate])
  BY DEF Process
<1>2. /\ d \in Datagrams /\ d.wellFormed /\ d.seq \in Nat /\ d.seq < seq
      /\ win.seen => win.high < d.seq
  BY <1>1, HeadFacts
<1>3. /\ rxq \in Seq(Datagrams) /\ batch \in Seq(Datagrams)
      /\ left = 0 /\ seq \in Nat /\ StageWindow \in Nat /\ win \in Window
  BY DrainFacts
<1>4. /\ Len(batch) >= 1 /\ batch' \in Seq(Datagrams) /\ Len(batch') = Len(batch) - 1
      /\ p \in Seq(Datagrams) /\ p # <<>> /\ Head(p) = d /\ Tail(p) = batch' \o rxq
  BY <1>1, <1>3, HeadOfPending DEF Pending
<1>5. win' = win \/ (win' = Accept(win, d.seq) /\ win'.high = d.seq)
  BY <1>1, <1>2, <1>3, WindowMoves DEF WindowAfter
<1>6. win' \in Window
  BY <1>2, <1>3, <1>5, AcceptType
<1>7. win'.seen => win'.high < seq
  <2>1. win.seen => win.high < seq
    BY DEF IInv, Waiting
  <2>2. QED
    BY <1>2, <1>5, <2>1
<1>8. Queued(p, keys, win, seq, StageWindow)
  <2>1. StageWindow - left = StageWindow
    BY <1>3
  <2>2. QED
    BY <2>1 DEF IInv, Waiting
<1> HIDE DEF p, d
<1>9. Queued(Tail(p), keys, win', seq, StageWindow - 1) /\ Tail(p) \in Seq(Datagrams)
  <2>1. StageWindow \in Int
    BY <1>3
  <2>2. win' = win \/ win'.high = Head(p).seq
    BY <1>4, <1>5
  <2>3. Queued(Tail(p), keys, win', seq, StageWindow - 1)
    BY <1>3, <1>4, <1>8, <2>1, <2>2, QueueShrinks
  <2>4. Tail(p) \in Seq(Datagrams)
    BY <1>4
  <2>5. QED
    BY <2>3, <2>4
<1>10. /\ fates' \in Seq([d : Datagrams, what : Outcomes])
       /\ Len(fates) \in Nat /\ DOMAIN fates = 1 .. Len(fates)
       /\ DOMAIN fates' = 1 .. Len(fates) + 1
       /\ \A i \in DOMAIN fates : fates'[i] = fates[i]
       /\ fates'[Len(fates) + 1].what = fate
  <2> DEFINE f == [d |-> d, what |-> fate]
             F == [d : Datagrams, what : Outcomes]
  <2>1. f \in F /\ f.what = fate
    BY <1>2
  <2>2. fates \in Seq(F)
    BY DEF IInv, Typed
  <2>3. fates' = Append(fates, f)
    BY <1>1
  <2> HIDE DEF f, F
  <2>4. /\ fates' \in Seq(F) /\ Len(fates) \in Nat /\ DOMAIN fates = 1 .. Len(fates)
        /\ DOMAIN fates' = 1 .. Len(fates) + 1
        /\ \A i \in DOMAIN fates : fates'[i] = fates[i]
        /\ fates'[Len(fates) + 1] = f
    BY <2>1, <2>2, <2>3
  <2>5. QED
    BY <2>1, <2>4 DEF F
<1>11. \A i \in DOMAIN fates : i \in DOMAIN fates'
  BY <1>10
<1>12. Len(fates) + 1 \in DOMAIN fates'
  BY <1>10
<1>13. /\ (\E i \in DOMAIN fates : fates[i].what = "unsealed")
            => \E i \in DOMAIN fates' : fates'[i].what = "unsealed"
       /\ fate = "unsealed" => \E i \in DOMAIN fates' : fates'[i].what = "unsealed"
  BY <1>10, <1>11, <1>12
<1>14. QED
  BY <1>4, <1>6, <1>7, <1>9, <1>10, <1>13
\* The steps that process a datagram: what they leave alone and what they
\* count is enough for the rest of the invariant.
LEMMA ProcessedKeeps ==
  ASSUME IInv, phase = "drain", UNCHANGED <<phase, cycles, left, staged, done, guard>>,
         NEW what, NEW fate \in Outcomes, Process(what, fate),
         UNCHANGED <<rxq, call>>,
         seq' \in Nat, reused' \in BOOLEAN, st' \in Stats,
         out' \in Seq(Datagrams), Len(out') <= Len(out) + 1,
         KeysAt(keys', TurnAt(seq')), win'.seen => win'.high < seq',
         Queued(batch' \o rxq, keys', win', seq', StageWindow),
         Sealing', StagedVerify',
         Counted' = Counted + 1 \/ (Counted' = Counted /\ fate = "unsealed")
  PROVE  IInv'
<1>1. /\ rxq \in Seq(Datagrams) /\ batch \in Seq(Datagrams) /\ out \in Seq(Datagrams)
      /\ Len(rxq) \in Nat /\ Len(batch) \in Nat /\ Len(out) \in Nat
      /\ call \in Calls /\ call.active
      /\ call.processed \in Nat /\ call.n \in Nat
      /\ call.budget = staged /\ left = 0 /\ staged <= Wants
      /\ Len(rxq) + call.processed + call.n <= staged
      /\ Len(batch) + Len(out) <= call.n /\ call.n <= MaxBatch
      /\ StageWindow \in Nat /\ done \in Nat
  BY DrainFacts
<1>2. /\ Len(batch) >= 1
      /\ batch' \in Seq(Datagrams) /\ Len(batch') = Len(batch) - 1
      /\ win' \in Window
      /\ fates' \in Seq([d : Datagrams, what : Outcomes])
  BY ProcessFields
<1>3. /\ (\E i \in DOMAIN fates : fates[i].what = "unsealed")
           => \E i \in DOMAIN fates' : fates'[i].what = "unsealed"
      /\ fate = "unsealed" => \E i \in DOMAIN fates' : fates'[i].what = "unsealed"
  BY ProcessFields
<1>4. Typed'
  BY <1>2 DEF IInv, Typed
<1>5. Waiting'
  <2>1. StageWindow - left' = StageWindow
    BY <1>1
  <2>2. Pending' = batch' \o rxq
    BY DEF Pending
  <2>3. QED
    BY <2>1, <2>2 DEF Waiting
<1>6. Staging' /\ Buffered'
  BY DEF IInv, Staging, Buffered
<1>7. Draining'
  <2>1. Wants' = Wants
    BY DEF Wants
  <2>2. Len(batch') + Len(out') <= call.n
    <3>1. Len(out') \in Nat
      OBVIOUS
    <3>2. QED
      BY <1>1, <1>2, <3>1
  <2>3. QED
    BY <1>1, <2>1, <2>2 DEF Draining
<1>8. Counting'
  <2> DEFINE c == Counted
             h == Handled
             e == \E i \in DOMAIN fates : fates[i].what = "unsealed"
             f == \E i \in DOMAIN fates' : fates'[i].what = "unsealed"
  <2>1. Handled' = h + 1 /\ h \in Int
    <3>1. h \in Int /\ h = done + call.processed + call.n - Len(batch)
      BY <1>1, SMTT(40) DEF Handled
    <3>2. Handled' = done + call.processed + call.n - (Len(batch) - 1)
      BY <1>2 DEF Handled
    <3> DEFINE b == Len(batch)
               n == call.n
               g == done + call.processed
    <3>3. g \in Int /\ b \in Int /\ n \in Int
      BY <1>1
    <3>4. h = g + (n - b)
      BY <3>1
    <3>5. Handled' = g + (n - (b - 1))
      BY <3>2
    <3> HIDE DEF h, b, n, g
    <3>6. QED
      BY <3>1, <3>3, <3>4, <3>5
  <2>2. c \in Int
    <3>1. st \in Stats
      BY DEF IInv, Typed
    <3>2. QED
      BY <3>1 DEF Stats, Counted
  <2>3. cycles = 0 => c <= h /\ (c < h => e)
    BY DEF IInv, Counting
  <2>4. Counted' = c + 1 \/ (Counted' = c /\ fate = "unsealed")
    OBVIOUS
  <2>5. (e => f) /\ (fate = "unsealed" => f)
    BY <1>3
  <2> HIDE DEF c, h, e, f
  <2>6. cycles = 0 => Counted' <= Handled' /\ (Counted' < Handled' => f)
    BY <2>1, <2>2, <2>3, <2>4, <2>5
  <2>7. QED
    BY <2>6 DEF Counting, f
<1>9. QED
  BY <1>4, <1>5, <1>6, <1>7, <1>8 DEF IInv

LEMMA DropsKeep ==
  IInv /\ Working /\ (Skip \/ DropReplayed \/ DropUnauthentic) => IInv'
<1> SUFFICES ASSUME IInv, Working, Skip \/ DropReplayed \/ DropUnauthentic PROVE IInv'
  OBVIOUS
<1>1. phase = "drain" /\ UNCHANGED <<phase, cycles, left, staged, done, guard>>
  BY DEF Working, hotVars
<1>2. batch # <<>>
  BY DEF Skip, DropReplayed, DropUnauthentic, Process
<1>3. /\ Disposition(Head(batch)) \in {"unauthentic", "forward"}
      /\ Period = 0 \/ StageWindow <= Period + 1 => Disposition(Head(batch)) = "forward"
  BY <1>1, <1>2, HeadVerifies
<1>4. DropUnauthentic
  BY <1>3 DEF Skip, DropReplayed, Process
<1>5. /\ Process("unauthentic", "unauthentic")
      /\ Disposition(Head(batch)) = "unauthentic"
      /\ st' = [st EXCEPT !.auth_fail = @ + 1]
      /\ UNCHANGED <<keys, seq, rxq, call, out, sealed, reused>>
  BY <1>4 DEF DropUnauthentic, Process
<1>6. "unauthentic" \in Outcomes
  BY DEF Outcomes
<1>7. /\ st \in Stats /\ seq \in Nat /\ reused \in BOOLEAN /\ out \in Seq(Datagrams)
      /\ KeysAt(keys, TurnAt(seq)) /\ Sealing
  BY DEF IInv, Typed, Waiting
<1>8. st' \in Stats /\ Counted' = Counted + 1
  <2> DEFINE a == st.auth_fail + 1
  <2>1. /\ st.packets \in Nat /\ st.auth_fail \in Nat /\ st.replay_drop \in Nat
        /\ a \in Nat /\ a = st.auth_fail + 1
    BY <1>7 DEF Stats
  <2>2. st' = [st EXCEPT !.auth_fail = a]
    BY <1>5
  <2> HIDE DEF a
  <2>3. /\ st' \in Stats /\ st'.packets = st.packets /\ st'.auth_fail = a
        /\ st'.replay_drop = st.replay_drop
    BY <1>7, <2>1, <2>2 DEF Stats
  <2>4. QED
    BY <2>1, <2>3 DEF Counted
<1>9. StagedVerify'
  BY <1>3, <1>5 DEF StagedVerify
<1>10. /\ win'.seen => win'.high < seq
       /\ Queued(batch' \o rxq, keys, win', seq, StageWindow - 1)
       /\ batch' \o rxq \in Seq(Datagrams)
  BY <1>1, <1>5, <1>6, ProcessFields
<1>11. Queued(batch' \o rxq, keys, win', seq, StageWindow)
  <2>1. StageWindow \in Int /\ StageWindow - 1 \in Int /\ StageWindow - 1 <= StageWindow
    BY HotPathAssumption
  <2>2. QED
    BY <1>7, <1>10, <2>1, QueueHasRoom
<1>12. Sealing'
  BY <1>5, <1>7 DEF Sealing
<1>13. Len(out') <= Len(out) + 1
  BY <1>5, <1>7
<1>14. /\ seq' \in Nat /\ reused' \in BOOLEAN /\ out' \in Seq(Datagrams)
       /\ KeysAt(keys', TurnAt(seq')) /\ (win'.seen => win'.high < seq')
       /\ Queued(batch' \o rxq, keys', win', seq', StageWindow)
  BY <1>5, <1>7, <1>10, <1>11
<1>15. QED
  BY <1>1, <1>5, <1>6, <1>8, <1>9, <1>12, <1>13, <1>14, ProcessedKeeps

LEMMA ForwardKeeps == IInv /\ Working /\ Forward => IInv'
<1> SUFFICES ASSUME IInv, Working, Forward PROVE IInv'
  OBVIOUS
<1>1. phase = "drain" /\ UNCHANGED <<phase, cycles, left, staged, done, guard>>
  BY DEF Working, hotVars
<1> DEFINE d == Head(batch)
<1>2. PICK hk \in HkdfCalls, ok \in SealOutcomes :
        LET ks == MaybeRekey(keys, seq, hk)
            o  == SealedFor(ks, seq, d.tsc)
            rk == IF NeedsRekey(keys, seq) THEN 1 ELSE 0
        IN  /\ Process("forward", IF ok THEN "forward" ELSE "unsealed")
            /\ keys' = ks
            /\ st' = [st EXCEPT !.rekeys = @ + rk, !.packets = IF ok THEN @ + 1 ELSE @]
            /\ out' = IF ok THEN Append(out, o) ELSE out
            /\ IF ok THEN NoteSealed(o) ELSE UNCHANGED <<sealed, reused>>
  BY DEF Forward, OutSeq
<1> DEFINE o == SealedFor(keys', seq, d.tsc)
           fate == IF ok THEN "forward" ELSE "unsealed"
<1>3. /\ Process("forward", fate)
      /\ keys' = MaybeRekey(keys, seq, hk)
      /\ out' = IF ok THEN Append(out, o) ELSE out
      /\ NoteSealed(o) \/ UNCHANGED <<sealed, reused>>
      /\ seq' = seq + 1 /\ UNCHANGED <<rxq, call>>
  BY <1>2 DEF Forward
<1>4. fate \in Outcomes /\ (~ok => fate = "unsealed")
  BY DEF Outcomes
<1>5. /\ st \in Stats /\ seq \in Nat /\ reused \in BOOLEAN /\ out \in Seq(Datagrams)
      /\ KeysAt(keys, TurnAt(seq)) /\ Sealing
  BY DEF IInv, Typed, Waiting
<1>6. /\ st' \in Stats
      /\ Counted' = Counted + 1 \/ (Counted' = Counted /\ fate = "unsealed")
      /\ st'.auth_fail = st.auth_fail /\ st'.replay_drop = st.replay_drop
  <2> DEFINE r == st.rekeys + (IF NeedsRekey(keys, seq) THEN 1 ELSE 0)
             p == IF ok THEN st.packets + 1 ELSE st.packets
  <2>1. /\ st.packets \in Nat /\ st.auth_fail \in Nat /\ st.replay_drop \in Nat
        /\ st.rekeys \in Nat
    BY <1>5 DEF Stats
  <2>2. r \in Nat /\ p \in Nat /\ (p = st.packets + 1 \/ (p = st.packets /\ ~ok))
    BY <2>1
  <2>3. st' = [st EXCEPT !.rekeys = r, !.packets = p]
    BY <1>2, <1>5 DEF Stats
  <2> HIDE DEF r, p
  <2>4. /\ st' \in Stats /\ st'.packets = p /\ st'.auth_fail = st.auth_fail
        /\ st'.replay_drop = st.replay_drop
    BY <1>5, <2>2, <2>3 DEF Stats
  <2>5. Counted' = p + st.auth_fail + st.replay_drop
    BY <2>4 DEF Counted
  <2>6. Counted = st.packets + st.auth_fail + st.replay_drop
    BY DEF Counted
  <2>7. Counted' = Counted + 1 \/ (Counted' = Counted /\ ~ok)
    BY <2>1, <2>2, <2>5, <2>6
  <2>8. QED
    BY <1>4, <2>4, <2>7
<1>7. StagedVerify'
  BY <1>6 DEF IInv, StagedVerify
<1>8. KeysAt(keys', TurnAt(seq'))
  <2>1. KeysAt(MaybeRekey(keys, seq, hk), Turn(seq))
    BY <1>5, RekeyTo
  <2>2. TurnAt(seq + 1) = Turn(seq)
    BY <1>5, TurnStep
  <2>3. QED
    BY <1>3, <2>1, <2>2
<1>9. keys' \in Schedules({Secret}, {Period})
  BY <1>8 DEF KeysAt
<1>10. d.tsc \in Nat
  <2>1. batch # <<>>
    BY <1>3 DEF Process
  <2>2. QED
    BY <1>1, <2>1, HeadFacts
<1>11. o \in Datagrams
  BY <1>5, <1>9, <1>10, SealedFields
<1>12. /\ o.body.key \in Materials({Secret}) \cup {NoKey}
       /\ o.body.nonce \in Materials({Secret}) \X Nat /\ o.body.nonce[2] = seq
  BY <1>5, <1>9, <1>10, SealedPair
<1> HIDE DEF o, d, fate
<1>13. Sealing' /\ reused' \in BOOLEAN
  BY <1>3, <1>5, <1>12, SealKeeps
<1>14. out' \in Seq(Datagrams) /\ Len(out') <= Len(out) + 1
  BY <1>3, <1>5, <1>11
<1>15. /\ win' \in Window /\ (win'.seen => win'.high < seq)
       /\ Queued(batch' \o rxq, keys, win', seq, StageWindow - 1)
       /\ batch' \o rxq \in Seq(Datagrams)
  BY <1>1, <1>3, <1>4, ProcessFields
<1>16. Queued(batch' \o rxq, keys', win', seq', StageWindow)
  <2>1. StageWindow - 1 \in Int /\ (StageWindow - 1) + 1 = StageWindow
    BY HotPathAssumption
  <2>2. Queued(batch' \o rxq, keys', win', seq', (StageWindow - 1) + 1)
    BY <1>3, <1>5, <1>15, <2>1, QueueAges
  <2>3. QED
    BY <2>1, <2>2
<1>17. seq' \in Nat /\ (win'.seen => win'.high < seq')
  <2>1. win'.high \in Nat
    BY <1>15 DEF Window
  <2>2. QED
    BY <1>3, <1>5, <1>15, <2>1
<1>18. QED
  BY <1>1, <1>3, <1>4, <1>6, <1>7, <1>8, <1>13, <1>14, <1>16, <1>17, ProcessedKeeps
-----------------------------------------------------------------------------
(***************************************************************************)
(* drain() returns: it leaves nothing behind.                              *)
(***************************************************************************)
LEMMA ReturnLeavesNothing ==
  ASSUME IInv, phase = "drain", DrainReturn
  PROVE  /\ rxq = <<>> /\ batch = <<>> /\ out = <<>> /\ call.n = 0
         /\ call.processed \in Nat /\ call.processed <= staged /\ staged <= Wants
         /\ call' = NoCall
         /\ UNCHANGED <<keys, win, seq, rxq, batch, out, fates, sealed, reused>>
<1>1. /\ call.active /\ call.n = 0 /\ RecvCount = 0 /\ call' = NoCall
      /\ UNCHANGED <<keys, win, seq, rxq, batch, out, fates, sealed, reused>>
  BY DEF DrainReturn, BetweenBatches
<1>2. /\ rxq \in Seq(Datagrams) /\ batch \in Seq(Datagrams) /\ out \in Seq(Datagrams)
      /\ Len(rxq) \in Nat /\ Len(batch) \in Nat /\ Len(out) \in Nat
      /\ call.processed \in Nat /\ call.n \in Nat /\ staged \in Nat /\ staged <= Wants
      /\ Len(rxq) + call.processed + call.n <= staged
      /\ Len(batch) + Len(out) <= call.n
  BY DrainFacts
<1>3. Len(rxq) = 0
  BY <1>1, RecvCountIs
<1>4. Len(batch) = 0 /\ Len(out) = 0 /\ call.processed <= staged
  BY <1>1, <1>2
<1>5. rxq = <<>> /\ batch = <<>> /\ out = <<>>
  BY <1>2, <1>3, <1>4
<1>6. QED
  BY <1>1, <1>2, <1>4, <1>5

\* The next cycle of preload() begins, or the loop ends.
LEMMA NextCycleKeeps ==
  ASSUME IInv, phase = "drain", DrainReturn,
         phase' \in {"stage", "finished"}, cycles' \in 0 .. Warmup, staged' = 0,
         left' \in 0 .. StageWindow, phase' = "stage" => left' <= Wants',
         done' \in 0 .. Target, cycles' > 0 => done' = 0,
         st' \in Stats, StagedVerify', guard' = guard,
         Counting'
  PROVE  IInv'
<1>1. /\ rxq = <<>> /\ batch = <<>> /\ out = <<>> /\ call' = NoCall
      /\ UNCHANGED <<keys, win, seq, rxq, batch, out, fates, sealed, reused>>
  BY ReturnLeavesNothing
<1>2. StageWindow \in Nat /\ RxCap \in Nat
  BY HotPathAssumption, RxCapAssumption
<1>3. Typed'
  <2>1. call' \in Calls
    BY <1>1 DEF NoCall, Calls
  <2>2. staged' \in 0 .. StageWindow
    BY <1>2
  <2>3. phase' \in {"stage", "drain", "finished", "failed"}
    OBVIOUS
  <2>4. QED
    BY <1>1, <2>1, <2>2, <2>3 DEF IInv, Typed
<1>4. Waiting'
  <2>1. Pending' = <<>>
    BY <1>1 DEF Pending
  <2>2. QED
    BY <1>1, <2>1, NothingQueued DEF IInv, Waiting
<1>5. Staging'
  <2>1. staged' + left' = left' /\ left' <= StageWindow
    <3>1. \A l \in 0 .. StageWindow : 0 + l = l /\ l <= StageWindow
      BY <1>2
    <3>2. QED
      BY <3>1
  <2>2. Len(rxq') = 0 /\ staged' = 0
    BY <1>1
  <2>3. Len(rxq') <= staged'
    BY <2>2
  <2>4. QED
    BY <1>1, <2>1, <2>3 DEF Staging
<1>6. Draining'
  BY DEF Draining
<1>7. Buffered'
  <2>1. guard <= GuardLimit
    BY DEF IInv, Buffered
  <2>2. Len(rxq') <= RxCap
    BY <1>1, <1>2
  <2>3. QED
    BY <2>1, <2>2 DEF Buffered
<1>8. Sealing'
  BY <1>1 DEF IInv, Sealing
<1>9. QED
  BY <1>3, <1>4, <1>5, <1>6, <1>7, <1>8 DEF IInv

LEMMA WarmedUpKeeps == IInv /\ WarmedUp => IInv'
<1> SUFFICES ASSUME IInv, WarmedUp PROVE IInv'
  OBVIOUS
<1>1. /\ phase = "drain" /\ cycles > 0 /\ DrainReturn
      /\ cycles' = cycles - 1 /\ phase' = "stage" /\ staged' = 0
      /\ left' = IF cycles = 1 THEN Wanted(0) ELSE StageWindow
      /\ st' = IF cycles = 1 THEN ZeroStats ELSE st
      /\ UNCHANGED <<done, guard>>
  BY DEF WarmedUp
<1>2. /\ cycles \in 0 .. Warmup /\ Warmup \in Nat /\ StageWindow \in Nat /\ Target \in Nat
      /\ done = 0 /\ st \in Stats
  BY <1>1, HotPathAssumption DEF IInv, Typed, Buffered
<1>3. batch = <<>> /\ call' = NoCall /\ batch' = batch
  BY <1>1, ReturnLeavesNothing
<1>4. Wanted(0) \in 0 .. StageWindow /\ Wanted(0) <= Target - 0
  BY <1>2, WantedFits
<1>5. cycles' \in 0 .. Warmup /\ (cycles' = 0 <=> cycles = 1)
  BY <1>1, <1>2
<1>6. left' \in 0 .. StageWindow /\ left' <= Wants'
  <2>1. CASE cycles = 1
    <3>1. Wants' = Target - 0
      BY <1>1, <1>2, <1>5, <2>1 DEF Wants
    <3>2. QED
      BY <1>1, <1>4, <2>1, <3>1
  <2>2. CASE cycles # 1
    <3>1. Wants' = StageWindow
      BY <1>5, <2>2 DEF Wants
    <3>2. QED
      BY <1>1, <1>2, <2>2, <3>1
  <2>3. QED
    BY <2>1, <2>2
<1>7. st' \in Stats /\ StagedVerify'
  BY <1>1, <1>2 DEF IInv, StagedVerify, ZeroStats, Stats
<1>8. Counting'
  <2>1. SUFFICES ASSUME cycles' = 0 PROVE Counted' = 0 /\ Handled' = 0
    BY DEF Counting
  <2>2. st' = ZeroStats
    BY <1>1, <1>5, <2>1
  <2>3. Counted' = 0
    BY <2>2 DEF Counted, ZeroStats
  <2>4. Handled' = 0
    BY <1>1, <1>2, <1>3 DEF Handled, NoCall
  <2>5. QED
    BY <2>3, <2>4
<1>9. done' \in 0 .. Target /\ done' = 0
  BY <1>1, <1>2
<1>10. QED
  BY <1>1, <1>5, <1>6, <1>7, <1>8, <1>9, NextCycleKeeps

LEMMA MeasuredKeeps == IInv /\ Measured => IInv'
<1> SUFFICES ASSUME IInv, Measured PROVE IInv'
  OBVIOUS
<1>1. /\ phase = "drain" /\ cycles = 0 /\ DrainReturn
      /\ done' = done + call.processed /\ staged' = 0
      /\ IF done' < Target
         THEN phase' = "stage" /\ left' = Wanted(done')
         ELSE phase' = "finished" /\ left' = left
      /\ UNCHANGED <<st, cycles, guard>>
  BY DEF Measured
<1>2. /\ done \in 0 .. Target /\ Target \in Nat /\ left \in 0 .. StageWindow
      /\ cycles \in 0 .. Warmup /\ st \in Stats /\ staged \in Nat
  BY HotPathAssumption DEF IInv, Typed
<1>3. /\ batch = <<>> /\ call.n = 0 /\ call' = NoCall /\ batch' = batch /\ fates' = fates
      /\ call.processed \in Nat /\ call.processed <= staged /\ staged <= Wants
  BY <1>1, ReturnLeavesNothing
<1>4. done' \in 0 .. Target
  <2>1. Wants = Target - done
    BY <1>1 DEF Wants
  <2> DEFINE c == call.processed
  <2>2. c \in Nat /\ c <= staged /\ staged <= Target - done
    BY <1>3, <2>1
  <2>3. done' = done + c
    BY <1>1
  <2> HIDE DEF c
  <2>4. QED
    BY <1>2, <2>2, <2>3
<1>5. Wanted(done') \in 0 .. StageWindow /\ Wanted(done') <= Target - done'
  BY <1>4, WantedFits
<1>6. Wants' = Target - done'
  BY <1>1 DEF Wants
<1>7. /\ phase' \in {"stage", "finished"} /\ left' \in 0 .. StageWindow
      /\ phase' = "stage" => left' <= Wants'
  BY <1>1, <1>2, <1>5, <1>6
<1>8. Counting'
  <2>1. Handled' = Handled
    <3>1. Handled = done + call.processed + 0 - 0
      BY <1>3 DEF Handled
    <3>2. Handled' = done' + 0 + 0 - 0
      BY <1>3 DEF Handled, NoCall
    <3>3. QED
      BY <1>1, <1>2, <1>3, <3>1, <3>2
  <2>2. Counted' = Counted
    BY <1>1 DEF Counted
  <2>3. QED
    BY <1>1, <1>3, <2>1, <2>2 DEF IInv, Counting
<1>9. StagedVerify' /\ st' \in Stats /\ cycles' \in 0 .. Warmup /\ ~(cycles' > 0)
  BY <1>1, <1>2 DEF IInv, StagedVerify
<1>10. QED
  BY <1>1, <1>4, <1>7, <1>8, <1>9, NextCycleKeeps

-----------------------------------------------------------------------------
LEMMA InitIInv == Init => IInv
<1> SUFFICES ASSUME Init PROVE IInv
  OBVIOUS
<1>1. PICK hk \in HkdfCalls : keys = NewKeySchedule(Secret, Period, hk)
  BY DEF Init, ShardInit
<1>2. /\ keys \in Schedules({Secret}, {Period})
      /\ keys.epoch = 0 /\ keys.tag[0] = 0 /\ keys.salt[0] = keys.aead[0]
      /\ keys.aead[0] \in Materials({Secret}) /\ keys.aead[1] = NoKey
  BY <1>1, NewFields
<1>3. /\ win = NewWindow /\ seq = 0 /\ st = ZeroStats /\ rxq = <<>> /\ call = NoCall
      /\ batch = <<>> /\ out = <<>> /\ fates = <<>> /\ sealed = {} /\ ~reused
      /\ phase = "stage" /\ cycles = Warmup /\ staged = 0 /\ done = 0 /\ guard = 0
      /\ left = IF Warmup > 0 THEN StageWindow ELSE Wanted(0)
  BY DEF Init, ShardInit
<1>4. win \in Window /\ ~win.seen
  BY <1>3, NewIsExact DEF Exact, NewWindow
<1>5. /\ Warmup \in Nat /\ Target \in Nat /\ GuardLimit \in Nat /\ StageWindow \in Nat
      /\ RxCap \in Nat
  BY HotPathAssumption, RxCapAssumption
<1>6. Wanted(0) \in 0 .. StageWindow /\ Wanted(0) <= Target - 0
  BY <1>5, WantedFits
<1>7. left \in 0 .. StageWindow /\ left <= Wants
  BY <1>3, <1>5, <1>6 DEF Wants
<1>8. Typed
  <2>1. st \in Stats /\ call \in Calls
    BY <1>3 DEF ZeroStats, Stats, NoCall, Calls
  <2>2. reused \in BOOLEAN
    BY Zenon DEF Init, ShardInit
  <2>3. /\ cycles \in 0 .. Warmup /\ staged \in 0 .. StageWindow /\ done \in 0 .. Target
        /\ guard \in 0 .. GuardLimit + 1
    BY <1>3, <1>5
  <2>4. QED
    BY <1>3, <1>4, <1>7, <2>1, <2>2, <2>3 DEF Typed
<1>9. KeysAt(keys, TurnAt(seq))
  <2>1. TurnAt(seq) = 0 /\ 0 % EpochMod = 0
    BY <1>3, EpochModAssumption DEF TurnAt
  <2>2. Aligned(keys)
    BY <1>2, NoKeyAssumption DEF Aligned
  <2>3. QED
    BY <1>2, <2>1, <2>2 DEF KeysAt
<1>10. Waiting
  <2>1. Pending = <<>>
    BY <1>3 DEF Pending
  <2>2. QED
    BY <1>4, <1>9, <2>1, NothingQueued DEF Waiting
<1>11. Staging
  <2>1. Len(rxq) = 0 /\ staged + left = left /\ left <= StageWindow
    BY <1>3, <1>5, <1>7
  <2>2. QED
    BY <1>3, <1>7, <2>1 DEF Staging
<1>12. Draining /\ Buffered
  BY <1>3, <1>5 DEF Draining, Buffered
<1>13. Sealing /\ StagedVerify
  BY <1>3 DEF Sealing, StagedVerify, ZeroStats
<1>14. Counting
  <2>1. Counted = 0 /\ Handled = 0
    BY <1>3 DEF Counted, Handled, ZeroStats, NoCall
  <2>2. QED
    BY <2>1 DEF Counting
<1>15. QED
  BY <1>8, <1>10, <1>11, <1>12, <1>13, <1>14 DEF IInv

LEMMA StutterKeeps == IInv /\ UNCHANGED vars => IInv'
<1> SUFFICES ASSUME IInv, UNCHANGED vars PROVE IInv'
  OBVIOUS
<1>1. UNCHANGED shardVars /\ UNCHANGED hotVars
  BY DEF vars
<1>2. Typed' /\ Waiting'
  BY <1>1 DEF shardVars, hotVars, IInv, Typed, Waiting, Pending
<1>3. Staging' /\ Draining' /\ Buffered'
  BY <1>1 DEF shardVars, hotVars, IInv, Staging, Draining, Buffered, Wants
<1>4. Sealing' /\ Counting' /\ StagedVerify'
  BY <1>1 DEF shardVars, hotVars, IInv, Sealing, Counting, Counted, Handled, StagedVerify
<1>5. QED
  BY <1>2, <1>3, <1>4 DEF IInv

(***************************************************************************)
(* Every step of run_hotpath(), of preload() and of drain() keeps the      *)
(* inductive invariant.                                                    *)
(***************************************************************************)
THEOREM HotPathInvariance == Spec => []IInv
<1>1. IInv /\ [Next]_vars => IInv'
  <2> SUFFICES ASSUME IInv, [Next]_vars PROVE IInv'
    OBVIOUS
  <2>1. CASE PreloadPacket
    BY <2>1, PreloadKeeps
  <2>2. CASE Drain
    BY <2>2, DrainKeeps
  <2>3. CASE StagedNothing
    BY <2>3, StagedNothingKeeps
  <2>4. CASE Working
    <3>1. DrainStep
      BY <2>4 DEF Working
    <3>2. QED
      BY <2>4, <3>1, RecvKeeps, SendKeeps, DropsKeep, ForwardKeeps DEF DrainStep
  <2>5. CASE WarmedUp
    BY <2>5, WarmedUpKeeps
  <2>6. CASE Measured
    BY <2>6, MeasuredKeeps
  <2>7. CASE UNCHANGED vars
    BY <2>7, StutterKeeps
  <2>8. QED
    BY <2>1, <2>2, <2>3, <2>4, <2>5, <2>6, <2>7 DEF Next, Returned
<1>2. QED
  BY <1>1, InitIInv, PTL DEF Spec

(***************************************************************************)
(* The shard that stages its own traffic never seals two packets under the *)
(* same key and nonce, neither in preload() nor in drain(): also when      *)
(* rekeys recur, HKDF fails and leaves zero keys, or seal() fails.         *)
(***************************************************************************)
THEOREM MeasuresUnderFreshNonces == Spec => []NoncesFresh
<1>1. IInv => NoncesFresh
  BY DEF IInv, Sealing, NoncesFresh
<1>2. QED
  BY <1>1, HotPathInvariance, PTL

(***************************************************************************)
(* Whatever is staged and received verifies, for every period and every    *)
(* window of at most one packet more: no staged packet outlives the two    *)
(* keys the schedule holds, although drain() itself moves the epoch on.    *)
(***************************************************************************)
THEOREM StagedAlwaysVerify == Spec => []StagedVerify
<1>1. IInv => StagedVerify
  BY DEF IInv
<1>2. QED
  BY <1>1, HotPathInvariance, PTL

(***************************************************************************)
(* The counters run_hotpath() reports hold the packets drained since the   *)
(* warm-up, each once, but for those that could not be sealed again.       *)
(***************************************************************************)
THEOREM CountsAreTheMeasurement == Spec => []MeasuredOnce
<1>1. IInv => MeasuredOnce
  <2> SUFFICES ASSUME IInv PROVE MeasuredOnce
    OBVIOUS
  <2>1. Len(batch) <= MaxBatch /\ Len(out) <= MaxBatch
    <3>1. MaxBatch \in Nat
      BY MaxBatchAssumption
    <3>2. CASE phase = "drain"
      <4>1. /\ Len(batch) \in Nat /\ Len(out) \in Nat /\ call.n \in Nat
            /\ Len(batch) + Len(out) <= call.n /\ call.n <= MaxBatch
        BY <3>2, DrainFacts
      <4>2. QED
        BY <3>1, <4>1
    <3>3. CASE phase # "drain"
      BY <3>1, <3>3 DEF IInv, Staging
    <3>4. QED
      BY <3>2, <3>3
  <2>2. keys.epoch \in Epochs /\ keys.tag \in [{0, 1} -> Epochs]
    <3>1. Slots = {0, 1}
      BY DEF Slots
    <3>2. QED
      BY <3>1 DEF IInv, Waiting, KeysAt, Schedules
  <2>3. TypeOK
    <3>1. ShardTypeOK
      BY <2>1, <2>2 DEF IInv, Typed, Buffered, Stats, Calls, ShardTypeOK
    <3>2. QED
      BY <3>1 DEF IInv, Typed, TypeOK
  <2>4. ASSUME phase \in {"stage", "finished"}, cycles = 0
        PROVE  /\ Counted <= done
               /\ Counted < done => \E i \in DOMAIN fates : fates[i].what = "unsealed"
    <3>1. call = NoCall /\ batch = <<>> /\ done \in 0 .. Target
      BY <2>4 DEF IInv, Staging, Typed
    <3>2. done \in Nat
      BY <3>1, HotPathAssumption
    <3>3. Handled = done
      BY <3>1, <3>2 DEF Handled, NoCall
    <3>4. QED
      BY <2>4, <3>3 DEF IInv, Counting
  <2>5. QED
    BY <2>3, <2>4 DEF MeasuredOnce, Counted
<1>2. QED
  BY <1>1, HotPathInvariance, PTL
=============================================================================
