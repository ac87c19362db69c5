----------------------------- MODULE ProtoProofs -----------------------------
(***************************************************************************)
(* Proofs about the three objects of the protocol (proto.cpp): the replay  *)
(* window, the key schedule and the handshake, each with its own           *)
(* specification.                                                          *)
(***************************************************************************)
EXTENDS ReplaySystem, KeyScheduleSystem, Handshake, DataPlaneFacts

-----------------------------------------------------------------------------
(***************************************************************************)
(* Proofs about the replay window and its traffic, for every word size,    *)
(* every width and every range of sequence numbers.                        *)
(*                                                                         *)
(* What one call of accept() does to a window is in DataPlaneFacts.        *)
(* Here: the window stays exact for the set of the packets admitted since  *)
(* the last reset, so no packet is admitted twice and every verdict is the *)
(* one the abstract specification gives.                                   *)
(***************************************************************************)

\* The inductive invariant says that the window is exact for Admitted.
LEMMA WindowExact == ReplayIInv => Exact(win, Admitted)
<1>1. Admitted \in SUBSET Nat
  BY MaxSeqAssumption DEF Admitted, Seqs
<1>2. QED
  BY <1>1 DEF ReplayIInv, ReplayTypeOK, BitmapExact, HighIsNewest, Exact, ExactBits

\* The packets admitted after a call: one more when the verdict is "ok".
LEMMA AdmittedStep ==
  ASSUME ReplayIInv, NEW n \in Seqs, Offer(n)
  PROVE  Admitted' = IF Verdict(win, n) = "ok" THEN Admitted \cup {n} ELSE Admitted
  BY DEF ReplayIInv, ReplayTypeOK, Offer, Admitted

\* One call of accept() keeps the inductive invariant.
LEMMA OfferKeepsIInv ==
  ASSUME ReplayIInv, NEW n \in Seqs, Offer(n)
  PROVE  ReplayIInv'
<1>0. n \in Nat /\ copies \in [Seqs -> Nat] /\ Exact(win, Admitted)
  BY MaxSeqAssumption, WindowExact DEF ReplayIInv, ReplayTypeOK, Seqs
<1>1. Exact(win', Admitted')
  <2>1. Exact(Accept(win, n),
              IF Verdict(win, n) = "ok" THEN Admitted \cup {n} ELSE Admitted)
    BY <1>0, AcceptExact
  <2>2. QED
    BY <2>1, AdmittedStep DEF Offer
<1>2. ReplayTypeOK'
  BY <1>0, <1>1, VerdictCases DEF Offer, ReplayTypeOK, Exact
<1>3. AtMostOnce'
  <2>1. CASE Verdict(win, n) = "ok"
    <3>1. n \notin Admitted
      BY <1>0, <2>1, OkIsFresh
    <3>2. copies[n] = 0
      BY <1>0, <3>1 DEF Admitted
    <3>3. QED
      BY <1>0, <2>1, <3>2 DEF Offer, AtMostOnce, ReplayIInv
  <2>2. CASE Verdict(win, n) # "ok"
    BY <2>2 DEF Offer, AtMostOnce, ReplayIInv
  <2>3. QED
    BY <2>1, <2>2
<1>4. BitmapExact' /\ HighIsNewest'
  BY <1>1 DEF BitmapExact, HighIsNewest, Exact, ExactBits
<1>5. QED
  BY <1>2, <1>3, <1>4 DEF ReplayIInv

\* A fresh window, as the constructor and reset() make it, satisfies it.
LEMMA FreshIInv ==
  ASSUME win = NewWindow, verdict = "none", copies = [s \in Seqs |-> 0]
  PROVE  ReplayIInv
<1>1. ReplayTypeOK
  BY ZeroBitsType DEF ReplayTypeOK, NewWindow, Window
<1>2. QED
  BY <1>1 DEF ReplayIInv, NewWindow, AtMostOnce, BitmapExact, HighIsNewest, Admitted

(***************************************************************************)
(* accept() and reset() keep the inductive invariant, so every reachable   *)
(* state of the window satisfies it.                                       *)
(***************************************************************************)
THEOREM ReplayInvariance == ReplaySpec => []ReplayIInv
<1>1. ReplayInit => ReplayIInv
  BY FreshIInv DEF ReplayInit
<1>2. ReplayIInv /\ [ReplayNext]_replayVars => ReplayIInv'
  <2> SUFFICES ASSUME ReplayIInv, [ReplayNext]_replayVars PROVE ReplayIInv'
    OBVIOUS
  <2>1. ASSUME NEW n \in Seqs, Offer(n) PROVE ReplayIInv'
    BY <2>1, OfferKeepsIInv
  <2>2. CASE Reset
    <3>1. ReplayTypeOK'
      BY <2>2, ZeroBitsType DEF Reset, ReplayTypeOK, NewWindow, Window
    <3>2. QED
      BY <2>2, <3>1 DEF Reset, ReplayIInv, NewWindow, AtMostOnce, BitmapExact,
                        HighIsNewest, Admitted
  <2>3. CASE UNCHANGED replayVars
    BY <2>3 DEF replayVars, ReplayIInv, ReplayTypeOK, AtMostOnce, BitmapExact, HighIsNewest, Admitted
  <2>4. QED
    BY <2>1, <2>2, <2>3 DEF ReplayNext
<1>3. QED
  BY <1>1, <1>2, PTL DEF ReplaySpec

(***************************************************************************)
(* ReplayWindow::accept never answers true twice for one sequence number,  *)
(* for every word size, width and range of sequence numbers.               *)
(***************************************************************************)
THEOREM NeverTwice == ReplaySpec => []AtMostOnce
<1>1. ReplayIInv => AtMostOnce
  BY DEF ReplayIInv
<1>2. QED
  BY <1>1, ReplayInvariance, PTL

(***************************************************************************)
(* The word-wise bitmap of ReplayWindow holds exactly the admitted packets *)
(* of the window.                                                          *)
(***************************************************************************)
THEOREM BitmapIsExact == ReplaySpec => []BitmapExact
<1>1. ReplayIInv => BitmapExact
  BY DEF ReplayIInv
<1>2. QED
  BY <1>1, ReplayInvariance, PTL

-----------------------------------------------------------------------------
\* "Too old" in the abstract specification is the code's verdict "old".
LEMMA TooOldIsFar ==
  ASSUME ReplayIInv, NEW n \in Seqs
  PROVE  Promise!TooOld(n) <=> Verdict(win, n) = "old"
<1>1. n \in Nat /\ Exact(win, Admitted)
  BY MaxSeqAssumption, WindowExact DEF Seqs
<1>2. QED
  BY <1>1, OldIsFar DEF Promise!TooOld

(***************************************************************************)
(* The window of the code implements the promise of AntiReplay: every      *)
(* verdict and every drop counter is the one the set of all admitted       *)
(* packets determines.                                                     *)
(***************************************************************************)
THEOREM Refinement == ReplaySpec => KeepsPromise
<1>1. ReplayInit => Promise!Init
  BY DEF ReplayInit, Promise!Init, NewWindow, Admitted
<1>2. ReplayIInv /\ [ReplayNext]_replayVars => [Promise!Next]_(Promise!vars)
  <2> SUFFICES ASSUME ReplayIInv, [ReplayNext]_replayVars PROVE [Promise!Next]_(Promise!vars)
    OBVIOUS
  <2>1. ASSUME NEW n \in Seqs, Offer(n) PROVE Promise!Next
    <3>0. /\ n \in Nat /\ win \in Window /\ win.high \in Nat
          /\ win.dup \in Nat /\ win.old \in Nat /\ Exact(win, Admitted)
      BY MaxSeqAssumption, WindowExact DEF ReplayIInv, ReplayTypeOK, Window, Seqs
    <3>1. CASE Verdict(win, n) = "ok"
      <4>1. ~Promise!TooOld(n)
        BY <3>1, TooOldIsFar
      <4>2. win'.dup = win.dup /\ win'.old = win.old
        BY <2>1, <3>0, <3>1
           DEF Offer, Accept, AcceptFirst, AcceptAhead, AcceptInside, Window
      <4>3. Promise!Admit(n)
        BY <2>1, <3>0, <3>1, <4>1, <4>2, OkIsFresh, AdmittedStep DEF Promise!Admit, Offer
      <4>4. QED
        BY <4>3 DEF Promise!Next
    <3>2. CASE Verdict(win, n) = "dup"
      <4>1. win.seen /\ ~(n > win.high)
        BY <3>2, VerdictCases
      <4>2. ~Promise!TooOld(n) /\ n \in Admitted
        BY <3>0, <3>2, TooOldIsFar, DupIsKnown
      <4>3. win'.dup = win.dup + 1 /\ win'.old = win.old
        BY <2>1, <3>0, <3>2, <4>1 DEF Offer, Accept, Window
      <4>4. Promise!DropDuplicate(n)
        BY <2>1, <3>2, <4>2, <4>3, AdmittedStep DEF Promise!DropDuplicate, Offer
      <4>5. QED
        BY <4>4 DEF Promise!Next
    <3>3. CASE Verdict(win, n) = "old"
      <4>1. win.seen /\ ~(n > win.high)
        BY <3>3, VerdictCases
      <4>2. Promise!TooOld(n)
        BY <3>3, TooOldIsFar
      <4>3. win'.old = win.old + 1 /\ win'.dup = win.dup
        BY <2>1, <3>0, <3>3, <4>1 DEF Offer, Accept, Window
      <4>4. Promise!DropOld(n)
        BY <2>1, <3>3, <4>2, <4>3, AdmittedStep DEF Promise!DropOld, Offer
      <4>5. QED
        BY <4>4 DEF Promise!Next
    <3>4. QED
      BY <3>1, <3>2, <3>3, VerdictCases
  <2>2. CASE Reset
    <3>1. Promise!Reset
      BY <2>2 DEF Reset, Promise!Reset, NewWindow, Admitted
    <3>2. QED
      BY <3>1 DEF Promise!Next
  <2>3. CASE UNCHANGED replayVars
    BY <2>3 DEF replayVars, Promise!vars, Admitted
  <2>4. QED
    BY <2>1, <2>2, <2>3 DEF ReplayNext
<1>3. QED
  BY <1>1, <1>2, ReplayInvariance, PTL DEF ReplaySpec, KeepsPromise, Promise!Spec

-----------------------------------------------------------------------------
(***************************************************************************)
(* Proofs about the key schedule, for every rekey period, every number of  *)
(* epochs and every sequence of sequence numbers.  What the constructor,   *)
(* derive() and maybe_rekey() leave is in DataPlaneFacts.                  *)
(***************************************************************************)

\* What a step that rekeys does to the schedule.
LEMMA RekeyStep ==
  ASSUME ScheduleIInv, NEW s \in Nat, NEW hk \in HkdfCalls, NeedsRekey(ks, s),
         ks' = MaybeRekey(ks, s, hk)
  PROVE  /\ ks' \in Schedules({Secret}, Periods)
         /\ ks'.epoch # ks.epoch /\ ks'.tag[0] = ks'.epoch
         /\ ks'.aead[0] \in Materials({Secret}) /\ ks'.salt[0] = ks'.aead[0]
         /\ ks'.aead[1] = ks.aead[0] /\ ks'.salt[1] = ks.aead[0]
         /\ ks'.tag[1] = ks.epoch
         /\ hk.traffic => ks'.aead[0].chain = ks.chain
         /\ hk.ratchet => Len(ks'.chain) = Len(ks.chain) + 1
  <1>1. Periods \in SUBSET Nat /\ ks \in Schedules({Secret}, Periods) /\ Aligned(ks)
    BY PeriodsAssumption DEF ScheduleIInv, ScheduleTypeOK, SlotsAligned, Aligned
  <1> QED
    BY <1>1, RekeyFields

LEMMA InitIInv == ScheduleInit => ScheduleIInv
  <1> SUFFICES ASSUME ScheduleInit PROVE ScheduleIInv
    OBVIOUS
  <1>1. PICK period \in Periods, hk \in HkdfCalls : ks = NewKeySchedule(Secret, period, hk)
    BY DEF ScheduleInit
  <1>2. healthy \in BOOLEAN
    BY Zenon DEF ScheduleInit, Succeeds
  <1> QED
    BY <1>1, <1>2, NewFields, NoKeyAssumption, SMTT(40)
    DEF ScheduleInit, ScheduleIInv, ScheduleTypeOK, SlotsAligned

LEMMA StepIInv == ScheduleIInv /\ [ScheduleNext]_scheduleVars => ScheduleIInv'
  <1> SUFFICES ASSUME ScheduleIInv, [ScheduleNext]_scheduleVars PROVE ScheduleIInv'
    OBVIOUS
  <1>1. CASE UNCHANGED scheduleVars
    BY <1>1 DEF scheduleVars, ScheduleIInv, ScheduleTypeOK, SlotsAligned
  <1>2. ASSUME NEW s \in 0 .. MaxPresented, Present(s) PROVE ScheduleIInv'
    <2>1. PICK hk \in HkdfCalls : ks' = MaybeRekey(ks, s, hk)
      BY <1>2 DEF Present
    <2>2. s \in Nat
      BY MaxPresentedAssumption
    <2>3. CASE NeedsRekey(ks, s)
      <3>1. /\ ks' \in Schedules({Secret}, Periods)
            /\ ks'.epoch # ks.epoch /\ ks'.tag[0] = ks'.epoch
            /\ ks'.aead[0] \in Materials({Secret}) /\ ks'.salt[0] = ks'.aead[0]
            /\ ks'.aead[1] = ks.aead[0] /\ ks'.salt[1] = ks.aead[0]
            /\ ks'.tag[1] = ks.epoch
        BY <2>1, <2>2, <2>3, RekeyStep
      <3>2. ks.aead[0] \in Materials({Secret})
        BY DEF ScheduleIInv, ScheduleTypeOK, SlotsAligned, Schedules, Slots
      <3>3. retired' \subseteq Materials({Secret})
        BY <1>2, <2>3, <3>2 DEF Present, ScheduleIInv, ScheduleTypeOK
      <3>4. SlotsAligned'
        BY <3>1, NoKeyAssumption DEF SlotsAligned
      <3> QED
        BY <1>2, <2>2, <3>1, <3>3, <3>4 DEF Present, ScheduleIInv, ScheduleTypeOK
    <2>4. CASE ~NeedsRekey(ks, s)
      <3>1. ks' = ks
        BY <2>1, <2>4, NoRekey
      <3> QED
        BY <1>2, <2>2, <2>4, <3>1 DEF Present, ScheduleIInv, ScheduleTypeOK, SlotsAligned
    <2> QED
      BY <2>3, <2>4
  <1> QED
    BY <1>1, <1>2 DEF ScheduleNext

LEMMA IInvSalt == ScheduleIInv => SaltMatchesKey
  BY DEF ScheduleIInv, SlotsAligned, SaltMatchesKey, ForEpoch, NonceSalt

(***************************************************************************)
(* The two slots of the schedule stay aligned through every rekey, whether *)
(* HKDF fails or not.                                                      *)
(***************************************************************************)
THEOREM ScheduleInvariance == ScheduleSpec => []ScheduleIInv
  BY InitIInv, StepIInv, PTL DEF ScheduleSpec

(***************************************************************************)
(* for_epoch() and nonce() never disagree on the slot of an epoch: a       *)
(* packet is always opened and sealed under a nonce derived with the key.  *)
(***************************************************************************)
THEOREM SaltAlwaysMatches == ScheduleSpec => []SaltMatchesKey
  BY ScheduleInvariance, IInvSalt, PTL

-----------------------------------------------------------------------------
LEMMA StepKeepsPrevious ==
  ASSUME ScheduleIInv, [ScheduleNext]_scheduleVars, ks'.epoch # ks.epoch
  PROVE  /\ ForEpoch(ks', ks.epoch) = ForEpoch(ks, ks.epoch)
         /\ ForEpoch(ks', ks'.epoch) # NoKey
         /\ \A e \in Epochs \ {ks.epoch, ks'.epoch} : ForEpoch(ks', e) = NoKey
  <1>1. PICK s \in 0 .. MaxPresented : Present(s)
    BY DEF ScheduleNext, scheduleVars
  <1>2. PICK hk \in HkdfCalls : ks' = MaybeRekey(ks, s, hk)
    BY <1>1 DEF Present
  <1>3. s \in Nat
    BY MaxPresentedAssumption
  <1>4. NeedsRekey(ks, s)
    BY <1>2, NoRekey
  <1>5. /\ ks'.tag[0] = ks'.epoch
        /\ ks'.aead[0] # NoKey
        /\ ks'.aead[1] = ks.aead[0]
        /\ ks'.tag[1] = ks.epoch
    BY <1>2, <1>3, <1>4, RekeyStep, NoKeyAssumption
  <1>6. ForEpoch(ks, ks.epoch) = ks.aead[0]
    BY DEF ForEpoch, ScheduleIInv, SlotsAligned
  <1>7. ks.aead[0] # NoKey
    BY DEF ScheduleIInv, SlotsAligned
  <1> QED
    BY <1>5, <1>6, <1>7 DEF ForEpoch

(***************************************************************************)
(* A rekey keeps exactly one previous epoch: its packets find the cipher   *)
(* they found before, and packets of all other epochs find none.           *)
(***************************************************************************)
THEOREM PreviousIsKept == ScheduleSpec => RekeyKeepsPrevious
  <1>1. ScheduleIInv /\ [ScheduleNext]_scheduleVars =>
          [ks'.epoch # ks.epoch =>
             /\ ForEpoch(ks', ks.epoch) = ForEpoch(ks, ks.epoch)
             /\ ForEpoch(ks', ks'.epoch) # NoKey
             /\ \A e \in Epochs \ {ks.epoch, ks'.epoch} : ForEpoch(ks', e) = NoKey]_scheduleVars
    BY StepKeepsPrevious
  <1> QED
    BY <1>1, ScheduleInvariance, PTL DEF ScheduleSpec, RekeyKeepsPrevious

-----------------------------------------------------------------------------
LEMMA InitChain == ScheduleInit => ChainAhead
  <1> SUFFICES ASSUME ScheduleInit, healthy PROVE ChainAhead
    BY DEF ChainAhead
  <1>1. PICK period \in Periods, hk \in HkdfCalls :
          ks = NewKeySchedule(Secret, period, hk) /\ healthy = Succeeds(hk)
    BY DEF ScheduleInit
  <1>2. hk.traffic /\ hk.ratchet
    BY <1>1 DEF Succeeds
  <1> QED
    BY <1>1, <1>2, NewFields DEF ScheduleInit, ChainAhead

LEMMA StepChain == ScheduleIInv /\ ChainAhead /\ [ScheduleNext]_scheduleVars => ChainAhead'
  <1> SUFFICES ASSUME ScheduleIInv, ChainAhead, [ScheduleNext]_scheduleVars, healthy' PROVE ChainAhead'
    BY DEF ChainAhead
  <1>1. CASE UNCHANGED scheduleVars
    BY <1>1 DEF scheduleVars, ChainAhead
  <1>2. ASSUME NEW s \in 0 .. MaxPresented, Present(s) PROVE ChainAhead'
    <2>1. PICK hk \in HkdfCalls :
            /\ ks' = MaybeRekey(ks, s, hk)
            /\ healthy' = (healthy /\ (NeedsRekey(ks, s) => Succeeds(hk)))
      BY <1>2 DEF Present
    <2>2. s \in Nat
      BY MaxPresentedAssumption
    <2>5. healthy
      BY <2>1
    <2>3. CASE NeedsRekey(ks, s)
      <3>1. hk.traffic /\ hk.ratchet
        BY <2>1, <2>3 DEF Succeeds
      <3>2. /\ ks'.aead[0].chain = ks.chain
            /\ Len(ks'.chain) = Len(ks.chain) + 1
        BY <2>1, <2>2, <2>3, <3>1, RekeyStep
      <3>3. retired' = retired \cup {ks.aead[0]}
        BY <1>2, <2>3 DEF Present
      <3>4. /\ ks.chain \in Chains({Secret})
            /\ ks.aead[0] \in Materials({Secret})
            /\ retired \subseteq Materials({Secret})
        BY DEF ScheduleIInv, ScheduleTypeOK, SlotsAligned, Schedules, Slots
      <3>5. /\ Len(ks.chain) \in Nat
            /\ Len(ks.aead[0].chain) \in Nat
            /\ \A m \in retired : Len(m.chain) \in Nat
        BY <3>4 DEF Chains, Materials
      <3>6. \A m \in retired' : Len(m.chain) < Len(ks.chain)
        BY <2>5, <3>3, <3>5 DEF ChainAhead
      <3> QED
        BY <3>2, <3>5, <3>6 DEF ChainAhead
    <2>4. CASE ~NeedsRekey(ks, s)
      <3>1. ks' = ks
        BY <2>1, <2>4, NoRekey
      <3>2. retired' = retired
        BY <1>2, <2>4 DEF Present
      <3> QED
        BY <2>5, <3>1, <3>2 DEF ChainAhead
    <2> QED
      BY <2>3, <2>4
  <1> QED
    BY <1>1, <1>2 DEF ScheduleNext

LEMMA ChainTells == ScheduleIInv /\ ChainAhead => KeysNeverRecur
  <1> SUFFICES ASSUME ScheduleIInv, ChainAhead, healthy, ks.aead[0] \in retired PROVE FALSE
    BY DEF KeysNeverRecur
  <1>1. ks.aead[0] \in Materials({Secret})
    BY DEF ScheduleIInv, ScheduleTypeOK
  <1>2. Len(ks.aead[0].chain) \in Nat
    BY <1>1 DEF Materials, Chains
  <1> QED
    BY <1>2 DEF ChainAhead

(***************************************************************************)
(* As long as HKDF does not fail, no key is ever the key of an earlier     *)
(* epoch again, not even after the epoch number has wrapped around.        *)
(***************************************************************************)
THEOREM KeysAlwaysFresh == ScheduleSpec => []KeysNeverRecur
  BY InitChain, StepChain, ScheduleInvariance, ChainTells, PTL DEF ScheduleSpec

-----------------------------------------------------------------------------
(***************************************************************************)
(* Proofs about the handshake, for any pre-shared keys and any numbers of  *)
(* endpoints and ephemeral keys.                                           *)
(*                                                                         *)
(* None of the three properties is inductive.  The invariant adds where a  *)
(* binder can come from (a two-key binder on the wire was made by a        *)
(* responder that completed with just those two keys), what a result is    *)
(* made of, and which endpoint a key belongs to.                           *)
(***************************************************************************)

\* What both ends hash, and derive their traffic keys from: the initiator's
\* key, then the responder's.
Transcript(r) == IF r.role = "initiator" THEN <<r.mine, r.peer>> ELSE <<r.peer, r.mine>>

\* The Impl of an endpoint holds one key, generated for it.
Paired ==
  /\ \A e \in Endpoints : hs[e].eph = hs[e].my_pub /\ hs[e].my_pub <= keys
  /\ \A e, f \in Endpoints : hs[e].my_pub = hs[f].my_pub /\ hs[e].my_pub # None => e = f

\* A message is an initiator's, or a responder's that has completed.
Answers(r, m) ==
  /\ r.role = "responder" /\ r.mine = m.pub
  /\ m.tag = binder(psk(r.end), <<r.peer, r.mine>>)

Sourced ==
  \A m \in net :
    /\ m.pub <= keys
    /\ m.tag = binder(m.tag.psk, <<m.pub>>) \/ \E r \in results : Answers(r, m)

\* A result is derived from its two keys, the initiator's being the older.
Ordered(r) ==
  /\ r.role = "initiator" => r.mine < r.peer
  /\ r.role = "responder" => r.peer < r.mine
  /\ r.mine <= keys /\ r.peer <= keys

Derived ==
  \A r \in results :
    r = Result(r.end, r.role, r.mine, r.peer, Transcript(r)) /\ Ordered(r)

\* A key that a result was made with is nobody else's.
Owned ==
  /\ \A r \in results, e \in Endpoints : hs[e].my_pub = r.mine => e = r.end
  /\ \A a, b \in results : a.mine = b.mine => a.end = b.end

HandshakeIInv == HandshakeTypeOK /\ Paired /\ Sourced /\ Derived /\ Owned /\ Agreement /\ ResponderHeard

-----------------------------------------------------------------------------
\* An endpoint's pre-shared key is one of those given (the constructor's argument).
LEMMA PskType == \A e \in Endpoints : psk(e) \in Psks
BY DEF Endpoints, psk

\* Transcripts of one and of two keys are never equal, and two are equal only
\* key by key: what HMAC over the concatenation of fixed-size keys relies on.
LEMMA Tuples ==
  /\ \A a, b : <<a>> = <<b>> => a = b
  /\ \A a, b, c, d : <<a, b>> = <<c, d>> => a = c /\ b = d
  /\ \A a, b, c : <<a>> # <<b, c>>
OBVIOUS

\* A binder determines its pre-shared key and its transcript.
LEMMA BinderFields ==
  ASSUME NEW k, NEW t
  PROVE  binder(k, t).psk = k /\ binder(k, t).over = t
BY DEF binder

LEMMA BinderInjective ==
  ASSUME NEW k, NEW t, NEW l, NEW u, binder(k, t) = binder(l, u)
  PROVE  k = l /\ t = u
BY DEF binder

\* The two messages of the protocol are of the type of messages.
LEMMA MessageType ==
  ASSUME NEW k \in Psks, NEW a \in Keys, NEW b \in Keys
  PROVE  /\ [pub |-> a, tag |-> binder(k, <<a>>)] \in Messages
         /\ [pub |-> b, tag |-> binder(k, <<a, b>>)] \in Messages
BY DEF Messages, Binders, binder

\* The fields of a result (HandshakeResult): the initiator sends with the
\* first half and receives with the second, the responder the other way round.
ResultSet ==
  [end: Endpoints, role: {"initiator", "responder"}, mine: Keys, peer: Keys,
   tx: Traffic, rx: Traffic]

LEMMA ResultType ==
  ASSUME NEW e \in Endpoints, NEW role \in {"initiator", "responder"},
         NEW me \in Keys, NEW peer \in Keys, NEW t \in Keys \X Keys
  PROVE  Result(e, role, me, peer, t) \in ResultSet
<1>1. x25519(me, peer) \in SUBSET Keys  BY DEF x25519
<1>2. \A h \in {1, 2} : traffic_keys(x25519(me, peer), psk(e), t, h) \in Traffic
  BY <1>1, PskType DEF Traffic, traffic_keys
<1> QED  BY <1>2 DEF Result, ResultSet

LEMMA ResultFields ==
  ASSUME NEW e, NEW role, NEW me, NEW peer, NEW t
  PROVE  LET r == Result(e, role, me, peer, t)
             first  == traffic_keys(x25519(me, peer), psk(e), t, 1)
             second == traffic_keys(x25519(me, peer), psk(e), t, 2)
         IN  /\ r.end = e /\ r.role = role /\ r.mine = me /\ r.peer = peer
             /\ role = "initiator" => r.tx = first /\ r.rx = second
             /\ role # "initiator" => r.tx = second /\ r.rx = first
BY DEF Result

\* x25519 gives both ends the same secret.
LEMMA SharedSecret == \A a, b : x25519(a, b) = x25519(b, a)
BY DEF x25519

\* A message that passes read_init_write_resp()'s check arrived as it was sent.
LEMMA IntactInit ==
  ASSUME HandshakeTypeOK, NEW e \in Endpoints, NEW sent \in net, NEW m \in Delivered(sent),
         m.tag = binder(psk(e), <<m.pub>>)
  PROVE  m = sent
<1> USE PskType, Tuples
<1>0. sent \in Messages  BY DEF HandshakeTypeOK
<1>1. CASE m = [sent EXCEPT !.pub = Damage]
  <2>1. m.pub = Damage /\ m.tag = sent.tag  BY <1>0, <1>1 DEF Messages
  <2>2. sent.tag.over = <<Damage>>  BY <2>1, BinderFields
  <2>3. sent.tag.over \in {<<a>> : a \in Keys} \cup (Keys \X Keys)  BY <1>0 DEF Messages, Binders
  <2>4. PICK a \in Keys, b \in Keys : <<Damage>> = <<a>> \/ <<Damage>> = <<a, b>>  BY <2>2, <2>3
  <2>5. Damage \in Keys  BY <2>4
  <2> QED  BY <2>5, BoundsAssumption DEF Keys, Damage
<1>2. CASE m = [sent EXCEPT !.tag = Garbage]
  <2>1. m.tag = Garbage  BY <1>0, <1>2 DEF Messages
  <2>2. psk(e) = "damaged"  BY <2>1 DEF Garbage, binder
  <2> QED  BY <2>2, PsksAssumption
<1> QED  BY <1>1, <1>2 DEF Delivered

\* A message that passes read_resp()'s check is the answer of a responder that
\* completed with the reader's key, and it arrived as it was sent.
LEMMA IntactResp ==
  ASSUME HandshakeIInv, NEW e \in Endpoints, NEW sent \in net, NEW m \in Delivered(sent),
         m.tag = binder(psk(e), <<hs[e].my_pub, m.pub>>)
  PROVE  \E r \in results : /\ r.role = "responder" /\ psk(r.end) = psk(e)
                            /\ r.peer = hs[e].my_pub /\ r.mine = m.pub
<1> USE PskType, Tuples
<1>0. sent \in Messages  BY DEF HandshakeIInv, HandshakeTypeOK
<1>1. m.tag # Garbage
  <2>1. SUFFICES ASSUME m.tag = Garbage PROVE FALSE  OBVIOUS
  <2>2. psk(e) = "damaged"  BY <2>1 DEF Garbage, binder
  <2> QED  BY <2>2, PsksAssumption
<1>2. m.tag = sent.tag  BY <1>0, <1>1 DEF Delivered, Messages
<1>3. ~(sent.tag = binder(sent.tag.psk, <<sent.pub>>))
  <2>1. SUFFICES ASSUME sent.tag = binder(sent.tag.psk, <<sent.pub>>) PROVE FALSE  OBVIOUS
  <2>2. <<sent.pub>> = <<hs[e].my_pub, m.pub>>  BY <1>2, <2>1, BinderInjective
  <2> QED  BY <2>2
<1>4. PICK r \in results : Answers(r, sent)  BY <1>3 DEF HandshakeIInv, Sourced
<1>5. psk(r.end) = psk(e) /\ <<r.peer, r.mine>> = <<hs[e].my_pub, m.pub>>
  <2>1. binder(psk(r.end), <<r.peer, r.mine>>) = binder(psk(e), <<hs[e].my_pub, m.pub>>)
    BY <1>2, <1>4 DEF Answers
  <2> QED  BY <2>1, BinderInjective
<1> QED  BY <1>4, <1>5 DEF Answers

-----------------------------------------------------------------------------
\* No endpoint, message or result exists at the start.
LEMMA Initially == HandshakeInit => HandshakeIInv
<1> SUFFICES ASSUME HandshakeInit PROVE HandshakeIInv  OBVIOUS
<1> USE BoundsAssumption DEF HandshakeInit
<1>1. HandshakeTypeOK  BY DEF HandshakeTypeOK, None
<1>2. Paired  BY DEF Paired, None
<1>3. Sourced /\ Derived /\ Owned  BY DEF Sourced, Derived, Owned
<1>4. Agreement /\ ResponderHeard  BY DEF Agreement, ResponderHeard
<1> QED  BY <1>1, <1>2, <1>3, <1>4 DEF HandshakeIInv

\* gen_ephemeral() gives an endpoint a key that nobody has had: what the two
\* actions that call it have in common.
LEMMA NewKey ==
  ASSUME HandshakeIInv, NEW e \in Endpoints, keys < MaxKeys, keys' = Fresh,
         hs' = [hs EXCEPT ![e] = [eph |-> Fresh, my_pub |-> Fresh]]
  PROVE  /\ Fresh \in Keys /\ keys' \in 0..MaxKeys
         /\ hs' \in [Endpoints -> [eph: 0..MaxKeys, my_pub: 0..MaxKeys]]
         /\ Paired'
         /\ \A f \in Endpoints : f # e => hs'[f] = hs[f]
         /\ hs'[e].my_pub = Fresh
<1> USE BoundsAssumption
<1>1. keys \in 0..MaxKeys /\ Fresh \in 1..MaxKeys /\ Fresh = keys + 1  BY DEF HandshakeIInv, HandshakeTypeOK, Fresh
<1>2. hs \in [Endpoints -> [eph: 0..MaxKeys, my_pub: 0..MaxKeys]]  BY DEF HandshakeIInv, HandshakeTypeOK
<1>3. hs'[e] = [eph |-> Fresh, my_pub |-> Fresh] /\ \A f \in Endpoints : f # e => hs'[f] = hs[f]
  BY <1>2
<1>4. Paired'
  <2>1. \A f \in Endpoints : hs'[f].eph = hs'[f].my_pub /\ hs'[f].my_pub <= keys'
    BY <1>1, <1>2, <1>3 DEF HandshakeIInv, Paired
  <2>2. \A f \in Endpoints : f # e => hs'[f].my_pub # Fresh
    BY <1>1, <1>2, <1>3 DEF HandshakeIInv, Paired
  <2>3. \A f, g \in Endpoints : hs'[f].my_pub = hs'[g].my_pub /\ hs'[f].my_pub # None => f = g
    BY <1>3, <2>2 DEF HandshakeIInv, Paired
  <2> QED  BY <2>1, <2>3 DEF Paired
<1> QED  BY <1>1, <1>2, <1>3, <1>4 DEF Keys

\* What holds of results and messages goes on holding while keys grows.
LEMMA OldResults ==
  ASSUME HandshakeIInv, keys < MaxKeys, keys' = Fresh
  PROVE  /\ \A r \in results : Ordered(r) => Ordered(r)'
         /\ \A m \in net : m.pub <= keys'
<1>1. keys \in Nat /\ keys' = keys + 1  BY BoundsAssumption DEF HandshakeIInv, HandshakeTypeOK, Fresh
<1>2. results \subseteq ResultSet /\ net \subseteq Messages  BY DEF HandshakeIInv, HandshakeTypeOK, ResultSet
<1>3. Keys \subseteq Nat  BY BoundsAssumption DEF Keys
<1>4. \A r \in results : r.mine \in Nat /\ r.peer \in Nat  BY <1>2, <1>3 DEF ResultSet
<1>5. \A m \in net : m.pub \in Nat  BY <1>2, <1>3 DEF Messages
<1>6. \A r \in results : Ordered(r) => Ordered(r)'
  <2>1. SUFFICES ASSUME NEW r \in results, Ordered(r)
                 PROVE  r.mine <= keys' /\ r.peer <= keys'
    BY DEF Ordered
  <2>2. r.mine <= keys /\ r.peer <= keys  BY <2>1 DEF Ordered
  <2> QED  BY <1>1, <1>4, <2>2
<1>7. \A m \in net : m.pub <= keys'
  <2>1. \A m \in net : m.pub <= keys  BY DEF HandshakeIInv, Sourced
  <2> QED  BY <1>1, <1>5, <2>1
<1> QED  BY <1>6, <1>7

\* A new key is the key of no result, so ownership is kept for the old ones.
LEMMA OldOwners ==
  ASSUME HandshakeIInv, NEW e \in Endpoints, keys < MaxKeys, keys' = Fresh,
         hs' = [hs EXCEPT ![e] = [eph |-> Fresh, my_pub |-> Fresh]]
  PROVE  /\ \A r \in results : r.mine # Fresh
         /\ \A r \in results, f \in Endpoints : hs'[f].my_pub = r.mine => f = r.end
<1>1. keys \in Nat /\ Fresh = keys + 1  BY BoundsAssumption DEF HandshakeIInv, HandshakeTypeOK, Fresh
<1>2. \A r \in results : r.mine \in Nat /\ r.mine <= keys
  BY BoundsAssumption DEF HandshakeIInv, HandshakeTypeOK, Derived, Ordered, Keys
<1>3. \A r \in results : r.mine # Fresh  BY <1>1, <1>2
<1>4. \A f \in Endpoints : f # e => hs'[f] = hs[f]  BY NewKey
<1>5. hs'[e].my_pub = Fresh  BY NewKey
<1> QED  BY <1>3, <1>4, <1>5 DEF HandshakeIInv, Owned

-----------------------------------------------------------------------------
\* write_init() keeps the invariant.
LEMMA WriteInitKeeps ==
  ASSUME HandshakeIInv, NEW e \in Endpoints, NEW fails \in BOOLEAN, write_init(e, fails)
  PROVE  HandshakeIInv'
<1> DEFINE new == [pub |-> Fresh, tag |-> binder(psk(e), <<Fresh>>)]
<1>1. keys < MaxKeys /\ keys' = Fresh /\ results' = results
  BY DEF write_init
<1>2. hs' = [hs EXCEPT ![e] = [eph |-> Fresh, my_pub |-> Fresh]]  BY DEF write_init
<1>3. net' = net \/ net' = net \cup {new}  BY DEF write_init
<1>4. new \in Messages /\ new.pub = Fresh /\ new.tag = binder(new.tag.psk, <<new.pub>>)
  <2>1. new \in Messages  BY <1>1, <1>2, NewKey, PskType, MessageType
  <2>2. new.tag = binder(psk(e), <<Fresh>>) /\ new.pub = Fresh  OBVIOUS
  <2>3. new.tag.psk = psk(e)  BY <2>2, BinderFields
  <2> HIDE DEF new
  <2> QED  BY <2>1, <2>2, <2>3
<1> HIDE DEF new
<1>5. net' \subseteq Messages  BY <1>3, <1>4 DEF HandshakeIInv, HandshakeTypeOK
<1>6. HandshakeTypeOK'  BY <1>1, <1>2, <1>5, NewKey DEF HandshakeIInv, HandshakeTypeOK
<1>7. Paired'  BY <1>1, <1>2, NewKey
<1>8. Sourced'
  <2>1. Fresh <= keys'  BY <1>1, BoundsAssumption DEF HandshakeIInv, HandshakeTypeOK, Fresh
  <2>2. SUFFICES ASSUME NEW m \in net'
                 PROVE  /\ m.pub <= keys'
                        /\ m.tag = binder(m.tag.psk, <<m.pub>>) \/ \E r \in results : Answers(r, m)
    BY <1>1 DEF Sourced, Answers
  <2>3. CASE m \in net  BY <2>3, <1>1, OldResults DEF HandshakeIInv, Sourced
  <2>4. CASE m = new  BY <2>4, <2>1, <1>4
  <2> QED  BY <1>3, <2>3, <2>4
<1>9. Derived'  BY <1>1, OldResults DEF HandshakeIInv, Derived, Transcript
<1>10. Owned'  BY <1>1, <1>2, OldOwners DEF HandshakeIInv, Owned
<1>11. Agreement' /\ ResponderHeard'  BY <1>1, <1>3 DEF HandshakeIInv, Agreement, ResponderHeard
<1> QED  BY <1>6, <1>7, <1>8, <1>9, <1>10, <1>11 DEF HandshakeIInv

\* read_init_write_resp() keeps the invariant.
LEMMA ReadInitKeeps ==
  ASSUME HandshakeIInv, NEW e \in Endpoints, NEW sent \in net, NEW m \in Delivered(sent),
         NEW fails \in BOOLEAN, read_init_write_resp(e, m, fails)
  PROVE  HandshakeIInv'
<1> DEFINE t   == <<m.pub, Fresh>>
           new == [pub |-> Fresh, tag |-> binder(psk(e), t)]
           res == Result(e, "responder", Fresh, m.pub, t)
<1>1. /\ keys < MaxKeys /\ keys' = Fresh
      /\ hs' = [hs EXCEPT ![e] = [eph |-> Fresh, my_pub |-> Fresh]]
  BY DEF read_init_write_resp
<1>2. \/ net' = net /\ results' = results
      \/ net' = net \cup {new} /\ results' = results \cup {res}
  BY DEF read_init_write_resp
<1>3. m \in net /\ m.tag = binder(psk(e), <<m.pub>>)
  <2>1. m.tag = binder(psk(e), <<m.pub>>)  BY DEF read_init_write_resp
  <2> QED  BY <2>1, IntactInit DEF HandshakeIInv
<1>4. Fresh \in Keys /\ m.pub \in Keys /\ m.pub <= keys /\ m.pub < Fresh /\ Fresh <= keys'
  <2>1. Fresh \in Keys  BY <1>1, NewKey
  <2>2. m.pub \in Keys /\ m.pub <= keys  BY <1>3 DEF HandshakeIInv, HandshakeTypeOK, Messages, Sourced
  <2> QED  BY <1>1, <2>1, <2>2, BoundsAssumption DEF HandshakeIInv, HandshakeTypeOK, Fresh, Keys
<1>5. new \in Messages /\ new.pub = Fresh /\ new.tag = binder(psk(e), t)
  BY <1>4, PskType, MessageType
<1>6. res \in ResultSet  BY <1>4, ResultType
<1>7. res.end = e /\ res.role = "responder" /\ res.mine = Fresh /\ res.peer = m.pub
  BY ResultFields
<1>8. Transcript(res) = t  BY <1>7 DEF Transcript
<1>9. res = Result(res.end, res.role, res.mine, res.peer, Transcript(res))  BY <1>7, <1>8
<1>10. Answers(res, new)  BY <1>5, <1>7 DEF Answers
<1> HIDE DEF new, res
<1>11. HandshakeTypeOK'
  <2>1. net' \subseteq Messages /\ results' \subseteq ResultSet
    BY <1>2, <1>5, <1>6 DEF HandshakeIInv, HandshakeTypeOK, ResultSet
  <2> QED  BY <1>1, <2>1, NewKey DEF HandshakeTypeOK, ResultSet
<1>12. Paired'  BY <1>1, NewKey
<1>13. Sourced'
  <2>1. SUFFICES ASSUME NEW n \in net'
                 PROVE  /\ n.pub <= keys'
                        /\ n.tag = binder(n.tag.psk, <<n.pub>>) \/ \E r \in results' : Answers(r, n)
    BY DEF Sourced, Answers
  <2>2. CASE n \in net  BY <2>2, <1>1, <1>2, OldResults DEF HandshakeIInv, Sourced
  <2>3. CASE n # new /\ n \notin net  BY <2>3, <1>2
  <2>4. CASE n = new /\ n \notin net
    <3>1. res \in results'  BY <2>4, <1>2
    <3> QED  BY <3>1, <2>4, <1>4, <1>5, <1>10
  <2> QED  BY <2>2, <2>3, <2>4
<1>14. Derived'
  <2>1. SUFFICES ASSUME NEW r \in results'
                 PROVE  r = Result(r.end, r.role, r.mine, r.peer, Transcript(r)) /\ Ordered(r)'
    BY DEF Derived, Transcript
  <2>2. CASE r \in results  BY <2>2, <1>1, OldResults DEF HandshakeIInv, Derived
  <2>3. CASE r = res
    <3>1. m.pub <= keys'  BY <1>1, <1>3, OldResults
    <3> QED  BY <2>3, <3>1, <1>4, <1>7, <1>9 DEF Ordered
  <2> QED  BY <1>2, <2>2, <2>3
<1>15. Owned'
  <2>1. \A r \in results' : r \in results \/ r = res  BY <1>2
  <2>2. \A f \in Endpoints : hs'[f].my_pub = Fresh => f = e
    <3>1. Fresh # None  BY <1>4, BoundsAssumption DEF Keys, None
    <3>2. hs'[e].my_pub = Fresh  BY <1>1, NewKey
    <3> QED  BY <1>12, <3>1, <3>2 DEF Paired
  <2>3. \A r \in results', f \in Endpoints : hs'[f].my_pub = r.mine => f = r.end
    BY <2>1, <2>2, <1>1, <1>7, OldOwners
  <2>4. \A a, b \in results' : a.mine = b.mine => a.end = b.end
    BY <2>1, <1>1, <1>7, OldOwners DEF HandshakeIInv, Owned
  <2> QED  BY <2>3, <2>4 DEF Owned
<1>16. Agreement'
  <2>1. \A i \in results' : i.role = "initiator" => i \in results  BY <1>2, <1>7
  <2>2. results \subseteq results'  BY <1>2
  <2> QED  BY <2>1, <2>2 DEF HandshakeIInv, Agreement
<1>17. ResponderHeard'
  <2>1. net \subseteq net'  BY <1>2
  <2>2. [pub |-> res.peer, tag |-> binder(psk(res.end), <<res.peer>>)] \in net
    <3>1. m \in Messages  BY <1>3 DEF HandshakeIInv, HandshakeTypeOK
    <3>2. m = [pub |-> m.pub, tag |-> m.tag]  BY <3>1 DEF Messages
    <3>3. m = [pub |-> res.peer, tag |-> binder(psk(res.end), <<res.peer>>)]  BY <1>3, <1>7, <3>2
    <3> QED  BY <1>3, <3>3
  <2> QED  BY <1>2, <2>1, <2>2 DEF HandshakeIInv, ResponderHeard
<1> QED  BY <1>11, <1>12, <1>13, <1>14, <1>15, <1>16, <1>17 DEF HandshakeIInv

\* read_resp() keeps the invariant: the responder whose answer passed the check
\* is the partner.
LEMMA ReadRespKeeps ==
  ASSUME HandshakeIInv, NEW e \in Endpoints, NEW sent \in net, NEW m \in Delivered(sent), read_resp(e, m)
  PROVE  HandshakeIInv'
<1> DEFINE mine == hs[e].my_pub
           t    == <<mine, m.pub>>
           res  == Result(e, "initiator", mine, m.pub, t)
<1>1. keys' = keys /\ hs' = hs /\ net' = net  BY DEF read_resp
<1>2. results' = results \cup {res}
  <2>1. hs[e].eph = hs[e].my_pub  BY DEF HandshakeIInv, Paired
  <2> QED  BY <2>1 DEF read_resp
<1>3. PICK r \in results : /\ r.role = "responder" /\ psk(r.end) = psk(e)
                           /\ r.peer = mine /\ r.mine = m.pub
  BY IntactResp DEF read_resp
<1>4. mine \in Keys /\ m.pub \in Keys  BY <1>3 DEF HandshakeIInv, HandshakeTypeOK
<1>5. mine < m.pub /\ mine <= keys /\ m.pub <= keys  BY <1>3 DEF HandshakeIInv, Derived, Ordered
<1>6. res \in ResultSet  BY <1>4, ResultType
<1>7. res.end = e /\ res.role = "initiator" /\ res.mine = mine /\ res.peer = m.pub
  BY ResultFields
<1>8. res = Result(res.end, res.role, res.mine, res.peer, Transcript(res))
  BY <1>7 DEF Transcript
<1>9. r.tx = res.rx /\ r.rx = res.tx
  <2>1. r = Result(r.end, "responder", m.pub, mine, t)
    BY <1>3 DEF HandshakeIInv, Derived, Transcript
  <2>2. /\ r.tx = traffic_keys(x25519(m.pub, mine), psk(e), t, 2)
        /\ r.rx = traffic_keys(x25519(m.pub, mine), psk(e), t, 1)
    BY <2>1, <1>3, ResultFields
  <2>3. /\ res.rx = traffic_keys(x25519(mine, m.pub), psk(e), t, 2)
        /\ res.tx = traffic_keys(x25519(mine, m.pub), psk(e), t, 1)
    BY ResultFields
  <2> QED  BY <2>2, <2>3, SharedSecret
<1> HIDE DEF res
<1>10. HandshakeTypeOK'  BY <1>1, <1>2, <1>6 DEF HandshakeIInv, HandshakeTypeOK, ResultSet
<1>11. Paired'  BY <1>1 DEF HandshakeIInv, Paired
<1>12. Sourced'  BY <1>1, <1>2 DEF HandshakeIInv, Sourced, Answers
<1>13. Derived'
  <2>1. SUFFICES ASSUME NEW a \in results'
                 PROVE  a = Result(a.end, a.role, a.mine, a.peer, Transcript(a)) /\ Ordered(a)
    BY <1>1 DEF Derived, Transcript, Ordered
  <2>2. CASE a \in results  BY <2>2 DEF HandshakeIInv, Derived
  <2>3. CASE a = res  BY <2>3, <1>5, <1>7, <1>8 DEF Ordered
  <2> QED  BY <1>2, <2>2, <2>3
<1>14. Owned'
  <2>1. \A a \in results' : a \in results \/ a = res  BY <1>2
  <2>2. mine # None  BY <1>4, BoundsAssumption DEF Keys, None
  <2>3. \A f \in Endpoints : hs[f].my_pub = mine => f = e  BY <2>2 DEF HandshakeIInv, Paired
  <2>4. \A a \in results : a.mine = mine => a.end = e  BY DEF HandshakeIInv, Owned
  <2>5. \A a \in results', f \in Endpoints : hs'[f].my_pub = a.mine => f = a.end
    BY <1>1, <1>7, <2>1, <2>3 DEF HandshakeIInv, Owned
  <2>6. \A a, b \in results' : a.mine = b.mine => a.end = b.end
    BY <1>7, <2>1, <2>4 DEF HandshakeIInv, Owned
  <2> QED  BY <2>5, <2>6 DEF Owned
<1>15. Agreement'
  <2>1. SUFFICES ASSUME NEW i \in results', i.role = "initiator"
                 PROVE  \E p \in results' : /\ p.role = "responder" /\ psk(p.end) = psk(i.end)
                                            /\ p.mine = i.peer /\ p.peer = i.mine
                                            /\ p.tx = i.rx /\ p.rx = i.tx
    BY DEF Agreement
  <2>2. CASE i \in results  BY <2>1, <2>2, <1>2 DEF HandshakeIInv, Agreement
  <2>3. CASE i = res
    <3>1. r \in results'  BY <1>2
    <3> QED  BY <2>3, <3>1, <1>3, <1>7, <1>9
  <2> QED  BY <1>2, <2>2, <2>3
<1>16. ResponderHeard'  BY <1>1, <1>2, <1>7 DEF HandshakeIInv, ResponderHeard
<1> QED  BY <1>10, <1>11, <1>12, <1>13, <1>14, <1>15, <1>16 DEF HandshakeIInv

-----------------------------------------------------------------------------
\* The inductive invariant holds, for every set of pre-shared keys and every
\* number of endpoints and of ephemeral keys: types, one key per endpoint, a
\* source for every binder, results derived from their keys, keys with one
\* owner, and the two properties that rest on them.
THEOREM HandshakeInvariance == HandshakeSpec => []HandshakeIInv
<1>1. HandshakeIInv /\ [HandshakeNext]_handshakeVars => HandshakeIInv'
  <2> SUFFICES ASSUME HandshakeIInv, [HandshakeNext]_handshakeVars PROVE HandshakeIInv'  OBVIOUS
  <2>1. CASE UNCHANGED handshakeVars
    BY <2>1 DEF handshakeVars, HandshakeIInv, HandshakeTypeOK, Paired, Sourced, Answers, Derived, Transcript, Ordered, Owned,
                Agreement, ResponderHeard
  <2>2. CASE HandshakeNext
    <3>1. PICK e \in Endpoints :
            \/ \E fails \in BOOLEAN : write_init(e, fails)
            \/ \E sent \in net : \E m \in Delivered(sent) :
                 \/ \E fails \in BOOLEAN : read_init_write_resp(e, m, fails)
                 \/ read_resp(e, m)
      BY <2>2 DEF HandshakeNext
    <3> QED  BY <3>1, WriteInitKeeps, ReadInitKeeps, ReadRespKeeps
  <2> QED  BY <2>1, <2>2
<1> QED  BY <1>1, Initially, PTL DEF HandshakeSpec

\* An initiator that completes read_resp() has a partner that completed with
\* its key and holds its keys the other way round, whatever was delivered.
THEOREM PartnersAgree == HandshakeSpec => []Agreement
<1>1. HandshakeIInv => Agreement  BY DEF HandshakeIInv
<1> QED  BY <1>1, HandshakeInvariance, PTL

\* A responder that completes read_init_write_resp() heard a key that was sent
\* under its own pre-shared key.
THEOREM RespondersHeard == HandshakeSpec => []ResponderHeard
<1>1. HandshakeIInv => ResponderHeard  BY DEF HandshakeIInv
<1> QED  BY <1>1, HandshakeInvariance, PTL

\* No sending key of one HandshakeResult is that of another session or of the
\* other direction.
THEOREM KeysAreUnshared == HandshakeSpec => []KeysUnshared
<1>1. HandshakeIInv => KeysUnshared
  <2>1. SUFFICES ASSUME HandshakeIInv, NEW a \in results, NEW b \in results,
                        a.tx.shared = b.tx.shared, a.tx.half = b.tx.half
                 PROVE  a.role = b.role /\ a.mine = b.mine /\ a.peer = b.peer /\ a.end = b.end
    BY DEF KeysUnshared, HandshakeIInv
  <2>2. \A r \in results : /\ r.tx.shared = {r.mine, r.peer}
                           /\ r.tx.half = IF r.role = "initiator" THEN 1 ELSE 2
    <3>1. SUFFICES ASSUME NEW r \in results
                   PROVE  /\ r.tx.shared = {r.mine, r.peer}
                          /\ r.tx.half = IF r.role = "initiator" THEN 1 ELSE 2
      OBVIOUS
    <3>2. r = Result(r.end, r.role, r.mine, r.peer, Transcript(r))  BY <2>1 DEF HandshakeIInv, Derived
    <3>3. r.tx = traffic_keys(x25519(r.mine, r.peer), psk(r.end), Transcript(r),
                              IF r.role = "initiator" THEN 1 ELSE 2)
      BY <3>2, ResultFields
    <3> QED  BY <3>3 DEF traffic_keys, x25519
  <2>3. a.role = b.role  BY <2>1, <2>2 DEF HandshakeIInv, HandshakeTypeOK
  <2>4. {a.mine, a.peer} = {b.mine, b.peer}  BY <2>1, <2>2
  <2>5. /\ a.mine \in Nat /\ a.peer \in Nat /\ b.mine \in Nat /\ b.peer \in Nat
        /\ a.role \in {"initiator", "responder"}
    BY <2>1, BoundsAssumption DEF HandshakeIInv, HandshakeTypeOK, Keys
  <2>6. Ordered(a) /\ Ordered(b)  BY <2>1 DEF HandshakeIInv, Derived
  <2>7. a.mine = b.mine /\ a.peer = b.peer  BY <2>3, <2>4, <2>5, <2>6 DEF Ordered
  <2> QED  BY <2>1, <2>3, <2>7 DEF HandshakeIInv, Owned
<1> QED  BY <1>1, HandshakeInvariance, PTL
=============================================================================
