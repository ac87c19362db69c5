-------------------------- MODULE KeyScheduleSystem --------------------------
(***************************************************************************)
(* A key schedule and its caller.  The caller (Shard::make_packet and      *)
(* Shard::drain) presents sequence numbers that never go back; it may jump *)
(* over any number of them, and so over whole epochs, and over the end of  *)
(* the epoch numbers.                                                      *)
(***************************************************************************)
EXTENDS KeySchedule, FiniteSets

CONSTANTS
  Secret,       \* the traffic secret of the direction
  Periods,      \* the rekey periods to consider (packets_per_epoch; 0 = never)
  MaxPresented  \* bound on the sequence numbers presented

ASSUME PeriodsAssumption      == Periods \subseteq Nat
ASSUME MaxPresentedAssumption == MaxPresented \in Nat

VARIABLES
  ks,       \* the schedule object
  seq,      \* the last sequence number presented
  retired,  \* history: the material of every epoch before the current one
  healthy   \* history: no HKDF call has failed

scheduleVars == <<ks, seq, retired, healthy>>

\* Both HKDF calls of a derivation return true.
Succeeds(hk) == hk.traffic /\ hk.ratchet

ScheduleInit ==
  /\ \E period \in Periods, hk \in HkdfCalls :
       ks = NewKeySchedule(Secret, period, hk) /\ healthy = Succeeds(hk)
  /\ seq = 0
  /\ retired = {}

Present(s) ==
  /\ s >= seq
  /\ seq' = s
  /\ \E hk \in HkdfCalls :
       /\ ks' = MaybeRekey(ks, s, hk)
       /\ healthy' = (healthy /\ (NeedsRekey(ks, s) => Succeeds(hk)))
  /\ retired' = IF NeedsRekey(ks, s) THEN retired \cup {ks.aead[0]} ELSE retired

ScheduleNext == \E s \in 0 .. MaxPresented : Present(s)

ScheduleSpec == ScheduleInit /\ [][ScheduleNext]_scheduleVars

-----------------------------------------------------------------------------
ASSUME NoKeyAssumption == NoKey \notin Materials({Secret})

\* Every variable holds a value of its type.
ScheduleTypeOK ==
  /\ ks \in Schedules({Secret}, Periods)
  /\ seq \in Nat
  /\ retired \subseteq Materials({Secret})
  /\ healthy \in BOOLEAN

(***************************************************************************)
(* for_epoch() and nonce() agree: whenever there is a cipher for an epoch, *)
(* the salt nonce() uses for that epoch was derived with that cipher's     *)
(* key.  The two functions look at the slots in opposite orders, so this   *)
(* rests on the two tags never being equal while both slots are filled.    *)
(***************************************************************************)
SaltMatchesKey ==
  \A e \in Epochs : ForEpoch(ks, e) # NoKey => NonceSalt(ks, e) = ForEpoch(ks, e)

(***************************************************************************)
(* What SaltMatchesKey needs in order to be inductive: slot 0 is the epoch *)
(* of the schedule and is never empty, a filled slot holds the salt of its *)
(* own key, and the tags of two filled slots differ.                       *)
(***************************************************************************)
SlotsAligned ==
  /\ ks.tag[0] = ks.epoch
  /\ ks.aead[0] # NoKey /\ ks.salt[0] = ks.aead[0]
  /\ ks.aead[1] # NoKey => ks.salt[1] = ks.aead[1] /\ ks.tag[1] # ks.tag[0]

ScheduleIInv == ScheduleTypeOK /\ SlotsAligned

(***************************************************************************)
(* As long as no HKDF call has failed, the key of the current epoch was    *)
(* never the key of an earlier one, also when the epoch number has wrapped *)
(* around.                                                                 *)
(***************************************************************************)
KeysNeverRecur == healthy => ks.aead[0] \notin retired

(***************************************************************************)
(* What KeysNeverRecur needs in order to be inductive: as long as HKDF does*)
(* not fail the chain grows with every derivation, so the length of the    *)
(* chain a key was derived from tells it from all the later ones.          *)
(***************************************************************************)
ChainAhead ==
  healthy => /\ Len(ks.aead[0].chain) < Len(ks.chain)
             /\ \A m \in retired : Len(m.chain) < Len(ks.aead[0].chain)

(***************************************************************************)
(* A rekey keeps exactly the epoch before it: packets of that epoch still  *)
(* find their cipher, and those of any other find none.                    *)
(***************************************************************************)
RekeyKeepsPrevious ==
  [][ks'.epoch # ks.epoch =>
       /\ ForEpoch(ks', ks.epoch) = ForEpoch(ks, ks.epoch)
       /\ ForEpoch(ks', ks'.epoch) # NoKey
       /\ \A e \in Epochs \ {ks.epoch, ks'.epoch} : ForEpoch(ks', e) = NoKey]_scheduleVars
=============================================================================
