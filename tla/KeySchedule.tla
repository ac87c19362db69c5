----------------------------- MODULE KeySchedule -----------------------------
(***************************************************************************)
(* The rekey schedule of the data plane: lr::proto::KeySchedule.           *)
(*                                                                         *)
(* A schedule object is a record.  Its two slots hold the current epoch    *)
(* (slot 0) and the one before it (slot 1); a slot has a cipher object, a  *)
(* nonce salt and the epoch number it answers to (its tag).                *)
(*                                                                         *)
(* Cryptography is abstract.  The chain secret is the sequence of what     *)
(* went into it: the traffic secret, then the epoch numbers it was         *)
(* ratcheted with.  HKDF has no collisions: its output is named by its     *)
(* inputs.  One HKDF call yields the key and the salt of an epoch, so both *)
(* are named by the same material.                                         *)
(***************************************************************************)
EXTENDS Integers, Sequences

CONSTANTS
  EpochMod,      \* the epoch number is kept modulo this (256: a uint8_t)
  HkdfOutcomes,  \* what a call of HKDF may report: success, failure or both
  NoKey          \* the empty cipher slot (nullptr)

ASSUME EpochModAssumption     == EpochMod \in Nat /\ EpochMod >= 2
ASSUME HkdfOutcomesAssumption == HkdfOutcomes \subseteq BOOLEAN /\ HkdfOutcomes # {}

Epochs == 0 .. EpochMod - 1
Slots  == 0 .. 1

\* derive() calls HKDF twice: for the epoch's material and for the next chain.
HkdfCalls == [traffic : HkdfOutcomes, ratchet : HkdfOutcomes]

Hkdf(chain, e) == [chain |-> chain, epoch |-> e]

\* What derive() uses in place of the material of a failed HKDF: zero bytes.
ZeroMaterial == [chain |-> <<>>, epoch |-> 0]

\* The types of a schedule built from one of these secrets with one of these
\* periods.
Chains(secrets)    == Seq(secrets \cup Epochs)
Materials(secrets) == [chain : Chains(secrets), epoch : Epochs]

Schedules(secrets, periods) ==
  [perEpoch : periods, chain : Chains(secrets), epoch : Epochs, rekeys : Nat,
   aead : [Slots -> Materials(secrets) \cup {NoKey}],
   salt : [Slots -> Materials(secrets)],
   tag  : [Slots -> Epochs]]

-----------------------------------------------------------------------------
\* Mutant: the chain is not ratcheted.
Derive_NoRatchet(ks, e, hk) ==
  LET material == IF hk.traffic THEN Hkdf(ks.chain, e) ELSE ZeroMaterial
  IN  [ks EXCEPT !.aead = [i \in Slots |-> IF i = 0 THEN material ELSE ks.aead[0]],
                 !.salt = [i \in Slots |-> IF i = 0 THEN material ELSE ks.salt[0]],
                 !.tag  = [i \in Slots |-> IF i = 0 THEN e ELSE ks.tag[0]]]

\* Mutant: the cipher of the previous epoch is not kept.
Derive_ForgetsPrevious(ks, e, hk) ==
  LET material == IF hk.traffic THEN Hkdf(ks.chain, e) ELSE ZeroMaterial
  IN  [ks EXCEPT !.aead  = [i \in Slots |-> IF i = 0 THEN material ELSE ks.aead[1]],
                 !.salt  = [i \in Slots |-> IF i = 0 THEN material ELSE ks.salt[0]],
                 !.tag   = [i \in Slots |-> IF i = 0 THEN e ELSE ks.tag[0]],
                 !.chain = IF hk.ratchet THEN Append(@, e) ELSE @]

(***************************************************************************)
(* derive(e): the current slot becomes the previous one, the new epoch's   *)
(* key and salt fill slot 0, and the chain moves forward.  A failed HKDF   *)
(* yields zero material, and a failed ratchet leaves the chain as it is.   *)
(***************************************************************************)
Derive(ks, e, hk) ==
  LET material == IF hk.traffic THEN Hkdf(ks.chain, e) ELSE ZeroMaterial
  IN  [ks EXCEPT !.aead  = [i \in Slots |-> IF i = 0 THEN material ELSE ks.aead[0]],
                 !.salt  = [i \in Slots |-> IF i = 0 THEN material ELSE ks.salt[0]],
                 !.tag   = [i \in Slots |-> IF i = 0 THEN e ELSE ks.tag[0]],
                 !.chain = IF hk.ratchet THEN Append(@, e) ELSE @]

\* The members before the constructor's body runs.
BlankSchedule(secret, period) ==
  [perEpoch |-> period, chain |-> <<secret>>, epoch |-> 0, rekeys |-> 0,
   aead |-> [i \in Slots |-> NoKey],
   salt |-> [i \in Slots |-> ZeroMaterial],
   tag  |-> [i \in Slots |-> 0]]

\* The constructor derives epoch 0 and empties the slot of its predecessor.
NewKeySchedule(secret, period, hk) ==
  [Derive(BlankSchedule(secret, period), 0, hk)
     EXCEPT !.aead[1] = NoKey, !.tag[1] = 0]

-----------------------------------------------------------------------------
\* for_epoch(e): the cipher that opens and seals packets of epoch e.
ForEpoch(ks, e) ==
  IF ks.aead[0] # NoKey /\ e = ks.tag[0] THEN ks.aead[0]
  ELSE IF ks.aead[1] # NoKey /\ e = ks.tag[1] THEN ks.aead[1]
  ELSE NoKey

\* nonce(e, seq) looks at the slots in the opposite order.
NonceSalt(ks, e) ==
  IF ks.aead[1] # NoKey /\ e = ks.tag[1] THEN ks.salt[1] ELSE ks.salt[0]

Nonce(ks, e, seq) == <<NonceSalt(ks, e), seq>>

WantedEpoch(ks, seq) == (seq \div ks.perEpoch) % EpochMod

\* Mutant: every call that may rekey does, also inside an epoch.
NeedsRekey_Always(ks, seq) == ks.perEpoch > 0

NeedsRekey(ks, seq) == ks.perEpoch > 0 /\ WantedEpoch(ks, seq) # ks.epoch

\* maybe_rekey(seq); its answer is NeedsRekey(ks, seq).
MaybeRekey(ks, seq, hk) ==
  IF NeedsRekey(ks, seq)
  THEN LET e == WantedEpoch(ks, seq)
       IN  Derive([ks EXCEPT !.epoch = e, !.rekeys = @ + 1], e, hk)
  ELSE ks
=============================================================================
