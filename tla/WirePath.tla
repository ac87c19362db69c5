------------------------------ MODULE WirePath ------------------------------
(***************************************************************************)
(* The data plane with a peer: a generator on another host seals packets   *)
(* with a shard of its own (Generator::emit), a datagram network carries   *)
(* them, and this host's shard drains, re-encrypts and sends them on       *)
(* (lr_gen or lr_loadgend against lr_sink or the E5 wire topology).        *)
(*                                                                         *)
(* The network may lose, duplicate, reorder and damage datagrams, within   *)
(* budgets that keep the instances small.                                  *)
(***************************************************************************)
EXTENDS Shard, FiniteSets

CONSTANTS
  GenSecret,   \* the secret the generator seals with
  GenPeriod,   \* its epoch_packets
  MaxSent,     \* packets the generator sends
  Budget,      \* the budget of the receiver's drain() calls
  Reorder,     \* whether datagrams may overtake each other
  MaxLost, MaxDuplicated, MaxDamaged, MaxStray,  \* what the network may do
  MaxRefused,  \* packets the generator may fail to send
  HeaderSeqs   \* sequence numbers that damage may leave in a header

ASSUME WirePathAssumption ==
  /\ GenPeriod \in Nat /\ MaxSent \in Nat /\ Budget \in Nat \ {0}
  /\ Reorder \in BOOLEAN
  /\ {MaxLost, MaxDuplicated, MaxDamaged, MaxStray, MaxRefused} \subseteq Nat
  /\ HeaderSeqs \subseteq Nat
  /\ NoKey \notin Materials({Secret, GenSecret})

VARIABLES
  gkeys,   \* the generator's key schedule
  gseq,    \* its next sequence number
  refused, \* refused_, the packets it could not seal or send
  net,     \* datagrams in flight, in the order of their sending
  lost, duplicated, damaged, strays   \* budgets spent

wireVars == <<gkeys, gseq, refused, net, lost, duplicated, damaged, strays>>
vars == <<shardVars, wireVars>>

Init ==
  /\ ShardInit
  /\ \E hk \in HkdfCalls : gkeys = NewKeySchedule(GenSecret, GenPeriod, hk)
  /\ gseq = 0
  /\ refused = 0
  /\ net = <<>>
  /\ lost = 0 /\ duplicated = 0 /\ damaged = 0 /\ strays = 0

\* The datagram at position i of the network, taken out of it.
Without(s, i) == SubSeq(s, 1, i - 1) \o SubSeq(s, i + 1, Len(s))

\* emit(seq++): the packet is sealed and sent, or it could not be and its number
\* is spent all the same.
Emit ==
  /\ gseq < MaxSent
  /\ gseq' = gseq + 1
  /\ \E hk \in HkdfCalls : gkeys' = MaybeRekey(gkeys, gseq, hk)
  /\ \/ net' = Append(net, SealedFor(gkeys', gseq, gseq)) /\ UNCHANGED refused
     \/ refused < MaxRefused /\ refused' = refused + 1 /\ UNCHANGED net
  /\ UNCHANGED <<shardVars, lost, duplicated, damaged, strays>>

\* The socket takes a datagram; it is dropped when the buffer is full.
Arrive(d) ==
  /\ rxq' = IF Len(rxq) < RxCap THEN Append(rxq, d) ELSE rxq
  /\ UNCHANGED <<keys, win, seq, st, call, batch, out, egress, fates, sealed, reused>>

Deliver(i) ==
  /\ Reorder \/ i = 1
  /\ Arrive(net[i])
  /\ net' = Without(net, i)
  /\ UNCHANGED <<gkeys, gseq, refused, lost, duplicated, damaged, strays>>

\* A second copy is delivered later.
Duplicate(i) ==
  /\ duplicated < MaxDuplicated
  /\ duplicated' = duplicated + 1
  /\ Arrive(net[i])
  /\ UNCHANGED <<gkeys, gseq, refused, net, lost, damaged, strays>>

Lose(i) ==
  /\ lost < MaxLost
  /\ lost' = lost + 1
  /\ net' = Without(net, i)
  /\ UNCHANGED <<shardVars, gkeys, gseq, refused, duplicated, damaged, strays>>

\* A datagram is altered in transit, in its payload or in the header, where it
\* may now carry another number.  It will not open: the header is sealed with it.
Damage(i) ==
  /\ damaged < MaxDamaged
  /\ damaged' = damaged + 1
  /\ \E s \in HeaderSeqs \cup {net[i].seq} :
       net' = [net EXCEPT ![i].seq = s, ![i].body = <<>>]
  /\ UNCHANGED <<shardVars, gkeys, gseq, refused, lost, duplicated, strays>>

\* A datagram of something else reaches the port.
StrayArrives ==
  /\ strays < MaxStray
  /\ strays' = strays + 1
  /\ Arrive(Stray)
  /\ UNCHANGED <<gkeys, gseq, refused, net, lost, duplicated, damaged>>

\* The receiver calls drain() in a loop.  A call on an empty queue returns at
\* once and changes nothing, so only the others are steps.
Call == rxq # <<>> /\ DrainCall(Budget) /\ UNCHANGED wireVars

Working == DrainStep /\ UNCHANGED wireVars

Return == DrainReturn /\ UNCHANGED <<st, wireVars>>

Network ==
  \/ \E i \in DOMAIN net : Deliver(i) \/ Duplicate(i) \/ Lose(i) \/ Damage(i)
  \/ StrayArrives

Quiet ==
  /\ gseq = MaxSent /\ net = <<>> /\ rxq = <<>> /\ ~call.active
  /\ UNCHANGED vars

Next == Emit \/ Network \/ Call \/ Working \/ Return \/ Quiet

Spec == Init /\ [][Next]_vars

(***************************************************************************)
(* The generator sends, the receiver's thread runs, and a network that     *)
(* still carries a datagram delivers one in the end.                       *)
(***************************************************************************)
Fairness ==
  /\ WF_vars(Emit)
  /\ WF_vars(Call) /\ WF_vars(Working) /\ WF_vars(Return)
  /\ WF_vars(\E i \in DOMAIN net : Deliver(i))

FairSpec == Spec /\ Fairness

-----------------------------------------------------------------------------
\* Every variable holds a value of its type.
TypeOK ==
  /\ ShardTypeOK
  /\ gseq \in 0 .. MaxSent
  /\ Len(net) <= MaxSent
  /\ lost <= MaxLost /\ duplicated <= MaxDuplicated
  /\ damaged <= MaxDamaged /\ strays <= MaxStray /\ refused <= MaxRefused

\* A packet of the protocol that was not damaged on its way.
Intact(d) == d.wellFormed /\ d.body # <<>>

\* What has left, or is about to.
Forwarded == egress \o out

(***************************************************************************)
(* However the network duplicates and reorders, no packet of the generator *)
(* is forwarded twice; and what is forwarded is what was sent: every       *)
(* datagram that leaves carries the origin of an undamaged datagram that   *)
(* arrived.  They leave under increasing sequence numbers, which are       *)
(* consecutive from 0 unless a packet could not be sealed.                 *)
(***************************************************************************)
ForwardedOnce ==
  /\ TypeOK
  /\ Replay => \A i, j \in DOMAIN Forwarded : Forwarded[i].tsc = Forwarded[j].tsc => i = j
  /\ \A i \in DOMAIN Forwarded :
       /\ \A j \in 1 .. i - 1 : Forwarded[j].seq < Forwarded[i].seq
       /\ \/ Forwarded[i].seq = i - 1
          \/ \E j \in DOMAIN fates : fates[j].what = "unsealed"
       /\ \E j \in DOMAIN fates :
            Intact(fates[j].d) /\ fates[j].d.tsc = Forwarded[i].tsc

(***************************************************************************)
(* Only a damaged datagram fails authentication.                           *)
(***************************************************************************)
OnlyDamageFailsAuth ==
  \A i \in DOMAIN fates : fates[i].what = "unauthentic" => ~Intact(fates[i].d)

\* Neither side rekeys, and both have derived the same key.
SameKey == Period = 0 /\ GenPeriod = 0 /\ keys.aead[0] = gkeys.aead[0]

\* The window was past the i-th datagram: a packet before it had its number,
\* or a number at least Width ahead.
PastWindow(i) ==
  \E j \in 1 .. i - 1 :
    /\ fates[j].d.wellFormed
    /\ \/ fates[j].d.seq = fates[i].d.seq
       \/ fates[j].d.seq - fates[i].d.seq >= Width

(***************************************************************************)
(* A packet is dropped as a replay only for a reason: its sequence number  *)
(* had arrived before, or it came Width or more behind a newer one, and    *)
(* reordering by less than the window loses nothing.  The number that came *)
(* before may be that of a damaged header: drain() moves the window before *)
(* it opens the packet.  Nothing that is not damaged fails authentication  *)
(* between two sides with the same key.                                    *)
(***************************************************************************)
DropsJustified ==
  /\ \A i \in DOMAIN fates : fates[i].what = "replayed" => PastWindow(i)
  /\ SameKey => OnlyDamageFailsAuth

\* A packet was processed when the window had passed it.
Overtaken ==
  \E i, j \in DOMAIN fates :
    /\ j < i /\ fates[i].d.wellFormed /\ fates[j].d.wellFormed
    /\ fates[j].d.seq - fates[i].d.seq >= Width

(***************************************************************************)
(* Between two sides with one secret, unless the network loses or damages  *)
(* a packet, or holds one back until the window has passed it, every       *)
(* packet the generator sends is forwarded in the end, whatever is         *)
(* duplicated and however the others overtake each other: a number it      *)
(* spent on a packet it could not send costs no other packet.              *)
(***************************************************************************)
AllForwarded ==
  <>(\/ lost + damaged > 0
     \/ Overtaken
     \/ /\ gseq = MaxSent
        /\ Cardinality({egress[i].tsc : i \in DOMAIN egress}) = MaxSent - refused)

(***************************************************************************)
(* The window is that of RFC 4303, section 3.4.3, which proto.hpp names:   *)
(* it is moved by a packet that verified, so that a packet is dropped as a *)
(* replay only after an undamaged one.                                     *)
(***************************************************************************)
OnlyVerifiedMoveWindow ==
  \A i \in DOMAIN fates : fates[i].what = "replayed" =>
    \E j \in 1 .. i - 1 :
      /\ Intact(fates[j].d)
      /\ \/ fates[j].d.seq = fates[i].d.seq
         \/ fates[j].d.seq - fates[i].d.seq >= Width
=============================================================================
