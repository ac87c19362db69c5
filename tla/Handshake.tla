------------------------------ MODULE Handshake ------------------------------
(***************************************************************************)
(* The handshake: one message each way, each an ephemeral public key and a *)
(* binder over the transcript keyed with the pre-shared key.  Endpoints    *)
(* are Handshake objects; what they send stays in `net', from where it is  *)
(* delivered late, twice, to another endpoint, damaged, or never.  Both    *)
(* messages have the same length, so either can reach either reader.       *)
(*                                                                         *)
(* Keys are symbolic: an ephemeral key is a number, the shared secret of   *)
(* two of them their set, a binder and a traffic key the record of what    *)
(* they are derived from.                                                  *)
(***************************************************************************)
EXTENDS Integers

CONSTANTS
  Psks,         \* pre-shared keys
  Copies,       \* Handshake objects constructed with each of them
  MaxKeys       \* ephemeral keys that are generated

ASSUME BoundsAssumption == Copies \in Nat /\ MaxKeys \in Nat
ASSUME PsksAssumption   == "damaged" \notin Psks

\* An endpoint is a Handshake object: its pre-shared key and a number.
Endpoints == Psks \X (1..Copies)
psk(e)    == e[1]

VARIABLES
  keys,      \* ephemeral keys generated so far, over all endpoints
  hs,        \* per endpoint Impl: [eph, my_pub]; peer_pub is read only in the
             \* call that stores it
  net,       \* messages sent: [pub, tag]
  results    \* history: the results of successful calls

handshakeVars == <<keys, hs, net, results>>

None    == 0           \* a key that was not generated yet: zero bytes
Damage  == -1          \* bytes that are not any key
Garbage == [psk |-> "damaged", over |-> <<>>]

binder(k, transcript) == [psk |-> k, over |-> transcript]
x25519(mine, peer)    == {mine, peer}

\* One HKDF call, its output cut in two.
traffic_keys(shared, k, transcript, half) ==
  [shared |-> shared, psk |-> k, over |-> transcript, half |-> half]

\* Mutant of Result: both roles send with the first half.
ResultOneWay(e, role, me, peer, transcript) ==
  [end |-> e, role |-> role, mine |-> me, peer |-> peer,
   tx |-> traffic_keys(x25519(me, peer), psk(e), transcript, 1),
   rx |-> traffic_keys(x25519(me, peer), psk(e), transcript, 2)]

Result(e, role, me, peer, transcript) ==
  LET i2r == traffic_keys(x25519(me, peer), psk(e), transcript, 1)
      r2i == traffic_keys(x25519(me, peer), psk(e), transcript, 2)
  IN  [end |-> e, role |-> role, mine |-> me, peer |-> peer,
       tx |-> IF role = "initiator" THEN i2r ELSE r2i,
       rx |-> IF role = "initiator" THEN r2i ELSE i2r]

HandshakeInit ==
  /\ keys = 0
  /\ hs = [e \in Endpoints |-> [eph |-> None, my_pub |-> None]]
  /\ net = {} /\ results = {}

\* gen_ephemeral()
Fresh == keys + 1

\* write_init(); with `fails' one of its calls does after the key is made.
\* Called again after a time-out it makes a new key.
write_init(e, fails) ==
  /\ keys < MaxKeys
  /\ keys' = Fresh
  /\ hs' = [hs EXCEPT ![e] = [eph |-> Fresh, my_pub |-> Fresh]]
  /\ net' = IF fails THEN net
            ELSE net \cup {[pub |-> Fresh, tag |-> binder(psk(e), <<Fresh>>)]}
  /\ UNCHANGED results

\* Mutant of read_init_write_resp: the binder is not compared.
ReadInitUnchecked(e, m, fails) ==
  /\ keys < MaxKeys
  /\ keys' = Fresh
  /\ hs' = [hs EXCEPT ![e] = [eph |-> Fresh, my_pub |-> Fresh]]
  /\ LET transcript == <<m.pub, Fresh>>
     IN  IF fails THEN UNCHANGED <<net, results>>
         ELSE /\ net' = net \cup {[pub |-> Fresh, tag |-> binder(psk(e), transcript)]}
              /\ results' = results \cup {Result(e, "responder", Fresh, m.pub, transcript)}

\* read_init_write_resp(): without a matching binder, or a key of its own,
\* nothing happens; a later call that fails leaves the key.
read_init_write_resp(e, m, fails) ==
  /\ m.tag = binder(psk(e), <<m.pub>>)
  /\ keys < MaxKeys
  /\ keys' = Fresh
  /\ hs' = [hs EXCEPT ![e] = [eph |-> Fresh, my_pub |-> Fresh]]
  /\ LET transcript == <<m.pub, Fresh>>
     IN  IF fails THEN UNCHANGED <<net, results>>
         ELSE /\ net' = net \cup {[pub |-> Fresh, tag |-> binder(psk(e), transcript)]}
              /\ results' = results \cup {Result(e, "responder", Fresh, m.pub, transcript)}

\* Mutant of read_resp: the binder is taken over the peer's key alone.
ReadRespShort(e, m) ==
  LET transcript == <<hs[e].my_pub, m.pub>>
  IN  /\ m.tag = binder(psk(e), <<m.pub>>)
      /\ results' = results \cup {Result(e, "initiator", hs[e].eph, m.pub, transcript)}
      /\ UNCHANGED <<keys, hs, net>>

\* read_resp(); a failure changes nothing, and the call may be made again with
\* the next message.
read_resp(e, m) ==
  LET transcript == <<hs[e].my_pub, m.pub>>
  IN  /\ m.tag = binder(psk(e), transcript)
      /\ results' = results \cup {Result(e, "initiator", hs[e].eph, m.pub, transcript)}
      /\ UNCHANGED <<keys, hs, net>>

\* What a message may have become on its way.
Delivered(m) == {m, [m EXCEPT !.pub = Damage], [m EXCEPT !.tag = Garbage]}

HandshakeNext ==
  \E e \in Endpoints :
    \/ \E fails \in BOOLEAN : write_init(e, fails)
    \/ \E sent \in net : \E m \in Delivered(sent) :
         \/ \E fails \in BOOLEAN : read_init_write_resp(e, m, fails)
         \/ read_resp(e, m)

HandshakeSpec == HandshakeInit /\ [][HandshakeNext]_handshakeVars

-----------------------------------------------------------------------------
Keys     == 1..MaxKeys
Binders  == [psk: Psks, over: {<<a>> : a \in Keys} \cup (Keys \X Keys)]
Messages == [pub: Keys, tag: Binders]
Traffic  == [shared: SUBSET Keys, psk: Psks, over: Keys \X Keys, half: {1, 2}]

HandshakeTypeOK ==
  /\ keys \in 0..MaxKeys
  /\ hs \in [Endpoints -> [eph: 0..MaxKeys, my_pub: 0..MaxKeys]]
  /\ net \subseteq Messages
  /\ results \subseteq [end: Endpoints, role: {"initiator", "responder"}, mine: Keys, peer: Keys,
                        tx: Traffic, rx: Traffic]

\* An initiator that completes has a partner: an endpoint with the same
\* pre-shared key that completed as responder, for this very key of the
\* initiator, and sends with what the initiator receives with.  Messages that
\* are late, repeated, damaged or meant for somebody else do not change that.
Agreement ==
  \A i \in results : i.role = "initiator" =>
    \E r \in results : /\ r.role = "responder" /\ psk(r.end) = psk(i.end)
                       /\ r.mine = i.peer /\ r.peer = i.mine
                       /\ r.tx = i.rx /\ r.rx = i.tx

\* Traffic keys belong to one session and one direction: two results have a
\* sending key in common only if they are the same result.
KeysUnshared ==
  /\ HandshakeTypeOK
  /\ \A a, b \in results : a.tx.shared = b.tx.shared /\ a.tx.half = b.tx.half =>
       a.role = b.role /\ a.mine = b.mine /\ a.peer = b.peer /\ a.end = b.end

\* A responder completes only for a key that an endpoint with its pre-shared
\* key made and sent as initiator.
ResponderHeard ==
  \A r \in results : r.role = "responder" =>
    [pub |-> r.peer, tag |-> binder(psk(r.end), <<r.peer>>)] \in net
=============================================================================
