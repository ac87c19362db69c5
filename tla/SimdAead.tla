------------------------------ MODULE SimdAead ------------------------------
(***************************************************************************)
(* Sealing and opening with the AES-256-GCM and ChaCha20-Poly1305 of       *)
(* simd_crypto.c, and with the null cipher, on every code path: how the    *)
(* payload is cut into groups of blocks and a tail, which counter each     *)
(* block is encrypted under, in which order counter mode and               *)
(* authentication run, and what happens when the input and the output are  *)
(* one buffer.  A packet is sealed by one context and opened by another,   *)
(* whose path may differ.                                                  *)
(*                                                                         *)
(* Data are symbolic.  A byte is an element of the free vector space over  *)
(* GF(2): the set of the symbols it is the exclusive or of (plaintext      *)
(* bytes, keystream bytes, the damage done to the packet).  GHASH is       *)
(* linear, so its accumulator is a set of <<symbol, position, power of H>>.*)
(* The primitives themselves are the subject of SimdPrimitives.            *)
(***************************************************************************)
EXTENDS Integers, Sequences, FiniteSetsExt

CONSTANTS
  Blk,       \* bytes of an AES block (16 in the code)
  Lens,      \* payload lengths
  AadLens    \* lengths of the associated data

ASSUME BlkAssumption == Blk \in Nat \ {0}
ASSUME LensAssumption == Lens \subseteq Nat /\ AadLens \subseteq Nat

VARIABLES
  m,      \* the seal or open in progress
  cpu,    \* what the machine offers
  packet  \* what was sealed: plaintext length, ciphertext, tag; then damaged

vars == <<m, cpu, packet>>

Cpus == {"x86 aes", "x86 avx2", "x86 both", "arm crypto", "arm", "other"}

\* Which path each cipher takes: decided by the CPU, overridden by the flags.
resolve_paths(p) ==
  [gcm  |-> CASE p \in {"x86 aes", "x86 both"} -> "x86"
              [] p = "arm crypto" -> "arm" [] OTHER -> "portable",
   chap |-> CASE p \in {"x86 avx2", "x86 both"} -> "x86"
              [] p \in {"arm crypto", "arm"} -> "arm" [] OTHER -> "portable"]

gcm_path(p, force, mask) == IF force \/ mask THEN "portable" ELSE resolve_paths(p).gcm
chap_path(p, force)      == IF force THEN "portable" ELSE resolve_paths(p).chap

Path(cipher, force, mask) ==
  CASE cipher = "gcm"  -> gcm_path(cpu, force, mask)
    [] cipher = "chap" -> chap_path(cpu, force)
    [] cipher = "null" -> "portable"

-----------------------------------------------------------------------------
Plain(i)     == <<"plain", i, 0>>
Key(ctr, j)  == <<"key", ctr, j>>
Aad(n)       == [i \in 1..n |-> {<<"aad", i, 0>>}]
Lengths(a, n) == {<<"lengths", a, n>>}
Damage       == <<"damage", 0, 0>>
Least(a, b)  == IF a < b THEN a ELSE b
Xor(a, b)    == SymDiff(a, b)

\* Bytes from+1 .. from+n of a buffer.
Slice(s, from, n) == SubSeq(s, from + 1, from + n)

\* out[i] = in[i] ^ keystream for n bytes from pos, the keystream block of w
\* bytes under counter ctr coming first.
CtrXor(in, pos, n, ctr, w) ==
  [i \in 1..n |-> Xor(in[pos + i], {Key(ctr + ((i - 1) \div w), (i - 1) % w)})]

\* The counter after n bytes: every block begun takes one.
Advance(ctr, n) == ctr + (n + Blk - 1) \div Blk

\* Writing to the output; in place it is the input as well.
Write(c, data) ==
  LET Put(s) == [i \in DOMAIN s |->
                   IF i \in (c.pos + 1)..(c.pos + Len(data)) THEN data[i - c.pos] ELSE s[i]]
  IN  [c EXCEPT !.out = Put(@), !.in = IF c.inplace THEN Put(@) ELSE @]

-----------------------------------------------------------------------------
(***************************************************************************)
(* GHASH                                                                   *)
(***************************************************************************)

\* A block, short ones padded with zeros, as an element of the field.
AsBlock(bytes) == UNION {{<<s, j, 0>> : s \in bytes[j]} : j \in DOMAIN bytes}

\* Hp: the powers of H kept by gcm_init, each the one before times H.
Hp[i \in 1..4] == IF i = 1 THEN 1 ELSE Hp[i - 1] + 1
Mul(x, power) == {<<t[1], t[2], t[3] + power>> : t \in x}

\* Mutant of Ghash4: the accumulator joins the last block, not the first.
Ghash4Late(y, data) ==
  LET g(i) == AsBlock(Slice(data, i * Blk, Blk))
  IN  Xor(Mul(g(0), Hp[4]),
          Xor(Mul(g(1), Hp[3]), Xor(Mul(g(2), Hp[2]), Mul(Xor(g(3), y), Hp[1]))))

\* Four blocks aggregated: one reduction for four products.
Ghash4(y, data) ==
  LET g(i) == AsBlock(Slice(data, i * Blk, Blk))
  IN  Xor(Mul(Xor(g(0), y), Hp[4]),
          Xor(Mul(g(1), Hp[3]), Xor(Mul(g(2), Hp[2]), Mul(g(3), Hp[1]))))

Ghash1(y, data) == Mul(Xor(y, AsBlock(data)), Hp[1])

\* How much one iteration takes of what is left: four blocks while there are
\* four and the path is a vector path, then a block, then what remains.
Group(path, left) == IF path # "portable" /\ left >= 4 * Blk THEN 4 * Blk ELSE Least(left, Blk)

GhashIteration(path, y, data, pos) ==
  LET n == Group(path, Len(data) - pos)
  IN  IF n = 4 * Blk THEN Ghash4(y, Slice(data, pos, n)) ELSE Ghash1(y, Slice(data, pos, n))

\* What gcm_core authenticates: on opening the input, on sealing the output.
Hashed(c) == IF c.stage = "aad" THEN Aad(c.alen) ELSE IF c.op = "open" THEN c.in ELSE c.out

-----------------------------------------------------------------------------
(***************************************************************************)
(* gcm_core, one loop iteration at a time                                  *)
(***************************************************************************)

AfterAad(c) ==
  IF Len(c.in) = 0 THEN "lengths"
  ELSE IF c.path = "x86" THEN "stitch" ELSE IF c.op = "open" THEN "ghash" ELSE "ctr"

\* E_K(J0), from the counter-mode routine, which leaves the counter at 2.
GcmMask ==
  /\ m.stage = "start" /\ m.cipher = "gcm" /\ packet.damage # "short"
  /\ m' = [m EXCEPT !.mask = AsBlock([j \in 1..Blk |-> {Key(1, j - 1)}]), !.ctr = 2,
                    !.stage = IF m.alen > 0 THEN "aad" ELSE AfterAad(m)]
  /\ UNCHANGED <<cpu, packet>>

\* ghash_x86, ghash_arm, ghash_update_portable
GhashStep ==
  /\ m.stage \in {"aad", "ghash"}
  /\ LET data == Hashed(m)
         n    == Group(m.path, Len(data) - m.pos)
         done == m.pos + n = Len(data)
     IN  m' = [m EXCEPT !.y = GhashIteration(m.path, @, data, m.pos),
                        !.pos = IF done THEN 0 ELSE @ + n,
                        !.stage = IF ~done THEN @
                                  ELSE IF @ = "aad" THEN AfterAad(m)
                                  ELSE IF m.op = "open" THEN "ctr" ELSE "lengths"]
  /\ UNCHANGED <<cpu, packet>>

\* aes_ctr_arm, aes_ctr_portable
CtrStep ==
  /\ m.stage = "ctr"
  /\ LET n    == Group(m.path, Len(m.in) - m.pos)
         done == m.pos + n = Len(m.in)
         w    == Write(m, CtrXor(m.in, m.pos, n, m.ctr, Blk))
     IN  m' = [w EXCEPT !.ctr = Advance(@, n), !.pos = IF done THEN 0 ELSE @ + n,
                        !.stage = IF ~done THEN @
                                  ELSE IF m.op = "open" THEN "lengths" ELSE "ghash"]
  /\ UNCHANGED <<cpu, packet>>

\* Mutant of StitchStep: when opening, the ciphertext is read again from the
\* input after the output was written.
StitchReadsAgain ==
  /\ m.stage = "stitch"
  /\ LET n    == Group(m.path, Len(m.in) - m.pos)
         e    == CtrXor(m.in, m.pos, n, m.ctr, Blk)
         done == m.pos + n = Len(m.in)
         d    == Slice(Write(m, e).in, m.pos, n)
     IN  m' = [Write(m, e) EXCEPT
                 !.y = GhashIteration(m.path, @, IF m.op = "seal" THEN e ELSE d, 0),
                 !.ctr = Advance(@, n), !.pos = IF done THEN 0 ELSE @ + n,
                 !.stage = IF done THEN "lengths" ELSE @]
  /\ UNCHANGED <<cpu, packet>>

\* gcm_stitch_x86: both in one pass, the ciphertext taken from the output
\* just written when sealing and from the input as read when opening.
StitchStep ==
  /\ m.stage = "stitch"
  /\ LET n    == Group(m.path, Len(m.in) - m.pos)
         d    == Slice(m.in, m.pos, n)
         e    == CtrXor(m.in, m.pos, n, m.ctr, Blk)
         done == m.pos + n = Len(m.in)
     IN  m' = [Write(m, e) EXCEPT
                 !.y = GhashIteration(m.path, @, IF m.op = "seal" THEN e ELSE d, 0),
                 !.ctr = Advance(@, n), !.pos = IF done THEN 0 ELSE @ + n,
                 !.stage = IF done THEN "lengths" ELSE @]
  /\ UNCHANGED <<cpu, packet>>

\* The block of lengths, and the tag.
LengthsStep ==
  /\ m.stage = "lengths"
  /\ m' = [m EXCEPT !.tag = Xor(Ghash1(m.y, <<Lengths(m.alen, Len(m.in))>>), m.mask),
                    !.stage = "tagged"]
  /\ UNCHANGED <<cpu, packet>>

-----------------------------------------------------------------------------
(***************************************************************************)
(* ChaCha20 and Poly1305                                                   *)
(***************************************************************************)

CBlk == 4 * Blk   \* bytes of a ChaCha block, four Poly1305 blocks

\* poly1305_update on the bytes kept from before and the blocks absorbed.
poly1305_update(p, data) ==
  LET want  == IF p.kept = <<>> THEN 0 ELSE Least(Blk - Len(p.kept), Len(data))
      kept  == p.kept \o Slice(data, 0, want)
      flush == Len(kept) = Blk
      rest  == Slice(data, want, Len(data) - want)
      whole == IF kept = <<>> \/ flush THEN Blk * (Len(rest) \div Blk) ELSE 0
  IN  [kept   |-> (IF flush THEN <<>> ELSE kept) \o Slice(rest, whole, Len(rest) - whole),
       blocks |-> p.blocks \o (IF flush THEN <<kept>> ELSE <<>>)
                    \o [b \in 1..(whole \div Blk) |-> Slice(rest, (b - 1) * Blk, Blk)]]

Zeros(n) == [i \in 1..n |-> {}]

\* A string, then zeros to the next block boundary.
Padded(p, data) ==
  LET q == IF data = <<>> THEN p ELSE poly1305_update(p, data)
  IN  IF Len(data) % Blk = 0 THEN q ELSE poly1305_update(q, Zeros(Blk - (Len(data) % Blk)))

LengthBytes(a, n) == [i \in 1..Blk |-> {<<"lengths", a, n>>}]

\* The tag as a function of the blocks absorbed; a short last block (which
\* the padding rules out) would be told apart by its missing bytes.
chap_tag(alen, ct) ==
  LET none == [kept |-> <<>>, blocks |-> <<>>]
      p    == poly1305_update(Padded(Padded(none, Aad(alen)), ct), LengthBytes(alen, Len(ct)))
  IN  IF p.kept = <<>> THEN p.blocks ELSE Append(p.blocks, p.kept)

\* The first keystream block keys the authenticator; sealing then encrypts,
\* opening authenticates first.
ChapKey ==
  /\ m.stage = "start" /\ m.cipher = "chap" /\ packet.damage # "short"
  /\ m' = [m EXCEPT !.ctr = 1,
                    !.stage = IF m.op = "seal" /\ Len(m.in) > 0 THEN "chacha" ELSE "poly"]
  /\ UNCHANGED <<cpu, packet>>

\* Bytes of one iteration of chacha_xor_avx2, of the other two.
ChachaGroup(path) == IF path = "x86" THEN 4 * CBlk ELSE CBlk

\* chacha_xor: four blocks at a time with AVX2, a short tail through a padded
\* copy of which only its own bytes come back; one at a time elsewhere.
ChachaStep ==
  /\ m.stage = "chacha"
  /\ LET group == ChachaGroup(m.path)
         n     == Least(Len(m.in) - m.pos, group)
         done  == m.pos + n = Len(m.in)
     IN  m' = [Write(m, CtrXor(m.in, m.pos, n, m.ctr, CBlk)) EXCEPT
                 !.ctr = @ + group \div CBlk, !.pos = IF done THEN 0 ELSE @ + n,
                 !.stage = IF ~done THEN @ ELSE IF m.op = "seal" THEN "poly" ELSE "done"]
  /\ UNCHANGED <<cpu, packet>>

\* lr_chap_seal and lr_chap_open around chap_tag: a packet whose tag is wrong
\* is turned away before anything is decrypted.
PolyStep ==
  /\ m.stage = "poly"
  /\ LET tag == chap_tag(m.alen, IF m.op = "seal" THEN m.out ELSE m.in)
         ok  == m.op = "seal" \/ tag = packet.tag
     IN  m' = [m EXCEPT !.tag = tag, !.ok = ok,
                 !.stage = IF m.op = "seal" THEN "tagged"
                           ELSE IF ok /\ Len(m.in) > 0 THEN "chacha" ELSE "done"]
  /\ UNCHANGED <<cpu, packet>>

-----------------------------------------------------------------------------
\* The null cipher: memmove() both ways, the nonce for a tag, and no check.
NullTag  == {<<"nonce", 0, 0>>}
NullCopy ==
  /\ m.stage = "start" /\ m.cipher = "null" /\ packet.damage # "short"
  /\ m' = [Write(m, m.in) EXCEPT !.tag = NullTag, !.ok = TRUE,
                                 !.stage = IF m.op = "seal" THEN "tagged" ELSE "done"]
  /\ UNCHANGED <<cpu, packet>>

\* lr_gcm_seal, lr_chap_seal: the ciphertext and the tag after it.
SealDone ==
  /\ m.stage = "tagged" /\ m.op = "seal"
  /\ m' = [m EXCEPT !.stage = "done", !.ok = TRUE]
  /\ packet' = [packet EXCEPT !.ct = m.out, !.tag = m.tag]
  /\ UNCHANGED cpu

\* lr_gcm_open: compare the tags after the payload has been decrypted.
OpenDone ==
  /\ m.stage = "tagged" /\ m.op = "open"
  /\ m' = [m EXCEPT !.stage = "done", !.ok = m.tag = packet.tag]
  /\ UNCHANGED <<cpu, packet>>

Call(op, cipher, path, in, alen, inplace) ==
  [op |-> op, cipher |-> cipher, path |-> path, stage |-> "start", in |-> in,
   out |-> [i \in DOMAIN in |-> {}], inplace |-> inplace, alen |-> alen, pos |-> 0,
   ctr |-> 0, y |-> {}, mask |-> {}, tag |-> {}, ok |-> FALSE]

\* lr_gcm_open, lr_chap_open and the null cipher's open begin alike: fewer
\* bytes than a tag are turned away, with nothing read and nothing written.
TooShort ==
  /\ m.stage = "start" /\ m.op = "open" /\ packet.damage = "short"
  /\ m' = [m EXCEPT !.stage = "done"]
  /\ UNCHANGED <<cpu, packet>>

\* The other end opens the packet, which may have been damaged on the way, in
\* a context of its own: the flags may have been set since.  A short one has
\* lost its payload and the end of its tag.
Deliver(force, mask, damage, inplace) ==
  /\ m.op = "seal" /\ m.stage = "done"
  /\ damage = "payload" => packet.ct # <<>>
  /\ packet' = [packet EXCEPT !.damage = damage,
                  !.ct = CASE damage = "payload" -> [@ EXCEPT ![Len(@)] = Xor(@, {Damage})]
                           [] damage = "short"   -> <<>>
                           [] OTHER              -> @]
  /\ m' = Call("open", m.cipher, Path(m.cipher, force, mask), packet'.ct,
               IF damage = "header" THEN m.alen + 1 ELSE m.alen, inplace)
  /\ UNCHANGED cpu

Init ==
  /\ cpu \in Cpus
  /\ \E cipher \in {"gcm", "chap", "null"}, force, mask, inplace \in BOOLEAN, n \in Lens, a \in AadLens :
       m = Call("seal", cipher, Path(cipher, force, mask), [i \in 1..n |-> {Plain(i)}], a, inplace)
  /\ packet = [ct |-> <<>>, tag |-> {}, damage |-> "none"]

Finished == m.op = "open" /\ m.stage = "done" /\ UNCHANGED vars

Next ==
  \/ GcmMask \/ GhashStep \/ CtrStep \/ StitchStep \/ LengthsStep
  \/ ChapKey \/ ChachaStep \/ PolyStep \/ NullCopy
  \/ SealDone \/ TooShort \/ OpenDone \/ Finished
  \/ \E force, mask, inplace \in BOOLEAN, damage \in {"none", "payload", "header", "short"} :
       Deliver(force, mask, damage, inplace)

Spec == Init /\ [][Next]_vars
-----------------------------------------------------------------------------
TypeOK ==
  /\ m.path \in {"x86", "arm", "portable"}
  /\ m.pos \in 0..Max({Len(m.in), m.alen})
  /\ Len(m.out) = Len(m.in)
  /\ packet.damage \in {"none", "payload", "header", "short"}

\* The definitions the standards give, on whole messages.
KeyByte(cipher, i) ==
  IF cipher = "gcm" THEN Key(2 + ((i - 1) \div Blk), (i - 1) % Blk)
  ELSE Key(1 + ((i - 1) \div CBlk), (i - 1) % CBlk)

Blocks(s) == [b \in 1..((Len(s) + Blk - 1) \div Blk) |->
                Slice(s, (b - 1) * Blk, Least(Blk, Len(s) - (b - 1) * Blk))]

GcmTag(alen, ct) ==
  LET all == Blocks(Aad(alen)) \o Blocks(ct) \o << <<Lengths(alen, Len(ct))>> >>
      n   == Len(all)
  IN  UNION {Mul(AsBlock(all[b]), n - b + 1) : b \in 1..n}
        \cup {<<Key(1, j - 1), j, 0>> : j \in 1..Blk}

Pad(block) == block \o Zeros(Blk - Len(block))
ChapTag(alen, ct) ==
  LET all == Blocks(Aad(alen)) \o Blocks(ct)
  IN  [b \in 1..Len(all) |-> Pad(all[b])] \o <<LengthBytes(alen, Len(ct))>>

\* What is sealed is the cipher's ciphertext and tag, whichever path sealed
\* it, whatever the length leaves over after groups and blocks, and in place
\* or not.
SealsByTheStandard ==
  /\ TypeOK
  /\ m.op = "seal" /\ m.stage = "done" /\ m.cipher # "null" =>
       /\ packet.ct = [i \in DOMAIN m.in |-> Xor({Plain(i)}, {KeyByte(m.cipher, i)})]
       /\ packet.tag = IF m.cipher = "gcm" THEN GcmTag(m.alen, packet.ct)
                       ELSE ChapTag(m.alen, packet.ct)

\* Another path of the same cipher opens it and gets the plaintext back, also
\* into the buffer it reads from, where decrypting must not feed GHASH what it
\* has itself overwritten; a packet damaged in its payload or header is turned
\* away, but by the null cipher, whose packets have the same length and no
\* protection; one too short to hold a tag is turned away by all three.
OpensWhatWasSealed ==
  m.op = "open" /\ m.stage = "done" =>
    /\ m.ok <=> (packet.damage = "none" \/ (m.cipher = "null" /\ packet.damage # "short"))
    /\ packet.damage = "none" => \A i \in DOMAIN m.out : m.out[i] = {Plain(i)}
=============================================================================
