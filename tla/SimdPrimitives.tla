--------------------------- MODULE SimdPrimitives ---------------------------
(***************************************************************************)
(* The primitives under the two ciphers of simd_crypto.c, each computed by *)
(* every path the file has for it and compared with its definition:        *)
(*   "gf"     GHASH's multiplication, on pairs of single bits (all the     *)
(*            operations are linear over exclusive or in each operand, so  *)
(*            agreement on single bits is agreement)                       *)
(*   "sbox"   the S-box table                                              *)
(*   "aes"    the key expansion, a word at a time, then the rounds         *)
(*   "chacha" the block function, on symbols                               *)
(*   "poly"   the accumulator of Poly1305, a block at a time               *)
(* A behaviour is one such computation.                                    *)
(***************************************************************************)
EXTENDS Ghash, Aes, Poly1305

CONSTANTS
  AesSeeds,    \* seeds of the AES keys and blocks tried
  W,           \* bits of a Poly1305 limb
  PolyMax      \* how many blocks are absorbed

ASSUME AesSeedsAssumption == AesSeeds \subseteq 0..255
ASSUME WAssumption        == W \in Nat /\ W > 2 /\ BlockBits(W) % 4 = 0
ASSUME PolyMaxAssumption  == PolyMax \in Nat

\* The keys, before they are clamped, and the message blocks tried.  With r = 1
\* the accumulator is a sum of blocks, and these reach p and the five values
\* above it; with every bit the clamp leaves the carries are the largest.
Full == 2^BlockBits(W)
PolyKeys   == {1, 5, Full \div 16 - 3, Full - 1}
PolyBlocks == {0, 1, 2^(4 * W) - 1, Full - 5, Full - 1}

C == INSTANCE ChaCha

VARIABLE c    \* the computation in progress

Seeded(n, seed) == [i \in 1..n |-> (seed * (i + 5) + i * i) % 256]

AesStart(k, b) ==
  LET key == Seeded(32, k)
  IN  [task |-> "aes", w |-> KeyWords(key), rcon |-> 1, block |-> Seeded(16, b),
       x86 |-> <<SubSeq(key, 1, 16), SubSeq(key, 17, 32)>>, round |-> 0,
       s |-> <<>>, std |-> <<>>, sx |-> <<>>, sa |-> <<>>]

Init ==
  \/ \E i, j \in Bits : c = [task |-> "gf", i |-> i, j |-> j]
  \/ \E x \in 0..255 : c = [task |-> "sbox", x |-> x]
  \/ \E k, b \in AesSeeds : c = AesStart(k, b)
  \/ \E n \in 0..1 : c = [task |-> "chacha", n |-> n]
  \/ \E r \in PolyKeys :
       c = [task |-> "poly", r |-> Clamp(r, W), n |-> 0, h |-> [i \in Limbs |-> 0], v |-> 0,
            final |-> FALSE]

\* One word of the portable schedule, and the x86 keys it completes.
ExpandStep ==
  /\ c.task = "aes" /\ Len(c.w) < 60
  /\ LET e == ExpandWord(c.w, c.rcon)
     IN  c' = [c EXCEPT !.w = e.w, !.rcon = e.rcon,
                        !.x86 = IF Len(c.w) % 8 = 0
                                  THEN aes256_expand_x86(c.x86, c.rcon) ELSE @]

\* One round on every path; round 0 is the whitening.
RoundStep ==
  /\ c.task = "aes" /\ Len(c.w) = 60 /\ c.round <= 14
  /\ LET rk(r)  == RoundKey(c.w, r)
         start  == XorBytes(c.block, rk(0))
         r      == c.round
     IN  c' = [c EXCEPT !.round = r + 1,
                !.s   = IF r = 0 THEN start ELSE PortableRound(@, r, rk(r)),
                !.std = IF r = 0 THEN start ELSE StandardRound(@, r, rk(r)),
                !.sx  = IF r = 0 THEN start ELSE aes256_enc_x86(@, r, rk(r)),
                !.sa  = IF r = 0 THEN c.block ELSE aes256_enc_arm(@, r, rk(r - 1), rk(r))]

\* The product a * b modulo p, doubling and adding.
MulMod(a, b, p) ==
  LET bit(k) == (b \div 2^k) % 2
  IN  FoldLeft(LAMBDA acc, k : (((2 * acc) % p) + bit(k) * a) % p, 0,
               [k \in 1..30 |-> 30 - k])

\* A block: whole ones carry the extra bit above them, the last, short one
\* carries it inside (poly1305_finish puts it there).
BlockStep(m, final) ==
  /\ c.task = "poly" /\ ~c.final /\ c.n < PolyMax
  /\ LET p == Prime(W)
         a == (c.v + m + (IF final THEN 0 ELSE Full)) % p
         r == FoldLeft(LAMBDA sum, i : sum + c.r[i] * 2^(W * i), 0, [i \in 1..5 |-> i - 1])
     IN  c' = [c EXCEPT !.n = @ + 1, !.final = final,
                        !.h = poly1305_block(@, c.r, m, final, W),
                        !.v = MulMod(a, r, p)]

Done == UNCHANGED c

Next == \/ ExpandStep \/ RoundStep
        \/ \E m \in PolyBlocks, final \in BOOLEAN : BlockStep(m, final)
        \/ Done

Spec == Init /\ [][Next]_c
-----------------------------------------------------------------------------
\* GHASH's multiplication is the multiplication of GF(2^128) on all three
\* paths, so a tag does not depend on which of them computed it; and the ARM
\* byte swap is the whole reversal the x86 shuffle mask spells out.
MulAgrees ==
  c.task = "gf" =>
    LET product == GfMul({c.i}, {c.j})
    IN  /\ gf_mul_x86({c.i}, {c.j}) = product
        /\ gf_mul_arm({c.i}, {c.j}) = product
        /\ ghash_block_portable(ghash_tables_init({c.i}), {c.j}) = product
        /\ neon_bswap128({c.i}) = {8 * (15 - (c.i \div 8)) + (c.i % 8)}

\* Every entry of kSbox is the affine image of the inverse of its index.
SboxRight(x) ==
  \E y \in 0..255 : /\ Times(x, y) = (IF x = 0 THEN 0 ELSE 1)
                    /\ x = 0 => y = 0
                    /\ Sub(x) = Affine(y)

\* The portable rounds and the instruction sequences of x86 and ARM compute the
\* AES cipher from the same round keys, which the portable and the x86
\* expansion derive alike.
AesPathsAgree ==
  /\ c.task = "sbox" => SboxRight(c.x)
  /\ c.task = "aes" =>
       /\ \A r \in 1..Len(c.x86) : 4 * r <= Len(c.w) => c.x86[r] = RoundKey(c.w, r - 1)
       /\ c.s = c.std /\ c.sx = c.std
       /\ c.round = 15 => c.sa = c.std

\* The vector forms of the ChaCha20 block function mix the words the
\* portable one mixes, and the four blocks of AVX2 leave in counter order.
ChachaPathsAgree ==
  c.task = "chacha" =>
    LET block(n) == C!chacha_block_portable(C!chacha_state(n))
    IN  /\ C!chacha_block_neon(C!chacha_state(c.n)) = block(c.n)
        /\ C!chacha_2blocks_avx2(C!chacha_state(c.n)) = block(c.n) \o block(c.n + 1)
        /\ C!chacha_4blocks_avx2(C!chacha_state(c.n))
             = block(c.n) \o block(c.n + 1) \o block(c.n + 2) \o block(c.n + 3)

\* Masking an accelerator changes no ciphertext: on every path the block
\* functions of both ciphers are the ones their definitions give, from the
\* substitution table to the order in which vector lanes are stored.
BlockPathsAgree == AesPathsAgree /\ ChachaPathsAgree

\* Between blocks only limb 1 is wider than W bits, and by less than one bit
\* more; after the final carries and the subtraction none is, so that the or
\* that packs the limbs into words overlaps nothing.
LimbsBounded ==
  /\ \A i \in Limbs \ {1} : c.h[i] < 2^W
  /\ c.h[1] < 2^(W + 1)
  /\ \A i \in Limbs : Freeze(Settle(c.h, W), W)[i] < 2^W

\* However many blocks were absorbed, finishing yields the polynomial's value
\* modulo 2^130 - 5 plus the pad: the limbs are left with one carry pending
\* between blocks, and neither it nor the final subtraction is lost, nor does
\* a sum, a product or the carry times five outgrow the integer that holds it.
PolyExact ==
  c.task = "poly" =>
    /\ LimbsBounded
    /\ LET u == WordBits(W)
       IN  \A pad \in {0, 1, Full - 1} :
             LET t == poly1305_finish(c.h, [k \in 0..3 |-> (pad \div 2^(u * k)) % 2^u], W)
             IN  t[1] + t[2] * 2^u + t[3] * 2^(2 * u) + t[4] * 2^(3 * u)
                   = ((c.v % Full) + pad) % Full
=============================================================================
