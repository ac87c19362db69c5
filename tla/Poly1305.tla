------------------------------ MODULE Poly1305 ------------------------------
(***************************************************************************)
(* The arithmetic of Poly1305 in five limbs (poly1305_init,                *)
(* poly1305_blocks and poly1305_finish of simd_crypto.c).  The code's      *)
(* limbs have 26 bits, its blocks 128 = 5 * 26 - 2, a quarter of a block   *)
(* 32; here the limb has W bits and the others follow, so that the same    *)
(* formulas run on numbers TLC holds.  What the code computes in uint32_t  *)
(* and in unsigned long long wraps around here as well: the headroom above *)
(* a limb is the code's, six bits and twelve bits above a product.         *)
(***************************************************************************)
EXTENDS Integers, Sequences

Limbs == 0..4

BlockBits(W) == 5 * W - 2
WordBits(W)  == BlockBits(W) \div 4
Prime(W)     == 2^(5 * W) - 5

\* uint32_t has 6 bits more than a limb, unsigned long long 12 more than two.
U32(x, W) == x % 2^(W + 6)
U64(x, W) == x % 2^(2 * W + 12)

\* Loads: limb i is bits i*W and up; the hibit is the one that pads a block
\* and is left out of the last, short one, which carries its own.
Load(m, W) == [i \in Limbs |-> (m \div 2^(W * i)) % 2^W]
hibit(final, W) == IF final THEN 0 ELSE 2^(W - 2)

\* The masks of poly1305_init: the bits a word of r has above a limb, as many
\* as u - W, are cleared in each limb but the first, further up each time.
Clamp(r, W) ==
  LET b       == WordBits(W) - W
      lo(i)   == b * i - (2 * b) \div 3
      keep(x, l) == (x % 2^l) + (x \div 2^(l + b)) * 2^(l + b)
  IN  [i \in Limbs |-> IF i = 0 THEN Load(r, W)[0] ELSE keep(Load(r, W)[i], lo(i))]

AddBlock(h, m, final, W) ==
  [i \in Limbs |-> U32(h[i] + Load(m, W)[i] + (IF i = 4 THEN hibit(final, W) ELSE 0), W)]

\* d_i: the limb products that weigh 2^(W*i), those beyond the fifth limb
\* brought back with a factor 5.
Factor(r, i, j, W) == IF j <= i THEN r[i - j] ELSE U32(5 * r[5 + i - j], W)
D(h, r, i, W) ==
  U64(h[0] * Factor(r, i, 0, W) + h[1] * Factor(r, i, 1, W) + h[2] * Factor(r, i, 2, W)
        + h[3] * Factor(r, i, 3, W) + h[4] * Factor(r, i, 4, W), W)

\* The carries, once round: limb 1 may be left above W bits.
Carry(d0, d1, d2, d3, d4, W) ==
  LET e1 == U64(d1 + (d0 \div 2^W), W)
      e2 == U64(d2 + (e1 \div 2^W), W)
      e3 == U64(d3 + (e2 \div 2^W), W)
      e4 == U64(d4 + (e3 \div 2^W), W)
      l0 == U32((d0 % 2^W) + U32((e4 \div 2^W) * 5, W), W)
  IN  [i \in Limbs |-> CASE i = 0 -> l0 % 2^W
                         [] i = 1 -> U32((e1 % 2^W) + (l0 \div 2^W), W)
                         [] i = 2 -> e2 % 2^W
                         [] i = 3 -> e3 % 2^W
                         [] i = 4 -> e4 % 2^W]

\* One iteration of poly1305_blocks.
poly1305_block(h, r, m, final, W) ==
  LET a == AddBlock(h, m, final, W)
  IN  Carry(D(a, r, 0, W), D(a, r, 1, W), D(a, r, 2, W), D(a, r, 3, W), D(a, r, 4, W), W)

-----------------------------------------------------------------------------
\* poly1305_finish: carry from limb 1 round to limb 1, then take h + 5 - 2^5W
\* instead when that is not negative.
Settle(h, W) ==
  LET e2 == U32(h[2] + (h[1] \div 2^W), W)
      e3 == U32(h[3] + (e2 \div 2^W), W)
      e4 == U32(h[4] + (e3 \div 2^W), W)
      l0 == U32(h[0] + (e4 \div 2^W) * 5, W)
  IN  [i \in Limbs |-> CASE i = 0 -> l0 % 2^W
                         [] i = 1 -> U32((h[1] % 2^W) + (l0 \div 2^W), W)
                         [] i = 2 -> e2 % 2^W
                         [] i = 3 -> e3 % 2^W
                         [] i = 4 -> e4 % 2^W]

\* Mutant of Freeze: the mask is taken from g4 > 0.
FreezeStrict(h, W) == h

\* g4 wraps around when h + 5 is below 2^5W, and the mask is its top bit.
Freeze(h, W) ==
  LET g0 == U32(h[0] + 5, W)
      g1 == U32(h[1] + (g0 \div 2^W), W)
      g2 == U32(h[2] + (g1 \div 2^W), W)
      g3 == U32(h[3] + (g2 \div 2^W), W)
      g4 == U32(h[4] + (g3 \div 2^W) - 2^W, W)
  IN  IF g4 \div 2^(W + 5) = 1 THEN h
      ELSE [i \in Limbs |-> CASE i = 0 -> g0 % 2^W [] i = 1 -> g1 % 2^W
                              [] i = 2 -> g2 % 2^W [] i = 3 -> g3 % 2^W
                              [] i = 4 -> g4]

\* The limbs as four words: word k starts k*(u - W) bits into limb k.  The
\* two parts do not overlap, so the or is a sum.
Pack(h, W) ==
  LET u == WordBits(W)
  IN  [k \in 0..3 |-> ((h[k] \div 2^(k * (u - W)))
                        + h[k + 1] * 2^(W - k * (u - W))) % 2^u]

\* The pad is added word by word with a carry, the last one dropped.
AddPad(h, pad, W) ==
  LET u  == WordBits(W)
      f0 == h[0] + pad[0]
      f1 == h[1] + pad[1] + (f0 \div 2^u)
      f2 == h[2] + pad[2] + (f1 \div 2^u)
      f3 == h[3] + pad[3] + (f2 \div 2^u)
  IN  <<f0 % 2^u, f1 % 2^u, f2 % 2^u, f3 % 2^u>>

poly1305_finish(h, pad, W) == AddPad(Pack(Freeze(Settle(h, W), W), W), pad, W)
=============================================================================
