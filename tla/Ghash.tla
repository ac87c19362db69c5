------------------------------- MODULE Ghash -------------------------------
(***************************************************************************)
(* The multiplication of GHASH in GF(2^128), in the three forms            *)
(* simd_crypto.c has: PCLMULQDQ (x86), PMULL (ARM) and the 4-bit tables of *)
(* the portable path.                                                      *)
(*                                                                         *)
(* A 128-bit register is the set of its one bits, bit 0 the least          *)
(* significant, as it stands after the byte swap every path performs on    *)
(* loading; exclusive or is SymDiff.  Block bit order makes the            *)
(* coefficient of x^k bit 127 - k.                                         *)
(***************************************************************************)
EXTENDS Integers, FiniteSetsExt, SequencesExt

Bits == 0..127

\* Shifts of every w-bit lane of a register: _mm_slli_epi32 and its kin with
\* w = 32, the whole-register byte shifts _mm_slli_si128(x, n/8) with w = 128.
Shl(x, n, w) == {b + n : b \in {c \in x : (c % w) + n < w}}
Shr(x, n, w) == {b - n : b \in {c \in x : c % w >= n}}

\* The carry-less product of two 64-bit halves.
Clmul(p, q) == FoldSet(LAMBDA i, acc : SymDiff({i + j : j \in q}, acc), {}, p)

Half(x, h) == {b - 64 * h : b \in {c \in x : c \div 64 = h}}

\* The 256-bit product, not yet reduced, added to an accumulator.
clmul_acc(a, b, acc) ==
  [lo  |-> SymDiff(acc.lo, Clmul(Half(a, 0), Half(b, 0))),
   mid |-> SymDiff(acc.mid, SymDiff(Clmul(Half(a, 1), Half(b, 0)),
                                    Clmul(Half(a, 0), Half(b, 1)))),
   hi  |-> SymDiff(acc.hi, Clmul(Half(a, 1), Half(b, 1)))]

NoProduct == [lo |-> {}, mid |-> {}, hi |-> {}]

\* Fold the middle in, shift the 256 bits left by one, reduce.
gf_finish(acc) ==
  LET lo1 == SymDiff(acc.lo, Shl(acc.mid, 64, 128))
      hi1 == SymDiff(acc.hi, Shr(acc.mid, 64, 128))
      t4  == Shr(lo1, 31, 32)
      t5  == Shr(hi1, 31, 32)
      lo2 == Shl(lo1, 1, 32) \cup Shl(t4, 32, 128)
      hi2 == Shl(hi1, 1, 32) \cup (Shl(t5, 32, 128) \cup Shr(t4, 96, 128))
      t7  == SymDiff(Shl(lo2, 31, 32), SymDiff(Shl(lo2, 30, 32), Shl(lo2, 25, 32)))
      lo3 == SymDiff(lo2, Shl(t7, 96, 128))
      u   == SymDiff(Shr(lo3, 1, 32), SymDiff(Shr(lo3, 2, 32), Shr(lo3, 7, 32)))
  IN  SymDiff(hi2, SymDiff(lo3, SymDiff(u, Shr(t7, 32, 128))))

gf_mul_x86(a, b) == gf_finish(clmul_acc(a, b, NoProduct))

-----------------------------------------------------------------------------
(***************************************************************************)
(* ARM: the same sequence spelt with vextq_u8, which takes 16 consecutive  *)
(* bytes from the pair <<a, b>>, a the lower half, starting at byte n.     *)
(***************************************************************************)

vextq(a, b, n) == Shr(a, 8 * n, 128) \cup Shl(b, 128 - 8 * n, 128)

\* Load order to register order: vrev64q_u8 reverses the bytes of each half,
\* vextq_u8 by 8 swaps the halves.
neon_bswap128(x) ==
  LET r == {64 * (b \div 64) + 8 * (7 - ((b \div 8) % 8)) + (b % 8) : b \in x}
  IN  vextq(r, r, 8)

\* Mutant of clmul_acc_arm: the halves of one operand are not exchanged.
clmul_acc_arm_straight(a, b, acc) ==
  [lo  |-> SymDiff(acc.lo, Clmul(Half(a, 0), Half(b, 0))),
   mid |-> SymDiff(acc.mid, SymDiff(Clmul(Half(a, 1), Half(b, 1)),
                                    Clmul(Half(a, 0), Half(b, 0)))),
   hi  |-> SymDiff(acc.hi, Clmul(Half(a, 1), Half(b, 1)))]

\* PMULL of low by low, high by low, low by high, and PMULL2 of the highs.
clmul_acc_arm(a, b, acc) ==
  [lo  |-> SymDiff(acc.lo, Clmul(Half(a, 0), Half(b, 0))),
   mid |-> SymDiff(acc.mid, SymDiff(Clmul(Half(a, 1), Half(b, 0)),
                                    Clmul(Half(a, 0), Half(b, 1)))),
   hi  |-> SymDiff(acc.hi, Clmul(Half(a, 1), Half(b, 1)))]

gf_finish_arm(acc) ==
  LET lo1 == SymDiff(acc.lo, vextq({}, acc.mid, 8))
      hi1 == SymDiff(acc.hi, vextq(acc.mid, {}, 8))
      t4  == Shr(lo1, 31, 32)
      t5  == vextq({}, Shr(hi1, 31, 32), 12)
      lo2 == Shl(lo1, 1, 32) \cup vextq({}, t4, 12)
      hi2 == Shl(hi1, 1, 32) \cup (t5 \cup vextq(t4, {}, 12))
      t7  == SymDiff(Shl(lo2, 31, 32), SymDiff(Shl(lo2, 30, 32), Shl(lo2, 25, 32)))
      lo3 == SymDiff(lo2, vextq({}, t7, 4))
      u   == SymDiff(Shr(lo3, 1, 32), SymDiff(Shr(lo3, 2, 32), Shr(lo3, 7, 32)))
  IN  SymDiff(hi2, SymDiff(lo3, SymDiff(u, vextq(t7, {}, 4))))

gf_mul_arm(a, b) == gf_finish_arm(clmul_acc_arm(a, b, NoProduct))

-----------------------------------------------------------------------------
(***************************************************************************)
(* Portable: sixteen multiples of H, one nibble of the operand at a time.  *)
(***************************************************************************)

NumBits(n) == {b \in 0..15 : (n \div 2^b) % 2 = 1}

\* H, H*x, H*x^2, H*x^3 at 8, 4, 2, 1, and the sums of them elsewhere.
ghash_tables_init(H) ==
  LET Halve(v) == SymDiff({b - 1 : b \in v \ {0}},
                          IF 0 \in v THEN {127, 126, 125, 120} ELSE {})
      base == [i \in {1, 2, 4, 8} |->
                 CASE i = 8 -> H
                   [] i = 4 -> Halve(H)
                   [] i = 2 -> Halve(Halve(H))
                   [] i = 1 -> Halve(Halve(Halve(H)))]
  IN  [i \in 0..15 |-> FoldSet(LAMBDA b, acc : SymDiff(base[2^b], acc), {}, NumBits(i))]

kLast4 == <<0, 7200, 14400, 9312, 28800, 27808, 18624, 21728,
            57600, 64800, 55616, 50528, 37248, 36256, 43456, 46560>>

\* x * H: the nibbles of x from the least significant up, the running
\* product shifted down by four between them.
ghash_block_portable(T, x) ==
  LET Nibble(n) == SumSet({2^b : b \in {c \in 0..3 : 4 * n + c \in x}})
      Step(z, n) ==
        LET rem == SumSet({2^b : b \in z \cap 0..3})
        IN  SymDiff(SymDiff(Shr(z, 4, 128), {b + 112 : b \in NumBits(kLast4[rem + 1])}),
                    T[Nibble(n)])
  IN  FoldLeft(Step, T[Nibble(0)], [n \in 1..31 |-> n])

-----------------------------------------------------------------------------
(***************************************************************************)
(* The reference: multiply the polynomials, then replace x^128 by          *)
(* x^7 + x^2 + x + 1 as often as it takes.                                 *)
(***************************************************************************)

PowerOfX[e \in 0..254] ==
  IF e < 128 THEN {127 - e}
  ELSE FoldSet(LAMBDA d, acc : SymDiff(PowerOfX[e - 128 + d], acc), {}, {0, 1, 2, 7})

GfMul(a, b) ==
  FoldSet(LAMBDA i, acc :
            FoldSet(LAMBDA j, ac : SymDiff(PowerOfX[254 - i - j], ac), acc, b),
          {}, a)
=============================================================================
