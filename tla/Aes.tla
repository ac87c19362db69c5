------------------------------- MODULE Aes -------------------------------
(***************************************************************************)
(* AES-256 as simd_crypto.c has it: the portable key expansion and rounds, *)
(* and the instruction sequences of the x86 and ARM paths, the             *)
(* instructions themselves being given by what they compute.               *)
(*                                                                         *)
(* A byte is a number, a word a sequence of four bytes, a block a sequence *)
(* of sixteen, column by column.                                           *)
(***************************************************************************)
EXTENDS Integers, SequencesExt, Bitwise

kSbox == <<
   99, 124, 119, 123, 242, 107, 111, 197,  48,   1, 103,  43, 254, 215, 171, 118,
  202, 130, 201, 125, 250,  89,  71, 240, 173, 212, 162, 175, 156, 164, 114, 192,
  183, 253, 147,  38,  54,  63, 247, 204,  52, 165, 229, 241, 113, 216,  49,  21,
    4, 199,  35, 195,  24, 150,   5, 154,   7,  18, 128, 226, 235,  39, 178, 117,
    9, 131,  44,  26,  27, 110,  90, 160,  82,  59, 214, 179,  41, 227,  47, 132,
   83, 209,   0, 237,  32, 252, 177,  91, 106, 203, 190,  57,  74,  76,  88, 207,
  208, 239, 170, 251,  67,  77,  51, 133,  69, 249,   2, 127,  80,  60, 159, 168,
   81, 163,  64, 143, 146, 157,  56, 245, 188, 182, 218,  33,  16, 255, 243, 210,
  205,  12,  19, 236,  95, 151,  68,  23, 196, 167, 126,  61, 100,  93,  25, 115,
   96, 129,  79, 220,  34,  42, 144, 136,  70, 238, 184,  20, 222,  94,  11, 219,
  224,  50,  58,  10,  73,   6,  36,  92, 194, 211, 172,  98, 145, 149, 228, 121,
  231, 200,  55, 109, 141, 213,  78, 169, 108,  86, 244, 234, 101, 122, 174,   8,
  186, 120,  37,  46,  28, 166, 180, 198, 232, 221, 116,  31,  75, 189, 139, 138,
  112,  62, 181, 102,  72,   3, 246,  14,  97,  53,  87, 185, 134, 193,  29, 158,
  225, 248, 152,  17, 105, 217, 142, 148, 155,  30, 135, 233, 206,  85,  40, 223,
  140, 161, 137,  13, 191, 230,  66, 104,  65, 153,  45,  15, 176,  84, 187,  22>>

Sub(x) == kSbox[x + 1]

xtime(x) == ((2 * x) % 256) ^^ (27 * (x \div 128))

\* The sequence F(1), ..., F(n).
Each(n, F(_)) == SubSeq([i \in 1..n |-> F(i)], 1, n)

XorBytes(a, b) == Each(Len(a), LAMBDA i : a[i] ^^ b[i])

\* Byte j of column c of a block, both counted from 0.
At(s, c, j) == s[4 * (c % 4) + (j % 4) + 1]

\* Word i of the schedule: the sum of the word eight before it and of the
\* last one, transformed at every fourth.  Words and rounds are given one at
\* a time, the loops over them being the steps of SimdPrimitives.
ExpandWord(w, rcon) ==
  LET i == Len(w)
      t == w[i]
      u == IF i % 8 = 0 THEN <<Sub(t[2]) ^^ rcon, Sub(t[3]), Sub(t[4]), Sub(t[1])>>
           ELSE IF i % 8 = 4 THEN Each(4, LAMBDA j : Sub(t[j]))
           ELSE t
  IN  [w    |-> Append(w, XorBytes(w[i - 7], u)),
       rcon |-> IF i % 8 = 0 THEN xtime(rcon) ELSE rcon]

KeyWords(key) == Each(8, LAMBDA i : SubSeq(key, 4 * i - 3, 4 * i))
RoundKey(w, r) == w[4 * r + 1] \o w[4 * r + 2] \o w[4 * r + 3] \o w[4 * r + 4]

\* Round r of the portable encryption: substitute and shift in one pass, mix
\* with three exclusive ors and an xtime per byte, add the round key.
PortableRound(s, r, rk) ==
  LET t == Each(16, LAMBDA i : Sub(At(s, ((i - 1) \div 4) + ((i - 1) % 4), i - 1)))
      Mix(i) ==
        LET c    == (i - 1) \div 4
            a(k) == At(t, c, k)
            x    == (a(0) ^^ a(1)) ^^ (a(2) ^^ a(3))
        IN  (a(i - 1) ^^ x) ^^ xtime(a(i - 1) ^^ a(i))
  IN  XorBytes(IF r # 14 THEN Each(16, Mix) ELSE t, rk)

-----------------------------------------------------------------------------
(***************************************************************************)
(* The standard, to compare with: the S-box as the affine image of the     *)
(* inverse, the columns multiplied by the circulant matrix 2 3 1 1.        *)
(***************************************************************************)

Times(a, b) ==
  FoldLeft(LAMBDA acc, k :
             IF (b \div 2^k) % 2 = 1
               THEN acc ^^ FoldLeft(LAMBDA x, i : xtime(x), a, [i \in 1..k |-> i])
               ELSE acc,
           0, <<0, 1, 2, 3, 4, 5, 6, 7>>)

Affine(y) ==
  LET Bit(i) == (y \div 2^(i % 8)) % 2
  IN  FoldLeft(LAMBDA acc, i :
                 acc + 2^i * ((Bit(i) + Bit(i + 4) + Bit(i + 5) + Bit(i + 6)
                               + Bit(i + 7) + (99 \div 2^i)) % 2),
               0, <<0, 1, 2, 3, 4, 5, 6, 7>>)

SubBytes(s)  == Each(Len(s), LAMBDA i : Sub(s[i]))
ShiftRows(s) == Each(16, LAMBDA i : At(s, ((i - 1) \div 4) + ((i - 1) % 4), i - 1))
MixColumns(s) == Each(16, LAMBDA i :
  LET c == (i - 1) \div 4
      j == (i - 1) % 4
  IN  (Times(At(s, c, j), 2) ^^ Times(At(s, c, j + 1), 3))
        ^^ (At(s, c, j + 2) ^^ At(s, c, j + 3)))

StandardRound(s, r, rk) ==
  LET t == ShiftRows(SubBytes(s)) IN XorBytes(IF r # 14 THEN MixColumns(t) ELSE t, rk)

-----------------------------------------------------------------------------
(***************************************************************************)
(* x86: aesenc, aesenclast and aeskeygenassist.                            *)
(***************************************************************************)

aesenc(s, k)     == XorBytes(MixColumns(SubBytes(ShiftRows(s))), k)
aesenclast(s, k) == XorBytes(SubBytes(ShiftRows(s)), k)

Lane(x, l)  == SubSeq(x, 4 * l + 1, 4 * l + 4)
Broadcast(w) == w \o w \o w \o w
RotWord(w)  == <<w[2], w[3], w[4], w[1]>>

aeskeygenassist(x, rcon) ==
  LET Rot(w) == XorBytes(RotWord(SubBytes(w)), <<rcon, 0, 0, 0>>)
  IN  SubBytes(Lane(x, 1)) \o Rot(Lane(x, 1)) \o SubBytes(Lane(x, 3)) \o Rot(Lane(x, 3))

\* _mm_slli_si128(a, 4): the words move up by one, a zero word comes in.
WordShift(a) == <<0, 0, 0, 0>> \o SubSeq(a, 1, 12)

\* Every word becomes the sum of itself and the words below it.
Spread(a) ==
  LET t1 == WordShift(a)
      t2 == WordShift(t1)
  IN  XorBytes(XorBytes(XorBytes(a, t1), t2), WordShift(t2))

aes256_assist1(a, b) == XorBytes(Spread(a), Broadcast(Lane(b, 3)))

aes256_assist2(a, c) ==
  XorBytes(Spread(c), Broadcast(Lane(aeskeygenassist(a, 0), 2)))

\* The next two round keys of the x86 schedule (one after the last constant).
aes256_expand_x86(rk, rcon) ==
  LET n == Len(rk)
      k == aes256_assist1(rk[n - 1], aeskeygenassist(rk[n], rcon))
  IN  IF rcon = 64 THEN Append(rk, k) ELSE rk \o <<k, aes256_assist2(k, rk[n])>>

\* Round r of the x86 sequence, whose first key is added before it.
aes256_enc_x86(s, r, rk) == IF r = 14 THEN aesenclast(s, rk) ELSE aesenc(s, rk)

\* ARM: vaeseq adds a key before it substitutes, so round r uses the key of
\* the round before, and the last key is added by itself.
vaeseq(s, k) == ShiftRows(SubBytes(XorBytes(s, k)))

aes256_enc_arm(s, r, before, rk) ==
  IF r = 14 THEN XorBytes(vaeseq(s, before), rk) ELSE MixColumns(vaeseq(s, before))
=============================================================================
