------------------------------- MODULE ChaCha -------------------------------
(***************************************************************************)
(* The ChaCha20 block function in its three forms: portable, AVX2 and      *)
(* NEON.  What can go wrong between them is which word meets which, so a   *)
(* word is a term: a symbol of the initial state, or the sum, exclusive or *)
(* or rotation of terms.  All ten iterations have the same body, which     *)
(* leaves the words in the places it found them, so one is compared.       *)
(***************************************************************************)
EXTENDS Integers, SequencesExt

Add(x, y)  == <<"+", x, y>>
Xor(x, y)  == <<"^", x, y>>
Rotl(x, n) == <<"rotl", x, <<n>>>>

\* The initial state with the block counter n above its given value; words
\* 0..15 are at 1..16.
Counter(n) == <<"counter", <<n>>>>
chacha_state(n) == [i \in 1..16 |-> IF i = 13 THEN Counter(n) ELSE <<"word", <<i>>>>]

\* A line of QR: a += b; d ^= a; d <<<= n.  The next line does it to c, d and b,
\* so the words change places; after four lines they are back.
Line(q, n) == LET a == Add(q[1], q[2]) IN <<q[3], Rotl(Xor(q[4], a), n), a, q[2]>>
QuarterRound(q) == FoldLeft(Line, q, <<16, 12, 8, 7>>)

Quads == << <<1, 5, 9, 13>>,  <<2, 6, 10, 14>>, <<3, 7, 11, 15>>, <<4, 8, 12, 16>>,
            <<1, 6, 11, 16>>, <<2, 7, 12, 13>>, <<3, 8, 9, 14>>,  <<4, 5, 10, 15>> >>

chacha_block_portable(st) ==
  LET Apply(x, q) ==
        LET r == QuarterRound(<<x[q[1]], x[q[2]], x[q[3]], x[q[4]]>>)
        IN  [x EXCEPT ![q[1]] = r[1], ![q[2]] = r[2], ![q[3]] = r[3], ![q[4]] = r[4]]
      x == FoldLeft(Apply, st, Quads)
  IN  [i \in 1..16 |-> Add(x[i], st[i])]

-----------------------------------------------------------------------------
(***************************************************************************)
(* Vectors.  A register is one row of four words; the four rows a, b, c, d *)
(* go through the column step, are turned so that the diagonals become     *)
(* columns, go through it again and are turned back.                       *)
(***************************************************************************)

\* _mm256_shuffle_epi32: lane i of the result is lane (imm >> 2i) & 3.
Shuffle(x, imm) ==
  <<x[(imm % 4) + 1], x[((imm \div 4) % 4) + 1], x[((imm \div 16) % 4) + 1], x[((imm \div 64) % 4) + 1]>>
\* vextq_u32(x, x, n): lane i is lane i + n.
Ext(x, n) == <<x[(n % 4) + 1], x[((n + 1) % 4) + 1], x[((n + 2) % 4) + 1], x[((n + 3) % 4) + 1]>>

\* The byte shuffles of rotl_avx2_16 and rotl_avx2_8, as listed (highest
\* byte first): a rotation left by 8k moves byte j to byte j + k of its word.
ByteRotation(mask) ==
  8 * (CHOOSE k \in 0..4 :
         k = 4 \/ \A i \in 0..15 : mask[16 - i] = 4 * (i \div 4) + ((i - k) % 4))
Mask16 == <<13, 12, 15, 14, 9, 8, 11, 10, 5, 4, 7, 6, 1, 0, 3, 2>>
Mask8  == <<14, 13, 12, 15, 10, 9, 8, 11, 6, 5, 4, 7, 2, 1, 0, 3>>
rotl_avx2_16 == ByteRotation(Mask16)
rotl_avx2_8  == ByteRotation(Mask8)

AddRow(x, y) == <<Add(x[1], y[1]), Add(x[2], y[2]), Add(x[3], y[3]), Add(x[4], y[4])>>
XorRow(x, y) == <<Xor(x[1], y[1]), Xor(x[2], y[2]), Xor(x[3], y[3]), Xor(x[4], y[4])>>
RotlRow(x, n) == <<Rotl(x[1], n), Rotl(x[2], n), Rotl(x[3], n), Rotl(x[4], n)>>

\* The lines of QR on rows, given how far each rotates.
RowLine(v, n) ==
  LET a == AddRow(v[1], v[2]) IN <<v[3], RotlRow(XorRow(v[4], a), n), a, v[2]>>
Columns(v, rotations) == FoldLeft(RowLine, v, rotations)

Row(st, r) == SubSeq(st, 4 * r - 3, 4 * r)
SumRows(v, w) == <<AddRow(v[1], w[1]), AddRow(v[2], w[2]), AddRow(v[3], w[3]), AddRow(v[4], w[4])>>

\* The columns, and the turn of the rows after them.
Avx2Half(v, turn) ==
  LET w == Columns(v, <<rotl_avx2_16, 12, rotl_avx2_8, 7>>)
  IN  <<w[1], Shuffle(w[2], turn[1]), Shuffle(w[3], turn[2]), Shuffle(w[4], turn[3])>>

\* Mutant of Avx2Lane: the rows are turned on instead of back.
Avx2LaneTurnedOn(v) ==
  SumRows(FoldLeft(Avx2Half, v, << <<57, 78, 147>>, <<57, 78, 147>> >>), v)

\* One 128-bit lane of the AVX2 code: a whole state, row by row.
Avx2Lane(v) ==
  SumRows(FoldLeft(Avx2Half, v, << <<57, 78, 147>>, <<147, 78, 57>> >>), v)

\* Two blocks, the second lane's counter one ahead, stored lane by lane.
\* (Defined and not called: the code uses four blocks for every length.)
chacha_2blocks_avx2(st) ==
  LET Rows(n) == <<Row(st, 1), Row(st, 2), Row(st, 3),
                   [Row(st, 4) EXCEPT ![1] = Counter(@[2][1] + n)]>>
      lo == Avx2Lane(Rows(0))
      hi == Avx2Lane(Rows(1))
  IN  lo[1] \o lo[2] \o lo[3] \o lo[4] \o hi[1] \o hi[2] \o hi[3] \o hi[4]

\* Four blocks: registers a..d hold two states, A..D two more, the counters
\* made by adding 1 in the upper lane and 2 to both; the lane permutes put
\* the rows of a block together again.  The result is the order of the
\* keystream's rows as XORed into the buffer.
chacha_4blocks_avx2(st) ==
  LET Rows(n) == <<Row(st, 1), Row(st, 2), Row(st, 3),
                   [Row(st, 4) EXCEPT ![1] = Counter(@[2][1] + n)]>>
      ad == <<Avx2Lane(Rows(0)), Avx2Lane(Rows(1))>>
      AD == <<Avx2Lane(Rows(2)), Avx2Lane(Rows(1 + 2))>>
      Permute(reg, x, y, lane) == reg[lane][x] \o reg[lane][y]
  IN  Permute(ad, 1, 2, 1) \o Permute(ad, 3, 4, 1) \o Permute(ad, 1, 2, 2)
        \o Permute(ad, 3, 4, 2) \o Permute(AD, 1, 2, 1) \o Permute(AD, 3, 4, 1)
        \o Permute(AD, 1, 2, 2) \o Permute(AD, 3, 4, 2)

NeonHalf(v, turn) ==
  LET w == Columns(v, <<16, 12, 8, 7>>)
  IN  <<w[1], Ext(w[2], turn[1]), Ext(w[3], turn[2]), Ext(w[4], turn[3])>>

chacha_block_neon(st) ==
  LET v == <<Row(st, 1), Row(st, 2), Row(st, 3), Row(st, 4)>>
      s == SumRows(FoldLeft(NeonHalf, v, << <<1, 2, 3>>, <<3, 2, 1>> >>), v)
  IN  s[1] \o s[2] \o s[3] \o s[4]
=============================================================================
