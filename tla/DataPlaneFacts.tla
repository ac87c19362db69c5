--------------------------- MODULE DataPlaneFacts ---------------------------
(***************************************************************************)
(* Facts about the operators of the two objects every shard owns, for      *)
(* every value of their parameters: the replay window (what accept()       *)
(* answers and leaves, given a window that tells the truth about a set of  *)
(* admitted packets) and the key schedule (what the constructor, derive()  *)
(* and maybe_rekey() leave).  They are stated of a window and a schedule   *)
(* as values, so that every specification that has one can cite them.      *)
(*                                                                         *)
(* The window's argument: word-wise shifting is addition on bit indices    *)
(* (lemma ShiftAdds), so a bitmap that was exact stays exact when the      *)
(* newest packet moves forward; and with an exact bitmap the verdict is    *)
(* the one the set of admitted packets gives.                              *)
(***************************************************************************)
EXTENDS ReplayWindow, KeySchedule, TLAPS

(***************************************************************************)
(* A window is exact for the set of packets it has admitted: its newest    *)
(* packet is the newest of the set, and bit b of word w is set if and only *)
(* if the packet w * WordBits + b behind the newest is in the set.         *)
(***************************************************************************)
ExactBits(win, admitted) ==
  \A w \in WordIndex, b \in BitIndex :
    b \in win.bits[w] <=> win.high - (w * WordBits + b) \in admitted

Exact(win, admitted) ==
  /\ win \in Window /\ admitted \in SUBSET Nat
  /\ IF win.seen
     THEN /\ win.high \in admitted /\ \A s \in admitted : s <= win.high
          /\ ExactBits(win, admitted)
     ELSE admitted = {} /\ win.bits = ZeroBits

(***************************************************************************)
(* Arithmetic of bit indices: d = w * WordBits + b.                        *)
(***************************************************************************)

\* Division by the word size splits an index into its word and its bit.
LEMMA DivMod ==
  ASSUME NEW d \in Nat
  PROVE  /\ d \div WordBits \in Nat
         /\ d % WordBits \in BitIndex
         /\ d = (d \div WordBits) * WordBits + (d % WordBits)
  BY WordBitsAssumption DEF BitIndex

\* Multiplying by the word size is monotone.
LEMMA WordsMonotone ==
  ASSUME NEW m \in Int, NEW n \in Int, m <= n
  PROVE  m * WordBits <= n * WordBits
  BY WordBitsAssumption

\* An index has one word and one bit.
LEMMA SplitUnique ==
  ASSUME NEW v \in Int, NEW c \in BitIndex, NEW w \in Int, NEW b \in BitIndex,
         v * WordBits + c = w * WordBits + b
  PROVE  v = w /\ c = b
<1>1. ASSUME NEW m \in Int, NEW i \in BitIndex, NEW n \in Int, NEW j \in BitIndex,
             m * WordBits + i = n * WordBits + j, m < n
      PROVE  FALSE
  <2>1. (m + 1) * WordBits <= n * WordBits
    BY <1>1, WordsMonotone
  <2>2. (m + 1) * WordBits = m * WordBits + WordBits
    BY WordBitsAssumption
  <2>3. QED
    BY <1>1, <2>1, <2>2, WordBitsAssumption DEF BitIndex
<1>2. ~(v < w)
  BY <1>1
<1>3. ~(w < v)
  BY <1>1
<1>4. QED
  BY <1>2, <1>3, WordBitsAssumption DEF BitIndex

\* The constructor makes at least one word.
LEMMA WordsPositive == Words \in Nat /\ Words >= 1 /\ Width \in Nat /\ Width >= 1
<1> DEFINE n == (IF WidthBits < WordBits THEN WordBits ELSE WidthBits) + WordBits - 1
<1>1. n \in Nat /\ n >= WordBits
  BY WordBitsAssumption, WidthBitsAssumption
<1>2. Words = n \div WordBits
  BY DEF Words
<1> HIDE DEF n
<1>3. /\ n \div WordBits \in Nat
      /\ n % WordBits \in BitIndex
      /\ n = (n \div WordBits) * WordBits + (n % WordBits)
  BY <1>1, DivMod
<1>4. n \div WordBits # 0
  BY <1>1, <1>3, WordBitsAssumption DEF BitIndex
<1>5. Words \in Nat /\ Words >= 1
  BY <1>2, <1>3, <1>4
<1>6. 1 * WordBits <= Words * WordBits
  BY <1>5, WordsMonotone
<1>7. QED
  BY <1>5, <1>6, WordBitsAssumption DEF Width

\* The indices of the bitmap are the distances below the width.
LEMMA IndexInWidth ==
  ASSUME NEW w \in WordIndex, NEW b \in BitIndex
  PROVE  w * WordBits + b \in 0 .. Width - 1
<1>1. w \in Nat /\ w + 1 <= Words
  BY WordsPositive DEF WordIndex
<1>2. (w + 1) * WordBits <= Words * WordBits
  BY <1>1, WordsPositive, WordsMonotone
<1>3. (w + 1) * WordBits = w * WordBits + WordBits
  BY <1>1, WordBitsAssumption
<1>4. w * WordBits \in Nat
  BY <1>1, WordBitsAssumption
<1>5. QED
  BY <1>2, <1>3, <1>4, WordBitsAssumption, WordsPositive DEF BitIndex, Width

LEMMA WidthHasIndex ==
  ASSUME NEW d \in 0 .. Width - 1
  PROVE  /\ d \div WordBits \in WordIndex
         /\ d % WordBits \in BitIndex
         /\ d = (d \div WordBits) * WordBits + (d % WordBits)
<1>1. d \in Nat /\ d < Width
  BY WordsPositive
<1>2. /\ d \div WordBits \in Nat
      /\ d % WordBits \in BitIndex
      /\ d = (d \div WordBits) * WordBits + (d % WordBits)
  BY <1>1, DivMod
<1>3. ASSUME Words <= d \div WordBits PROVE FALSE
  <2>1. Words * WordBits <= (d \div WordBits) * WordBits
    BY <1>2, <1>3, WordsPositive, WordsMonotone
  <2>2. QED
    BY <1>1, <1>2, <2>1, WordsPositive, WordBitsAssumption DEF BitIndex, Width
<1>4. QED
  BY <1>2, <1>3, WordsPositive DEF WordIndex

-----------------------------------------------------------------------------
(***************************************************************************)
(* Shifting the map adds the distance to every index: a bit is set after   *)
(* the shift if and only if it comes from a bit that was set before it.    *)
(***************************************************************************)
LEMMA ShiftAdds ==
  ASSUME NEW bits \in Bitmap, NEW shift \in Nat,
         NEW w \in WordIndex, NEW b \in BitIndex
  PROVE  b \in ShiftMap(bits, shift)[w] <=>
           \E v \in WordIndex, c \in BitIndex :
              /\ c \in bits[v]
              /\ v * WordBits + c + shift = w * WordBits + b
<1> DEFINE ws == shift \div WordBits
           bs == shift % WordBits
<1>1. ws \in Nat /\ bs \in BitIndex /\ shift = ws * WordBits + bs
  BY DivMod
<1>2. ShiftMap(bits, shift)[w] =
        IF bs = 0 THEN IF w >= ws THEN bits[w - ws] ELSE {}
        ELSE (IF w >= ws THEN Shl(bits[w - ws], bs) ELSE {})
               \cup (IF w >= ws + 1 THEN Shr(bits[w - ws - 1], WordBits - bs) ELSE {})
  BY DEF ShiftMap
<1> HIDE DEF ws, bs
<1>w. w \in Nat /\ w < Words /\ Words \in Nat
  BY WordsPositive DEF WordIndex
<1>3. ASSUME b \in ShiftMap(bits, shift)[w]
      PROVE  \E v \in WordIndex, c \in BitIndex :
               c \in bits[v] /\ v * WordBits + c + shift = w * WordBits + b
  <2>1. CASE bs = 0
    <3>1. w >= ws /\ b \in bits[w - ws]
      BY <1>2, <1>3, <2>1
    <3>2. w - ws \in WordIndex
      BY <1>1, <1>w, <3>1 DEF WordIndex
    <3>3. (w - ws) * WordBits + ws * WordBits = w * WordBits
      BY <1>1, <1>w, WordBitsAssumption
    <3>4. (w - ws) * WordBits + b + shift = w * WordBits + b
      BY <1>1, <1>w, <2>1, <3>3, WordBitsAssumption DEF BitIndex
    <3>5. QED
      BY <3>1, <3>2, <3>4
  <2>2. CASE bs # 0 /\ w >= ws /\ b \in Shl(bits[w - ws], bs)
    <3>1. b >= bs /\ b - bs \in bits[w - ws]
      BY <2>2 DEF Shl
    <3>2. w - ws \in WordIndex
      BY <1>1, <1>w, <2>2 DEF WordIndex
    <3>3. b - bs \in BitIndex
      BY <1>1, <3>1, WordBitsAssumption DEF BitIndex
    <3>4. (w - ws) * WordBits + ws * WordBits = w * WordBits
      BY <1>1, <1>w, WordBitsAssumption
    <3>5. (w - ws) * WordBits + (b - bs) + shift = w * WordBits + b
      BY <1>1, <1>w, <3>4, WordBitsAssumption DEF BitIndex
    <3>6. QED
      BY <3>1, <3>2, <3>3, <3>5
  <2>3. CASE bs # 0 /\ w >= ws + 1 /\ b \in Shr(bits[w - ws - 1], WordBits - bs)
    <3>1. b + (WordBits - bs) \in bits[w - ws - 1]
      BY <2>3 DEF Shr
    <3>2. w - ws - 1 \in WordIndex
      BY <1>1, <1>w, <2>3 DEF WordIndex
    <3>3. b + (WordBits - bs) \in BitIndex
      BY <3>1, <3>2 DEF Bitmap
    <3>4. (w - ws - 1) * WordBits + ws * WordBits + WordBits = w * WordBits
      BY <1>1, <1>w, WordBitsAssumption
    <3>5. (w - ws - 1) * WordBits + (b + (WordBits - bs)) + shift = w * WordBits + b
      BY <1>1, <1>w, <3>4, WordBitsAssumption DEF BitIndex
    <3>6. QED
      BY <3>1, <3>2, <3>3, <3>5
  <2>4. QED
    BY <1>2, <1>3, <2>1, <2>2, <2>3
<1>4. ASSUME NEW v \in WordIndex, NEW c \in BitIndex, c \in bits[v],
             v * WordBits + c + shift = w * WordBits + b
      PROVE  b \in ShiftMap(bits, shift)[w]
  <2>v. v \in Nat
    BY DEF WordIndex
  <2>0. (v + ws) * WordBits = v * WordBits + ws * WordBits
    BY <1>1, <2>v, WordBitsAssumption
  <2>1. CASE c + bs < WordBits
    <3>1. c + bs \in BitIndex
      BY <1>1, <2>1, WordBitsAssumption DEF BitIndex
    <3>2. (v + ws) * WordBits + (c + bs) = w * WordBits + b
      BY <1>1, <1>4, <1>w, <2>v, <2>0, WordBitsAssumption DEF BitIndex
    <3>3. v + ws = w /\ c + bs = b
      BY <1>1, <1>w, <2>v, <3>1, <3>2, SplitUnique
    <3>4. w >= ws /\ w - ws = v /\ b >= bs /\ b - bs = c
      BY <1>1, <2>v, <3>3 DEF BitIndex
    <3>5. CASE bs = 0
      BY <1>1, <1>2, <1>4, <3>4, <3>5 DEF BitIndex
    <3>6. CASE bs # 0
      <4>1. b \in Shl(bits[w - ws], bs)
        BY <1>4, <3>4 DEF Shl
      <4>2. QED
        BY <1>2, <3>4, <3>6, <4>1
    <3>7. QED
      BY <3>5, <3>6
  <2>2. CASE c + bs >= WordBits
    <3>0. bs # 0
      BY <1>1, <2>2, WordBitsAssumption DEF BitIndex
    <3>1. c + bs - WordBits \in BitIndex
      BY <1>1, <2>2, WordBitsAssumption DEF BitIndex
    <3>2. (v + ws + 1) * WordBits = (v + ws) * WordBits + WordBits
      BY <1>1, <2>v, WordBitsAssumption
    <3>3. (v + ws + 1) * WordBits + (c + bs - WordBits) = w * WordBits + b
      BY <1>1, <1>4, <1>w, <2>v, <2>0, <3>2, WordBitsAssumption DEF BitIndex
    <3>4. v + ws + 1 = w /\ c + bs - WordBits = b
      BY <1>1, <1>w, <2>v, <3>1, <3>3, SplitUnique
    <3>5. w >= ws + 1 /\ w - ws - 1 = v /\ b + (WordBits - bs) = c
      BY <1>1, <2>v, <3>4, WordBitsAssumption DEF BitIndex
    <3>6. b \in Shr(bits[w - ws - 1], WordBits - bs)
      BY <1>4, <3>5 DEF Shr
    <3>7. QED
      BY <1>2, <3>0, <3>5, <3>6
  <2>3. QED
    BY <1>1, <2>1, <2>2, WordBitsAssumption DEF BitIndex
<1>5. QED
  BY <1>3, <1>4

-----------------------------------------------------------------------------
\* What a shifted or a blank map is: a map.
LEMMA ZeroBitsType == ZeroBits \in Bitmap
  BY DEF ZeroBits, Bitmap

LEMMA ShiftMapType ==
  ASSUME NEW bits \in Bitmap, NEW shift \in Nat
  PROVE  ShiftMap(bits, shift) \in Bitmap
<1> DEFINE ws == shift \div WordBits
<1>1. ws \in Nat
  BY DivMod
<1>2. ASSUME NEW i \in WordIndex, i >= ws PROVE i - ws \in WordIndex
  BY <1>1, <1>2, WordsPositive DEF WordIndex
<1>3. ASSUME NEW i \in WordIndex, i >= ws PROVE bits[i - ws] \subseteq BitIndex
  BY <1>2, <1>3 DEF Bitmap
<1>4. \A word, n : Shl(word, n) \subseteq BitIndex /\ Shr(word, n) \subseteq BitIndex
  BY DEF Shl, Shr
<1>5. QED
  BY <1>3, <1>4 DEF ShiftMap, Bitmap

\* The verdicts, in the terms of the code's tests.
LEMMA VerdictCases ==
  ASSUME NEW win, NEW seq
  PROVE  /\ Verdict(win, seq) \in {"ok", "dup", "old"}
         /\ Verdict(win, seq) = "old" <=>
              win.seen /\ ~(seq > win.high) /\ win.high - seq >= Width
         /\ Verdict(win, seq) = "dup" <=>
              /\ win.seen /\ ~(seq > win.high) /\ ~(win.high - seq >= Width)
              /\ BitSet(win.bits, win.high - seq)
  BY DEF Verdict

\* With an exact bitmap, the bit of a packet inside the window says whether
\* that packet was admitted.
LEMMA BitTells ==
  ASSUME NEW win, NEW A, Exact(win, A), win.seen,
         NEW seq \in Nat, seq <= win.high, win.high - seq < Width
  PROVE  BitSet(win.bits, win.high - seq) <=> seq \in A
<1> DEFINE back == win.high - seq
<1>1. win.high \in Nat
  BY DEF Exact, Window
<1>2. back \in 0 .. Width - 1
  BY <1>1, WordsPositive
<1>3. /\ back \div WordBits \in WordIndex
      /\ back % WordBits \in BitIndex
      /\ back = (back \div WordBits) * WordBits + (back % WordBits)
  BY <1>2, WidthHasIndex
<1>4. BitSet(win.bits, back) <=>
        win.high - ((back \div WordBits) * WordBits + (back % WordBits)) \in A
  BY <1>3 DEF Exact, ExactBits, BitSet
<1>5. win.high - back = seq
  BY <1>1
<1>6. QED
  BY <1>3, <1>4, <1>5

(***************************************************************************)
(* What the answers of accept() mean, when the window is exact: a packet   *)
(* that is admitted was not admitted before, one that is called a          *)
(* duplicate was, and one that is called old is Width or more behind a     *)
(* packet that was.                                                        *)
(***************************************************************************)
LEMMA OkIsFresh ==
  ASSUME NEW win, NEW A, Exact(win, A), NEW seq \in Nat, Verdict(win, seq) = "ok"
  PROVE  seq \notin A
<1>1. win.high \in Nat /\ Width \in Nat
  BY WordsPositive DEF Exact, Window
<1>2. CASE ~win.seen \/ seq > win.high
  BY <1>1, <1>2 DEF Exact
<1>3. CASE win.seen /\ ~(seq > win.high)
  <2>1. win.high - seq < Width /\ ~BitSet(win.bits, win.high - seq)
    BY <1>1, <1>3, VerdictCases
  <2>2. QED
    BY <1>1, <1>3, <2>1, BitTells
<1>4. QED
  BY <1>2, <1>3

LEMMA DupIsKnown ==
  ASSUME NEW win, NEW A, Exact(win, A), NEW seq \in Nat, Verdict(win, seq) = "dup"
  PROVE  seq \in A
<1>1. win.high \in Nat /\ Width \in Nat
  BY WordsPositive DEF Exact, Window
<1>2. /\ win.seen /\ seq <= win.high /\ win.high - seq < Width
      /\ BitSet(win.bits, win.high - seq)
  BY <1>1, VerdictCases
<1>3. QED
  BY <1>2, BitTells

LEMMA OldIsFar ==
  ASSUME NEW win, NEW A, Exact(win, A), NEW seq \in Nat
  PROVE  Verdict(win, seq) = "old" <=> \E a \in A : a - seq >= Width
<1>1. win.high \in Nat /\ Width \in Nat /\ Width >= 1 /\ \A a \in A : a \in Nat
  BY WordsPositive DEF Exact, Window
<1>2. CASE win.seen
  BY <1>1, <1>2, VerdictCases DEF Exact
<1>3. CASE ~win.seen
  BY <1>3, VerdictCases DEF Exact
<1>4. QED
  BY <1>2, <1>3

-----------------------------------------------------------------------------
(***************************************************************************)
(* The bitmap stays exact in the three ways accept() admits a packet.      *)
(***************************************************************************)
LEMMA FirstExact ==
  ASSUME NEW win, NEW A, Exact(win, A), ~win.seen, NEW seq \in Nat, NEW w \in WordIndex, NEW b \in BitIndex
  PROVE  b \in AcceptFirst(win, seq).bits[w] <=> seq - (w * WordBits + b) = seq
<1>1. win.bits = ZeroBits /\ win \in Window
  BY DEF Exact
<1>2. 0 \in WordIndex /\ seq \in Nat /\ w \in Nat /\ b \in Nat
  BY WordsPositive, WordBitsAssumption DEF WordIndex, BitIndex
<1>3. AcceptFirst(win, seq).bits[w] = IF w = 0 THEN {0} ELSE {}
  BY <1>1, <1>2 DEF AcceptFirst, Window, Bitmap, ZeroBits
<1>4. w * WordBits + b = 0 <=> w = 0 /\ b = 0
  <2>1. CASE w = 0
    BY <1>2, <2>1, WordBitsAssumption
  <2>2. CASE w # 0
    <3>1. 1 * WordBits <= w * WordBits
      BY <1>2, <2>2, WordsMonotone
    <3>2. QED
      BY <1>2, <2>2, <3>1, WordBitsAssumption
  <2>3. QED
    BY <2>1, <2>2
<1>5. w * WordBits + b \in Nat
  BY <1>2, WordBitsAssumption
<1>6. QED
  BY <1>2, <1>3, <1>4, <1>5

LEMMA AheadExact ==
  ASSUME NEW win, NEW A, Exact(win, A), win.seen, NEW seq \in Nat, seq > win.high,
         NEW w \in WordIndex, NEW b \in BitIndex
  PROVE  b \in AcceptAhead(win, seq).bits[w] <=>
           seq - (w * WordBits + b) \in A \cup {seq}
<1> DEFINE shift == seq - win.high
           moved == IF shift >= Width THEN ZeroBits ELSE ShiftMap(win.bits, shift)
           d     == w * WordBits + b
<1>1. /\ win.bits \in Bitmap /\ win.high \in Nat /\ seq \in Nat
      /\ shift \in Nat /\ shift > 0
  BY DEF Exact, Window
<1>2. d \in 0 .. Width - 1 /\ d \in Nat /\ 0 \in WordIndex /\ 0 \in BitIndex
  <2>1. d \in 0 .. Width - 1
    BY IndexInWidth
  <2>2. QED
    BY <2>1, WordsPositive, WordBitsAssumption DEF WordIndex, BitIndex
<1>3. d = 0 <=> w = 0 /\ b = 0
  <2>1. 0 * WordBits + 0 = 0
    BY WordBitsAssumption
  <2>2. w \in Int /\ (d = 0 => w * WordBits + b = 0 * WordBits + 0)
    BY <2>1 DEF WordIndex
  <2>3. d = 0 => w = 0 /\ b = 0
    BY <1>2, <2>2, SplitUnique
  <2>4. QED
    BY <2>1, <2>3
<1>4. moved \in Bitmap
  BY <1>1, ZeroBitsType, ShiftMapType
<1>5. b \in AcceptAhead(win, seq).bits[w] <=> b \in moved[w] \/ d = 0
  <2>1. AcceptAhead(win, seq).bits = [moved EXCEPT ![0] = @ \cup {0}]
    BY DEF AcceptAhead, Exact, Window
  <2> HIDE DEF moved
  <2>2. AcceptAhead(win, seq).bits[w] = IF w = 0 THEN moved[0] \cup {0} ELSE moved[w]
    BY <1>2, <1>4, <2>1 DEF Bitmap
  <2>3. QED
    BY <1>3, <2>2
<1>6. b \in moved[w] <=> seq - d \in A
  <2>0. \A s \in A : s \in Nat /\ s <= win.high
    BY DEF Exact
  <2>1. CASE shift >= Width
    <3>1. seq - d \notin A
      BY <1>1, <1>2, <2>0, <2>1, WordsPositive
    <3>2. QED
      BY <2>1, <3>1 DEF ZeroBits
  <2>2. CASE ~(shift >= Width)
    <3>1. b \in moved[w] <=>
            \E v \in WordIndex, c \in BitIndex :
               c \in win.bits[v] /\ v * WordBits + c + shift = d
      BY <1>1, <2>2, ShiftAdds
    <3>2. ASSUME NEW v \in WordIndex, NEW c \in BitIndex, c \in win.bits[v],
                 v * WordBits + c + shift = d
          PROVE  seq - d \in A
      <4>1. win.high - (v * WordBits + c) \in A
        BY <3>2 DEF Exact, ExactBits
      <4>2. v * WordBits + c \in 0 .. Width - 1
        BY IndexInWidth
      <4>3. win.high - (v * WordBits + c) = seq - d
        BY <1>1, <1>2, <3>2, <4>2
      <4>4. QED
        BY <4>1, <4>3
    <3>3. ASSUME seq - d \in A
          PROVE  \E v \in WordIndex, c \in BitIndex :
                   c \in win.bits[v] /\ v * WordBits + c + shift = d
      <4> DEFINE e == d - shift
                 v == e \div WordBits
                 c == e % WordBits
      <4>1. e \in 0 .. Width - 1
        BY <1>1, <1>2, <2>0, <3>3, WordsPositive
      <4>2. v \in WordIndex /\ c \in BitIndex /\ e = v * WordBits + c
        BY <4>1, WidthHasIndex
      <4>3. win.high - e = seq - d
        BY <1>1, <1>2
      <4>4. c \in win.bits[v] <=> win.high - (v * WordBits + c) \in A
        BY <4>2 DEF Exact, ExactBits
      <4>5. c \in win.bits[v]
        BY <3>3, <4>2, <4>3, <4>4
      <4>6. v * WordBits + c + shift = d
        BY <1>1, <1>2, <4>2
      <4>7. QED
        BY <4>2, <4>5, <4>6
    <3>4. QED
      BY <3>1, <3>2, <3>3
  <2>3. QED
    BY <2>1, <2>2
<1>7. seq - d = seq <=> d = 0
  BY <1>1, <1>2
<1>8. QED
  BY <1>5, <1>6, <1>7

LEMMA InsideExact ==
  ASSUME NEW win, NEW A, Exact(win, A), win.seen, NEW seq \in Nat, seq <= win.high, win.high - seq < Width,
         NEW w \in WordIndex, NEW b \in BitIndex
  PROVE  b \in AcceptInside(win, seq).bits[w] <=>
           win.high - (w * WordBits + b) \in A \cup {seq}
<1> DEFINE back == win.high - seq
           v == back \div WordBits
           c == back % WordBits
           d == w * WordBits + b
<1>1. win.bits \in Bitmap /\ win.high \in Nat /\ seq \in Nat
  BY DEF Exact, Window
<1>2. back \in 0 .. Width - 1
  BY <1>1, WordsPositive
<1>3. v \in WordIndex /\ c \in BitIndex /\ back = v * WordBits + c
  BY <1>2, WidthHasIndex
<1>4. AcceptInside(win, seq).bits = [win.bits EXCEPT ![v] = @ \cup {c}]
  BY DEF AcceptInside, Exact, Window
<1> HIDE DEF v, c
<1>5. b \in AcceptInside(win, seq).bits[w] <=> b \in win.bits[w] \/ (w = v /\ b = c)
  BY <1>1, <1>3, <1>4 DEF Bitmap
<1>6. b \in win.bits[w] <=> win.high - d \in A
  BY DEF Exact, ExactBits
<1>7. d = back <=> w = v /\ b = c
  <2>1. v \in Int /\ w \in Int
    BY <1>3 DEF WordIndex
  <2>2. QED
    BY <1>3, <2>1, SplitUnique
<1>8. d \in 0 .. Width - 1
  BY IndexInWidth
<1>9. win.high - d = seq <=> d = back
  BY <1>1, <1>8
<1>10. QED
  BY <1>5, <1>6, <1>7, <1>9

-----------------------------------------------------------------------------
\* accept() returns a window.
LEMMA AcceptType ==
  ASSUME NEW win \in Window, NEW seq \in Nat
  PROVE  Accept(win, seq) \in Window
<1>1. /\ seq \in Nat /\ win.high \in Nat /\ win.bits \in Bitmap
      /\ 0 \in WordIndex /\ 0 \in BitIndex /\ Width \in Nat
  BY WordsPositive, WordBitsAssumption
     DEF Window, WordIndex, BitIndex
<1>2. CASE ~win.seen
  BY <1>1, <1>2 DEF Accept, AcceptFirst, Window, Bitmap
<1>3. CASE win.seen /\ seq > win.high
  <2> DEFINE moved == IF seq - win.high >= Width THEN ZeroBits
                      ELSE ShiftMap(win.bits, seq - win.high)
  <2>1. seq - win.high \in Nat
    BY <1>1, <1>3
  <2>2. moved \in Bitmap
    BY <1>1, <2>1, ZeroBitsType, ShiftMapType
  <2>3. Accept(win, seq) =
          [win EXCEPT !.high = seq, !.bits = [moved EXCEPT ![0] = @ \cup {0}]]
    BY <1>3 DEF Accept, AcceptAhead
  <2> HIDE DEF moved
  <2>4. [moved EXCEPT ![0] = @ \cup {0}] \in Bitmap
    BY <1>1, <2>2 DEF Bitmap
  <2>5. QED
    BY <1>1, <2>3, <2>4 DEF Window
<1>4. CASE win.seen /\ ~(seq > win.high) /\ Verdict(win, seq) \in {"old", "dup"}
  BY <1>4 DEF Accept, Window
<1>5. CASE win.seen /\ ~(seq > win.high) /\ Verdict(win, seq) = "ok"
  <2> DEFINE v == (win.high - seq) \div WordBits
             c == (win.high - seq) % WordBits
  <2>1. win.high - seq \in 0 .. Width - 1
    BY <1>1, <1>5, VerdictCases
  <2>2. v \in WordIndex /\ c \in BitIndex
    BY <2>1, WidthHasIndex
  <2>3. Accept(win, seq) = [win EXCEPT !.bits[v] = @ \cup {c}]
    BY <1>5 DEF Accept, AcceptInside
  <2> HIDE DEF v, c
  <2>4. QED
    BY <1>1, <2>2, <2>3 DEF Window, Bitmap
<1>6. QED
  BY <1>2, <1>3, <1>4, <1>5, VerdictCases

(***************************************************************************)
(* One call of accept() keeps the window exact: for the packets admitted   *)
(* before it and, when the answer is yes, the packet it was asked about.   *)
(***************************************************************************)
LEMMA AcceptExact ==
  ASSUME NEW win, NEW A, Exact(win, A), NEW seq \in Nat
  PROVE  Exact(Accept(win, seq), IF Verdict(win, seq) = "ok" THEN A \cup {seq} ELSE A)
<1> DEFINE next == Accept(win, seq)
<1>0. /\ win \in Window /\ win.high \in Nat /\ win.bits \in Bitmap
      /\ A \in SUBSET Nat /\ Width \in Nat /\ next \in Window
  BY WordsPositive, AcceptType DEF Exact, Window
<1>1. CASE ~win.seen
  <2>1. Verdict(win, seq) = "ok" /\ next = AcceptFirst(win, seq)
    BY <1>1 DEF Verdict, Accept
  <2>2. next.seen /\ next.high = seq
    BY <1>0, <2>1 DEF AcceptFirst, Window
  <2>3. A \cup {seq} = {seq}
    BY <1>1 DEF Exact
  <2>4. ExactBits(next, {seq})
    BY <1>1, <2>1, <2>2, FirstExact DEF ExactBits
  <2>5. QED
    BY <1>0, <2>1, <2>2, <2>3, <2>4 DEF Exact
<1>2. CASE win.seen /\ seq > win.high
  <2>1. Verdict(win, seq) = "ok" /\ next = AcceptAhead(win, seq)
    BY <1>2 DEF Verdict, Accept
  <2>2. next.seen /\ next.high = seq
    BY <1>0, <1>2, <2>1 DEF AcceptAhead, Window
  <2>3. ExactBits(next, A \cup {seq})
    BY <1>2, <2>1, <2>2, AheadExact DEF ExactBits
  <2>4. \A s \in A : s \in Nat /\ s <= win.high
    BY <1>2 DEF Exact
  <2>5. QED
    BY <1>0, <1>2, <2>1, <2>2, <2>3, <2>4 DEF Exact
<1>3. CASE win.seen /\ ~(seq > win.high) /\ Verdict(win, seq) \in {"old", "dup"}
  <2>1. next.seen = win.seen /\ next.high = win.high /\ next.bits = win.bits
    BY <1>0, <1>3 DEF Accept, Window
  <2>2. QED
    BY <1>0, <1>3, <2>1 DEF Exact, ExactBits
<1>4. CASE win.seen /\ ~(seq > win.high) /\ Verdict(win, seq) = "ok"
  <2>1. next = AcceptInside(win, seq)
    BY <1>4 DEF Accept
  <2>2. next.seen /\ next.high = win.high
    BY <1>0, <1>4, <2>1 DEF AcceptInside, Window
  <2>3. seq <= win.high /\ win.high - seq < Width
    BY <1>0, <1>4, VerdictCases
  <2>4. ExactBits(next, A \cup {seq})
    BY <1>4, <2>1, <2>2, <2>3, InsideExact DEF ExactBits
  <2>5. QED
    BY <1>0, <1>4, <2>2, <2>3, <2>4 DEF Exact
<1>5. QED
  BY <1>1, <1>2, <1>3, <1>4, VerdictCases

\* The window of the constructor and of reset() is exact for no packets.
LEMMA NewIsExact == Exact(NewWindow, {})
  BY ZeroBitsType DEF Exact, NewWindow, Window
-----------------------------------------------------------------------------
\* What HKDF and the zero bytes give is material, and a chain stays one.
LEMMA MaterialType ==
  ASSUME NEW S, NEW chain \in Chains(S), NEW e \in Epochs
  PROVE  /\ Hkdf(chain, e) \in Materials(S)
         /\ ZeroMaterial \in Materials(S)
         /\ Append(chain, e) \in Chains(S)
<1>1. 0 \in Epochs
  BY EpochModAssumption DEF Epochs
<1>2. <<>> \in Chains(S)
  BY DEF Chains
<1>3. Append(chain, e) \in Chains(S)
  BY DEF Chains
<1>4. QED
  BY <1>1, <1>2, <1>3 DEF Hkdf, ZeroMaterial, Materials

\* The epoch a sequence number calls for is an epoch number.
LEMMA WantedType ==
  ASSUME NEW p \in Nat \ {0}, NEW s \in Nat, NEW k, k.perEpoch = p
  PROVE  WantedEpoch(k, s) \in Epochs
<1>1. s \div p \in Nat
  BY SMT
<1>2. (s \div p) % EpochMod \in 0 .. EpochMod - 1
  BY <1>1, EpochModAssumption
<1>3. QED
  BY <1>2 DEF WantedEpoch, Epochs

(***************************************************************************)
(* What derive(e) does to a well-typed schedule, field by field.           *)
(***************************************************************************)
LEMMA DeriveFields ==
  ASSUME NEW S, NEW P, NEW k \in Schedules(S, P), NEW e \in Epochs,
         NEW hk \in HkdfCalls
  PROVE  LET d == Derive(k, e, hk)
         IN  /\ d \in Schedules(S, P)
             /\ d.perEpoch = k.perEpoch /\ d.epoch = k.epoch /\ d.rekeys = k.rekeys
             /\ d.aead[1] = k.aead[0] /\ d.salt[1] = k.salt[0] /\ d.tag[1] = k.tag[0]
             /\ d.aead[0] = d.salt[0] /\ d.aead[0] \in Materials(S) /\ d.tag[0] = e
             /\ hk.traffic => d.aead[0] = Hkdf(k.chain, e)
             /\ hk.ratchet => d.chain = Append(k.chain, e)
<1> DEFINE material == IF hk.traffic THEN Hkdf(k.chain, e) ELSE ZeroMaterial
           d == Derive(k, e, hk)
<1>1. k.chain \in Chains(S)
  BY DEF Schedules
<1>2. material \in Materials(S)
  BY <1>1, MaterialType
<1>3. Append(k.chain, e) \in Chains(S)
  BY <1>1, MaterialType
<1>4. /\ d.perEpoch = k.perEpoch /\ d.epoch = k.epoch /\ d.rekeys = k.rekeys
      /\ d.aead = [i \in Slots |-> IF i = 0 THEN material ELSE k.aead[0]]
      /\ d.salt = [i \in Slots |-> IF i = 0 THEN material ELSE k.salt[0]]
      /\ d.tag  = [i \in Slots |-> IF i = 0 THEN e ELSE k.tag[0]]
      /\ d.chain = IF hk.ratchet THEN Append(k.chain, e) ELSE k.chain
  BY DEF Derive, Schedules
<1>5. 0 \in Slots /\ 1 \in Slots
  BY DEF Slots
<1>6. d.aead \in [Slots -> Materials(S) \cup {NoKey}]
  BY <1>2, <1>4, <1>5 DEF Schedules
<1>7. d.salt \in [Slots -> Materials(S)]
  BY <1>2, <1>4, <1>5 DEF Schedules
<1>8. d.tag \in [Slots -> Epochs]
  BY <1>4, <1>5 DEF Schedules
<1>9. d.chain \in Chains(S)
  BY <1>1, <1>3, <1>4
<1>10. d \in Schedules(S, P)
  <2> DEFINE A == d.aead
             Z == d.salt
             T == d.tag
             C == d.chain
  <2>1. d = [k EXCEPT !.aead = A, !.salt = Z, !.tag = T, !.chain = C]
    BY <1>4 DEF Derive
  <2>2. /\ A \in [Slots -> Materials(S) \cup {NoKey}] /\ Z \in [Slots -> Materials(S)]
        /\ T \in [Slots -> Epochs] /\ C \in Chains(S)
    BY <1>6, <1>7, <1>8, <1>9
  <2> HIDE DEF A, Z, T, C
  <2>3. [k EXCEPT !.aead = A, !.salt = Z, !.tag = T, !.chain = C] \in Schedules(S, P)
    BY <2>2 DEF Schedules
  <2>4. QED
    BY <2>1, <2>3
<1>11. QED
  BY <1>2, <1>4, <1>5, <1>10

(***************************************************************************)
(* The slots of a schedule are aligned: slot 0 is the epoch of the         *)
(* schedule and is never empty, a filled slot holds the salt of its own    *)
(* key, and the tags of two filled slots differ.                           *)
(***************************************************************************)
Aligned(k) ==
  /\ k.tag[0] = k.epoch
  /\ k.aead[0] # NoKey /\ k.salt[0] = k.aead[0]
  /\ k.aead[1] # NoKey => k.salt[1] = k.aead[1] /\ k.tag[1] # k.tag[0]

\* The constructor leaves a well-typed schedule of epoch 0 with one key.
LEMMA NewFields ==
  ASSUME NEW S, NEW P, NEW secret \in S, NEW period \in P, NEW hk \in HkdfCalls
  PROVE  LET n == NewKeySchedule(secret, period, hk)
         IN  /\ n \in Schedules(S, P)
             /\ n.perEpoch = period /\ n.epoch = 0 /\ n.tag[0] = 0
             /\ n.aead[0] \in Materials(S) /\ n.salt[0] = n.aead[0]
             /\ n.aead[1] = NoKey
             /\ hk.traffic /\ hk.ratchet => Len(n.aead[0].chain) < Len(n.chain)
<1> DEFINE b == BlankSchedule(secret, period)
           d == Derive(b, 0, hk)
           n == NewKeySchedule(secret, period, hk)
<1>1. 0 \in Epochs
  BY EpochModAssumption DEF Epochs
<1>2. <<secret>> \in Chains(S)
  BY DEF Chains
<1>3. ZeroMaterial \in Materials(S)
  BY <1>1, <1>2, MaterialType
<1>4. b \in Schedules(S, P)
  BY <1>1, <1>2, <1>3 DEF BlankSchedule, Schedules
<1>5. /\ d \in Schedules(S, P) /\ d.epoch = 0 /\ d.perEpoch = period
      /\ d.aead[0] = d.salt[0] /\ d.aead[0] \in Materials(S) /\ d.tag[0] = 0
      /\ hk.traffic => d.aead[0] = Hkdf(<<secret>>, 0)
      /\ hk.ratchet => d.chain = Append(<<secret>>, 0)
  <2> DEFINE c == <<secret>>
  <2>1. b.epoch = 0 /\ b.chain = c /\ b.perEpoch = period
    BY DEF BlankSchedule
  <2> HIDE DEF b, c
  <2>2. /\ d \in Schedules(S, P) /\ d.epoch = b.epoch /\ d.perEpoch = b.perEpoch
        /\ d.aead[0] = d.salt[0] /\ d.aead[0] \in Materials(S) /\ d.tag[0] = 0
        /\ hk.traffic => d.aead[0] = Hkdf(b.chain, 0)
        /\ hk.ratchet => d.chain = Append(b.chain, 0)
    BY <1>1, <1>4, DeriveFields
  <2>3. /\ hk.traffic => d.aead[0] = Hkdf(c, 0)
        /\ hk.ratchet => d.chain = Append(c, 0)
    BY <2>1, <2>2
  <2>4. QED
    BY <2>1, <2>2, <2>3 DEF c
<1>6. 0 \in Slots /\ 1 \in Slots /\ 0 # 1
  BY DEF Slots
<1> DEFINE A == [d.aead EXCEPT ![1] = NoKey]
           T == [d.tag EXCEPT ![1] = 0]
<1>7. n = [d EXCEPT !.aead = A, !.tag = T]
  BY DEF NewKeySchedule
<1>8. A \in [Slots -> Materials(S) \cup {NoKey}] /\ T \in [Slots -> Epochs]
  BY <1>1, <1>5, <1>6 DEF Schedules
<1>9. /\ n.epoch = d.epoch /\ n.salt = d.salt /\ n.chain = d.chain
      /\ n.aead = A /\ n.tag = T /\ n.perEpoch = d.perEpoch
      /\ n \in Schedules(S, P)
  <2> HIDE DEF d, n, A, T
  <2>1. QED
    BY <1>5, <1>7, <1>8 DEF Schedules
<1>10. n.aead[0] = d.aead[0] /\ n.aead[1] = NoKey /\ n.tag[0] = d.tag[0]
  BY <1>5, <1>6, <1>9 DEF Schedules
<1>11. hk.traffic /\ hk.ratchet => Len(n.aead[0].chain) < Len(n.chain)
  BY <1>5, <1>9, <1>10, <1>1 DEF Hkdf
<1>12. QED
  BY <1>5, <1>9, <1>10, <1>11

(***************************************************************************)
(* What a rekey does to a schedule whose slots are aligned.                *)
(***************************************************************************)
LEMMA RekeyFields ==
  ASSUME NEW S, NEW P \in SUBSET Nat, NEW k \in Schedules(S, P), Aligned(k),
         NEW s \in Nat, NEW hk \in HkdfCalls, NeedsRekey(k, s)
  PROVE  LET n == MaybeRekey(k, s, hk)
         IN  /\ n \in Schedules(S, P) /\ n.perEpoch = k.perEpoch
             /\ n.epoch = WantedEpoch(k, s) /\ n.epoch # k.epoch /\ n.tag[0] = n.epoch
             /\ n.aead[0] \in Materials(S) /\ n.salt[0] = n.aead[0]
             /\ n.aead[1] = k.aead[0] /\ n.salt[1] = k.aead[0]
             /\ n.tag[1] = k.epoch
             /\ hk.traffic => n.aead[0].chain = k.chain
             /\ hk.ratchet => Len(n.chain) = Len(k.chain) + 1
<1> DEFINE e == WantedEpoch(k, s)
           r == k.rekeys + 1
           m == [k EXCEPT !.epoch = e, !.rekeys = r]
           n == MaybeRekey(k, s, hk)
<1>1. k.perEpoch \in Nat \ {0} /\ e # k.epoch
  <2>1. k.perEpoch \in Nat
    BY DEF Schedules
  <2>2. QED
    BY <2>1 DEF NeedsRekey
<1>2. e \in Epochs
  BY <1>1, WantedType
<1> HIDE DEF e
<1>3. m \in Schedules(S, P)
  <2>1. r \in Nat
    BY DEF Schedules
  <2> HIDE DEF r
  <2>2. QED
    BY <1>2, <2>1 DEF Schedules
<1>4. /\ m.epoch = e /\ m.chain = k.chain /\ m.aead = k.aead
      /\ m.salt = k.salt /\ m.tag = k.tag /\ m.perEpoch = k.perEpoch
  BY DEF Schedules
<1>5. n = Derive(m, e, hk)
  BY DEF MaybeRekey, e
<1> HIDE DEF m, n
<1>6. /\ n \in Schedules(S, P) /\ n.epoch = e /\ n.perEpoch = k.perEpoch
      /\ n.aead[1] = k.aead[0] /\ n.salt[1] = k.salt[0] /\ n.tag[1] = k.tag[0]
      /\ n.aead[0] = n.salt[0] /\ n.aead[0] \in Materials(S) /\ n.tag[0] = e
      /\ hk.traffic => n.aead[0] = Hkdf(k.chain, e)
      /\ hk.ratchet => n.chain = Append(k.chain, e)
  BY <1>2, <1>3, <1>4, <1>5, DeriveFields, SMTT(40)
<1>7. hk.ratchet => Len(n.chain) = Len(k.chain) + 1
  BY <1>2, <1>6 DEF Schedules, Chains
<1>8. QED
  BY <1>1, <1>6, <1>7 DEF Aligned, Hkdf, e, n

\* A call that does not rekey leaves the schedule alone.
LEMMA NoRekey ==
  ASSUME NEW k, NEW s, NEW hk, ~NeedsRekey(k, s)
  PROVE  MaybeRekey(k, s, hk) = k
  BY DEF MaybeRekey

\* maybe_rekey() keeps a schedule well typed and its slots aligned.
LEMMA MaybeRekeyAligned ==
  ASSUME NEW S, NEW P \in SUBSET Nat, NEW k \in Schedules(S, P), Aligned(k),
         NoKey \notin Materials(S), NEW s \in Nat, NEW hk \in HkdfCalls
  PROVE  /\ MaybeRekey(k, s, hk) \in Schedules(S, P)
         /\ MaybeRekey(k, s, hk).perEpoch = k.perEpoch
         /\ Aligned(MaybeRekey(k, s, hk))
<1>1. CASE NeedsRekey(k, s)
  BY <1>1, RekeyFields DEF Aligned
<1>2. CASE ~NeedsRekey(k, s)
  BY <1>2, NoRekey
<1>3. QED
  BY <1>1, <1>2

\* With its slots aligned, nonce() takes the salt that belongs to the cipher
\* for_epoch() returns.
LEMMA SaltOfKey ==
  ASSUME NEW k, Aligned(k), NEW e, ForEpoch(k, e) # NoKey
  PROVE  NonceSalt(k, e) = ForEpoch(k, e)
  BY DEF Aligned, ForEpoch, NonceSalt

\* What a schedule answers is of its type.
LEMMA AnswerTypes ==
  ASSUME NEW S, NEW P, NEW k \in Schedules(S, P), NEW e
  PROVE  /\ ForEpoch(k, e) \in Materials(S) \cup {NoKey}
         /\ NonceSalt(k, e) \in Materials(S)
<1>1. /\ k.aead[0] \in Materials(S) \cup {NoKey} /\ k.aead[1] \in Materials(S) \cup {NoKey}
      /\ k.salt[0] \in Materials(S) /\ k.salt[1] \in Materials(S)
  BY DEF Schedules, Slots
<1>2. QED
  BY <1>1 DEF ForEpoch, NonceSalt
=============================================================================
