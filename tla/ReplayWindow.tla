---------------------------- MODULE ReplayWindow ----------------------------
(***************************************************************************)
(* The anti-replay window of the data plane: lr::proto::ReplayWindow.      *)
(*                                                                         *)
(* A window object is a record.  Its bitmap is an array of machine words,  *)
(* as in the code, and a word is the set of its bit positions that are 1.  *)
(* Bit b of word w stands for the packet high - (w * WordBits + b).  The   *)
(* code has 64-bit words; the word size is a parameter here, so that the   *)
(* carries between words happen in small instances.                        *)
(***************************************************************************)
EXTENDS Integers

CONSTANTS
  WordBits,   \* bits in one word of the bitmap (64 in the code)
  WidthBits   \* the width the constructor is asked for (1024 in the code)

ASSUME WordBitsAssumption == WordBits \in Nat \ {0}
ASSUME WidthBitsAssumption == WidthBits \in Nat

\* The constructor rounds the width up to whole words, one at the least.
Words == ((IF WidthBits < WordBits THEN WordBits ELSE WidthBits) + WordBits - 1)
           \div WordBits

Width == Words * WordBits

BitIndex  == 0 .. WordBits - 1
WordIndex == 0 .. Words - 1

Bitmap == [WordIndex -> SUBSET BitIndex]

Window == [seen : BOOLEAN, high : Nat, bits : Bitmap, dup : Nat, old : Nat]

ZeroBits == [w \in WordIndex |-> {}]

\* The state the constructor and reset() leave.
NewWindow ==
  [seen |-> FALSE, high |-> 0, bits |-> ZeroBits, dup |-> 0, old |-> 0]

-----------------------------------------------------------------------------
\* The shifts of one word; what leaves the word on either side is lost.
Shl(word, n) == {b \in BitIndex : b >= n /\ b - n \in word}
Shr(word, n) == {b \in BitIndex : b + n \in word}

\* Mutant: the bits that cross from one word into the next are lost.
ShiftMap_LosesCarry(bits, shift) ==
  LET ws == shift \div WordBits
      bs == shift % WordBits
  IN  [i \in WordIndex |-> IF i >= ws THEN Shl(bits[i - ws], bs) ELSE {}]

\* Mutant: a gap of whole words leaves the words it vacates as they were.
ShiftMap_KeepsVacated(bits, shift) ==
  LET ws == shift \div WordBits
      bs == shift % WordBits
  IN  IF bs = 0
      THEN [i \in WordIndex |-> IF i >= ws THEN bits[i - ws] ELSE bits[i]]
      ELSE [i \in WordIndex |->
              (IF i >= ws THEN Shl(bits[i - ws], bs) ELSE {})
                \cup (IF i >= ws + 1
                      THEN Shr(bits[i - ws - 1], WordBits - bs) ELSE {})]

(***************************************************************************)
(* The whole map shifted towards older packets.  The code's loops run from *)
(* the last word to the first, so every word is read before it is          *)
(* overwritten: the result is a function of the old map.  The case of a    *)
(* whole number of words is apart because a word shifted right by its own  *)
(* size is undefined in C++.                                               *)
(***************************************************************************)
ShiftMap(bits, shift) ==
  LET ws == shift \div WordBits
      bs == shift % WordBits
  IN  IF bs = 0
      THEN [i \in WordIndex |-> IF i >= ws THEN bits[i - ws] ELSE {}]
      ELSE [i \in WordIndex |->
              (IF i >= ws THEN Shl(bits[i - ws], bs) ELSE {})
                \cup (IF i >= ws + 1
                      THEN Shr(bits[i - ws - 1], WordBits - bs) ELSE {})]

BitSet(bits, back) == back % WordBits \in bits[back \div WordBits]

-----------------------------------------------------------------------------
\* Mutant: the far edge of the window is off by one.
Verdict_EdgeOffByOne(win, seq) ==
  IF ~win.seen \/ seq > win.high THEN "ok"
  ELSE IF win.high - seq > Width - 2 THEN "old"
  ELSE IF BitSet(win.bits, win.high - seq) THEN "dup"
  ELSE "ok"

(***************************************************************************)
(* accept(seq).  Verdict is what the call answers: true for "ok", false    *)
(* for the two reasons of a drop.  Accept is the object after the call.    *)
(***************************************************************************)
Verdict(win, seq) ==
  IF ~win.seen \/ seq > win.high THEN "ok"
  ELSE IF win.high - seq >= Width THEN "old"
  ELSE IF BitSet(win.bits, win.high - seq) THEN "dup"
  ELSE "ok"

AcceptFirst(win, seq) ==
  [win EXCEPT !.seen = TRUE, !.high = seq, !.bits[0] = {0}]

\* A packet ahead of the window: the map moves and bit 0 is the new packet.
AcceptAhead(win, seq) ==
  LET moved == IF seq - win.high >= Width THEN ZeroBits
               ELSE ShiftMap(win.bits, seq - win.high)
  IN  [win EXCEPT !.high = seq, !.bits = [moved EXCEPT ![0] = @ \cup {0}]]

\* A packet inside the window that has not been seen.
AcceptInside(win, seq) ==
  LET back == win.high - seq
  IN  [win EXCEPT !.bits[back \div WordBits] = @ \cup {back % WordBits}]

Accept(win, seq) ==
  IF ~win.seen THEN AcceptFirst(win, seq)
  ELSE IF seq > win.high THEN AcceptAhead(win, seq)
  ELSE CASE Verdict(win, seq) = "old" -> [win EXCEPT !.old = @ + 1]
         [] Verdict(win, seq) = "dup" -> [win EXCEPT !.dup = @ + 1]
         [] OTHER -> AcceptInside(win, seq)
=============================================================================
