------------------------------- MODULE Format -------------------------------
(***************************************************************************)
(* The conversions of c_printf (c_io.c): an argument becomes a sequence of *)
(* glyphs.  The width of an integer is a parameter; 8 bits have the        *)
(* remainders that matter in 32, two bits above groups of three and a      *)
(* least value that ends in 8.                                             *)
(***************************************************************************)
EXTENDS Integers, Sequences, FiniteSetsExt

CONSTANT Bits    \* of an int, 32 in the code

ASSUME FormatAssumption == Bits \in Nat /\ Bits % 4 = 0 /\ Bits % 3 = 2

Power2[n \in 0 .. Bits] == IF n = 0 THEN 1 ELSE 2 * Power2[n - 1]

MinInt == -Power2[Bits - 1]
MaxInt == Power2[Bits - 1] - 1

HexDigits == <<"0", "1", "2", "3", "4", "5", "6", "7",
               "8", "9", "A", "B", "C", "D", "E", "F">>
Glyph(n)  == HexDigits[n + 1]

(* cvtdec0 for a number that is not negative.                              *)
Dec0[v \in 0 .. MaxInt] ==
  IF v \div 10 = 0 THEN <<Glyph(v % 10)>> ELSE Append(Dec0[v \div 10], Glyph(v % 10))

(* Mutant: the least number is not treated apart; negating it had no       *)
(* effect, and its digits come out wrong.                                  *)
CvtMagnitudeNaive(v) == IF v = MinInt THEN <<"8">> ELSE Dec0[IF v < 0 THEN -v ELSE v]

(* cvtdec0 after the negation, which leaves the least number as it is: its *)
(* quotient is negative, and known.                                        *)
CvtMagnitude(v) ==
  IF v = MinInt THEN Append(Dec0[Power2[Bits - 1] \div 10], Glyph(8))
  ELSE Dec0[IF v < 0 THEN -v ELSE v]

CvtDec(v) == (IF v < 0 THEN <<"-">> ELSE <<>>) \o CvtMagnitude(v)

(* Digits from the first that is not zero on, at least one.                *)
Stored(digits) ==
  LET n == Len(digits)
      first == Min({i \in 1 .. n : digits[i] # 0} \cup {n})
  IN  [i \in 1 .. n - first + 1 |-> Glyph(digits[first + i - 1])]

(* Bits hi to hi - k + 1 of v, with zeros below bit 0.                     *)
Group(v, hi, k) ==
  (((v % Power2[Bits]) * Power2[k]) \div Power2[hi + 1]) % Power2[k]

CvtHex(v) == Stored([i \in 1 .. Bits \div 4 |-> Group(v, Bits - 1 - 4 * (i - 1), 4)])

(* cvtoct: the first group is the two highest bits, sign included, but the *)
(* number is then shifted by three, so that every later group starts one   *)
(* bit too low.                                                            *)
CvtOct(v) ==
  LET top == Group(v, Bits - 1, 2)
  IN  Stored([i \in 1 .. (Bits + 1) \div 3 |->
                IF i = 1 THEN IF top >= 2 THEN top + 4 ELSE top
                ELSE Group(v, Bits - 1 - 3 * (i - 1), 3)])

----------------------------------------------------------------------------

(* A conversion: its code and flags, and the argument it takes, a number   *)
(* or a text.                                                              *)
Directive(conv, left, zero, width, num, text) ==
  [conv |-> conv, left |-> left, zero |-> zero, width |-> width, num |-> num, text |-> text]

Converted(d) ==
  CASE d.conv = "d" -> CvtDec(d.num)
    [] d.conv = "x" -> CvtHex(d.num)
    [] d.conv = "o" -> CvtOct(d.num)
    [] d.conv \in {"c", "s"} -> d.text

Fill(d, n) == [i \in 1 .. n |-> IF d.zero THEN "0" ELSE "blank"]

(* padstr: the field is filled on one side.                                *)
Padded(d, text) ==
  LET extra == d.width - Len(text) IN
  IF extra <= 0 THEN text
  ELSE IF d.left THEN text \o Fill(d, extra) ELSE Fill(d, extra) \o text

(* One directive of __c_do_printf; an unknown code prints nothing.         *)
Formatted(d) == IF d.conv \in {"c", "s", "d", "x", "o"} THEN Padded(d, Converted(d)) ELSE <<>>

----------------------------------------------------------------------------
(* Reference.                                                              *)

(* The digit that a glyph stands for.                                      *)
DigitOf(g) == CHOOSE n \in 0 .. 15 : Glyph(n) = g

(* The numbers that the beginnings of a text stand for.                    *)
Values(text, base) ==
  LET value[i \in 0 .. Len(text)] ==
        IF i = 0 THEN 0 ELSE base * value[i - 1] + DigitOf(text[i])
  IN value

(* The text is the numeral of v: digits that stand for it, with no zero in *)
(* front.                                                                  *)
IsNumeral(text, v, base) ==
  /\ Len(text) > 0 /\ \A i \in 1 .. Len(text) : text[i] \in {Glyph(n) : n \in 0 .. base - 1}
  /\ Len(text) > 1 => text[1] # Glyph(0)
  /\ Values(text, base)[Len(text)] = v

Renders(d, text) ==
  CASE d.conv = "d" /\ d.num >= 0 -> IsNumeral(text, d.num, 10)
    [] d.conv = "d" /\ d.num < 0  -> Len(text) > 0 /\ text[1] = "-" /\ IsNumeral(Tail(text), -d.num, 10)
    [] d.conv = "x" -> IsNumeral(text, d.num % Power2[Bits], 16)
    [] d.conv = "o" -> IsNumeral(text, d.num % Power2[Bits], 8)
    [] d.conv \in {"c", "s"} -> text = d.text
    [] OTHER -> text = <<>>

(* The text of a field: what renders the argument, and filling up to the   *)
(* width on the side away from it.                                         *)
IsField(d, text) ==
  \E n \in 0 .. Len(text) :
    LET off == IF d.left THEN 0 ELSE Len(text) - n
    IN  /\ Renders(d, SubSeq(text, off + 1, off + n))
        /\ \A i \in 1 .. Len(text) :
             i \notin off + 1 .. off + n => text[i] = IF d.zero THEN "0" ELSE "blank"
        /\ Len(text) = IF n < d.width THEN d.width ELSE n
=============================================================================
