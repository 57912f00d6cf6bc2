------------------------------ MODULE Numerals ------------------------------
(***************************************************************************)
(* Numbers as text (lib/siot-string.c).  A text is a sequence of           *)
(* characters.  An int is a word.  A float is a binary fraction, written   *)
(* as a multiple of its smallest step; each operation rounds to as many    *)
(* bits as a float has.  Floats beyond an int are left out.                *)
(***************************************************************************)
EXTENDS Integers, Sequences, SequencesExt, FiniteSetsExt

CONSTANTS
  Half,          \* an int is at least -Half and less than Half
  Mantissa,      \* significant bits of a float
  FractionBits,  \* bits after the point of the smallest float
  Precision      \* decimals that are printed

ASSUME NumeralsAssumption ==
  /\ Half \in Nat \ {0}
  /\ Mantissa \in Nat \ {0} /\ FractionBits \in Nat /\ Precision \in Nat

Ints == (-Half)..(Half - 1)
Wrap(n) == ((n + Half) % (2 * Half)) - Half
Magnitude(n) == IF n < 0 THEN -n ELSE n

Digits == <<"0", "1", "2", "3", "4", "5", "6", "7", "8", "9">>
DigitChar(d) == Digits[d + 1]
IsDigit(c) == \E d \in 0..9 : DigitChar(d) = c
DigitValue(c) == CHOOSE d \in 0..9 : DigitChar(d) = c

Minus(n) == IF n < 0 THEN <<"-">> ELSE <<>>

\* Digits are taken from the right, and reversed.
Decimal[n \in Nat] ==
  (IF n < 10 THEN <<>> ELSE Decimal[n \div 10]) \o <<DigitChar(n % 10)>>

\* Mutant: the sign is appended when the digits have been reversed.
ItoaSignLast(n) == {Decimal[Magnitude(n)] \o Minus(n)}

\* The negative of the smallest int is not an int: `num % base` stays negative
\* and what is written in the place of the digits is none, or the compiler uses
\* that num is positive and divides without sign.
Itoa(n) ==
  IF n = -Half
    THEN {Minus(n) \o Decimal[Half], Minus(n) \o [i \in DOMAIN Decimal[Half] |-> "junk"]}
    ELSE {Minus(n) \o Decimal[Magnitude(n)]}

\* Text with the sign taken off, and the sign.
Unsigned(s) == IF s # <<>> /\ s[1] = "-" THEN Tail(s) ELSE s
Sign(s) == IF s # <<>> /\ s[1] = "-" THEN -1 ELSE 1

\* The digits that s starts with.
Leading(s) ==
  LET stop == SelectInSeq(s, LAMBDA c : ~IsDigit(c))
  IN  IF stop = 0 THEN s ELSE SubSeq(s, 1, stop - 1)

Atoi(s) ==
  LET digits == Leading(Unsigned(s))
      Value[k \in 0..Len(digits)] ==
        IF k = 0 THEN 0 ELSE Wrap(Value[k - 1] * 10 + DigitValue(digits[k]))
  IN  Wrap(Sign(s) * Value[Len(digits)])

-----------------------------------------------------------------------------
\* The float 1, the last place of a float q, and the float nearest to n/d: of two
\* that are equally near, the even one.
One == 2^FractionBits
Ulp[q \in Nat] == IF q < 2^Mantissa THEN 1 ELSE 2 * Ulp[q \div 2]
Nearest(n, d) ==
  LET place == Ulp[n \div d]
      below == n \div (d * place)
      rest == 2 * (n % (d * place))
  IN  place * (IF rest > d * place \/ (rest = d * place /\ below % 2 = 1) THEN below + 1 ELSE below)

\* Half, divided by ten as often as there are decimals.
RoundingFactor[j \in Nat] ==
  IF j = 0 THEN One \div 2 ELSE Nearest(RoundingFactor[j - 1], 10)

WithoutTrailingZeros(s) == SubSeq(s, 1, SelectLastInSeq(s, LAMBDA c : c # "0"))

\* The text of the magnitude r, with the sign of x: each decimal is the whole part
\* of ten times what the last one left.
FloatText(x, r) ==
  LET Shifted[k \in 1..Precision] ==
        Nearest(10 * (IF k = 1 THEN r % One ELSE Shifted[k - 1] % One), 1)
      fraction == WithoutTrailingZeros([k \in 1..Precision |-> DigitChar(Shifted[k] \div One)])
  IN  Minus(x) \o Decimal[r \div One] \o (IF fraction = <<>> THEN <<>> ELSE <<".">> \o fraction)

\* Mutant: nothing is added before the last decimal is cut.
FtoaCut(x) == FloatText(x, Magnitude(x))

\* Rounded by adding half of the last decimal printed.
Ftoa(x) == FloatText(x, Nearest(Magnitude(x) + RoundingFactor[Precision], 1))

\* 0.1f, multiplied by itself.
Tenth[k \in Nat \ {0}] ==
  IF k = 1 THEN Nearest(One, 10) ELSE Nearest(Tenth[k - 1] * Tenth[1], One)

\* A compiler may round a product before it is added to a sum, or fuse the two.
Atof(s) ==
  LET whole == Leading(Unsigned(s))
      rest == SubSeq(Unsigned(s), Len(whole) + 1, Len(Unsigned(s)))
      fraction == IF rest # <<>> /\ rest[1] = "." THEN Leading(Tail(rest)) ELSE <<>>
      Read(Product(_)) ==
        LET Whole[k \in 0..Len(whole)] ==
              IF k = 0 THEN 0
              ELSE Nearest(Product(10 * Whole[k - 1]) + DigitValue(whole[k]) * One, 1)
            Sum[k \in 0..Len(fraction)] ==
              IF k = 0 THEN Whole[Len(whole)]
              ELSE Nearest(Sum[k - 1] + Product(DigitValue(fraction[k]) * Tenth[k]), 1)
        IN  Sign(s) * Sum[Len(fraction)]
  IN  {Read(LAMBDA n : Nearest(n, 1)), Read(LAMBDA n : n)}
=============================================================================
