------------------------------ MODULE Numbers ------------------------------
(***************************************************************************)
(* string.cpp: numbers read from text (string_to_s32, string_to_float and  *)
(* their kind).  A unit is the value of its digit or letter, 0..35, or one *)
(* of the signs below.  s is what lies in memory from the start of the     *)
(* string, with a Nul behind it; the string is its first n units, and what *)
(* is read behind them is read.                                            *)
(***************************************************************************)
EXTENDS Integers, Sequences, SequencesExt

CONSTANTS
  MantissaDigits,  \* digits of a decimal number that count (18)
  MaxExponent      \* max_exponent (511)

ASSUME NumbersAssumption == MantissaDigits \in Nat \ {0} /\ MaxExponent \in Nat

LetterB == 11
LetterE == 14
LetterX == 33
Plus  == 36
Minus == 37
Point == 38
EndOfText == 39

In(s, i) == IF i < Len(s) THEN s[i + 1] ELSE EndOfText

\* utf_codepoint_digit_value.
Digit(u) == IF u \in 0..9 THEN u ELSE -1

\* utf_advance stays where it is at the end of the string.
Advance(i, n) == IF i < n THEN i + 1 ELSE i

Signed(s) == In(s, 0) \in {Plus, Minus}
AfterSign(s) == IF Signed(s) THEN 1 ELSE 0

\* The first index from i on, up to n, whose unit does not count.
EndOf(s, i, n, counts) ==
  CHOOSE j \in i..n : (\A k \in i..(j - 1) : In(s, k) \in counts) /\ (j = n \/ In(s, j) \notin counts)

(***************************************************************************)
(* Integers                                                                *)
(***************************************************************************)

\* Division of C, towards zero.
Quotient(a, b)  == IF a < 0 THEN -((-a) \div b) ELSE a \div b
Remainder(a, b) == a - b * Quotient(a, b)

\* Variant: the bound of the positive numbers holds for the negative ones too.
CutoffOne(lo, hi, negative, base) ==
  [q |-> Quotient(hi, base), r |-> Remainder(hi, base)]

\* The largest magnitude, as its quotient by the base and what is left.
Cutoff(lo, hi, negative, base) ==
  IF lo # 0 /\ negative THEN [q |-> -Quotient(lo, base), r |-> -Remainder(lo, base)]
  ELSE [q |-> Quotient(hi, base), r |-> Remainder(hi, base)]

\* What follows a leading zero decides the base that was left open, and 0x and 0b
\* are skipped where they fit the base.
ResolvedBase(base, zero, u) ==
  IF base # 0 THEN base
  ELSE IF ~zero THEN 10
  ELSE CASE u = LetterX -> 16 [] u = LetterB -> 2 [] OTHER -> 8

\* The loop over the digits, which ends without a value where the next step would
\* pass the largest magnitude.
Accumulated(digits, base, cut) ==
  FoldLeft(LAMBDA acc, d :
    IF acc.over THEN acc
    ELSE IF acc.v > cut.q \/ (acc.v = cut.q /\ d > cut.r) THEN [acc EXCEPT !.over = TRUE]
    ELSE [acc EXCEPT !.v = @ * base + d],
    [v |-> 0, over |-> FALSE], digits)

IntegerOf(read, negative, lo, hi, next) ==
  [value |-> IF read.over THEN (IF negative THEN lo ELSE hi)
             ELSE IF negative THEN -read.v ELSE read.v,
   over |-> read.over, next |-> next]

\* The digits behind the first index; without any, the zero before them counts.
DigitsFrom(s, n, base, lo, hi, first, none) ==
  LET last == IF first < n THEN EndOf(s, first, n, 0..(base - 1)) ELSE first
      negative == In(s, 0) = Minus
  IN  IntegerOf(Accumulated(SubSeq(s, first + 1, last), base, Cutoff(lo, hi, negative, base)),
                negative, lo, hi, IF last > first THEN last ELSE none)

\* Behind the sign and a leading zero, whose prefix is skipped where it fits the base.
IntegerFrom(s, n, base, lo, hi, zero, at) ==
  DigitsFrom(s, n, base, lo, hi,
    IF zero /\ <<base, In(s, at)>> \in {<<16, LetterX>>, <<2, LetterB>>} THEN Advance(at, n) ELSE at,
    IF zero THEN at ELSE 0)

\* _string_to_integer, of at least one unit and with a base that exists: the number,
\* whether it did not fit, and the index behind it.
ParseInteger(s, n, base0, lo, hi) ==
  LET start == AfterSign(s)
      zero == In(s, start) = 0
      at == IF zero THEN Advance(start, n) ELSE start
  IN  IntegerFrom(s, n, ResolvedBase(base0, zero, In(s, at)), lo, hi, zero, at)

(***************************************************************************)
(* Decimal numbers                                                         *)
(***************************************************************************)

\* Digits, and one point among them.
MantissaEnd(s, i, n) ==
  LET j == EndOf(s, i, n, 0..9)
  IN  IF j < n /\ In(s, j) = Point THEN EndOf(s, j + 1, n, 0..9) ELSE j

\* The digits of a power of ten, and the index behind them.
PowerFrom(s, n, first, negative) ==
  LET last == EndOf(s, first, n, 0..9)
      power == FoldLeft(LAMBDA e, d : 10 * e + d, 0, SubSeq(s, first + 1, last))
  IN  [raises |-> TRUE, power |-> IF negative THEN -power ELSE power, next |-> last]

\* An e behind the mantissa, which need have no digits behind it.
PowerAt(s, n, end) ==
  IF ~(end < n /\ In(s, end) = LetterE) THEN [raises |-> FALSE, power |-> 0, next |-> end]
  ELSE LET at == Advance(end, n)
       IN  PowerFrom(s, n, IF In(s, at) \in {Plus, Minus} THEN Advance(at, n) ELSE at,
                     In(s, at) = Minus)

\* The loops over the digits stop at what is no digit and not at the end of the
\* string, where they do not move on: a digit there keeps them for ever.
HangsAt(s, n, digits, end, raised) ==
  Digit(In(s, n)) >= 0 /\ (end = n \/ (digits # <<>> /\ raised.raises /\ raised.next = n))

\* digits of the mantissa, of which kept count; exp is what the power comes to.
DecimalOf(s, digits, kept, exp, next, hung) ==
  [hung |-> hung,
   negative |-> In(s, 0) = Minus,
   mantissa |-> FoldLeft(LAMBDA v, d : 10 * v + d, 0, SubSeq(digits, 1, kept)),
   exponent |-> IF digits = <<>> THEN 0
                ELSE IF exp > MaxExponent THEN MaxExponent
                ELSE IF exp < -MaxExponent THEN -MaxExponent ELSE exp,
   over |-> digits # <<>> /\ exp \notin (-MaxExponent)..MaxExponent,
   next |-> IF digits = <<>> THEN 0 ELSE next]

Kept(digits) == IF Len(digits) < MantissaDigits THEN Len(digits) ELSE MantissaDigits

DecimalUpTo(s, n, start, end, digits, raised) ==
  DecimalOf(s, digits, Kept(digits),
            EndOf(s, start, end, 0..9) - start - Kept(digits) + raised.power,
            raised.next, HangsAt(s, n, digits, end, raised))

\* _string_to_decimal: mantissa and power of ten, whether the power was too large,
\* and the index behind the number.
ParseDecimal(s, n) ==
  LET start == AfterSign(s)
      end == MantissaEnd(s, start, n)
  IN  DecimalUpTo(s, n, start, end,
                  SelectSeq(SubSeq(s, start + 1, end), LAMBDA u : u # Point), PowerAt(s, n, end))

(***************************************************************************)
(* Properties                                                              *)
(***************************************************************************)

ValueOf(digits, base) == FoldLeft(LAMBDA v, d : base * v + d, 0, digits)

\* The bases a numeral that begins with this prefix can be in.
Prefixed(base) ==
  CASE base = 16 -> {<<>>, <<0, LetterX>>} [] base = 2 -> {<<>>, <<0, LetterB>>} [] OTHER -> {<<>>}

\* The numerals s begins with: where they end, and the number.
NumeralsOf(s, base0) ==
  LET bases == IF base0 # 0 THEN {base0} ELSE {2, 8, 10, 16}
      opens(base, prefix, digits) ==
        base0 # 0 \/ (CASE base = 10 -> digits[1] # 0
                        [] base = 8  -> digits[1] = 0
                        [] OTHER     -> prefix # <<>>)
      from == AfterSign(s)
  IN  UNION {UNION {{[next |-> j, value |-> ValueOf(SubSeq(s, from + Len(prefix) + 1, j), base)] :
        j \in {k \in (from + Len(prefix) + 1)..Len(s) :
                 LET digits == SubSeq(s, from + Len(prefix) + 1, k)
                 IN  /\ SubSeq(s, from + 1, from + Len(prefix)) = prefix
                     /\ \A i \in DOMAIN digits : digits[i] \in 0..(base - 1)
                     /\ opens(base, prefix, digits)}} : prefix \in Prefixed(base)} : base \in bases}

\* r is what was read, of the numerals all; most is the largest magnitude.
ReadsLongest(r, all, negative, lo, hi, most) ==
  IF all = {} THEN r = [value |-> 0, over |-> FALSE, next |-> 0]
  ELSE \E longest \in all :
         /\ \A other \in all : other.next <= longest.next
         /\ r.next = longest.next
         /\ r.over <=> longest.value > most
         /\ r.value = IF negative THEN (IF r.over THEN lo ELSE -longest.value)
                      ELSE (IF r.over THEN hi ELSE longest.value)

\* An integer is read up to the end of the longest numeral the text begins with; it
\* is that numeral's value if the type holds it, and the nearest end of the type
\* and an error if not.  (0..hi holds for an unsigned type: the sign is applied to
\* what was read.)
IntegerIsRead(s, base, lo, hi) ==
  s # <<>> => ReadsLongest(ParseInteger(s, Len(s), base, lo, hi), NumeralsOf(s, base),
                           In(s, 0) = Minus, lo, hi, IF In(s, 0) = Minus /\ lo # 0 THEN -lo ELSE hi)

\* What a numeral says, taken apart at its point and its e.
PlacesBehind(mantissa, points) ==
  IF points = {} THEN 0 ELSE Len(mantissa) - (CHOOSE i \in points : TRUE)

PowerSaid(text) ==
  (IF text # <<>> /\ text[1] = Minus THEN -1 ELSE 1)
    * ValueOf(SelectSeq(text, LAMBDA u : u \in 0..9), 10)

SaysTheSame(r, mantissa, digits, points, power) ==
  /\ points = {} \/ \E i \in points : points = {i}
  /\ Len(digits) <= MantissaDigits => r.mantissa = ValueOf(digits, 10)
  /\ r.over \/ r.exponent = power - PlacesBehind(mantissa, points)
       + (IF Len(digits) > MantissaDigits THEN Len(digits) - MantissaDigits ELSE 0)

ReadsText(r, text, raised) ==
  LET end == IF raised = {} THEN Len(text) ELSE (CHOOSE i \in raised : TRUE) - 1
  IN  /\ raised = {} \/ \E i \in raised : raised = {i}
      /\ SaysTheSame(r, SubSeq(text, 1, end),
                     SelectSeq(SubSeq(text, 1, end), LAMBDA u : u # Point),
                     {i \in DOMAIN text : text[i] = Point},
                     PowerSaid(SubSeq(text, end + 2, Len(text))))

\* A decimal number is read with one point and one exponent; its digits and the
\* place of its point give back the number.
DecimalIsRead(s) ==
  \E r \in {ParseDecimal(s, Len(s))} :
    r.next > 0 =>
      LET text == SubSeq(s, AfterSign(s) + 1, r.next)
      IN  ReadsText(r, text, {i \in DOMAIN text : text[i] = LetterE})

\* "const_string & co aren't guaranteed to be null terminated and are often used as
\* slices of existing strings" (string.hpp): a number at the end of a slice is read
\* whatever lies behind the slice.
SlicesAreRead(s) == \A n \in 1..Len(s) : ~ParseDecimal(s, n).hung
=============================================================================
