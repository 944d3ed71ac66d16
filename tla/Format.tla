------------------------------- MODULE Format -------------------------------
(***************************************************************************)
(* format.hpp and format.cpp: texts and numbers written into a buffer of  *)
(* units, one by one and through a format.  A buffer belongs to the caller *)
(* and has room for so much, or is that of a string, which makes room.     *)
(* Units are those of Numbers; letters have no case, which %X and %B have. *)
(* Floating point is left out, text of another encoding, and text without  *)
(* memory; and only integers and pointers are written in another base.     *)
(***************************************************************************)
EXTENDS Numbers, Bits

CONSTANTS
  NarrowBits,       \* bits of an int (32)
  FormatIncrement   \* FORMAT_BUFFER_INCREMENT (32)

ASSUME FormatAssumption == NarrowBits \in Nat \ {0} /\ FormatIncrement \in Nat \ {0}

LetterO == 24
Percent == 40
Sharp   == 41
Blank   == 42
Slash   == 43   \* the backslash

(***************************************************************************)
(* Buffers                                                                 *)
(***************************************************************************)

\* What lies in the buffer up to where writing goes on, its room, whether it makes
\* room, and whether something was written past the room.
NewBuffer(room, grows) == [out |-> <<>>, room |-> room, grows |-> grows, past |-> FALSE]

\* string_reserve: room for n units and the Nul, rounded up to a power of two.
MakeRoom(b, n) ==
  IF ~b.grows \/ b.room > n THEN b
  ELSE [b EXCEPT !.room = CeilExp2(n + 1)]

\* A store that does not look at the room.
Store(b, s) == [b EXCEPT !.out = @ \o s, !.past = @ \/ Len(b.out) + Len(s) > b.room]

\* The units of s that there is room for, and copies that end where the room does.
Fitting(b, s) ==
  IF Len(b.out) >= b.room THEN 0
  ELSE IF Len(s) < b.room - Len(b.out) THEN Len(s) ELSE b.room - Len(b.out)
Copy(b, s) == [b EXCEPT !.out = @ \o SubSeq(s, 1, Fitting(b, s))]

\* Variant: a number that does not fit keeps its last digits.
CopyNumberTail(b, digits) ==
  [b EXCEPT !.out = @ \o SubSeq(digits, Len(digits) - Fitting(b, digits) + 1, Len(digits))]

\* The digits are copied from the end of the buffer they were put into backwards.
CopyNumber(b, digits) == Copy(b, digits)

Most(m, n) == IF m < n THEN n ELSE m

Repeated(u, n) == [i \in 1..Most(n, 0) |-> u]

\* pad_string of a number of units that may be none.
Pad(b, u, n) == Copy(IF n > 0 THEN MakeRoom(b, Len(b.out) + n) ELSE b, Repeated(u, n))

\* The Nul of a string behind what was written.
EndString(b) == [b EXCEPT !.past = @ \/ (b.grows /\ Len(b.out) >= b.room)]

(***************************************************************************)
(* Texts and integers                                                      *)
(***************************************************************************)

\* What to_string does behind each value: a negative length pads on the right.
Finished(b, start, opt) ==
  EndString(Pad(b, opt.char, -opt.length - (Len(b.out) - start)))

\* A text, a single unit or a truth value.
WriteText(b, s, opt) ==
  LET room == MakeRoom(b, Len(b.out) + Most(Len(s), opt.length))
  IN  Finished(Copy(Pad(room, opt.char, opt.length - Len(s)), s), Len(b.out), opt)

DigitsOf(n, base) ==
  LET digits[m \in 0..n] ==
        IF m < base THEN <<m>> ELSE Append(digits[m \div base], m % base)
  IN  digits[n]

PrefixOf(base) ==
  CASE base = 2 -> <<0, LetterB>> [] base = 8 -> <<0>> [] base = 16 -> <<0, LetterX>> [] OTHER -> <<>>

SignOf(x, opt) ==
  IF x < 0 THEN <<Minus>> ELSE IF opt.sign = Plus THEN <<Plus>> ELSE <<>>

\* Padding with zeros stands between the prefix and the digits, with anything else
\* before them both; the precision is a least number of digits.
PadLeft(b, opt, size, blank) ==
  IF (opt.char = Blank) = blank THEN Pad(b, opt.char, opt.length - size) ELSE b
WriteDigits(b, opt, before, digits, size) ==
  LET room == MakeRoom(b, Len(b.out) + Most(size, opt.length))
      padded == PadLeft(Copy(PadLeft(room, opt, size, TRUE), before), opt, size, FALSE)
  IN  Finished(CopyNumber(Pad(padded, 0, opt.precision - Len(digits)), digits), Len(b.out), opt)
WriteInteger(b, x, opt, base, prefixed) ==
  LET digits == DigitsOf(IF x < 0 THEN -x ELSE x, base)
      before == SignOf(x, opt) \o (IF prefixed THEN PrefixOf(base) ELSE <<>>)
  IN  WriteDigits(b, opt, before, digits, Len(before) + Most(opt.precision, Len(digits)))

\* A pointer has eight digits, unless it is told how many.
WritePointer(b, x, opt) ==
  WriteInteger(b, x, IF opt.precision < 0 THEN [opt EXCEPT !.precision = 8] ELSE opt, 16, TRUE)

(***************************************************************************)
(* Formats                                                                 *)
(***************************************************************************)

\* The fields of format_options, a placeholder without any.
NoOptions == [length |-> 0, char |-> Blank, sign |-> EndOfText, precision |-> -1]

NumberFrom(fmt, i, j, times) == FoldLeft(LAMBDA n, d : times * n + d, 0, SubSeq(fmt, i + 1, j))

\* The first position from i on that is behind the digits there.
DigitsEnd(fmt, i) == IF i < Len(fmt) THEN EndOf(fmt, i, Len(fmt), 0..9) ELSE i

\* The precision, behind a point at j: each of its digits counts the ones before it
\* eleven times.
WithPrecision(fmt, pl, j, end) ==
  [pl EXCEPT !.next = end,
             !.opt.precision = IF end > j + 1 THEN NumberFrom(fmt, j + 1, end, 11) ELSE -1]

\* The sign, where - pads on the right, and the length, whose first zero is what to
\* pad with.
WithLength(fmt, alternative, sign, i, end) ==
  LET length == NumberFrom(fmt, i, end, 10)
  IN  [next |-> end,
       alternative |-> alternative,
       opt |-> [length |-> IF sign = Minus THEN -length ELSE length,
                char |-> IF In(fmt, i) = 0 THEN 0 ELSE Blank,
                sign |-> sign,
                precision |-> -1]]

LengthAt(fmt, alternative, i) ==
  IF In(fmt, i) \in {Minus, Plus}
  THEN WithLength(fmt, alternative, In(fmt, i), i + 1, DigitsEnd(fmt, i + 1))
  ELSE WithLength(fmt, alternative, EndOfText, i, DigitsEnd(fmt, i))

PrecisionAt(fmt, pl) ==
  IF In(fmt, pl.next) = Point
  THEN WithPrecision(fmt, pl, pl.next, DigitsEnd(fmt, pl.next + 1))
  ELSE pl

\* Behind a %: # for the other form, sign, length and precision.
PlaceholderAt(fmt, i) ==
  PrecisionAt(fmt, IF In(fmt, i + 1) = Sharp THEN LengthAt(fmt, TRUE, i + 2)
                   ELSE LengthAt(fmt, FALSE, i + 1))

\* Nothing more goes into a buffer of the caller.
Full(b) == ~b.grows /\ Len(b.out) >= b.room

\* One round of the loops over what is not a placeholder.  A backslash stands for
\* itself, unless a % follows; it and what follows are written in one round.
LiteralRound(fmt, r) ==
  LET b == MakeRoom(r.b, Len(r.b.out) + (Len(r.b.out) % FormatIncrement))
      u == In(fmt, r.i)
      v == In(fmt, r.i + 1)
  IN  CASE r.i >= Len(fmt) \/ Full(b) -> r
        [] u = Percent                    -> [r EXCEPT !.b = b]
        [] u \notin {Percent, Slash}      -> [r EXCEPT !.i = @ + 1, !.b = Store(b, <<u>>)]
        [] u = Slash /\ v = EndOfText     -> [r EXCEPT !.i = @ + 1, !.b = Store(b, <<Slash>>)]
        [] u = Slash /\ v = Percent       -> [r EXCEPT !.i = @ + 2, !.b = Store(b, <<Percent>>)]
        [] OTHER                          -> [r EXCEPT !.i = @ + 2, !.b = Store(b, <<Slash, v>>)]

Literals(fmt, r) == FoldLeft(LAMBDA s, u : LiteralRound(fmt, s), r, fmt)

\* An int is taken for unsigned by the bases that are powers of two.
Unsigned(arg) == IF arg.narrow THEN arg.x % 2^NarrowBits ELSE arg.x

\* The value in its own way, or in a base; the prefix is left away for 0, in a
\* string only if it was not asked for.
WriteArgument(b, arg, letter, p) ==
  LET base == CASE letter = LetterB -> 2 [] letter = LetterO -> 8 [] letter = LetterX -> 16
                [] OTHER -> 10
  IN  IF arg.kind = "text" THEN WriteText(b, arg.s, p.opt)
      ELSE IF arg.kind = "pointer" /\ base = 10 THEN WritePointer(b, arg.x, p.opt)
      ELSE IF base = 10 THEN WriteInteger(b, arg.x, p.opt, 10, FALSE)
      ELSE WriteInteger(b, Unsigned(arg), p.opt, base,
                        p.alternative /\ (b.grows \/ Unsigned(arg) # 0))

TypeLetters == {LetterB, LetterO, LetterX, 12, 13, 25, 28, 30}   \* b o x c d p s u

\* The argument in the place of the placeholder at s.i.  Without a placeholder, or
\* without room, it is left out.
Written(fmt, s, arg, p) ==
  LET letter == In(fmt, p.next)
  IN  [s EXCEPT !.i = IF letter \in TypeLetters THEN p.next + 1 ELSE p.next,
                !.b = WriteArgument(s.b, arg, letter, p)]
Placed(fmt, s, arg) ==
  IF s.i >= Len(fmt) \/ Full(s.b) THEN s ELSE Written(fmt, s, arg, PlaceholderAt(fmt, s.i))

\* _format with an argument left: what stands before the next placeholder, and the
\* argument.
FormatNext(fmt, r, arg) ==
  IF r.i >= Len(fmt) \/ Full(r.b) THEN r ELSE Placed(fmt, Literals(fmt, r), arg)

\* format: -1 if a placeholder is left when the arguments are used up.
FormatEnded(fmt, r) == [b |-> EndString(r.b), ok |-> r.i >= Len(fmt) \/ Full(r.b)]
Formatted(b, fmt, args) ==
  LET start == [i |-> 0, b |-> MakeRoom(b, Len(fmt))]
      placed == FoldLeft(LAMBDA r, arg : FormatNext(fmt, r, arg), start, args)
  IN  FormatEnded(fmt, Literals(fmt, placed))

(***************************************************************************)
(* Properties                                                              *)
(***************************************************************************)

\* An integer written in a base, with its prefix or with the base given, is read back.
WrittenIsRead(x, base, lo, hi) ==
  \A prefixed \in BOOLEAN :
    LET s == WriteInteger(NewBuffer(64, FALSE), x, NoOptions, base, prefixed).out
        r == ParseInteger(s, Len(s), IF prefixed THEN 0 ELSE base, lo, hi)
    IN  r = [value |-> x, over |-> FALSE, next |-> Len(s)]

IsStartOf(s, t) == Len(s) <= Len(t) /\ s = SubSeq(t, 1, Len(s))

\* A backslash and the unit behind it, of which only the first has room.
EscapeAtEdge(b) == Len(b.out) = b.room + 1 /\ b.out[b.room] = Slash

\* The whole text, or what of it there is room for.
CutsAt(whole, r, room) ==
  /\ whole.ok => r.ok
  /\ IsStartOf(r.b.out, whole.b.out)
  /\ \/ Len(r.b.out) = (IF Len(whole.b.out) < room THEN Len(whole.b.out) ELSE room) /\ ~r.b.past
     \/ EscapeAtEdge(r.b)

HasOtherZero(fmt, args) ==
  (\E i \in DOMAIN fmt : fmt[i] = Sharp)
    /\ (\E k \in DOMAIN args : args[k].kind = "int" /\ Unsigned(args[k]) = 0)

StringFits(whole, s, sameZero) ==
  /\ ~s.b.past
  /\ sameZero => s.ok = whole.ok /\ s.b.out = whole.b.out

AllFit(whole, fmt, args, rooms) ==
  /\ \A room \in rooms : CutsAt(whole, Formatted(NewBuffer(room, FALSE), fmt, args), room)
  /\ \A room \in {0} \cup {n \in rooms : PowerOfTwo(n)} :
       StringFits(whole, Formatted(NewBuffer(room, TRUE), fmt, args), ~HasOtherZero(fmt, args))

\* A buffer gets the beginning of the text there is room for, whatever the room, and a
\* string makes room for all of it and its Nul.  (The two disagree on the prefix of a
\* zero; and an escape at the end of the room is written past it.  The rooms of strings
\* are powers of two only, as string_reserve makes them: in one of another size, as a
\* copied string literal has, the last unit and the Nul may find none.)
FormatFits(fmt, args, rooms) ==
  AllFit(Formatted(NewBuffer(64, FALSE), fmt, args), fmt, args, rooms)
=============================================================================
