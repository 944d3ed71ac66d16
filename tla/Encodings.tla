----------------------------- MODULE Encodings -----------------------------
(***************************************************************************)
(* string_encoding.cpp: code points are numbers, and so are the units of   *)
(* UTF-8, UTF-16 and UTF-32; form is 8, 16 or 32 and stands for the type   *)
(* the code overloads on.  Shifts and masks are divisions and remainders.  *)
(* Memory behind a string holds zeros, as the header asks of the callers   *)
(* of what is not _safe.                                                   *)
(***************************************************************************)
EXTENDS Integers, Sequences, SequencesExt

UnicodeMax == 1114111

Smaller(a, b) == IF a < b THEN a ELSE b

UnitAt(s, i) == IF i < Len(s) THEN s[i + 1] ELSE 0

\* Variant: the surrogates take three bytes each, as in CESU-8.
PointLengthNarrow(form, cp) ==
  CASE form = 8  -> IF cp <= 127 THEN 1 ELSE IF cp <= 2047 THEN 2 ELSE 3
    [] form = 16 -> IF cp <= 65535 THEN 1 ELSE 2
    [] form = 32 -> 1

\* codepoint_utf8_length and its kind.
PointLength(form, cp) ==
  CASE form = 8  -> IF cp <= 127 THEN 1 ELSE IF cp <= 2047 THEN 2 ELSE IF cp <= 65535 THEN 3 ELSE 4
    [] form = 16 -> IF cp <= 65535 THEN 1 ELSE 2
    [] form = 32 -> 1

\* The six bits of cp that the k-th byte from the end carries.
TailByte(cp, k) == 128 + ((cp \div 64^k) % 64)

\* utf8_encode, utf16_encode, utf32_encode: the units, or none for what is no code
\* point.
EncodePoint(form, cp) ==
  IF cp > UnicodeMax THEN <<>>
  ELSE CASE form = 8 /\ cp <= 127    -> <<cp>>
         [] form = 8 /\ cp \in 128..2047 -> <<192 + cp \div 64, TailByte(cp, 0)>>
         [] form = 8 /\ cp \in 2048..65535 -> <<224 + cp \div 4096, TailByte(cp, 1), TailByte(cp, 0)>>
         [] form = 8 /\ cp > 65535   ->
              <<240 + cp \div 262144, TailByte(cp, 2), TailByte(cp, 1), TailByte(cp, 0)>>
         [] form = 16 /\ cp <= 65535 -> <<cp>>
         [] form = 16 /\ cp > 65535  ->
              <<55296 + (cp - 65536) \div 1024, 56320 + ((cp - 65536) % 1024)>>
         [] form = 32 -> <<cp>>

\* utf8_encode_string and its kind: the code points up to the first zero, as many
\* as there is room for.  UTF-32 is copied, whatever it holds.
EncodeString(form, cps, room) ==
  IF form = 32 THEN [units |-> SubSeq(cps, 1, Smaller(Len(cps), room)), error |-> FALSE]
  ELSE LET coded == FoldLeft(LAMBDA acc, cp :
             IF acc.stop \/ cp = 0 \/ room - Len(acc.units) < PointLength(form, cp)
             THEN [acc EXCEPT !.stop = TRUE]
             ELSE IF Len(EncodePoint(form, cp)) # PointLength(form, cp)
             THEN [acc EXCEPT !.stop = TRUE, !.error = TRUE]
             ELSE [acc EXCEPT !.units = @ \o EncodePoint(form, cp)],
             [units |-> <<>>, stop |-> FALSE, error |-> FALSE], cps)
       IN  [units |-> coded.units, error |-> coded.error]

(***************************************************************************)
(* Decoding                                                                *)
(***************************************************************************)

\* _utf8_lengths: 0 for a byte that begins nothing.
LeadLength(u) ==
  CASE u < 128 -> 1 [] u \in 192..223 -> 2 [] u \in 224..239 -> 3 [] u \in 240..247 -> 4
    [] OTHER -> 0

HighSurrogate(u) == u \div 2048 = 27   \* UTF16_SURROGATE_MASK covers both halves

\* utf_codepoint_length: how far a decoder goes, whether or not the units decode.
StepLength(form, u) ==
  CASE form = 8  -> IF LeadLength(u) = 0 THEN 1 ELSE LeadLength(u)
    [] form = 16 -> IF HighSurrogate(u) THEN 2 ELSE 1
    [] form = 32 -> 1

\* Variant: an encoding longer than it need be is accepted.
Utf8PointLong(s, i) ==
  LET n == LeadLength(UnitAt(s, i))
      t(k) == UnitAt(s, i + k) % 64
      cp == CASE n = 1 -> UnitAt(s, i)
              [] n = 2 -> (UnitAt(s, i) % 32) * 64 + t(1)
              [] n = 3 -> (UnitAt(s, i) % 16) * 4096 + t(1) * 64 + t(2)
              [] n = 4 -> (UnitAt(s, i) % 8) * 262144 + t(1) * 4096 + t(2) * 64 + t(3)
              [] n = 0 -> t(1) * 4096 + t(2) * 64 + t(3)
  IN  [cp |-> cp,
       error |-> \/ n = 0 \/ cp \div 2048 = 27 \/ cp > UnicodeMax
                 \/ \E k \in 1..(n - 1) : UnitAt(s, i + k) \div 64 # 2]

\* utf8_decode: too short an encoding, a surrogate, a number that is too large and
\* a tail byte that is none are errors.
Utf8Point(s, i) ==
  LET n == LeadLength(UnitAt(s, i))
      t(k) == UnitAt(s, i + k) % 64
      cp == CASE n = 1 -> UnitAt(s, i)
              [] n = 2 -> (UnitAt(s, i) % 32) * 64 + t(1)
              [] n = 3 -> (UnitAt(s, i) % 16) * 4096 + t(1) * 64 + t(2)
              [] n = 4 -> (UnitAt(s, i) % 8) * 262144 + t(1) * 4096 + t(2) * 64 + t(3)
              [] n = 0 -> t(1) * 4096 + t(2) * 64 + t(3)
  IN  [cp |-> cp,
       error |-> \/ n = 0 \/ cp < <<0, 128, 2048, 65536>>[n]
                 \/ cp \div 2048 = 27 \/ cp > UnicodeMax
                 \/ \E k \in 1..(n - 1) : UnitAt(s, i + k) \div 64 # 2]

Utf16Point(s, i) ==
  LET high == UnitAt(s, i)  low == UnitAt(s, i + 1)
  IN  IF ~HighSurrogate(high) THEN [cp |-> high, error |-> FALSE]
      ELSE [cp |-> (high % 1024) * 1024 + (low % 1024) + 65536,
            error |-> high \div 1024 # 54 \/ low \div 1024 # 55]

\* The code point of the units behind the first i, and how many units it takes.
DecodePoint(form, s, i) ==
  LET Ends(point) == [cp |-> point.cp, error |-> point.error,
                      next |-> i + StepLength(form, UnitAt(s, i))]
  IN  Ends(CASE form = 8  -> Utf8Point(s, i)
             [] form = 16 -> Utf16Point(s, i)
             [] form = 32 -> [cp |-> UnitAt(s, i), error |-> UnitAt(s, i) > UnicodeMax])

\* _utf8_decode_string and its kind: from the units behind the first i to the limit,
\* a zero, or the last of room code points.
DecodeFrom(form, s, i, limit, room) ==
  LET rest[j \in 0..(Len(s) + 4), left \in 0..room] ==
        IF j >= limit \/ UnitAt(s, j) = 0 \/ left = 0
        THEN [cps |-> <<>>, error |-> FALSE, end |-> j]
        ELSE LET p == DecodePoint(form, s, j)
             IN  IF p.error THEN [cps |-> <<>>, error |-> TRUE, end |-> j]
                 ELSE LET more == rest[p.next, left - 1]
                      IN  [more EXCEPT !.cps = <<p.cp>> \o @]
  IN  rest[i, room]

Decoded(r) == IF r.error THEN [cps |-> <<>>, error |-> TRUE] ELSE [cps |-> r.cps, error |-> FALSE]

DecodeString(form, s, room) == Decoded(DecodeFrom(form, s, 0, Len(s), room))

\* The units at the end that the safe variants decode from a padded copy.
PadOf(form) == CASE form = 8 -> 4 [] form = 16 -> 2 [] form = 32 -> 0

\* utf8_decode_string_safe and its kind: what ends within the last units is decoded
\* from a copy with zeros behind it; for UTF-16 without a look at the room.
DecodeStringSafe(form, s, room) ==
  LET first == IF Len(s) > PadOf(form) THEN DecodeFrom(form, s, 0, Len(s) - PadOf(form), room)
               ELSE [cps |-> <<>>, error |-> FALSE, end |-> 0]
      left == room - Len(first.cps)
      more == DecodeFrom(form, s, first.end, Len(s),
                         IF form = 16 /\ (left > 0 \/ Len(s) <= PadOf(form)) THEN Len(s) ELSE left)
  IN  IF form = 32 THEN DecodeString(form, s, room)
      ELSE IF first.error THEN Decoded(first)
      ELSE IF Len(s) > PadOf(form) /\ (first.end = Len(s) \/ left <= 0) THEN Decoded(first)
      ELSE Decoded([more EXCEPT !.cps = first.cps \o @])

(***************************************************************************)
(* From one form to another (string_convert)                               *)
(***************************************************************************)

\* One code point, if it decodes, is in the other form and has room; more is what
\* the rest comes to with the room that is left.
Converted(to, p, n, left, more) ==
  IF p.error THEN [units |-> <<>>, error |-> TRUE]
  ELSE IF left < n THEN [units |-> <<>>, error |-> FALSE]
  ELSE IF Len(EncodePoint(to, p.cp)) # n THEN [units |-> <<>>, error |-> TRUE]
  ELSE [more EXCEPT !.units = EncodePoint(to, p.cp) \o @]

Convert(from, to, s, room) ==
  LET rest[j \in 0..(Len(s) + 4), left \in 0..room] ==
        IF j >= Len(s) \/ UnitAt(s, j) = 0 \/ left = 0 THEN [units |-> <<>>, error |-> FALSE]
        ELSE LET p == DecodePoint(from, s, j)
                 n == PointLength(to, p.cp)
             IN  Converted(to, p, n, left, rest[p.next, left - n])
  IN  IF from = 32 THEN EncodeString(to, s, room)
      ELSE IF to = 32
           THEN LET d == DecodeString(from, s, room) IN [units |-> d.cps, error |-> d.error]
      ELSE rest[0, room]

\* utf16_units_required_from_utf8 and its kind, each by its own way of counting:
\* the bytes that begin something, the surrogates, the code points.
UnitsRequired(from, to, s) ==
  LET ends == {i \in 1..Len(s) : s[i] = 0}
      text == IF ends = {} \/ to = 32 THEN s
              ELSE SubSeq(s, 1, (CHOOSE i \in ends : \A j \in ends : i <= j) - 1)
      steps[i \in 0..(Len(s) + 4)] ==
        IF i >= Len(text) THEN 0
        ELSE steps[i + StepLength(from, text[i + 1])]
             + (IF to = 32 THEN 1 ELSE IF HighSurrogate(text[i + 1]) THEN 4
                ELSE PointLength(8, text[i + 1]))
  IN  IF from = 8 /\ to = 16
      THEN FoldLeft(LAMBDA n, u : n + (IF u \in 128..191 THEN 0 ELSE IF u >= 240 THEN 2 ELSE 1),
                    0, text)
      ELSE IF from = 32 THEN FoldLeft(LAMBDA n, u : n + PointLength(to, u), 0, text)
      ELSE steps[0]

\* string_utf_length.
UtfLength(form, s) == IF form = 32 THEN Len(s) ELSE UnitsRequired(form, 32, s)

\* Where for_utf_string stops: the units before each code point.
PointStarts(form, s) ==
  LET from[i \in 0..(Len(s) + 4)] ==
        IF i >= Len(s) THEN <<>> ELSE <<i>> \o from[i + StepLength(form, s[i + 1])]
  IN  from[0]

\* utf_substring: the end is where the loop was last, so that a slice which reaches
\* the end of the string loses its last code point.
UtfSlice(form, s, start, n) ==
  LET at == PointStarts(form, s)
      last == Smaller(start + n, Len(at) - 1)
      begin == IF start <= last THEN at[start + 1] ELSE 0
  IN  IF at = <<>> THEN <<>> ELSE SubSeq(s, begin + 1, at[last + 1])

(***************************************************************************)
(* Recasing (utf_to_upper; utf_to_lower is the same with the cases swapped) *)
(***************************************************************************)

\* utf_codepoint_to_upper.
PointUpper(cp) == IF cp \in 97..122 THEN cp - 32 ELSE cp

\* The units in memory, lowest byte first.
BytesOf(form, s) ==
  LET width == form \div 8
  IN  [j \in 1..(Len(s) * width) |->
         (s[((j - 1) \div width) + 1] \div 256^((j - 1) % width)) % 256]

\* s and the Nul behind it after utf_to_upper.  Whatever the form, the bytes at the
\* start of each code point are decoded and encoded as UTF-8.
UpperBytes(form, s) ==
  LET Unit(b, at) == b[at + 1] + (IF form = 16 THEN 256 * b[at + 2] ELSE 0)
      Point(b, at) == IF LeadLength(b[at + 1]) = 0 THEN 0 ELSE Utf8Point(b, at).cp
      Rewritten(b, at, coded) ==
        [j \in DOMAIN b |-> IF j - at \in 1..Len(coded) THEN coded[j - at] ELSE b[j]]
      all == FoldLeft(LAMBDA acc, k :
               IF acc.at >= Len(s) * (form \div 8) THEN acc
               ELSE [at |-> acc.at + (form \div 8) * StepLength(form, Unit(acc.bytes, acc.at)),
                     bytes |-> Rewritten(acc.bytes, acc.at,
                                 EncodePoint(8, PointUpper(Point(acc.bytes, acc.at))))],
               [at |-> 0, bytes |-> BytesOf(form, Append(s, 0))], s)
  IN  all.bytes

(***************************************************************************)
(* Properties                                                              *)
(***************************************************************************)

Forms == {8, 16, 32}
Scalar(cp) == cp \in 1..UnicodeMax /\ cp \div 2048 # 27
All(cps) == 4 * Len(cps)   \* room for every form

\* s and t are the code points in the two forms.
ConversionAgrees(from, to, cps, s, t) ==
  /\ Convert(from, to, s, All(cps)) = [units |-> t, error |-> FALSE]
  /\ UnitsRequired(from, to, s) = Len(t)
  /\ \A room \in 0..Len(t) : \E cut \in {Convert(from, to, s, room).units} :
       LET n == UtfLength(to, cut)
       IN  /\ cut = EncodeString(to, SubSeq(cps, 1, n), All(cps)).units
           /\ n < Len(cps) => Len(cut) + PointLength(to, cps[n + 1]) > room

\* The upper case of a text is that of its code points if it is UTF-8 or ASCII.  Of
\* the others the wider forms make something else, and in UTF-16 a last unit with the
\* low byte of a longer UTF-8 sequence, as U+00E9, takes the Nul with it.
RecaseAgrees(form, cps, s) ==
  /\ form = 8 \/ (\A i \in DOMAIN cps : cps[i] <= 127) =>
       UpperBytes(form, s) = BytesOf(form,
         Append(EncodeString(form, [i \in DOMAIN cps |-> PointUpper(cps[i])], All(cps)).units, 0))
  /\ form # 16 \/ s = <<>> \/ s[Len(s)] % 256 \notin 224..247 =>
       \E bytes \in {UpperBytes(form, s)} :
         \A j \in (Len(s) * (form \div 8) + 1)..Len(bytes) : bytes[j] = 0

FormAgrees(from, cps, s) ==
  /\ RecaseAgrees(from, cps, s)
  /\ DecodeString(from, s, Len(cps)).cps = cps
  /\ DecodeStringSafe(from, s, Len(cps)).cps = cps
  /\ UtfLength(from, s) = Len(cps)
  /\ \A to \in Forms \ {from} :
       ConversionAgrees(from, to, cps, s, EncodeString(to, cps, All(cps)).units)
  /\ \A start, n \in 0..Len(cps) : start + n < Len(cps) =>
       UtfSlice(from, s, start, n) =
         EncodeString(from, SubSeq(cps, start + 1, start + n), All(cps)).units

\* Code points that exist survive every path through the three forms, the room asked
\* for is the room used, what does not fit is cut between code points, and a slice that
\* ends before the string does holds the code points asked for.  UTF-8 and ASCII are
\* put in upper case code point by code point.
PathsAgree(cps) ==
  (\A i \in DOMAIN cps : Scalar(cps[i])) =>
    \A form \in Forms : FormAgrees(form, cps, EncodeString(form, cps, All(cps)).units)

\* What utf8_decode accepts is the encoding of a code point, all of it and nothing
\* else; the same of UTF-16; and the safe variants decide alike.
DecoderIsExact(form, s) ==
  s # <<>> =>
    \E p \in {DecodePoint(form, s, 0)} :
      LET units == SubSeq(s \o [i \in 1..4 |-> 0], 1, p.next)
      IN  /\ ~p.error => EncodePoint(form, p.cp) = units /\ (p.cp # 0 => Scalar(p.cp))
          /\ p.error => ~Scalar(p.cp) \/ EncodePoint(form, p.cp) # units
          /\ DecodeString(form, s, Len(s)) = DecodeStringSafe(form, s, Len(s))
=============================================================================
