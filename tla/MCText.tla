------------------------------- MODULE MCText -------------------------------
(* A behaviour is that of one string, or of tformat, or it makes up a text for *)
(* the searches, the encodings, the numbers or the formats, a unit at a time.  *)
EXTENDS Strings, Encodings, Format, TemporaryFormat

VARIABLES
  part,
  units,   \* the units a string keeps to: all of them at once show nothing more
  sample   \* the text made up

\* A, a, a space, a dollar and a backslash; 9 is what fresh memory holds.
MCTexts == {<<>>, <<3>>, <<2, 1>>, <<1, 3>>, <<4, 1>>, <<5, 4>>}
MCAlphabets == {{1, 2}, {1, 3}, {1, 4}, {4, 5}}
MCBlanks == {3}
MCBlankPoints == {<<3>>, <<6, 7>>}   \* the second as U+00A0 is in UTF-8
MCRecasable == {<<u>> : u \in 0..5}  \* fresh memory holds anything
MCUpper == [c \in 0..9 |-> IF c = 2 THEN 1 ELSE c]
MCLower == [c \in 0..9 |-> IF c = 1 THEN 2 ELSE c]
MCEnviron ==
  <<[name |-> <<1>>, value |-> <<1, 1, 1>>], [name |-> <<1, 1>>, value |-> <<1>>]>>
MCOneVariable == <<[name |-> <<2>>, value |-> <<1>>]>>
MCRanges == {}

\* The ends of the ranges of the encodings, and units that begin, go on with and
\* spoil an encoding; a, and the letter U+00E9.
MCPoints == {65, 97, 127, 233, 128, 2047, 2048, 55295, 57344, 65535, 65536, 1114111}
MCBytes  == {65, 128, 144, 160, 191, 193, 194, 224, 226, 237, 240, 244, 245}
MCHalves == {65, 55296, 56319, 56320, 57343, 65535}
MCDigits == {0, 1, 8, LetterB, LetterE, LetterX, Minus, Point}

\* A, a and a space: in a text, and in what is searched for.
MCSearched == 1..3
MCNeedles  == UNION {[1..n -> MCSearched] : n \in 0..2}
MCBlankTexts == {0, 1, 3, 6, 7}

MCBases == {0, 2, 10, 16}
MCTypes == {<<-128, 127>>, <<0, 255>>}   \* s8 and u8

\* A format of these, and what is given to it; text is not written in a base.
MCFormat == {Percent, Slash, Sharp, Minus, 0, 1, Point, LetterX}
MCRooms  == {0, 1, 2, 3, 5, 8}
Number(n)   == [kind |-> "int", x |-> n, narrow |-> TRUE]
MCArguments ==
  {<<>>, <<Number(-5)>>, <<Number(0), Number(13)>>, <<[kind |-> "pointer", x |-> 30, narrow |-> FALSE]>>}
MCTextArguments == {<<[kind |-> "text", s |-> <<10, 11>>], Number(3)>>}

Samples ==
  [points |-> MCPoints, utf8 |-> MCBytes, utf16 |-> MCHalves, number |-> MCDigits,
   search |-> MCSearched, blank |-> MCBlankTexts, format |-> MCFormat]
MostUnits == [points |-> 2, utf8 |-> 4, utf16 |-> 3, number |-> 4, search |-> 5,
              blank |-> 4, format |-> 4]
MostDigits == 2   \* of a format, in its lengths

Init ==
  /\ StringInit /\ TemporaryInit /\ sample = <<>>
  /\ \/ part = "string" /\ units \in MCAlphabets
     \/ part \in {"temporary"} \cup DOMAIN Samples /\ units = {}

StringPart ==
  /\ part = "string" /\ StringSteps({s \in Texts : ToSet(s) \subseteq units})
  /\ ToSet(arr'.cells) \subseteq units \cup {0, 9}
  /\ UNCHANGED <<temporaryVars, part, units, sample>>

SamplePart ==
  /\ part \in DOMAIN Samples /\ Len(sample) < MostUnits[part]
  /\ \E u \in Samples[part] : sample' = Append(sample, u)
  /\ part = "format" => Len(SelectSeq(sample', LAMBDA u : u \in 0..9)) <= MostDigits
  /\ UNCHANGED <<stringVars, temporaryVars, part, units>>

TemporaryPart ==
  part = "temporary" /\ TemporaryNext /\ UNCHANGED <<stringVars, part, units, sample>>

Next == StringPart \/ SamplePart \/ TemporaryPart
Spec == Init /\ [][Next]_<<stringVars, temporaryVars, part, units, sample>>

\* Code points that exist survive every path through the three forms, the room asked
\* for is the room used, and what does not fit is cut between code points
\* (string_convert and string_conversion_bytes_required); UTF-8 and ASCII have the
\* upper case of their code points (utf_to_upper: other text in wider units has not).
EveryPathAgrees == part = "points" => PathsAgree(sample)

\* Splitting and joining, and searching forwards and backwards from any offset, agree
\* with each other and with the comparisons; what is trimmed away is blank, and what
\* is blank is trimmed away but for blanks of several units.
SearchesAgree ==
  /\ part = "search" => \A s \in MCNeedles : SearchAgrees(sample, s, 0..(Len(sample) + 1))
  /\ part = "blank" => BlankIsTrimmed(sample)

\* The decoders accept the encodings of code points and nothing else, and the safe
\* variants decide alike.
DecodersAreExact ==
  /\ part = "utf8" => DecoderIsExact(8, sample)
  /\ part = "utf16" => DecoderIsExact(16, sample)

\* Integers and decimal numbers are read up to the end of the longest numeral, and
\* their value is the numeral's, or the end of the type it lies behind.
NumbersAreRead ==
  part = "number" =>
    /\ \A base \in MCBases, t \in MCTypes : IntegerIsRead(sample, base, t[1], t[2])
    /\ DecimalIsRead(sample)
    /\ sample = <<>> => \A x \in -128..127, base \in {2, 8, 10, 16} : WrittenIsRead(x, base, -128, 127)

\* A format writes into a buffer of any room the beginning of what it writes into one
\* with room for all, and makes room for all of it in a string whose room is a power of
\* two, as string_reserve makes it (format.hpp).
FormatsFit ==
  part = "format" =>
    \A args \in MCArguments \cup (IF LetterX \in ToSet(sample) THEN {} ELSE MCTextArguments) :
      FormatFits(sample, args, MCRooms)

\* "const_string & co aren't guaranteed to be null terminated and are often used as
\* slices to strings" (string.hpp): reading a number at the end of a slice ends,
\* whatever lies behind the slice.
ReadingEnds == part = "number" => SlicesAreRead(sample)
=============================================================================
