----------------------------- MODULE TextSearch -----------------------------
(***************************************************************************)
(* string.cpp: what strings are compared by, searched for and split into.  *)
(* A string is the sequence of its units; indices count the units before,  *)
(* as the code's do, and -1 is "not found".                                *)
(***************************************************************************)
EXTENDS Integers, Sequences, SequencesExt

CONSTANTS
  Blanks,   \* units is_space accepts
  BlankPoints,  \* the encodings of the code points it accepts, of one unit or of more
  Nul       \* the unit that ends a string

ASSUME SearchAssumption == <<>> \notin BlankPoints /\ \A u \in Blanks : <<u>> \in BlankPoints

Least(a, b) == IF a < b THEN a ELSE b

\* compare_ascending.
Sign(a, b) == IF a < b THEN -1 ELSE IF a > b THEN 1 ELSE 0

(***************************************************************************)
(* Comparing                                                               *)
(***************************************************************************)

\* Strings of which one is shorter than n are told apart by their sizes; then
\* the first n units decide.
Compare(s, t, n) ==
  IF (Len(s) < n \/ Len(t) < n) /\ Len(s) # Len(t) THEN Sign(Len(s), Len(t))
  ELSE LET m == Least(n, Least(Len(s), Len(t)))
           differ == {i \in 1..m : s[i] # t[i]}
       IN  IF differ = {} THEN 0
           ELSE LET i == CHOOSE i \in differ : \A j \in differ : i <= j IN Sign(s[i], t[i])

\* Without a bound all units count.
Equals(s, t) == Compare(s, t, Len(s) + Len(t)) = 0

BeginsWith(s, prefix) == Compare(prefix, s, Len(prefix)) = 0

EndsWith(s, suffix) ==
  /\ Len(s) >= Len(suffix)
  /\ Compare(SubSeq(s, Len(s) - Len(suffix) + 1, Len(s)), suffix, Len(suffix)) = 0

\* s is one after the other of the points, each of some units.
MadeOf(s, points) ==
  LET from[i \in 0..Len(s)] ==
        \/ i = Len(s)
        \/ \E p \in points : /\ p # <<>> /\ i + Len(p) <= Len(s)
                             /\ SubSeq(s, i + 1, i + Len(p)) = p /\ from[i + Len(p)]
  IN  from[0]

\* Code point by code point, of a string that does not end within one.
IsBlank(s) == MadeOf(s, BlankPoints \cup {<<Nul>>})

\* is_space and its kind, asked of a whole string.
IsSpace(s) == s # <<>> /\ MadeOf(s, BlankPoints)

(***************************************************************************)
(* Searching                                                               *)
(***************************************************************************)

\* The first index from offset on that passes, or -1.
FirstFrom(offset, last, Passes) ==
  LET found == {i \in offset..last : Passes[i]}
  IN  IF found = {} THEN -1 ELSE CHOOSE i \in found : \A j \in found : i <= j

Matches(s, needle) ==
  [i \in 0..Len(s) |-> i + Len(needle) <= Len(s) /\ SubSeq(s, i + 1, i + Len(needle)) = needle]

IndexOfUnit(s, unit, offset) ==
  IF offset < 0 \/ offset >= Len(s) THEN -1
  ELSE FirstFrom(offset, Len(s) - 1, [i \in 0..(Len(s) - 1) |-> s[i + 1] = unit])

\* An empty needle is found wherever one looks, even behind the end.
IndexOf(s, needle, offset) ==
  IF offset < 0 THEN -1
  ELSE IF needle = <<>> THEN offset
  ELSE IF offset >= Len(s) \/ Len(needle) > Len(s) THEN -1
  ELSE FirstFrom(offset, Len(s) - 1, Matches(s, needle))

\* The last index up to offset that passes, or -1.
LastUpto(offset, Passes) ==
  LET found == {i \in 0..offset : Passes[i]}
  IN  IF found = {} THEN -1 ELSE CHOOSE i \in found : \A j \in found : i >= j

LastIndexOfUnit(s, unit, offset) ==
  IF offset < 0 \/ s = <<>> THEN -1
  ELSE LastUpto(Least(offset, Len(s) - 1), [i \in 0..(Len(s) - 1) |-> s[i + 1] = unit])

\* Variant: the search may begin where the needle no longer fits.
LastIndexOfShort(s, needle, offset) ==
  IF offset < 0 THEN -1
  ELSE IF needle = <<>> THEN offset
  ELSE IF Len(needle) > Len(s) THEN -1
  ELSE LastUpto(Least(offset, Len(s) - Len(needle) - 1), Matches(s, needle))

LastIndexOf(s, needle, offset) ==
  IF offset < 0 THEN -1
  ELSE IF needle = <<>> THEN offset
  ELSE IF Len(needle) > Len(s) THEN -1
  ELSE LastUpto(Least(offset, Len(s) - Len(needle)), Matches(s, needle))

(***************************************************************************)
(* Taking apart                                                            *)
(***************************************************************************)

\* The pieces between the delimiters, of which there is one more than there are
\* delimiters; an empty delimiter yields nothing and leaves the array as it was.
SplitPieces(s, delim) ==
  LET rest[begin \in 0..(Len(s) + Len(delim))] ==
        LET end == IndexOf(s, delim, begin)
        IN  IF end < 0 THEN <<SubSeq(s, begin + 1, Len(s))>>
            ELSE <<SubSeq(s, begin + 1, end)>> \o rest[end + Len(delim)]
  IN  IF delim = <<>> THEN <<>> ELSE rest[0]

\* The strings one after the other with the delimiter between them.
JoinPieces(pieces, delim) ==
  FoldLeft(LAMBDA joined, i : joined \o (IF i = 1 THEN <<>> ELSE delim) \o pieces[i],
           <<>>, [i \in 1..Len(pieces) |-> i])

\* The slice of at most n units from start.  The code compares n with the size
\* plus start, so a slice that reaches over the end by less keeps its size:
\* SliceSize says how much it claims, Slice what of it is there.
SliceSize(s, start, n) ==
  IF start >= Len(s) THEN 0
  ELSE IF n > Len(s) + start THEN Len(s) - start ELSE n

SliceInside(s, start, n) == Least(start, Len(s)) + SliceSize(s, start, n) <= Len(s)

Slice(s, start, n) ==
  LET from == Least(start, Len(s)) IN SubSeq(s, from + 1, from + SliceSize(s, start, n))
=============================================================================
