------------------------------ MODULE Strings ------------------------------
(***************************************************************************)
(* string.cpp: a string is an array of units with a Nul behind the last    *)
(* one.  The three widths of unit share one definition of each operation,  *)
(* and the array functions the code casts to are those of Array.           *)
(*                                                                         *)
(* replace_all and resolve_environment_variables change the string once    *)
(* per round of their loops; scan is the round they are at.                *)
(*                                                                         *)
(* arrayFault ends the behaviour.  It stands for a use of memory that is   *)
(* not there, and for recasing a string that Recasable leaves out.         *)
(***************************************************************************)
EXTENDS Array, TextSearch

CONSTANTS
  TextMax,        \* bound: units a string is given room for
  Texts,          \* the constant strings that calls are given
  Recasable,        \* the encodings of code points that recasing rewrites by themselves
  UpperOf, LowerOf, \* what it makes of each unit of them
  Dollar, Backslash, NameUnits,
  Environ         \* the variables of the environment, in order: name and value

ASSUME StringAssumption ==
  LET strings == Seq(Contents \cup {Nul})
  IN  /\ TextMax \in Nat /\ Texts \subseteq strings
      /\ \A u \in Contents \cup {Nul} : {UpperOf[u], LowerOf[u]} \subseteq Contents \cup {Nul}
      /\ Environ \in Seq([name : strings, value : strings])

VARIABLE scan     \* the operation that is under way, if any, and whether a resolved
                  \* value was ever longer than its reference

stringVars == <<arr, arrayCall, arrayFault, scan>>

NoScan == [op |-> "none", at |-> 0, s |-> <<>>, from |-> 0, orig |-> <<>>, long |-> FALSE]

Now == ArrayItems

StringInit == ArrayInit /\ scan = NoScan

(***************************************************************************)
(* Memory                                                                  *)
(***************************************************************************)

\* The units of s written behind the first i cells.
Put(a, i, s) ==
  [a EXCEPT !.cells = [j \in DOMAIN a.cells |->
     IF j \in (i + 1)..(i + Len(s)) THEN s[j - i] ELSE a.cells[j]]]

\* n cells moved (memmove).
Shifted(a, from, to, n) == Put(a, to, SubSeq(a.cells, from + 1, from + n))

Ended(a) == Put(a, a.size, <<Nul>>)

\* Variant: there is room for the units, not for the Nul.
WithRoomTight(n) ==
  IF arr.reserved >= n THEN arr
  ELSE [arr EXCEPT !.data = "live", !.cells = Block(CeilExp2(n)), !.reserved = CeilExp2(n)]

\* string_reserve: room for n units and the Nul.
WithRoom(n) ==
  IF arr.reserved >= n + 1 THEN arr
  ELSE [arr EXCEPT !.data = "live", !.cells = Block(CeilExp2(n + 1)), !.reserved = CeilExp2(n + 1)]

Idle == scan.op = "none"

\* A call that makes room for n units and leaves new behind.  The result of the
\* reservation is not looked at: without memory the call writes past the block.
Calls(op, at, n, s, room, new) ==
  /\ Idle /\ room <= TextMax /\ UNCHANGED scan
  /\ \/ IF new.data = "live" THEN ArrayCalled(op, at, n, s) /\ Keeps(new) ELSE Faults
     \/ arr.reserved < room + 1 /\ AllocMayFail /\ Faults

(***************************************************************************)
(* Operations                                                              *)
(***************************************************************************)

\* init(n) of a string without memory: the array is made one larger.
StringInitSized(n) ==
  /\ arr.data = "null"
  /\ Calls("sized", 0, n, <<>>, n,
           [data |-> "live", size |-> n, reserved |-> n + 1,
            cells |-> [i \in 1..n |-> ArrayUnset] \o <<Nul>>])

\* init from a string, and the literals.
StringInitFrom(s) ==
  /\ arr.data = "null"
  /\ Calls("set", 0, 0, s, Len(s),
           [data |-> "live", size |-> Len(s), reserved |-> Len(s) + 1, cells |-> s \o <<Nul>>])

StringFree == Idle /\ UNCHANGED scan /\ ArrayCalled("clear", 0, 0, <<>>) /\ Keeps(NoArray)

StringReserve(n) ==
  /\ Idle /\ UNCHANGED scan /\ n <= TextMax /\ ArrayCalled("keep", 0, 0, <<>>)
  /\ Keeps(WithRoom(n)) \/ (AllocMayFail /\ Keeps(arr))

\* clear ends the string at its start, if there is one.
StringClear ==
  /\ Idle /\ UNCHANGED scan /\ ArrayCalled("clear", 0, 0, <<>>)
  /\ Keeps(Ended([arr EXCEPT !.size = 0]))

\* string_set from a string of the same kind of unit.
StringSet(s) ==
  Calls("set", 0, 0, s, Len(s), Ended(Put([WithRoom(Len(s)) EXCEPT !.size = Len(s)], 0, s)))

\* Up to n units of s go over the string from at on; the Nul is set only when the
\* string grew.
Copied(s, n, at) ==
  LET m == Least(n, Len(s))
      new == Put(WithRoom(at + m), at, SubSeq(s, 1, m))
  IN  IF m = 0 THEN arr
      ELSE IF arr.size < at + m THEN Ended([new EXCEPT !.size = at + m]) ELSE new

StringCopy(s, n, at) ==
  IF Least(n, Len(s)) = 0
  THEN Idle /\ UNCHANGED scan /\ ArrayCalled("copy", at, n, s) /\ Keeps(arr)
  ELSE Calls("copy", at, n, s, at + Least(n, Len(s)), Copied(s, n, at))

\* string_copy(s, n) into a string of its own: of no units it has no memory either.
StringCopyNew(s, n) == arr = NoArray /\ StringCopy(s, n, 0)

\* append and prepend ask for one unit more than they need when they grow.
Extra(n) == IF arr.reserved - arr.size < n + 1 THEN arr.size + n + 1 ELSE 0

StringAppend(s) ==
  IF s = <<>> THEN Idle /\ UNCHANGED scan /\ ArrayCalled("append", 0, 0, s) /\ Keeps(arr)
  ELSE Calls("append", 0, 0, s, Extra(Len(s)),
             Ended(Put([WithRoom(Extra(Len(s))) EXCEPT !.size = @ + Len(s)], arr.size, s)))

Prepended(s) ==
  LET a == WithRoom(Extra(Len(s)))
  IN  Ended(Put([Shifted(a, 0, Len(s), arr.size) EXCEPT !.size = @ + Len(s)], 0, s))

StringPrepend(s) ==
  IF s = <<>> THEN Idle /\ UNCHANGED scan /\ ArrayCalled("prepend", 0, 0, s) /\ Keeps(arr)
  ELSE Calls("prepend", 0, 0, s, Extra(Len(s)), Prepended(s))

Trims(a, i) == i \in DOMAIN a.cells /\ i <= a.size /\ a.cells[i] \in Blanks \cup {Nul}

LeftTrimmed(a) ==
  LET n == CHOOSE i \in 0..a.size : (\A j \in 1..i : Trims(a, j)) /\ ~Trims(a, i + 1)
  IN  IF n = 0 THEN a ELSE Ended([Shifted(a, n, 0, a.size - n) EXCEPT !.size = a.size - n])

RightTrimmed(a) ==
  Ended([a EXCEPT !.size = CHOOSE i \in 0..a.size :
    (\A j \in (i + 1)..a.size : Trims(a, j)) /\ (i = 0 \/ ~Trims(a, i))])

StringTrimLeft ==
  Idle /\ UNCHANGED scan /\ ArrayCalled("trim_left", 0, 0, <<>>) /\ Keeps(LeftTrimmed(arr))

\* trim_right writes a Nul even behind a string that has no memory.
StringTrimRight == Calls("trim_right", 0, 0, <<>>, 0, RightTrimmed(arr))
StringTrim      == Calls("trim", 0, 0, <<>>, 0, RightTrimmed(LeftTrimmed(arr)))

\* utf_to_upper and utf_to_lower, in place.  For the wider strings the code takes the
\* bytes at the start of each code point for UTF-8 and writes UTF-8 back (Encodings
\* computes it): a low byte that is ASCII is rewritten alone, be the unit a or U+0161;
\* one from E0 to F7 in a u16 string rewrites the next unit too, at the end the Nul.
\* A code point of a UTF-8 string is rewritten by itself, unless the string ends
\* within it.  What becomes of a string with any that is not is not followed.
Recased(to) ==
  [arr EXCEPT !.cells = [j \in DOMAIN arr.cells |->
     IF j <= arr.size THEN to[arr.cells[j]] ELSE arr.cells[j]]]

StringRecase(op, to) ==
  /\ Idle /\ UNCHANGED scan
  /\ IF MadeOf(Now, Recasable) THEN ArrayCalled(op, 0, 0, <<>>) /\ Keeps(Recased(to)) ELSE Faults

StringUpper == StringRecase("upper", UpperOf)
StringLower == StringRecase("lower", LowerOf)

\* substring into the string at at; a slice that claims more than is there reads
\* past the end of its source.
StringSubstring(s, start, n, at) ==
  LET slice == Slice(s, start, n)
      end == at + Len(slice)
      new == Put(IF end >= arr.size THEN WithRoom(end) ELSE arr, at, slice)
      grown == [new EXCEPT !.size = IF @ < end THEN end ELSE @]
  IN  IF ~SliceInside(s, start, n) THEN Idle /\ Faults /\ UNCHANGED scan
      ELSE /\ at <= arr.size
           /\ Calls("copy", at, Len(slice), slice, IF end >= arr.size THEN end ELSE 0,
                    IF end >= arr.size THEN Ended(grown) ELSE grown)

StringJoin(pieces, delim) ==
  LET all == JoinPieces(pieces, delim)
  IN  IF pieces = <<>>
      THEN Idle /\ UNCHANGED scan /\ ArrayCalled("join", 0, 0, <<pieces, delim>>) /\ Keeps(arr)
      ELSE Calls("join", 0, 0, <<pieces, delim>>, Len(all),
                 Ended(Put([WithRoom(Len(all)) EXCEPT !.size = Len(all)], 0, all)))

(***************************************************************************)
(* Replacing                                                               *)
(***************************************************************************)

\* Variant: as many units move as there are behind the new end of the needle.
SplicedShort(i, needle, new) ==
  LET size == arr.size + Len(new) - Len(needle)
      a == IF Len(needle) < Len(new) THEN WithRoom(size) ELSE arr
      moved == Shifted(a, i + Len(needle), i + Len(new), size - i - Len(needle))
  IN  IF Len(needle) = Len(new) THEN Put(arr, i, new)
      ELSE Put(Ended([moved EXCEPT !.size = size]), i, new)

\* The needle at i gives way to new: what is behind it moves, then new is copied.
Spliced(i, needle, new) ==
  LET size == arr.size + Len(new) - Len(needle)
      a == IF Len(needle) < Len(new) THEN WithRoom(size) ELSE arr
      moved == Shifted(a, i + Len(needle), i + Len(new), arr.size - i - Len(needle))
  IN  IF Len(needle) = Len(new) THEN Put(arr, i, new)
      ELSE Put(Ended([moved EXCEPT !.size = size]), i, new)

Found(needle, at) == IF needle = <<>> THEN -1 ELSE IndexOf(Now, needle, at)

SpliceRoom(needle, new) ==
  IF Len(needle) < Len(new) THEN arr.size + Len(new) - Len(needle) ELSE 0

StringReplace(needle, new, at) ==
  LET i == Found(needle, at)
  IN  IF i < 0
      THEN Idle /\ UNCHANGED scan /\ ArrayCalled("replace", at, 0, <<needle, new>>) /\ Keeps(arr)
      ELSE Calls("replace", at, 0, <<needle, new>>, SpliceRoom(needle, new),
                 Spliced(i, needle, new))

Begins(op, from, s) ==
  /\ Idle /\ ~arrayFault /\ UNCHANGED <<arr, arrayCall, arrayFault>>
  /\ scan' = [op |-> op, at |-> from, s |-> s, from |-> from, orig |-> Now, long |-> scan.long]

\* The last round: the call is over.
Finishes(op) ==
  ArrayCalled(op, scan.from, 0, scan.s) /\ UNCHANGED <<arr, arrayFault>>
  /\ scan' = [NoScan EXCEPT !.long = scan.long]

\* A round that leaves new behind and goes on at at.
Proceeds(at, room, new) ==
  /\ ~arrayFault /\ room < ArrayMax
  /\ \/ Keeps(new) /\ UNCHANGED arrayCall
        /\ scan' = [scan EXCEPT !.at = at, !.long = @ \/ (scan.op = "resolve" /\ room > 0)]
     \/ arr.reserved < room + 1 /\ AllocMayFail /\ Faults /\ UNCHANGED scan

ReplaceAllBegin(needle, new, at) == Begins("replace_all", at, <<needle, new>>)

\* The search goes on one unit behind the start of the replacement.
ReplaceAllNext(i, new) == i + 1

ReplaceAllRound ==
  /\ scan.op = "replace_all"
  /\ LET needle == scan.s[1]  new == scan.s[2]  i == Found(needle, scan.at)
     IN  IF i < 0 THEN Finishes("replace_all")
         ELSE Proceeds(ReplaceAllNext(i, new), SpliceRoom(needle, new), Spliced(i, needle, new))

(***************************************************************************)
(* Environment variables                                                   *)
(***************************************************************************)

\* get_environment_variable: the first variable with a name of this size that
\* agrees with it in all units but the last, which is not compared.
EnvironmentValue(name) ==
  LET fits == {i \in 1..Len(Environ) :
                 /\ Len(Environ[i].name) = Len(name)
                 /\ Compare(SubSeq(Environ[i].name, 1, Len(name) - 1),
                            SubSeq(name, 1, Len(name) - 1), Len(name) - 1) = 0}
  IN  IF name = <<>> \/ fits = {} THEN <<>>
      ELSE Environ[CHOOSE i \in fits : \A j \in fits : i <= j].value

\* The variable whose name ends at end gives way to its value; the cells that
\* become free are cleared, but behind a string that grew no Nul is written.
Resolved(i, end, value) ==
  LET by == Len(value) - (end - i)
      a == IF by > 0 THEN WithRoom(arr.size + by) ELSE arr
      moved == Shifted(a, end, end + by, arr.size - end)
      filled == IF by >= 0 THEN moved
                ELSE Put(moved, arr.size + by, [j \in 1..(-by) |-> Nul])
  IN  Put([filled EXCEPT !.size = arr.size + by], i, value)

ResolveBegin == Begins("resolve", 0, <<>>)

ResolveRound ==
  /\ scan.op = "resolve"
  /\ LET i == scan.at
         end == CHOOSE j \in (i + 1)..arr.size :
                  /\ \A k \in (i + 2)..j : Now[k] \in NameUnits
                  /\ j = arr.size \/ Now[j + 1] \notin NameUnits
         value == EnvironmentValue(SubSeq(Now, i + 2, end))
     IN  IF i >= arr.size THEN Finishes("resolve")
         ELSE IF i + 1 < arr.size /\ Now[i + 1] = Backslash /\ Now[i + 2] = Dollar
              THEN Proceeds(i + 1, 0, Ended([Shifted(arr, i + 1, i, arr.size - i)
                                              EXCEPT !.size = @ - 1]))
         ELSE IF Now[i + 1] # Dollar THEN Proceeds(i + 1, 0, arr)
         ELSE Proceeds(i + Len(value),
                       IF Len(value) > end - i THEN arr.size + Len(value) - (end - i) ELSE 0,
                       Resolved(i, end, value))

Places == 0..TextMax

\* One call, or one round of a loop, with the constant strings it may be given.
StringSteps(texts) ==
  \/ \E n \in Places : StringInitSized(n) \/ StringReserve(n)
  \/ \E s \in texts :
       \/ StringInitFrom(s) \/ StringSet(s) \/ StringAppend(s) \/ StringPrepend(s)
       \/ \E n \in 0..2 : \/ \E at \in Places : StringCopy(s, n, at)
                          \/ StringCopyNew(s, n)
                          \/ \E start \in 0..2, at \in Places :
                               n > 0 /\ StringSubstring(s, start, n, at)
       \/ \E t \in texts : \/ StringJoin(<<s, t>>, <<>>) \/ StringJoin(<<>>, s)
                           \/ StringJoin(<<s, s>>, t)
                           \/ \E at \in 0..1 : StringReplace(s, t, at) \/ ReplaceAllBegin(s, t, at)
  \/ StringFree \/ StringClear \/ StringTrimLeft \/ StringTrimRight \/ StringTrim
  \/ StringUpper \/ StringLower \/ ReplaceAllRound \/ ResolveBegin \/ ResolveRound

StringNext == StringSteps(Texts)

StringSpec == StringInit /\ [][StringNext]_stringVars

(***************************************************************************)
(* Properties                                                              *)
(***************************************************************************)

\* "string & co are null-terminated" (string.hpp): between calls a string that is
\* not empty has a Nul behind its last unit, within its block.  (One that was only
\* given room for units has none yet.)
NullTerminated ==
  Idle /\ arr.size > 0 => arr.size < Len(arr.cells) /\ arr.cells[arr.size + 1] = Nul

\* Whatever sequence of calls made, grew, shrank and moved the string, it has its
\* Nul, unless resolve_environment_variables put a value into it that is longer
\* than its reference, or it was recased with a code point that is not Recasable: a
\* u16string that ends in U+00E9 has its Nul written over (string.cpp:1457), which
\* ends the behaviour here.
Terminated == ~scan.long => NullTerminated

EnvironmentFunction ==
  [name \in {Environ[i].name : i \in 1..Len(Environ)} |->
     Environ[CHOOSE i \in 1..Len(Environ) : Environ[i].name = name].value]

TextOf ==
  INSTANCE Text WITH
    Units <- Contents \cup {Nul}, Environment <- EnvironmentFunction,
    text <- IF Idle THEN Now ELSE scan.orig, call <- arrayCall

\* Every call that returns, however many moves of memory it takes, changes the text as
\* the header says.  Three end the behaviour: one that gets no memory, trim_right of a
\* string that has none among them (string.cpp:1385), a slice that reaches behind its
\* source, and utf_to_upper or utf_to_lower of a string with a code point that is not
\* Recasable.  Upper case is what UpperOf says: in wide strings U+0161 becomes U+0141,
\* where the header promises upper case of the entire string (string.hpp:261).
StringIsText == TextOf!Spec

\* "Any variable not found is replaced by an empty string" (string.hpp), and one
\* that is found by its value.
ResolvesByName ==
  [][scan.op = "resolve" /\ scan'.op = "none" => TextOf!Resolve]_stringVars

\* pieces are what s splits now into.
SplitAgrees(now, s, pieces) ==
  /\ JoinPieces(pieces, s) = now
  /\ \A i \in DOMAIN pieces : IndexOf(pieces[i], s, 0) = -1

LastAgrees(now, s, last, back) ==
  IF back = -1 THEN last = -1 ELSE last = Len(now) - Len(s) - back

\* What the searches and the taking apart tell of a string: a split is undone by a
\* join and finds as many delimiters as it returns, the last occurrence is the first
\* of the string read backwards, the comparisons agree with the prefixes and suffixes,
\* and the searches for a unit with those for a string of it.
SearchAgrees(now, s, offsets) ==
  /\ s # <<>> =>
       /\ SplitAgrees(now, s, SplitPieces(now, s))
       /\ \A at \in offsets :
            LastAgrees(now, s, LastIndexOf(now, s, at),
              IndexOf(Reverse(now), Reverse(s), Len(now) - Len(s) - Least(at, Len(now) - Len(s))))
  /\ BeginsWith(now, s) <=> (s = <<>> \/ IndexOf(now, s, 0) = 0)
  /\ EndsWith(now, s) <=>
       (s = <<>> \/ (Len(s) <= Len(now) /\ LastIndexOf(now, s, Len(now)) = Len(now) - Len(s)))
  /\ Equals(now, s) <=> now = s
  /\ Len(s) = 1 => \A at \in offsets :
       /\ IndexOfUnit(now, s[1], at) = IndexOf(now, s, at)
       /\ LastIndexOfUnit(now, s[1], at) = LastIndexOf(now, s, at)

TrimEmpties(now) ==
  RightTrimmed([data |-> "live", cells |-> Append(now, Nul),
                size |-> Len(now), reserved |-> Len(now) + 1]).size = 0

\* What trim takes away is blank.  What is blank it takes away but for the blanks that
\* are encoded in several units, as U+00A0 is in UTF-8: string_is_blank decodes code
\* points (string.cpp:410-416), trim looks at units (1334, 1369), and keeps them.
BlankIsTrimmed(now) ==
  /\ TrimEmpties(now) => IsBlank(now)
  /\ IsBlank(now) /\ ~TrimEmpties(now) =>
       \E p \in BlankPoints, i \in 0..Len(now) :
         Len(p) > 1 /\ i + Len(p) <= Len(now) /\ SubSeq(now, i + 1, i + Len(p)) = p
  /\ IsSpace(now) => IsBlank(now)
=============================================================================
