-------------------------------- MODULE Text --------------------------------
(***************************************************************************)
(* What string.hpp promises of a string: a sequence of units that calls    *)
(* replace, extend, cut and rewrite.  Where it says nothing the text may   *)
(* become anything.                                                        *)
(***************************************************************************)
EXTENDS Integers, Sequences, SequencesExt

CONSTANTS
  Units,        \* what a unit may be
  Blanks, Nul,  \* the units that trimming removes
  UpperOf,      \* what is taken for the upper case of each unit, and
  LowerOf,      \* for the lower case
  Dollar, Backslash, NameUnits,
  Environment   \* the value of each environment variable that is set

VARIABLES text, call

vars == <<text, call>>

Called(op) == call'.op = op
Start(s, n) == SubSeq(s, 1, n)
Rest(s, n)  == SubSeq(s, n + 1, Len(s))
Trimmable   == Blanks \cup {Nul}

Init == text = <<>> /\ call = [op |-> "init", at |-> 0, n |-> 0, s |-> <<>>]

\* A string of a given size and unknown content.
Sized == Called("sized") /\ Len(text') = call'.n /\ \A i \in 1..call'.n : text'[i] \in Units

SetTo == Called("set") /\ text' = call'.s

\* n units of s go into the text from at on; a gap between its end and at holds
\* anything.
CopyInto ==
  /\ Called("copy")
  /\ LET s == Start(call'.s, IF call'.n < Len(call'.s) THEN call'.n ELSE Len(call'.s))
         at == call'.at
     IN  IF s = <<>> THEN text' = text
         ELSE /\ Start(text', IF at < Len(text) THEN at ELSE Len(text))
                   = Start(text, IF at < Len(text) THEN at ELSE Len(text))
              /\ SubSeq(text', at + 1, at + Len(s)) = s
              /\ Rest(text', at + Len(s)) = Rest(text, at + Len(s))

Extend  == Called("append") /\ text' = text \o call'.s
Prepend == Called("prepend") /\ text' = call'.s \o text
Clear   == Called("clear") /\ text' = <<>>
Keep    == Called("keep") /\ text' = text

\* Both ends trimmed, or the one named: the units removed are blank, and the unit
\* now at that end is not.
Trim ==
  /\ call'.op \in {"trim_left", "trim_right", "trim"}
  /\ \E i \in 0..Len(text), j \in 0..Len(text) :
       /\ i <= j /\ text' = SubSeq(text, i + 1, j)
       /\ \A k \in (1..i) \cup ((j + 1)..Len(text)) : text[k] \in Trimmable
       /\ IF call'.op = "trim_right" THEN i = 0
          ELSE text' = <<>> \/ text[i + 1] \notin Trimmable
       /\ IF call'.op = "trim_left" THEN j = Len(text)
          ELSE text' = <<>> \/ text[j] \notin Trimmable

ToUpper == Called("upper") /\ text' = [i \in 1..Len(text) |-> UpperOf[text[i]]]
ToLower == Called("lower") /\ text' = [i \in 1..Len(text) |-> LowerOf[text[i]]]

\* The strings of s[1] with s[2] between them.
Join ==
  /\ Called("join")
  /\ LET pieces == call'.s[1]
     IN  text' = IF pieces = <<>> THEN text
                 ELSE FoldLeft(LAMBDA t, u : t \o call'.s[2] \o u, Head(pieces), Tail(pieces))

Occurs(s, needle, i) == i + Len(needle) <= Len(s) /\ SubSeq(s, i + 1, i + Len(needle)) = needle

\* The first occurrence of s[1] from at on becomes s[2].
Replace ==
  /\ Called("replace")
  /\ LET needle == call'.s[1]  new == call'.s[2]
         found == {i \in call'.at..Len(text) : needle # <<>> /\ Occurs(text, needle, i)}
     IN  IF found = {} THEN text' = text
         ELSE LET i == CHOOSE i \in found : \A j \in found : i <= j
              IN  text' = Start(text, i) \o new \o Rest(text, i + Len(needle))

\* Every occurrence, from left to right; with a replacement that is empty or has
\* units in common with the needle the header leaves open what is an occurrence.
ReplaceEvery ==
  /\ Called("replace_all")
  /\ LET needle == call'.s[1]  new == call'.s[2]  at == call'.at
         clear == new # <<>> /\ ToSet(needle) \cap ToSet(new) = {}
         from[i \in 0..(Len(text) + Len(needle))] ==
           IF i >= Len(text) THEN <<>>
           ELSE IF Occurs(text, needle, i) THEN new \o from[i + Len(needle)]
           ELSE <<text[i + 1]>> \o from[i + 1]
     IN  IF needle = <<>> \/ at > Len(text) THEN text' = text
         ELSE clear => text' = Start(text, at) \o from[at]

\* \$ becomes $, and $name the value of the variable, or nothing.
Resolve ==
  /\ Called("resolve")
  /\ LET NameEnd(i) ==
           LET ends == {j \in i..Len(text) : j = Len(text) \/ text[j + 1] \notin NameUnits}
           IN  CHOOSE j \in ends : \A k \in ends : j <= k
         Value(name) == IF name \in DOMAIN Environment THEN Environment[name] ELSE <<>>
         from[i \in 0..Len(text)] ==
           IF i = Len(text) THEN <<>>
           ELSE IF i + 1 < Len(text) /\ text[i + 1] = Backslash /\ text[i + 2] = Dollar
                THEN <<Dollar>> \o from[i + 2]
           ELSE IF text[i + 1] = Dollar
                THEN Value(SubSeq(text, i + 2, NameEnd(i + 1))) \o from[NameEnd(i + 1)]
           ELSE <<text[i + 1]>> \o from[i + 1]
     IN  text' = from[0]

Next ==
  \/ Sized \/ SetTo \/ CopyInto \/ Extend \/ Prepend \/ Clear \/ Keep
  \/ Trim \/ ToUpper \/ ToLower \/ Join \/ Replace \/ ReplaceEvery \/ Resolve

Spec == Init /\ [][Next]_vars
=============================================================================
