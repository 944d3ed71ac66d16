---------------------------- MODULE ItemSequence ----------------------------
(***************************************************************************)
(* What array.hpp and linked_list.hpp promise: a sequence of elements that *)
(* ranges are put into and taken out of.  A position counts the elements   *)
(* before it; one outside the sequence changes nothing.  An element that a *)
(* call makes room for holds anything until it is written.                 *)
(***************************************************************************)
EXTENDS Integers, Sequences

CONSTANT Values   \* what an element may hold

VARIABLES items,  \* the elements
          call    \* the latest call: what it is, the position and the count it is
                  \* given, and the values

vars == <<items, call>>

Called(op) == call'.op = op
Upto(i) == SubSeq(items, 1, i)
From(i) == SubSeq(items, i + 1, Len(items))
AnyOf(n) == [1..n -> Values]

Init == items = <<>> /\ call = [op |-> "init", at |-> 0, n |-> 0, s |-> <<>>]

Insert ==
  /\ Called("insert")
  /\ LET i == call'.at
     IN  items' = IF i \in 0..Len(items) THEN Upto(i) \o call'.s \o From(i) ELSE items

\* Room for n elements before position i.
Grow ==
  /\ Called("grow")
  /\ LET i == call'.at  n == call'.n
     IN  IF i \in 0..Len(items) /\ n > 0
         THEN \E s \in AnyOf(n) : items' = Upto(i) \o s \o From(i)
         ELSE items' = items

Remove ==
  /\ Called("remove")
  /\ LET i == call'.at  n == call'.n
     IN  items' = IF i \in 0..(Len(items) - 1) /\ n > 0 THEN Upto(i) \o From(i + n) ELSE items

Resize ==
  /\ Called("resize")
  /\ IF call'.n <= Len(items)
     THEN items' = Upto(call'.n)
     ELSE \E s \in AnyOf(call'.n - Len(items)) : items' = items \o s

Assign ==
  /\ Called("assign") /\ call'.at \in 0..(Len(items) - 1)
  /\ items' = [items EXCEPT ![call'.at + 1] = call'.s[1]]

\* A call for which there was no memory.
Refuse == Called("refused") /\ items' = items

Next == Insert \/ Grow \/ Remove \/ Resize \/ Assign \/ Refuse

Spec == Init /\ [][Next]_vars
=============================================================================
