--------------------------- MODULE UniqueElements ---------------------------
(***************************************************************************)
(* What set.hpp promises: a set of values.  Taking out a range of indices  *)
(* or truncating takes out some of them.                                   *)
(***************************************************************************)
CONSTANT Values

VARIABLES members,
          call     \* the latest call: its kind and the value given

vars == <<members, call>>

Init == members = {} /\ call = [op |-> "init", v |-> <<>>]

Insert(v) == call' = [op |-> "insert", v |-> <<v>>] /\ members' = members \cup {v}
Remove(v) == call' = [op |-> "remove", v |-> <<v>>] /\ members' = members \ {v}

\* remove_elements_at_index, resize, clear, free.
Truncate ==
  \E op \in {"remove", "resize"} :
    call' = [op |-> op, v |-> <<>>] /\ members' \in SUBSET members

\* reserve and shrink_to_fit, and a call for which there was no memory.
Other == \E op \in {"grow", "refused"} : call' = [op |-> op, v |-> <<>>] /\ members' = members

Next == Truncate \/ Other \/ \E v \in Values : Insert(v) \/ Remove(v)

Spec == Init /\ [][Next]_vars
=============================================================================
