----------------------------- MODULE HandlePool -----------------------------
(***************************************************************************)
(* What chunk_array.hpp promises: a pool that hands out an index for each  *)
(* element and does not move it.  The element stays at its index, with the *)
(* value last written there, until that index is removed.                  *)
(***************************************************************************)
EXTENDS Functions

CONSTANTS Handles, Values, Nowhere

VARIABLES items,  \* the element at each index that is in use
          done    \* the latest call, with the index it returned or was given

vars == <<items, done>>

Empty == <<>>
Done(op, h) == done' = [op |-> op, at |-> h]

Init == items = Empty /\ done = [op |-> "init", at |-> Nowhere]

Add(v) ==
  \E h \in Handles \ DOMAIN items :
    /\ items' = [i \in DOMAIN items \cup {h} |-> IF i = h THEN v ELSE items[i]]
    /\ Done("add", h)

Assign(h, v) ==
  h \in DOMAIN items /\ items' = [items EXCEPT ![h] = v] /\ Done("assign", h)

Remove(h) ==
  /\ h \in DOMAIN items /\ items' = Restrict(items, DOMAIN items \ {h})
  /\ Done("remove", h)

Clear == items' = Empty /\ Done("clear", Nowhere)

Next ==
  \/ Clear
  \/ \E v \in Values : Add(v) \/ \E h \in Handles : Assign(h, v)
  \/ \E h \in Handles : Remove(h)

Spec == Init /\ [][Next]_vars
=============================================================================
