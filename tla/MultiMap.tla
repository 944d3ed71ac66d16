------------------------------ MODULE MultiMap ------------------------------
(***************************************************************************)
(* What hash_table.hpp promises: a bag of entries, each a key and a value, *)
(* with the answer of the latest call.  A key may have several entries     *)
(* ("does not compare keys on collision and simply adds a new entry"); a   *)
(* search or a removal picks one of them.                                  *)
(***************************************************************************)
EXTENDS Naturals

CONSTANTS Keys, Values,
          SameHash(_, _)  \* whether two keys count as equal by hash alone

VARIABLES count,  \* how many entries there are of each <<key, value>>
          ret     \* the answer of the latest call

vars == <<count, ret>>

Empty == [e \in Keys \X Values |-> 0]
Init == count = Empty /\ ret = "none"

With(c, e)    == [c EXCEPT ![e] = @ + 1]
Without(c, e) == [c EXCEPT ![e] = @ - 1]
EntriesOf(K)  == LET c == count IN {e \in K \X Values : c[e] > 0}

Add(k, v) == ret' = "none" /\ count' = With(count, <<k, v>>)

\* table[k] = v
Put(k, v) ==
  /\ ret' = "none"
  /\ \/ EntriesOf({k}) = {} /\ count' = With(count, <<k, v>>)
     \/ \E e \in EntriesOf({k}) : count' = With(Without(count, e), <<k, v>>)

\* A removal of some entry whose key is in K.
Remove(K) ==
  \/ ret' = "true" /\ \E e \in EntriesOf(K) : count' = Without(count, e)
  \/ ret' = "false" /\ EntriesOf(K) = {} /\ UNCHANGED count

RemoveByKey(k)  == Remove({k})
RemoveByHash(k) == Remove({j \in Keys : SameHash(j, k)})

Search(k) ==
  /\ ret' \in IF EntriesOf({k}) = {} THEN {"none"} ELSE {e[2] : e \in EntriesOf({k})}
  /\ UNCHANGED count

Clear == ret' = "none" /\ count' = Empty
Other == ret' = "none" /\ UNCHANGED count   \* init, expand_table

Next ==
  \/ Other \/ Clear
  \/ \E k \in Keys : \/ RemoveByKey(k) \/ RemoveByHash(k) \/ Search(k)
                     \/ \E v \in Values : Add(k, v) \/ Put(k, v)

Spec == Init /\ [][Next]_vars
=============================================================================
