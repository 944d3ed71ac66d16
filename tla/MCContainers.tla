---------------------------- MODULE MCContainers ----------------------------
(* A behaviour uses one of the containers, chosen at its start: they share    *)
(* nothing, so their interleavings show nothing.  Of the three keys of the    *)
(* hash table two collide once their hashes are lifted, and the third shares  *)
(* a chain with them in a table of four slots.                               *)
EXTENDS HashTable, ChunkArray, LinkedList, Array, TLC

CONSTANTS k1, k2, k3, v1, v2

VARIABLES
  part,
  setArray, setCall, setFault, setCompare   \* the set and the array it is made of

MCHash == [k \in {k1, k2, k3} |-> CASE k = k1 -> 0 [] k = k2 -> 2 [] k = k3 -> 3]

MCListRanges  == {<<v1>>, <<v1, v1>>}

\* The set adds one value at a time; no range is given to it.
Sets == INSTANCE SortedSet WITH
  arr <- setArray, arrayCall <- setCall, arrayFault <- setFault,
  hasCompare <- setCompare, ArrayValues <- 1..4, ArrayRanges <- {}

setState == <<setArray, setCall, setFault, setCompare>>

\* Values that nothing but equality tells apart.
ValueSymmetry == Permutations({v1, v2})

Init ==
  /\ part \in {"hash table", "sorted set", "chunk array", "linked list", "array"}
  /\ TableInit /\ Sets!SetInit /\ ChunkInit /\ ListInit /\ ArrayInit

Next ==
  /\ UNCHANGED part
  /\ \/ /\ part = "hash table" /\ TableNext
        /\ UNCHANGED <<setState, chunkVars, listVars, arrayVars>>
     \/ /\ part = "sorted set" /\ Sets!SetNext
        /\ UNCHANGED <<tableVars, chunkVars, listVars, arrayVars>>
     \/ /\ part = "chunk array" /\ ChunkNext
        /\ UNCHANGED <<tableVars, setState, listVars, arrayVars>>
     \/ /\ part = "linked list" /\ ListNext
        /\ UNCHANGED <<tableVars, setState, chunkVars, arrayVars>>
     \/ /\ part = "array" /\ ArrayNext
        /\ UNCHANGED <<tableVars, setState, chunkVars, listVars>>

Spec == Init /\ [][Next]_<<part, tableVars, setState, chunkVars, listVars, arrayVars>>

\* The set is searched exactly, and holds what was inserted and not removed.
SetIsSearched   == Sets!SearchIsExact
SetKeepsMembers == Sets!SetHoldsMembers

\* Table, list and array keep the types of their memory and fields, whatever fails.
ContainersTypeOK == TableTypeOK /\ ListTypeOK /\ ArrayTypeOK
=============================================================================
