----------------------------- MODULE SortedSet -----------------------------
(***************************************************************************)
(* set.hpp: an array kept in ascending order without duplicates, searched  *)
(* by binary_search of sort.hpp.  The set's memory is that of Array.       *)
(***************************************************************************)
EXTENDS Array, FiniteSets

VARIABLE hasCompare   \* whether st->compare is set; free clears it

setVars == <<arrayVars, hasCompare>>

Compare(v, w) == IF v < w THEN -1 ELSE IF v > w THEN 1 ELSE 0

\* The first and the last index that are left to look at, and the one looked at.
Bounds    == (0..arr.size) \X (-1..(arr.size - 1))
Middle(b) == b[1] + (b[2] - b[1]) \div 2

\* Variant: the search ends a step early.
BinarySearchShort(v) ==
  LET search[b \in Bounds] ==
        LET m == Middle(b)
            c == Compare(v, arr.cells[m + 1])
        IN IF c > 0 /\ m + 1 < b[2] THEN search[<<m + 1, b[2]>>]
           ELSE IF c < 0 /\ m # 0 /\ b[1] <= m - 1 THEN search[<<b[1], m - 1>>]
           ELSE [index |-> m, comparison |-> c]
  IN IF arr.size = 0 THEN [index |-> -1, comparison |-> 0] ELSE search[<<0, arr.size - 1>>]

\* The index looked at last, and how v compares with the element there.
BinarySearch(v) ==
  LET search[b \in Bounds] ==
        LET m == Middle(b)
            c == Compare(v, arr.cells[m + 1])
        IN IF c > 0 /\ m + 1 <= b[2] THEN search[<<m + 1, b[2]>>]
           ELSE IF c < 0 /\ m # 0 /\ b[1] <= m - 1 THEN search[<<b[1], m - 1>>]
           ELSE [index |-> m, comparison |-> c]
  IN IF arr.size = 0 THEN [index |-> -1, comparison |-> 0] ELSE search[<<0, arr.size - 1>>]

NearestIndexOf(v) ==
  LET found == BinarySearch(v)
  IN IF found.comparison > 0 THEN [found EXCEPT !.index = @ + 1] ELSE found

\* contains: whether search returns a pointer.
SetContains(v) == NearestIndexOf(v).comparison = 0

\* Every search reads the elements.
SetFaults == arr.size > 0 /\ arr.data # "live" /\ Faults
Readable  == arr.size > 0 => arr.data = "live"

SetAdd(v) ==
  LET near == NearestIndexOf(v)
  IN \/ SetFaults
     \/ Readable /\ arr.size = 0 /\ ArrayAddRange(0, <<v>>)
     \/ /\ Readable /\ arr.size > 0 /\ near.comparison = 0
        /\ ArrayCalled("insert", near.index, 1, <<v>>) /\ Keeps(arr)
     \/ Readable /\ arr.size > 0 /\ near.comparison # 0 /\ ArrayInsertRange(near.index, <<v>>)

\* A set without a compare function is initialised anew, whatever memory it has.
SetInsertAnew(v) ==
  \/ /\ 1 \in ArrayCounts /\ ArrayCalled("insert", 0, 1, <<v>>)
     /\ Keeps([data |-> "live", cells |-> <<v>>, size |-> 1, reserved |-> 1])
  \/ AllocMayFail /\ Faults

SetInsert(v) ==
  /\ hasCompare' = TRUE
  /\ \/ hasCompare /\ SetAdd(v)
     \/ ~hasCompare /\ SetInsertAnew(v)

\* Variant: the element nearest to v is removed.
SetRemoveNearest(v) ==
  LET near == NearestIndexOf(v)
  IN \/ SetFaults
     \/ /\ Readable /\ ArrayCalled("remove", near.index, 1, <<v>>)
        /\ Keeps(IF near.index < 0 THEN arr ELSE Removed(near.index, 1))

SetRemove(v) ==
  LET near == NearestIndexOf(v)
  IN \/ SetFaults
     \/ /\ Readable /\ ArrayCalled("remove", near.index, 1, <<v>>)
        /\ Keeps(IF near.index < 0 \/ near.comparison # 0 THEN arr ELSE Removed(near.index, 1))

\* resize that does not make the set larger: its new elements would be unset.
SetResize(n) == n <= arr.size /\ ArrayResize(n)

SetFree == ArrayFree /\ hasCompare' = FALSE

SetKeepsCompare ==
  /\ UNCHANGED hasCompare
  /\ \/ \E v \in ArrayValues : SetRemove(v)
     \/ \E n \in ArrayCounts : ArrayReserve(n) \/ SetResize(n)
     \/ \E i \in ArrayCounts, n \in ArrayCounts : ArrayRemove(i, n)
     \/ ArrayShrink \/ ArrayClear

SetNext == SetFree \/ SetKeepsCompare \/ \E v \in ArrayValues : SetInsert(v)

SetInit == ArrayInit /\ hasCompare = TRUE

SetSpec == SetInit /\ [][SetNext]_setVars

(***************************************************************************)
(* Properties                                                              *)
(***************************************************************************)

Members == {arr.cells[i] : i \in 1..arr.size}

\* The elements stay in strictly ascending order through every insertion, removal and
\* reallocation; and in a set that is not empty, binary_search finds exactly the
\* members, and nearest_index_of gives the place where the value is or belongs.
SearchIsExact ==
  /\ \A i, j \in 1..arr.size : i < j => arr.cells[i] < arr.cells[j]
  /\ arr.size > 0 => \A v \in ArrayValues :
       /\ SetContains(v) <=> v \in Members
       /\ NearestIndexOf(v).index = Cardinality({w \in Members : w < v})

SetOf ==
  INSTANCE UniqueElements WITH
    Values <- ArrayValues, members <- Members,
    call <- [op |-> arrayCall.op, v |-> arrayCall.s]

\* The set holds what was inserted and not removed, and nothing twice.
SetHoldsMembers == SetOf!Spec
=============================================================================
