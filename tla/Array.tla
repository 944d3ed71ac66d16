------------------------------- MODULE Array -------------------------------
(***************************************************************************)
(* array.hpp: a block of memory with room for reserved elements, the first *)
(* size of which are in use.  Elements count from 1, positions are numbers *)
(* of elements before them, as the code's indices are.                     *)
(*                                                                         *)
(* data is "null", "live", or "freed" when the pointer outlives its block. *)
(* The allocator is default_alloc, which frees a block it is asked to make *)
(* empty.  arrayFault records a use of memory that is not there.           *)
(***************************************************************************)
EXTENDS Integers, Sequences, Bits

CONSTANTS
  ArrayMax,      \* bound: elements reserved
  ArrayValues,
  ArrayUnset,    \* what fresh memory holds
  ArrayRanges,   \* the elements given to add_range, insert_range, add_at_*
  AllocMayFail   \* whether the allocator may return nullptr

ASSUME ArrayAssumption ==
  /\ ArrayMax \in Nat /\ AllocMayFail \in BOOLEAN
  /\ ArrayRanges \subseteq Seq(ArrayValues) \ {<<>>}

VARIABLES
  arr,        \* data, the cells of its block, size, reserved_size
  arrayCall,  \* the latest call and its arguments
  arrayFault

arrayVars == <<arr, arrayCall, arrayFault>>

ArrayCounts == 0..ArrayMax
Contents    == ArrayValues \cup {ArrayUnset}

ArrayTypeOK ==
  /\ arr.data \in {"null", "live", "freed"}
  /\ arr.cells \in Seq(Contents)
  /\ arr.size \in ArrayCounts /\ arr.reserved \in ArrayCounts
  /\ arrayFault \in BOOLEAN

NoArray == [data |-> "null", cells |-> <<>>, size |-> 0, reserved |-> 0]
NoCall  == [op |-> "init", at |-> 0, n |-> 0, s |-> <<>>]

ArrayInit == arr = NoArray /\ arrayCall = NoCall /\ arrayFault = FALSE

(***************************************************************************)
(* Memory.                                                                 *)
(***************************************************************************)

\* A block of n cells that keeps what fits of the old one.
Block(n) ==
  [i \in 1..n |-> IF i <= Len(arr.cells) THEN arr.cells[i] ELSE ArrayUnset]

ArrayCalled(op, at, n, s) ==
  /\ ~arrayFault /\ arrayCall' = [op |-> op, at |-> at, n |-> n, s |-> s]
Keeps(new) == arr' = new /\ UNCHANGED arrayFault
Faults     == ~arrayFault /\ arrayFault' = TRUE /\ UNCHANGED <<arr, arrayCall>>

\* allocator_realloc_T to n > 0 elements failed.
Refused == AllocMayFail /\ ArrayCalled("refused", 0, 0, <<>>) /\ Keeps(arr)

\* Variant: the new capacity is not recorded.
GrownForgets(n) == [arr EXCEPT !.data = "live", !.cells = Block(CeilExp2(arr.reserved + n))]

\* The array with a larger block, as add_elements asks for it.
Grown(n) ==
  [arr EXCEPT !.data = "live", !.cells = Block(CeilExp2(arr.reserved + n)),
              !.reserved = CeilExp2(arr.reserved + n)]

HasRoom(n) == arr.size + n < arr.reserved
Larger(n)  == CeilExp2(arr.reserved + n) <= ArrayMax

\* The array after n elements were added at its end and those from position i on
\* moved behind them (memmove), with s written into the gap.
Opened(a, i, n, s) ==
  [a EXCEPT !.size = a.size + n,
            !.cells = [j \in DOMAIN a.cells |->
               IF j \in (i + 1)..(i + Len(s)) THEN s[j - i]
               ELSE IF j \in (i + n + 1)..(a.size + n) THEN a.cells[j - n]
               ELSE a.cells[j]]]

(***************************************************************************)
(* Operations                                                              *)
(***************************************************************************)

\* init(n) of an array without memory; the result of the allocation is not
\* looked at.
ArrayInitN(n) ==
  /\ arr.data # "live" /\ n <= ArrayMax
  /\ ArrayCalled("resize", 0, n, <<>>)
  /\ \/ Keeps([data |-> IF n = 0 THEN "null" ELSE "live",
               cells |-> [i \in 1..n |-> ArrayUnset], size |-> n, reserved |-> n])
     \/ n > 0 /\ AllocMayFail /\ Keeps([NoArray EXCEPT !.size = n, !.reserved = n])

\* insert_elements and add_elements (i = size).
ArrayInsertElements(op, i, n, s) ==
  \/ i \notin 0..arr.size /\ ArrayCalled(op, i, n, s) /\ Keeps(arr)
  \/ i \in 0..arr.size /\ HasRoom(n)
     /\ IF arr.data = "live" \/ (i = arr.size /\ s = <<>>)
        THEN ArrayCalled(op, i, n, s) /\ Keeps(Opened(arr, i, n, s))
        ELSE Faults
  \/ i \in 0..arr.size /\ ~HasRoom(n) /\ Larger(n)
     /\ IF arr.data = "freed" THEN Faults
        ELSE ArrayCalled(op, i, n, s) /\ Keeps(Opened(Grown(n), i, n, s))

NoMemory(n) == ~HasRoom(n) /\ arr.data # "freed"

ArrayGrow(i, n) ==
  \/ n > 0 /\ ArrayInsertElements("grow", i, n, <<>>)
  \/ n > 0 /\ i \in 0..arr.size /\ NoMemory(n) /\ Refused
  \/ n = 0 /\ ArrayCalled("grow", i, n, <<>>) /\ Keeps(arr)

\* insert_range gives up when it gets no memory.
ArrayInsertRange(i, s) ==
  \/ ArrayInsertElements("insert", i, Len(s), s)
  \/ i \in 0..arr.size /\ NoMemory(Len(s)) /\ Refused

\* add_range, add_at_end and add_at_start write through the pointer they get,
\* even if there was no memory.
ArrayAddRange(i, s) ==
  \/ ArrayInsertElements("insert", i, Len(s), s)
  \/ NoMemory(Len(s)) /\ AllocMayFail /\ Faults

\* Variant: the elements behind the removed ones stay where they are.
RemovedKeeps(i, n) ==
  IF n <= 0 \/ i \notin 0..(arr.size - 1) THEN arr
  ELSE IF i + n >= arr.size THEN [arr EXCEPT !.size = i]
  ELSE [arr EXCEPT !.size = arr.size - n]

Removed(i, n) ==
  IF n <= 0 \/ i \notin 0..(arr.size - 1) THEN arr
  ELSE IF i + n >= arr.size THEN [arr EXCEPT !.size = i]
  ELSE [arr EXCEPT !.size = arr.size - n,
                   !.cells = [j \in DOMAIN arr.cells |->
                      IF j \in (i + 1)..(arr.size - n) THEN arr.cells[j + n] ELSE arr.cells[j]]]

\* remove_elements, remove_from_start, remove_from_end.
ArrayRemove(i, n) ==
  IF i >= 0 /\ i + n < arr.size /\ n > 0 /\ arr.data # "live" THEN Faults
  ELSE ArrayCalled("remove", i, n, <<>>) /\ Keeps(Removed(i, n))

\* at(arr, i) or arr[i], and a store through it.
ArrayAssign(i, v) ==
  /\ i < arr.size
  /\ IF arr.data = "live"
     THEN ArrayCalled("assign", i, 1, <<v>>) /\ Keeps([arr EXCEPT !.cells[i + 1] = v])
     ELSE Faults

\* Variant: the block is always made n elements large.
ArrayReserveShrinks(n) ==
  /\ n > 0 /\ n <= ArrayMax
  /\ IF arr.data = "freed" THEN Faults
     ELSE \/ ArrayCalled("grow", 0, 0, <<>>)
             /\ Keeps([arr EXCEPT !.data = "live", !.cells = Block(n), !.reserved = n])
          \/ Refused

\* reserve; reserve_exp2 asks for a power of two.
ArrayReserve(n) ==
  \/ arr.reserved >= n /\ ArrayCalled("grow", 0, 0, <<>>) /\ Keeps(arr)
  \/ /\ arr.reserved < n /\ n <= ArrayMax
     /\ IF arr.data = "freed" THEN Faults
        ELSE \/ ArrayCalled("grow", 0, 0, <<>>)
                /\ Keeps([arr EXCEPT !.data = "live", !.cells = Block(n), !.reserved = n])
             \/ Refused

ArrayResize(n) ==
  \/ arr.reserved = n /\ ArrayCalled("resize", 0, n, <<>>) /\ Keeps([arr EXCEPT !.size = n])
  \/ /\ arr.reserved # n /\ n <= ArrayMax
     /\ IF arr.data = "freed" THEN Faults
        ELSE IF n = 0 THEN ArrayCalled("resize", 0, 0, <<>>) /\ Keeps(NoArray)
        ELSE \/ ArrayCalled("resize", 0, n, <<>>)
                /\ Keeps([data |-> "live", cells |-> Block(n), size |-> n, reserved |-> n])
             \/ Refused

\* shrink_to_fit.  Shrinking to nothing frees the block; the code takes the null
\* pointer it gets for a failure and keeps the old pointer and capacity.
ArrayShrink ==
  \/ arr.size = arr.reserved /\ ArrayCalled("grow", 0, 0, <<>>) /\ Keeps(arr)
  \/ /\ arr.size # arr.reserved
     /\ IF arr.data = "freed" THEN Faults
        ELSE IF arr.size = 0
             THEN /\ ArrayCalled("grow", 0, 0, <<>>)
                  /\ Keeps([arr EXCEPT !.cells = <<>>,
                                       !.data = IF @ = "null" THEN "null" ELSE "freed"])
        ELSE \/ ArrayCalled("grow", 0, 0, <<>>)
                /\ Keeps([arr EXCEPT !.data = "live", !.cells = Block(arr.size),
                                     !.reserved = arr.size])
             \/ Refused

ArrayClear == ArrayCalled("resize", 0, 0, <<>>) /\ Keeps([arr EXCEPT !.size = 0])

ArrayFree ==
  IF arr.data = "freed" THEN Faults ELSE ArrayCalled("resize", 0, 0, <<>>) /\ Keeps(NoArray)

ArrayNext ==
  \/ \E n \in ArrayCounts :
       ArrayInitN(n) \/ ArrayReserve(n) \/ ArrayResize(n)
  \/ \E i \in ArrayCounts \cup {-1}, n \in ArrayCounts : ArrayGrow(i, n) \/ ArrayRemove(i, n)
  \/ \E s \in ArrayRanges : \/ \E i \in ArrayCounts : ArrayInsertRange(i, s)
                            \/ ArrayAddRange(arr.size, s)
                            \/ Len(s) = 1 /\ ArrayAddRange(0, s)
  \/ \E i \in ArrayCounts, s \in ArrayRanges : Len(s) = 1 /\ ArrayAssign(i, s[1])
  \/ ArrayShrink \/ ArrayClear \/ ArrayFree

ArraySpec == ArrayInit /\ [][ArrayNext]_arrayVars

(***************************************************************************)
(* Properties                                                              *)
(***************************************************************************)

\* The capacity is the size of the block, as every reallocation and the release
\* of the block tell the allocator ("realloc must have old size", allocator.hpp),
\* and the elements lie within it.
ReservedIsBlock ==
  arr.data = "live" => Len(arr.cells) = arr.reserved /\ arr.size <= arr.reserved

\* An element that has no memory behind it holds nothing one could know.
ArrayItems ==
  [i \in 1..arr.size |-> IF arr.data = "live" THEN arr.cells[i] ELSE ArrayUnset]

Row ==
  INSTANCE ItemSequence WITH
    Values <- Contents, items <- ArrayItems, call <- arrayCall

\* Every call changes the sequence of elements as the header says, whether it
\* fits, moves the elements to a larger block or gets no memory.
ArrayIsSequence == Row!Spec
=============================================================================
