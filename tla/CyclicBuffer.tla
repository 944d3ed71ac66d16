---------------------------- MODULE CyclicBuffer ----------------------------
(***************************************************************************)
(* What ring_buffer.hpp promises: size cells that repeat, one time after   *)
(* the other, as often as was asked for; "accessing the 8th index yields   *)
(* the first element" of a buffer of 8.                                    *)
(***************************************************************************)
EXTENDS Integers, Sequences

CONSTANTS Cells,   \* what a cell may hold
          Blank    \* what a new cell holds

VARIABLES cells,  \* all of them, repetitions included
          size,   \* of one repetition
          call    \* the latest call, its arguments and its answer

vars == <<cells, size, call>>

Init == cells = <<>> /\ size = 0 /\ call.op = "none"

Answered(op, ret) == call'.op = op /\ call'.ret = ret

Repeat(c, n, times) == [i \in 1..(n * times) |-> c[((i - 1) % n) + 1]]

Make ==
  /\ Answered("init", TRUE) /\ size' = call'.n
  /\ cells' = Repeat([i \in 1..call'.n |-> Blank], call'.n, call'.times)

\* What fits of the content is kept.
Resize ==
  /\ Answered("resize", TRUE) /\ size' = call'.n
  /\ cells' = Repeat([i \in 1..call'.n |-> IF i <= size THEN cells[i] ELSE Blank],
                     call'.n, call'.times)

\* Memory may be short: a buffer that was there is there still.
Fail == call'.op \in {"init", "resize"} /\ call'.ret = FALSE /\ UNCHANGED cells

\* A write at any index is seen at every index that repeats it.
Write ==
  /\ Answered("write", TRUE) /\ UNCHANGED size
  /\ \E i \in 1..Len(cells), v \in Cells :
       cells' = [j \in 1..Len(cells) |-> IF (j - i) % size = 0 THEN v ELSE cells[j]]

Drop == Answered("free", TRUE) /\ cells' = <<>>

Next == Make \/ Resize \/ Fail \/ Write \/ Drop

Spec == Init /\ [][Next]_vars
=============================================================================
