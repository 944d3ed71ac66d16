-------------------------------- MODULE Tape --------------------------------
(***************************************************************************)
(* What memory_stream.hpp and file_stream.hpp promise alike: bytes in a    *)
(* row and a head that reads and writes where it stands and moves over     *)
(* what it read or wrote.  A tape in memory has its length, a file grows   *)
(* when it is written at its end.                                          *)
(***************************************************************************)
EXTENDS Integers, Sequences

CONSTANTS
  Grows,      \* whether the tape is a file
  Positions,  \* where a call may put the head
  Fill        \* the byte that a gap is filled with

VARIABLES
  tape, head,
  call   \* op, the position at it goes to first (-1: none), the n bytes it is
         \* asked for in elements of size bytes, the bytes moved, what it returns

vars == <<tape, head, call>>

Called(op)   == call'.op = op
Short        == Len(call'.bytes) < call'.n
Clamped(p)   == IF ~Grows /\ p > Len(tape) THEN Len(tape) ELSE p
From         == IF call'.at = -1 THEN head ELSE Clamped(call'.at)
Moved        == head' = From + Len(call'.bytes)
WholeOnes    == Grows \/ Len(call'.bytes) % call'.size = 0   \* a file may cut one off
InElements   == WholeOnes /\ call'.ret = Len(call'.bytes) \div call'.size
AllOrNothing == call'.ret = IF Short THEN 0 ELSE call'.n

\* Only the end of the tape cuts a call short, behind its last whole element.
ShortAtEnd == Short => From + Len(call'.bytes) + call'.size > Len(tape)

Init == head = 0 /\ call.op = "init" /\ (Grows \/ tape = <<>>)

\* A new tape of n bytes, or none; a file that was there, or is emptied.
Open ==
  /\ Called("open") /\ head' = 0
  /\ IF Grows THEN tape' \in {tape, <<>>} ELSE Len(tape') \in {0, call'.n}

Move ==
  /\ Called("move") /\ UNCHANGED tape
  /\ head' \in Positions /\ head' = From /\ call'.ret = head'

ReadBytes ==
  /\ UNCHANGED tape /\ Moved
  /\ call'.bytes = SubSeq(tape, From + 1, From + Len(call'.bytes))
  /\ ShortAtEnd
Read      == Called("read") /\ ReadBytes /\ InElements
ReadBlock == Called("read_block") /\ ReadBytes /\ AllOrNothing

Padded == tape \o [i \in 1..(From - Len(tape)) |-> Fill]
Patched ==
  SubSeq(Padded, 1, From) \o call'.bytes
    \o SubSeq(Padded, From + Len(call'.bytes) + 1, Len(Padded))
Write ==
  /\ Called("write") /\ Moved /\ InElements
  /\ tape' = IF call'.bytes = <<>> THEN tape ELSE Patched
  /\ Grows \/ (Len(tape') = Len(tape) /\ ShortAtEnd)

\* A file that cannot be read, written or positioned keeps its bytes; the head may
\* have gone where the call began.
Fail == Called("failed") /\ Grows /\ UNCHANGED tape /\ head' \in {head, From} /\ call'.ret = -1

\* Other programs write to a file, too.
Change == Called("changed") /\ Grows /\ UNCHANGED head

\* A call that does not fit between the head and the end may do nothing.
Refuse ==
  /\ Called("refused") /\ UNCHANGED <<tape, head>>
  /\ call'.ret = 0 /\ head + call'.n > Len(tape)

\* Copies from the start; asks for the size; closes.
Other == Called("other") /\ UNCHANGED <<tape, head>>
Close == Called("close") /\ head' = 0 /\ tape' = IF Grows THEN tape ELSE <<>>

Next ==
  \/ Open \/ Move \/ Read \/ ReadBlock \/ Write \/ Refuse
  \/ Fail \/ Change \/ Other \/ Close

Spec == Init /\ [][Next]_vars
=============================================================================
