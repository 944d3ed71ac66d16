---------------------------- MODULE MemoryStream ----------------------------
(***************************************************************************)
(* memory_stream.cpp: a block of memory with a position.                   *)
(***************************************************************************)
EXTENDS Integers, Sequences

CONSTANTS
  Bytes,
  StreamMax,     \* bound: bytes of a stream, and of a transfer
  AllocMayFail   \* whether the allocator may return nullptr

ASSUME StreamAssumption == StreamMax \in Nat

VARIABLES
  mem,      \* whether there is data, its bytes, size and position
  memCall   \* the latest call, as Tape describes it

memVars == <<mem, memCall>>

Lengths == 0..StreamMax
Blocks  == 1..StreamMax    \* sizes of blocks and elements
Writes  == UNION {[1..n -> Bytes] : n \in 1..StreamMax}

NoStream == [open |-> FALSE, bytes |-> <<>>, size |-> 0, position |-> 0]
NoTransfer == [op |-> "init", at |-> -1, n |-> 0, size |-> 1, bytes |-> <<>>, ret |-> 0]

MemInit == mem = NoStream /\ memCall = NoTransfer

MemCalled(op, at, n, size, bytes, ret) ==
  memCall' = [op |-> op, at |-> at, n |-> n, size |-> size, bytes |-> bytes, ret |-> ret]

\* The result of the allocation is not looked at.
MemOpen(n) ==
  /\ ~mem.open /\ MemCalled("open", -1, n, 1, <<>>, 0)
  /\ \/ \E s \in [1..n -> Bytes] :
          mem' = [open |-> TRUE, bytes |-> s, size |-> n, position |-> 0]
     \/ AllocMayFail /\ mem' = [NoStream EXCEPT !.size = n]

MemFree == mem' = NoStream /\ MemCalled("close", -1, 0, 1, <<>>, 0)

(***************************************************************************)
(* Positions                                                               *)
(***************************************************************************)

\* seek stops at the end, and not at the start: the caller keeps p positive.
Sought(p) == IF p > mem.size THEN mem.size ELSE p

FloorMultiple(n, m) == (n \div m) * m

Bases == {0, mem.position, mem.size}
BlockBases(size) == {0, FloorMultiple(mem.position, size), mem.size}

MemSeekTo(p) ==
  /\ p \in 0..(2 * StreamMax)
  /\ mem' = [mem EXCEPT !.position = Sought(p)]
  /\ MemCalled("move", p, 0, 1, <<>>, Sought(p))

\* seek, seek_offset, seek_from_start, seek_from_end, rewind.
MemSeek(offset) == \E base \in Bases : MemSeekTo(base + offset)

\* seek_block and its kind: from the start, the current block or the end.
MemSeekBlock(nth, size) == \E base \in BlockBases(size) : MemSeekTo(base + nth * size)

\* seek_next_alignment, seek_next_alignment2.
MemAlign(size) == MemSeekTo(FloorMultiple(mem.position + size, size))

(***************************************************************************)
(* Transfers                                                               *)
(***************************************************************************)

\* Variant: a transfer may end inside an element.
FittingBytes(p, size, count) ==
  LET rest == mem.size - p
  IN  IF rest <= 0 THEN 0 ELSE IF size * count > rest THEN rest ELSE size * count

\* The bytes that count elements of some size move at position p.
Fitting(p, size, count) ==
  LET rest == mem.size - p
  IN  IF rest <= 0 THEN 0
      ELSE IF size * count > rest THEN FloorMultiple(rest, size) ELSE size * count

MemRead(at, size, count) ==
  LET p == IF at = -1 THEN mem.position ELSE Sought(at)
      n == Fitting(p, size, count)
  IN  /\ mem' = [mem EXCEPT !.position = p + n]
      /\ MemCalled("read", at, size * count, size, SubSeq(mem.bytes, p + 1, p + n), n \div size)

\* read_block: the bytes are moved even if they are not a whole block.
MemReadBlock(at, size) ==
  LET p == IF at = -1 THEN mem.position ELSE Sought(at)
      n == Fitting(p, 1, size)
  IN  /\ mem' = [mem EXCEPT !.position = p + n]
      /\ MemCalled("read_block", at, size, 1, SubSeq(mem.bytes, p + 1, p + n),
                   IF n < size THEN 0 ELSE n)

AtEnd == mem.position >= mem.size

\* read_blocks of the nth block looks at the old position before it moves.
MemReadBlocks(nth, size, count) ==
  IF AtEnd THEN MemCalled("refused", nth * size, size * count, size, <<>>, 0) /\ UNCHANGED mem
  ELSE MemRead(nth * size, size, count)

MemWrite(at, s, size) ==
  LET p == IF at = -1 THEN mem.position ELSE Sought(at)
      n == Fitting(p, size, Len(s) \div size)
  IN  /\ mem' = [mem EXCEPT !.position = p + n,
                            !.bytes = [i \in DOMAIN mem.bytes |->
                              IF i \in (p + 1)..(p + n) THEN s[i - p] ELSE mem.bytes[i]]]
      /\ MemCalled("write", at, Len(s), size, SubSeq(s, 1, n), n \div size)

\* write_block at the position, which has to fit; one at the nth block need not.
MemWriteBlock(s) ==
  IF mem.position + Len(s) > mem.size
  THEN MemCalled("refused", -1, Len(s), 1, <<>>, 0) /\ UNCHANGED mem
  ELSE MemWrite(-1, s, 1)

\* copy_entire_stream.
MemCopyEntire(most) ==
  LET n == IF most > mem.size THEN mem.size ELSE most
  IN  MemCalled("other", -1, most, 1, SubSeq(mem.bytes, 1, n), n) /\ UNCHANGED mem

Starts(size) == {-1} \cup {nth * size : nth \in Lengths}

MemNext ==
  \/ \E n \in Lengths : MemOpen(n)
  \/ MemFree
  \/ mem.open /\
     \/ \E offset \in (-StreamMax)..StreamMax : MemSeek(offset)
     \/ \E size \in Blocks :
          \/ \E nth \in (-1)..StreamMax : MemSeekBlock(nth, size)
          \/ MemAlign(size)
          \/ \E at \in Starts(size) : MemReadBlock(at, size)
          \/ \E count \in Blocks :
               \/ \E at \in Starts(size) : MemRead(at, size, count)
               \/ \E nth \in Lengths : MemReadBlocks(nth, size, count)
     \/ \E s \in Writes :
          \/ MemWriteBlock(s)
          \/ \E size \in {d \in Blocks : Len(s) % d = 0} :
               \E at \in Starts(size) : MemWrite(at, s, size)
     \/ \E most \in Lengths : MemCopyEntire(most)

(***************************************************************************)
(* Properties                                                              *)
(***************************************************************************)

Memory == INSTANCE Tape WITH
  Grows <- FALSE, Positions <- Lengths, Fill <- 0,
  tape <- IF mem.open THEN mem.bytes ELSE <<>>, head <- mem.position, call <- memCall

\* A memory stream is a tape of fixed length (the seek, read and write functions of
\* memory_stream.hpp): every call moves whole elements between its buffer and the bytes
\* at the position, leaves the others alone, and returns what it moved; the position
\* never leaves the stream.
MemoryIsTape == Memory!Spec
=============================================================================
