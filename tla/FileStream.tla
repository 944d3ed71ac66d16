----------------------------- MODULE FileStream -----------------------------
(***************************************************************************)
(* file_stream.cpp over io.cpp: a handle of a file, whose position the     *)
(* kernel keeps, and the size it had when it was last asked for.  Other    *)
(* programs write to the file meanwhile.  A seek past the end is allowed,  *)
(* and a write there fills the gap with zeros.                             *)
(***************************************************************************)
EXTENDS Integers, Sequences

CONSTANTS
  FileBytes,
  Zero,         \* the byte that fills a gap
  FileMax,      \* bound: bytes of the file, and of a transfer
  IoMayFail     \* whether a system call may fail, and a write stop short

ASSUME FileAssumption == FileMax \in Nat

VARIABLES
  file,      \* the bytes of the file
  fs,        \* whether the handle is open, its position, cached_size
  fileCall   \* the latest call, as Tape describes it

fileVars == <<file, fs, fileCall>>

FileLengths == 0..FileMax
FileBlocks  == 1..FileMax
FileWrites  == UNION {[1..n -> FileBytes] : n \in 1..FileMax}

FileInit ==
  /\ file \in UNION {[1..n -> FileBytes] : n \in FileLengths}
  /\ fs = [open |-> FALSE, position |-> 0, cached |-> 0]
  /\ fileCall = [op |-> "init", at |-> -1, n |-> 0, size |-> 1, bytes |-> <<>>, ret |-> 0]

FileCalled(op, at, n, size, bytes, ret) ==
  fileCall' = [op |-> op, at |-> at, n |-> n, size |-> size, bytes |-> bytes, ret |-> ret]

\* A system call failed; what came before it has put the position at p.
FileFails(at, p) ==
  /\ fs' = [fs EXCEPT !.position = p] /\ UNCHANGED file
  /\ FileCalled("failed", at, 0, 1, <<>>, -1)

(***************************************************************************)
(* Opening and closing                                                     *)
(***************************************************************************)

\* init with a path: the size is asked for right away, and when it cannot be told init
\* fails with the file open.
FileOpened(mode, size) ==
  /\ file' = IF mode = "WriteTrunc" THEN <<>> ELSE file
  /\ fs' = [open |-> TRUE, position |-> 0, cached |-> IF size = -1 THEN -1 ELSE Len(file')]
  /\ FileCalled("open", -1, 0, 1, <<>>, size)

\* A file that cannot be opened is as it was.
FileOpen(mode) ==
  /\ ~fs.open
  /\ \/ FileOpened(mode, 0)
     \/ IoMayFail /\ (FileOpened(mode, -1) \/ FileFails(-1, fs.position))

\* close lets go of the file even when it fails; the number that the stream then keeps
\* names nothing, and the program only calls init with it.
FileFree ==
  /\ fs' = [fs EXCEPT !.open = FALSE, !.position = 0] /\ UNCHANGED file
  /\ \E ret \in IF IoMayFail THEN {0, -1} ELSE {0} : FileCalled("close", -1, 0, 1, <<>>, ret)

FileSize ==
  /\ fs' = [fs EXCEPT !.cached = Len(file)] /\ UNCHANGED file
  /\ FileCalled("other", -1, 0, 1, <<>>, Len(file))

\* is_at_end goes by the size that was cached.
FileAtEnd(position) == position >= fs.cached

(***************************************************************************)
(* Positions                                                               *)
(***************************************************************************)

\* lseek refuses a position before the start.
FileSeekTo(p) ==
  /\ p <= 2 * FileMax
  /\ IF p < 0 THEN FileFails(-1, fs.position)
     ELSE /\ fs' = [fs EXCEPT !.position = p] /\ UNCHANGED file
          /\ FileCalled("move", p, 0, 1, <<>>, p)

FileFloor(n, m) == (n \div m) * m

\* seek, seek_offset, seek_from_start, seek_from_end, rewind.
FileSeek(offset) == \E base \in {0, fs.position, Len(file)} : FileSeekTo(base + offset)

\* seek_block and its kind.
FileSeekBlock(nth, size) ==
  \E base \in {0, FileFloor(fs.position, size), Len(file)} : FileSeekTo(base + nth * size)

FileAlign(size) == FileSeekTo(FileFloor(fs.position + size, size))

(***************************************************************************)
(* Transfers: a call at a position seeks and then transfers.               *)
(***************************************************************************)

FileStart(at) == IF at = -1 THEN fs.position ELSE at

Beyond(s, p, n) == SubSeq(s, p + 1, IF p + n < Len(s) THEN p + n ELSE Len(s))

\* Variant: the bytes are returned, and not the elements.
FileReadBytes(at, size, count) ==
  LET p == FileStart(at)
      s == Beyond(file, p, size * count)
  IN  /\ fs' = [fs EXCEPT !.position = p + Len(s)] /\ UNCHANGED file
      /\ FileCalled("read", at, size * count, size, s, Len(s))

\* A last element that is cut off is read, but not counted.
FileRead(at, size, count) ==
  LET p == FileStart(at)
      s == Beyond(file, p, size * count)
  IN  /\ fs' = [fs EXCEPT !.position = p + Len(s)] /\ UNCHANGED file
      /\ FileCalled("read", at, size * count, size, s, Len(s) \div size)

FileReadBlock(at, size) ==
  LET p == FileStart(at)
      s == Beyond(file, p, size)
  IN  /\ fs' = [fs EXCEPT !.position = p + Len(s)] /\ UNCHANGED file
      /\ FileCalled("read_block", at, size, 1, s, IF Len(s) < size THEN 0 ELSE Len(s))

FilledUpto(s, p) == s \o [i \in 1..(p - Len(s)) |-> Zero]

\* The first n bytes of s are written: the kernel may stop short.
FileWrite(at, s, size, n) ==
  LET p == FileStart(at)
      old == FilledUpto(file, p)
  IN  /\ p + n <= FileMax
      /\ file' = SubSeq(old, 1, p) \o SubSeq(s, 1, n) \o SubSeq(old, p + n + 1, Len(old))
      /\ fs' = [fs EXCEPT !.position = p + n]
      /\ FileCalled("write", at, Len(s), size, SubSeq(s, 1, n), n \div size)

FileStarts(size) == {-1} \cup ({nth * size : nth \in FileLengths} \cap FileLengths)

\* Another program appends to the file or cuts it.
FileChanged ==
  /\ UNCHANGED fs /\ FileCalled("changed", -1, 0, 1, <<>>, 0)
  /\ \/ Len(file) < FileMax /\ \E b \in FileBytes : file' = Append(file, b)
     \/ \E n \in 0..(Len(file) - 1) : file' = SubSeq(file, 1, n)

FileNext ==
  \/ \E mode \in {"Read", "Write", "WriteTrunc"} : FileOpen(mode)
  \/ FileChanged
  \/ fs.open /\
     \/ FileFree \/ FileSize
     \/ \E offset \in (-FileMax)..FileMax : FileSeek(offset)
     \/ \E size \in FileBlocks :
          \/ \E nth \in (-1)..FileMax : FileSeekBlock(nth, size)
          \/ FileAlign(size)
          \/ \E at \in FileStarts(size) :
               \/ FileReadBlock(at, size)
               \/ \E count \in FileBlocks : FileRead(at, size, count)
               \/ IoMayFail /\ \E p \in {fs.position, FileStart(at)} : FileFails(at, p)
               \/ \E s \in {t \in FileWrites : Len(t) % size = 0} :
                    \E n \in IF IoMayFail THEN 1..Len(s) ELSE {Len(s)} : FileWrite(at, s, size, n)

(***************************************************************************)
(* Properties                                                              *)
(***************************************************************************)

File == INSTANCE Tape WITH
  Grows <- TRUE, Positions <- 0..(2 * FileMax), Fill <- Zero,
  tape <- file, head <- fs.position, call <- fileCall

\* "File stream API for writing data to file I/O handles" (file_stream.hpp): the file
\* is a tape as the memory is one, but for growing when it is written at its end; the
\* position after a call is behind what the call moved, and a call that fails says so.
FileIsTape == File!Spec
=============================================================================
