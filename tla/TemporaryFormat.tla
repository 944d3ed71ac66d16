-------------------------- MODULE TemporaryFormat --------------------------
(***************************************************************************)
(* tformat: texts formatted one behind the other into a ring buffer that   *)
(* is mapped twice in a row, made when the first is formatted and freed    *)
(* when the program exits.  A cell holds the name of the text whose unit   *)
(* or Nul it is.  One thread formats, and no argument formats another text *)
(* while it is written.                                                    *)
(***************************************************************************)
EXTENDS Integers

CONSTANT TemporarySize   \* units of the buffer

ASSUME TemporaryAssumption == TemporarySize \in Nat \ {0}

VARIABLES
  tbuf,      \* buffer and offset; cleanup: whether an exit function will free it
  tcells,
  recent,    \* the texts handed out that the program may still read: name, place,
             \* size, and how far the offset has come since
  tfault     \* something was written outside both mappings

temporaryVars == <<tbuf, tcells, recent, tfault>>

Nobody == <<0, "unit">>
NoCells == [c \in 0..(TemporarySize - 1) |-> Nobody]

TemporaryInit ==
  /\ tbuf = [data |-> "null", offset |-> 0, cleanup |-> FALSE]
  /\ tcells = NoCells /\ recent = {} /\ tfault = FALSE

\* _get_static_format_buffer: made when it is asked for, if memory is to be had.
WithBuffer ==
  IF tbuf.data = "live" THEN tbuf ELSE [tbuf EXCEPT !.data = "live", !.cleanup = TRUE]

\* _buffer_unit_count: the Nul is kept room for.
UnitCount == TemporarySize - 1

\* Variant: the next text begins at the Nul.
AdvanceUnits(offset, count) ==
  LET o == offset + count - 1 IN IF o > TemporarySize THEN o - TemporarySize ELSE o

\* _buffer_advance; the offset may come to lie at the end of the first mapping.
AdvanceOffset(offset, count) ==
  LET o == offset + count IN IF o > TemporarySize THEN o - TemporarySize ELSE o

Fresh == CHOOSE k \in 1..(TemporarySize + 1) : \A t \in recent : t.name # k

CellsOf(at, n) == {(at + i) % TemporarySize : i \in 0..(n - 1)}

\* What the program may count on: no more than the buffer holds has been written
\* since the text was begun.
StaysFor(t, n) == t.since + n <= TemporarySize

\* The texts that are still good when n more units are written.
Surviving(n) == {t \in recent : StaysFor(t, n)}

\* Cells of texts that are not good any more are all the same.
Settled(cells, texts) ==
  [c \in DOMAIN cells |-> IF \E t \in texts : t.name = cells[c][1] THEN cells[c] ELSE Nobody]

\* tformat of a text of n units, of which there is room for all but a Nul; the first n
\* of one whose format fails are written, too, and nothing is handed out.
TFormat(n, fails) ==
  LET b == WithBuffer
      written == IF n < UnitCount THEN n ELSE UnitCount
      stored == IF fails THEN written ELSE written + 1
      text == [name |-> Fresh, at |-> b.offset % TemporarySize, size |-> written, since |-> written + 1]
      cells == [c \in DOMAIN tcells |->
                  IF ~fails /\ c \in CellsOf(b.offset + written, 1) THEN <<Fresh, "Nul">>
                  ELSE IF c \in CellsOf(b.offset, written) THEN <<Fresh, "unit">>
                  ELSE tcells[c]]
      texts == {[t EXCEPT !.since = @ + (IF fails THEN 0 ELSE stored)] : t \in Surviving(stored)}
                 \cup (IF fails THEN {} ELSE {text})
  IN  /\ tbuf' = IF fails THEN b ELSE [b EXCEPT !.offset = AdvanceOffset(@, written + 1)]
      /\ recent' = texts /\ tcells' = Settled(cells, texts)
      /\ tfault' = (tfault \/ b.offset + stored > 2 * TemporarySize)

\* The ring buffer cannot be made: a text of no memory is handed out.
TFormatWithoutBuffer == tbuf.data = "null" /\ UNCHANGED temporaryVars

\* _format_buffer_cleanup, called by exit; functions called after it may format.
FormatBufferCleanup ==
  /\ tbuf.cleanup
  /\ tbuf' = [data |-> "null", offset |-> 0, cleanup |-> FALSE]
  /\ tcells' = NoCells /\ recent' = {} /\ UNCHANGED tfault

TemporaryNext ==
  \/ \E n \in 0..(TemporarySize + 1), fails \in BOOLEAN : TFormat(n, fails)
  \/ TFormatWithoutBuffer
  \/ FormatBufferCleanup

(***************************************************************************)
(* Properties                                                              *)
(***************************************************************************)

Intact(t) ==
  /\ \A c \in CellsOf(t.at, t.size) : tcells[c] = <<t.name, "unit">>
  /\ tcells[(t.at + t.size) % TemporarySize] = <<t.name, "Nul">>

\* "it will continuously write to the same buffer, then wrap back to the start,
\* overwriting old formatted strings" and "All tformatted strings are null terminated"
\* (format.hpp): a text and its Nul stay until more than the buffer holds has been
\* formatted, wherever the offset wraps and whatever failed meanwhile; nothing is
\* written outside the buffer, and a buffer that was made will be freed.
TemporariesStay ==
  /\ \A t \in recent : Intact(t)
  /\ ~tfault
  /\ tbuf.data = "live" => tbuf.cleanup
=============================================================================
