----------------------------- MODULE RingBuffer -----------------------------
(***************************************************************************)
(* ring_buffer.cpp on Linux: the pages of one memfd mapped several times   *)
(* in a row.  A range of addresses is reserved, then the windows are       *)
(* mapped over it one by one; when one cannot be mapped those before it    *)
(* are unmapped and another range is tried.  A cell stands for a page.     *)
(* The program calls init only on a buffer it does not hold, and resize    *)
(* and its accesses only on one it holds.                                  *)
(***************************************************************************)
EXTENDS Integers, Sequences

CONSTANTS
  Addresses,     \* bound: pages of address space
  RingMax,       \* bound: pages of a buffer
  TimesMax,      \* bound: mapping_count
  RingValues,
  Empty,         \* what a page of a new memfd holds
  RetryCount,    \* ALLOC_RETRY_COUNT
  MapFailures    \* bound: windows that cannot be mapped in one init

ASSUME RingAssumption == {Addresses, RingMax, TimesMax, RetryCount, MapFailures} \subseteq Nat

VARIABLES
  space,     \* what each address maps: nothing, a reservation, a page of an object
  objects,   \* the pages of each memfd
  ring,      \* data (-1: null), size, mapping_count
  making,    \* the init that runs: its buffer, the next window, its tries
  ringCall

ringVars == <<space, objects, ring, making, ringCall>>

NotMapped == -1        \* what an address without a page reads as: no cell holds it
Nowhere  == <<0, 0>>
Reserved == <<0, 1>>
Files    == 1..2    \* a resize holds two of them
AddressSpace    == 0..(Addresses - 1)

NoRing == [data |-> -1, size |-> 0, times |-> 0]
Idle   == [at |-> "idle", op |-> "init", data |-> -1, size |-> 0, times |-> 0,
           window |-> 0, tries |-> 0, object |-> 0]

RingInit ==
  /\ space = [a \in AddressSpace |-> Nowhere]
  /\ objects = [o \in Files |-> [k \in 0..(RingMax - 1) |-> Empty]]
  /\ ring = NoRing /\ making = Idle
  /\ ringCall = [op |-> "none", n |-> 0, times |-> 0, ret |-> TRUE]

Answer(op, n, times, ret) == ringCall' = [op |-> op, n |-> n, times |-> times, ret |-> ret]

Run(data, n) == data..(data + n - 1)
Mapped(o) == \E a \in AddressSpace : space[a][1] = o
OfRing(a) == ring.data # -1 /\ a \in Run(ring.data, ring.size * ring.times)
(***************************************************************************)
(* init and resize                                                         *)
(***************************************************************************)

\* memfd_create and ftruncate, either of which may fail, or resize finding that the
\* buffer has that size.
RingBegin(op, n, times) ==
  /\ making = Idle /\ (op = "init" <=> ring.data = -1)
  /\ UNCHANGED <<space, ring, objects>>
  /\ IF op = "resize" /\ n = ring.size /\ times = ring.times
     THEN Answer(op, n, times, TRUE) /\ UNCHANGED making
     ELSE \/ Answer(op, n, times, FALSE) /\ UNCHANGED making
          \/ \E o \in {f \in Files : ~Mapped(f)} :
               /\ making' = [Idle EXCEPT !.at = "reserve", !.op = op, !.size = n,
                                         !.times = times, !.object = o]
               /\ UNCHANGED ringCall

RingFails ==
  making' = Idle /\ Answer(making.op, making.size, making.times, FALSE)

\* The kernel picks the first range that is free; without one init fails.
RingReserve ==
  LET total == making.size * making.times
      free == {a \in AddressSpace : a + total <= Addresses
                             /\ \A b \in Run(a, total) : space[b] = Nowhere}
  IN  /\ making.at = "reserve" /\ UNCHANGED <<objects, ring>>
      /\ IF free = {} THEN RingFails /\ UNCHANGED space
         ELSE LET first == CHOOSE a \in free : \A b \in free : a <= b
              IN  /\ space' = [b \in AddressSpace |->
                                 IF b \in Run(first, total) THEN Reserved ELSE space[b]]
                  /\ making' = [making EXCEPT !.at = "map", !.data = first, !.window = 0]
                  /\ UNCHANGED ringCall

Window(data, n, w) == Run(data + w * n, n)

RingMap ==
  LET m == making
  IN  /\ m.at = "map" /\ m.window < m.times
      /\ space' = [a \in AddressSpace |-> IF a \in Window(m.data, m.size, m.window)
                                   THEN <<m.object, (a - m.data) % m.size>> ELSE space[a]]
      /\ making' = [m EXCEPT !.window = @ + 1]
      /\ UNCHANGED <<objects, ring, ringCall>>

\* The windows before the one that fails are unmapped; what is reserved behind them
\* stays reserved.  After the last try init goes on as if all were mapped.
RingMapFails ==
  LET m == making
  IN  /\ m.at = "map" /\ m.window < m.times /\ m.tries < MapFailures
      /\ space' = [a \in AddressSpace |-> IF a \in Run(m.data, m.window * m.size)
                                   THEN Nowhere ELSE space[a]]
      /\ making' = [m EXCEPT !.at = IF m.tries + 1 < RetryCount THEN "reserve" ELSE "map",
                             !.tries = @ + 1,
                             !.window = IF m.tries + 1 < RetryCount THEN 0 ELSE m.times]
      /\ UNCHANGED <<objects, ring, ringCall>>

\* The space without the buffer, and the objects: a memfd goes with its last mapping.
Unmapped == [a \in AddressSpace |-> IF OfRing(a) THEN Nowhere ELSE space[a]]
Dropped(objs) ==
  [o \in Files |-> IF \E a \in AddressSpace : OfRing(a) /\ space[a][1] = o
                   THEN [k \in DOMAIN objs[o] |-> Empty] ELSE objs[o]]

\* Variant: the new buffer does not get the content of the old one.
RingEndBlank ==
  LET m == making
  IN  /\ m.at = "map" /\ m.window = m.times
      /\ space' = Unmapped
      /\ ring' = [data |-> m.data, size |-> m.size, times |-> m.times]
      /\ making' = Idle /\ Answer(m.op, m.size, m.times, TRUE)
      /\ objects' = Dropped(objects)

\* The buffer is there; resize copies into it what fits, through the first windows,
\* and frees the old one.
RingEnd ==
  LET m == making
      kept == IF m.op = "init" THEN 0 ELSE IF ring.size < m.size THEN ring.size ELSE m.size
  IN  /\ m.at = "map" /\ m.window = m.times
      /\ objects' = Dropped([objects EXCEPT ![m.object] =
           [k \in DOMAIN @ |-> IF k < kept THEN objects[space[ring.data + k][1]][k] ELSE @[k]]])
      /\ space' = Unmapped
      /\ ring' = [data |-> m.data, size |-> m.size, times |-> m.times]
      /\ making' = Idle /\ Answer(m.op, m.size, m.times, TRUE)

(***************************************************************************)
(* Use                                                                     *)
(***************************************************************************)

RingFree ==
  /\ making = Idle /\ ring.data # -1
  /\ space' = Unmapped /\ objects' = Dropped(objects)
  /\ ring' = [ring EXCEPT !.data = -1]
  /\ Answer("free", 0, 0, TRUE) /\ UNCHANGED making

\* A store through any of the windows.
RingWrite(i, v) ==
  /\ making = Idle /\ ring.data # -1 /\ i < ring.size * ring.times
  /\ LET page == space[ring.data + i]
     IN  page[1] \in Files /\ objects' = [objects EXCEPT ![page[1]][page[2]] = v]
  /\ Answer("write", 0, 0, TRUE) /\ UNCHANGED <<space, ring, making>>

RingNext ==
  \/ \E op \in {"init", "resize"}, n \in 1..RingMax, times \in 1..TimesMax : RingBegin(op, n, times)
  \/ RingReserve \/ RingMap \/ RingMapFails \/ RingEnd
  \/ RingFree
  \/ \E i \in AddressSpace, v \in RingValues : RingWrite(i, v)

(***************************************************************************)
(* Properties                                                              *)
(***************************************************************************)

\* What the program reads at each index.
RingCells ==
  IF ring.data = -1 THEN <<>>
  ELSE [i \in 1..(ring.size * ring.times) |->
         LET page == space[ring.data + i - 1]
         IN  IF page[1] = 0 THEN NotMapped ELSE objects[page[1]][page[2]]]

Cyclic == INSTANCE CyclicBuffer WITH
  Cells <- RingValues, Blank <- Empty, call <- ringCall, size <- ring.size, cells <- RingCells

\* "A ring buffer is a buffer which repeats in virtual memory" (ring_buffer.hpp): what is
\* written at one index is read at every index that repeats it, whatever was tried,
\* unmapped, resized and freed before, and a resize keeps the content that fits.  Of the
\* windows of one init fewer fail than it has tries (MapFailures < RetryCount in what is
\* checked and proved): after the last try it goes on without them.
RingIsCyclic == Cyclic!Spec
=============================================================================
