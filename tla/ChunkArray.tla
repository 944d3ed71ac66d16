----------------------------- MODULE ChunkArray -----------------------------
(***************************************************************************)
(* chunk_array.hpp: chunks of ChunkSize slots that are never moved, a list *)
(* of the chunks that still have a free slot, and a count of elements.     *)
(*                                                                         *)
(* An index is <<chunk, slot>>, both counted from 1 (the code counts from  *)
(* 0).  The nonfull list holds positions in all_chunks where the code      *)
(* holds pointers; a chunk's own index field is its position.              *)
(***************************************************************************)
EXTENDS Integers, Sequences, FiniteSets

CONSTANTS
  ChunkSize,   \* N, the slots of a chunk
  MaxChunks,   \* bound: chunks allocated in a behaviour
  Values,
  Unset        \* what a slot holds before its first element

ASSUME ChunkAssumption == ChunkSize \in Nat \ {0} /\ MaxChunks \in Nat

VARIABLES
  chunks,   \* all_chunks: the used flags, used_count and data of each
  nonfull,  \* nonfull_chunks
  size,     \* the number of elements
  done,     \* the latest call, with the index it returned or was given
  chunkFault  \* whether memory was used that the allocator did not give

chunkVars == <<chunks, nonfull, size, done, chunkFault>>

Slots   == 1..ChunkSize
Indices == (DOMAIN chunks) \X Slots

\* at(arr, index) # nullptr
InUse(i) == i \in Indices /\ i[2] \in chunks[i[1]].used
Elements == {i \in Indices : InUse(i)}

\* The call returns.
Done(op, i) ==
  ~chunkFault /\ done' = [op |-> op, at |-> i] /\ UNCHANGED chunkFault

\* The call uses what a failed allocation returned, which ends the behaviour.
ChunkFaults ==
  ~chunkFault /\ chunkFault' = TRUE /\ UNCHANGED <<chunks, nonfull, size, done>>

Nowhere     == <<0, 0>>

ChunkTypeOK ==
  /\ chunks \in Seq([used : SUBSET Slots, count : Int, data : [Slots -> Values \cup {Unset}]])
  /\ nonfull \in Seq(DOMAIN chunks)
  /\ size \in Int
  /\ done \in [op : {"init", "add", "assign", "remove", "clear"},
              at : Indices \cup {Nowhere}]
  /\ chunkFault \in BOOLEAN

ChunkInit ==
  /\ chunks = <<>> /\ nonfull = <<>> /\ size = 0
  /\ done = [op |-> "init", at |-> Nowhere] /\ chunkFault = FALSE

\* add_chunk.  The data of a new chunk is not initialised.
NewChunk == [used |-> {}, count |-> 0, data |-> [s \in Slots |-> Unset]]

\* A chunk with other flags and the same data.
Flagged(chunk, used, count) == [used |-> used, count |-> count, data |-> chunk.data]

Lowest(S) == CHOOSE s \in S : \A t \in S : s <= t

\* get_first_free_slot on the first chunk of the list, and the store of v.
UseSlot(cs, list, v) ==
  LET c == Head(list)
      slot == Lowest(Slots \ cs[c].used)
  IN /\ chunks' = [cs EXCEPT ![c] = [used  |-> @.used \cup {slot},
                                     count |-> @.count + 1,
                                     data  |-> [@.data EXCEPT ![slot] = v]]]
     /\ nonfull' = IF cs[c].count + 1 = ChunkSize THEN Tail(list) ELSE list
     /\ size' = size + 1
     /\ Done("add", <<c, slot>>)

ChunkAdd(v) ==
  \/ nonfull # <<>> /\ UseSlot(chunks, nonfull, v)
  \/ /\ nonfull = <<>> /\ Len(chunks) < MaxChunks
     /\ UseSlot(Append(chunks, NewChunk), <<Len(chunks) + 1>>, v)

\* No memory for the chunk or for its place in one of the lists: add_chunk writes
\* through the null pointer, or its caller takes a first chunk that is not there.
ChunkAddFails == nonfull = <<>> /\ ChunkFaults

\* *at(arr, i) = v
ChunkAssign(i, v) ==
  /\ InUse(i)
  /\ chunks' = [chunks EXCEPT ![i[1]] = [@ EXCEPT !.data[i[2]] = v]]
  /\ Done("assign", i)
  /\ UNCHANGED <<nonfull, size>>

\* Variant: the chunk goes back on the list whether or not it was full.
ChunkRemoveRelists(i) ==
  /\ InUse(i)
  /\ chunks' = [chunks EXCEPT ![i[1]] = Flagged(@, @.used \ {i[2]}, @.count - 1)]
  /\ nonfull' = Append(nonfull, i[1])
  /\ size' = size - 1
  /\ Done("remove", i)

\* Variant: the first slot of the chunk is released, whichever was meant.
ChunkRemoveFirst(i) ==
  /\ InUse(i)
  /\ chunks' = [chunks EXCEPT ![i[1]] = Flagged(@, @.used \ {Lowest(@.used)}, @.count - 1)]
  /\ nonfull' = IF chunks[i[1]].count = ChunkSize THEN Append(nonfull, i[1]) ELSE nonfull
  /\ size' = size - 1
  /\ Done("remove", i)

\* remove_element with the index of an element.  The code does not look at the
\* used flag: it relies on the caller to remove an element once.
ChunkRemove(i) ==
  /\ InUse(i)
  /\ chunks' = [chunks EXCEPT ![i[1]] = Flagged(@, @.used \ {i[2]}, @.count - 1)]
  /\ nonfull' = IF chunks[i[1]].count = ChunkSize THEN Append(nonfull, i[1]) ELSE nonfull
  /\ size' = size - 1
  /\ Done("remove", i)

\* The list has no room for a chunk that was full, and cannot grow.
ChunkRemoveFails(i) == InUse(i) /\ chunks[i[1]].count = ChunkSize /\ ChunkFaults

\* Variant: used_count is not reset.
ChunkClearKeepsCounts ==
  /\ chunks' = [c \in DOMAIN chunks |-> Flagged(chunks[c], {}, chunks[c].count)]
  /\ nonfull' = [c \in DOMAIN chunks |-> c]
  /\ size' = 0
  /\ Done("clear", Nowhere)

\* Variant: the emptied chunks are not listed again.
ChunkClearUnlisted ==
  /\ chunks' = [c \in DOMAIN chunks |-> Flagged(chunks[c], {}, 0)]
  /\ nonfull' = <<>>
  /\ size' = 0
  /\ Done("clear", Nowhere)

ChunkClear ==
  /\ chunks' = [c \in DOMAIN chunks |-> Flagged(chunks[c], {}, 0)]
  /\ nonfull' = [c \in DOMAIN chunks |-> c]
  /\ size' = 0
  /\ Done("clear", Nowhere)

\* The list cannot grow to hold every chunk.
ChunkClearFails == chunks # <<>> /\ ChunkFaults

\* Variant: the list of chunks to fill is not freed.
ChunkFreeKeepsList ==
  chunks' = <<>> /\ size' = 0 /\ UNCHANGED nonfull /\ Done("clear", Nowhere)

ChunkFree ==
  chunks' = <<>> /\ nonfull' = <<>> /\ size' = 0 /\ Done("clear", Nowhere)

ChunkNext ==
  \/ \E v \in Values : ChunkAdd(v) \/ \E i \in Indices : ChunkAssign(i, v)
  \/ \E i \in Indices : ChunkRemove(i) \/ ChunkRemoveFails(i)
  \/ ChunkAddFails
  \/ ChunkClear \/ ChunkClearFails
  \/ ChunkFree

ChunkSpec == ChunkInit /\ [][ChunkNext]_chunkVars

(***************************************************************************)
(* Properties                                                              *)
(***************************************************************************)

\* used_count and size (add_element, remove_element, clear) count what the
\* used flags say.
CountsAgree ==
  /\ \A c \in DOMAIN chunks : chunks[c].count = Cardinality(chunks[c].used)
  /\ size = Cardinality(Elements)

\* nonfull_chunks lists exactly the chunks with a free slot, each once: a full
\* chunk on it would make get_first_free_slot write to slot -1, a chunk missing
\* from it would never be filled again.
NonfullExact ==
  /\ \A p, q \in DOMAIN nonfull : nonfull[p] = nonfull[q] => p = q
  /\ \A c \in DOMAIN chunks :
       (\E p \in DOMAIN nonfull : nonfull[p] = c) <=> chunks[c].used # Slots

\* Chunks are filled before another is allocated: after a clear or after
\* removals, the free slots are used up first (get_first_free_slot).
GrowsOnlyWhenFull ==
  [][Len(chunks') > Len(chunks) => Elements = Indices]_chunkVars

Pool ==
  INSTANCE HandlePool WITH
    Handles <- (1..MaxChunks) \X Slots,
    items   <- [i \in Elements |-> chunks[i[1]].data[i[2]]]

\* An element stays at the index add_element gave it, with its value, through
\* the additions, removals and writes of others (the header: "doesn't move
\* memory").  A call that gets no memory does not return: nothing is said of it
\* but that all before it kept the elements.
ElementsStayPut == Pool!Spec
=============================================================================
