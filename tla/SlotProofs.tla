----------------------------- MODULE SlotProofs -----------------------------
(***************************************************************************)
(* Proofs about the containers that keep their elements in slots: about    *)
(* ChunkArray, for every chunk size, every number of chunks and every set  *)
(* of values; about HashTable, for every set of keys and hashes of them,   *)
(* every least size that is a power of two and every load factor below     *)
(* 100; and, with ContainersProofs, about the containers side by side.     *)
(***************************************************************************)
EXTENDS MCContainers, ContainersProofs, FiniteSetTheorems, WellFoundedInduction

(***************************************************************************)
(* The chunk array                                                         *)
(***************************************************************************)

ChunkRec == [used : SUBSET Slots, count : Int, data : [Slots -> Values \cup {Unset}]]

ElementsOf(cs) == {i \in (DOMAIN cs) \X Slots : i[2] \in cs[i[1]].used}

\* The three invariants, of chunks, list and count that need not be the state's:
\* get_first_free_slot adds a chunk and fills a slot of it in one step.
PoolSound(cs, list, n) ==
  /\ cs \in Seq(ChunkRec) /\ list \in Seq(DOMAIN cs) /\ n \in Int
  /\ \A c \in DOMAIN cs : cs[c].count = Cardinality(cs[c].used)
  /\ n = Cardinality(ElementsOf(cs))
  /\ \A p, q \in DOMAIN list : list[p] = list[q] => p = q
  /\ \A c \in DOMAIN cs : (\E p \in DOMAIN list : list[p] = c) <=> cs[c].used # Slots

IInv ==
  /\ PoolSound(chunks, nonfull, size)
  /\ done \in [op : {"init", "add", "assign", "remove", "clear"},
              at : Indices \cup {Nowhere}]

-----------------------------------------------------------------------------

\* A chunk is full when its count says so.
LEMMA SlotsFinite ==
  /\ IsFiniteSet(Slots) /\ Cardinality(Slots) = ChunkSize
  /\ \A S \in SUBSET Slots :
       /\ IsFiniteSet(S) /\ Cardinality(S) \in Nat
       /\ Cardinality(S) = ChunkSize <=> S = Slots
<1>1. IsFiniteSet(Slots) /\ Cardinality(Slots) = ChunkSize
  BY FS_Interval, ChunkAssumption DEF Slots
<1>2. ASSUME NEW S \in SUBSET Slots
      PROVE  /\ IsFiniteSet(S) /\ Cardinality(S) \in Nat
             /\ Cardinality(S) = ChunkSize <=> S = Slots
  BY <1>1, FS_Subset, FS_CardinalityType
<1> QED
  BY <1>1, <1>2

\* The search of get_first_free_slot finds a slot whenever one is free.
LEMMA LowestFree ==
  ASSUME NEW S \in SUBSET Slots, S # {}
  PROVE  Lowest(S) \in S
<1> DEFINE Down == {1..s : s \in S}
<1>1. S \subseteq Nat \ {0}
  BY ChunkAssumption DEF Slots
<1>2. Down \subseteq FiniteSubsetsOf(Nat) /\ Down # {}
  <2>1. ASSUME NEW s \in S PROVE IsFiniteSet(1..s) /\ 1..s \in SUBSET Nat
    BY <1>1, FS_Interval
  <2> QED BY <2>1 DEF FiniteSubsetsOf
<1>3. PICK D \in Down : \A E \in Down : ~(<<E, D>> \in StrictSubsetOrdering(Nat))
  BY <1>2, FS_StrictSubsetOrderingWellFounded, WFMin
<1>4. PICK s \in S : D = 1..s
  BY <1>3
<1>5. ASSUME NEW t \in S, ~(s <= t) PROVE FALSE
  <2>1. t \in 1..s /\ s \in 1..s /\ s \notin 1..t /\ 1..t \subseteq 1..s
    BY <1>1, <1>5
  <2>2. 1..t \in Down /\ 1..t # D /\ 1..t \subseteq D /\ D \subseteq Nat
    BY <1>4, <2>1
  <2> QED
    BY <1>3, <2>2 DEF StrictSubsetOrdering
<1> QED
  BY <1>5 DEF Lowest

\* Only finitely many slots are in use.
LEMMA ElementsFinite ==
  ASSUME NEW cs \in Seq(ChunkRec)
  PROVE  IsFiniteSet(ElementsOf(cs))
<1>1. DOMAIN cs = 1..Len(cs) /\ Len(cs) \in Nat
  BY LenProperties
<1>2. IsFiniteSet(DOMAIN cs)
  BY <1>1, FS_Interval
<1>3. IsFiniteSet((DOMAIN cs) \X Slots)
  BY <1>2, SlotsFinite, FS_Product
<1>4. ElementsOf(cs) \in SUBSET ((DOMAIN cs) \X Slots)
  BY DEF ElementsOf
<1> QED
  BY <1>3, <1>4, FS_Subset

\* add_chunk, on an array whose chunks are all full.
LEMMA NewChunkSound ==
  ASSUME NEW cs, NEW n, PoolSound(cs, <<>>, n)
  PROVE  PoolSound(Append(cs, NewChunk), <<Len(cs) + 1>>, n)
<1> DEFINE ds == Append(cs, NewChunk)
           c == Len(cs) + 1
<1>0. cs \in Seq(ChunkRec)
  BY DEF PoolSound
<1>1. NewChunk \in ChunkRec /\ NewChunk.used = {} /\ NewChunk.count = 0
  BY DEF NewChunk, ChunkRec
<1>2. /\ ds \in Seq(ChunkRec) /\ Len(ds) = c /\ Len(cs) \in Nat
      /\ DOMAIN ds = 1..c /\ DOMAIN cs = 1..Len(cs)
      /\ \A d \in DOMAIN cs : ds[d] = cs[d]
      /\ ds[c] = NewChunk
  BY <1>0, <1>1, AppendProperties, LenProperties
<1>3. DOMAIN ds = DOMAIN cs \cup {c} /\ c \notin DOMAIN cs
  BY <1>2
<1> HIDE DEF ds, c
<1>4. \A d \in DOMAIN ds : ds[d].count = Cardinality(ds[d].used)
  BY <1>1, <1>2, <1>3, FS_EmptySet DEF PoolSound
<1>5. ElementsOf(ds) = ElementsOf(cs)
  BY <1>1, <1>2, <1>3 DEF ElementsOf
<1>6. <<c>> \in Seq(DOMAIN ds) /\ DOMAIN <<c>> = {1} /\ <<c>>[1] = c
  BY <1>3
<1>7. 1 \in Slots
  BY ChunkAssumption DEF Slots
<1>8. \A d \in DOMAIN ds : (\E p \in DOMAIN <<c>> : <<c>>[p] = d) <=> ds[d].used # Slots
  <2>1. \A d \in DOMAIN cs : cs[d].used = Slots
    BY DEF PoolSound
  <2> QED
    BY <1>1, <1>2, <1>3, <1>6, <1>7, <2>1
<1>9. \A p, q \in DOMAIN <<c>> : <<c>>[p] = <<c>>[q] => p = q
  BY <1>6
<1>10. n \in Int /\ n = Cardinality(ElementsOf(ds))
  BY <1>5 DEF PoolSound
<1>11. PoolSound(ds, <<c>>, n)
  BY <1>2, <1>4, <1>6, <1>8, <1>9, <1>10 DEF PoolSound
<1> QED
  BY <1>11 DEF ds, c

-----------------------------------------------------------------------------

\* A list that loses its first entry loses nothing else.
LEMMA TailKeeps ==
  ASSUME NEW S, NEW list \in Seq(S), list # <<>>,
         \A p, q \in DOMAIN list : list[p] = list[q] => p = q
  PROVE  /\ Tail(list) \in Seq(S)
         /\ \A p, q \in DOMAIN Tail(list) : Tail(list)[p] = Tail(list)[q] => p = q
         /\ \A x : (\E p \in DOMAIN Tail(list) : Tail(list)[p] = x)
                     <=> x # Head(list) /\ \E p \in DOMAIN list : list[p] = x
<1> DEFINE rest == Tail(list)
<1>1. /\ rest \in Seq(S) /\ Len(list) \in Nat /\ Len(rest) = Len(list) - 1
      /\ \A p \in 1..Len(rest) : rest[p] = list[p + 1]
      /\ DOMAIN rest = 1..Len(rest) /\ DOMAIN list = 1..Len(list)
  BY HeadTailProperties, LenProperties
<1>2. Head(list) = list[1] /\ Len(list) > 0
  BY <1>1, EmptySeq
<1> HIDE DEF rest
<1>3. \A p, q \in DOMAIN rest : rest[p] = rest[q] => p = q
  <2> SUFFICES ASSUME NEW p \in DOMAIN rest, NEW q \in DOMAIN rest, rest[p] = rest[q]
               PROVE  p = q
    OBVIOUS
  <2>1. p + 1 \in DOMAIN list /\ q + 1 \in DOMAIN list /\ list[p + 1] = list[q + 1]
    BY <1>1
  <2> QED
    BY <1>1, <2>1
<1>4. ASSUME NEW x
      PROVE  (\E p \in DOMAIN rest : rest[p] = x)
               <=> x # Head(list) /\ \E p \in DOMAIN list : list[p] = x
  <2>1. ASSUME NEW p \in DOMAIN rest, rest[p] = x
        PROVE  x # Head(list) /\ \E q \in DOMAIN list : list[q] = x
    <3>1. p + 1 \in DOMAIN list /\ 1 \in DOMAIN list /\ list[p + 1] = x /\ p + 1 # 1
      BY <1>1, <1>2, <2>1
    <3> QED
      BY <1>2, <3>1
  <2>2. ASSUME NEW p \in DOMAIN list, list[p] = x, x # Head(list)
        PROVE  \E q \in DOMAIN rest : rest[q] = x
    <3>1. p # 1
      BY <1>2, <2>2
    <3>2. p - 1 \in DOMAIN rest /\ rest[p - 1] = x
      BY <1>1, <2>2, <3>1
    <3> QED
      BY <3>2
  <2> QED
    BY <2>1, <2>2
<1> QED
  BY <1>1, <1>3, <1>4 DEF rest

\* A list that gains an entry it does not hold.
LEMMA AppendKeeps ==
  ASSUME NEW S, NEW list \in Seq(S), NEW c \in S,
         \A p, q \in DOMAIN list : list[p] = list[q] => p = q,
         \A p \in DOMAIN list : list[p] # c
  PROVE  LET more == Append(list, c)
         IN /\ more \in Seq(S)
            /\ \A p, q \in DOMAIN more : more[p] = more[q] => p = q
            /\ \A x : (\E p \in DOMAIN more : more[p] = x)
                        <=> x = c \/ \E p \in DOMAIN list : list[p] = x
<1> DEFINE more == Append(list, c)
<1>1. /\ more \in Seq(S) /\ Len(list) \in Nat /\ Len(more) = Len(list) + 1
      /\ \A p \in 1..Len(list) : more[p] = list[p]
      /\ more[Len(list) + 1] = c
      /\ DOMAIN more = 1..Len(more) /\ DOMAIN list = 1..Len(list)
  BY AppendProperties, LenProperties
<1> HIDE DEF more
<1>2. DOMAIN more = DOMAIN list \cup {Len(list) + 1} /\ Len(list) + 1 \notin DOMAIN list
  BY <1>1
<1>3. \A p, q \in DOMAIN more : more[p] = more[q] => p = q
  BY <1>1, <1>2
<1>4. \A x : (\E p \in DOMAIN more : more[p] = x)
               <=> x = c \/ \E p \in DOMAIN list : list[p] = x
  BY <1>1, <1>2
<1> QED
  BY <1>1, <1>3, <1>4 DEF more

\* get_first_free_slot on sound chunks: the slot it takes was free.
LEMMA UseSlotSound ==
  ASSUME NEW cs, NEW list, NEW v \in Values,
         PoolSound(cs, list, size), list # <<>>, UseSlot(cs, list, v)
  PROVE  PoolSound(chunks', nonfull', size') /\ done' \in [op : {"add"}, at : Indices']
<1> DEFINE c == Head(list)
           slot == Lowest(Slots \ cs[c].used)
           old == cs[c]
           new == [used |-> old.used \cup {slot}, count |-> old.count + 1,
                   data |-> [old.data EXCEPT ![slot] = v]]
<1>1. cs \in Seq(ChunkRec) /\ list \in Seq(DOMAIN cs) /\ size \in Int
  BY DEF PoolSound
<1>2. c \in DOMAIN cs /\ 1 \in DOMAIN list /\ list[1] = c
      /\ DOMAIN cs = 1..Len(cs) /\ Len(cs) \in Nat
  BY <1>1, HeadTailProperties, LenProperties, EmptySeq
<1>3. old \in ChunkRec /\ old.used # Slots /\ old.count = Cardinality(old.used)
  BY <1>1, <1>2 DEF PoolSound
<1>4. slot \in Slots /\ slot \notin old.used
  <2> DEFINE free == Slots \ old.used
  <2>1. free \in SUBSET Slots /\ free # {}
    BY <1>3 DEF ChunkRec
  <2> HIDE DEF free
  <2>2. Lowest(free) \in free
    BY <2>1, LowestFree
  <2> QED
    BY <2>2 DEF free
<1>5. /\ chunks' = [cs EXCEPT ![c] = new] /\ size' = size + 1
      /\ nonfull' = IF old.count + 1 = ChunkSize THEN Tail(list) ELSE list
      /\ done' = [op |-> "add", at |-> <<c, slot>>]
  BY DEF UseSlot, Done
<1>6. /\ new \in ChunkRec /\ new.used = old.used \cup {slot} /\ new.count = old.count + 1
  <2>1. [old.data EXCEPT ![slot] = v] \in [Slots -> Values \cup {Unset}]
    BY <1>3 DEF ChunkRec
  <2>2. old.used \cup {slot} \in SUBSET Slots /\ old.count + 1 \in Int
    BY <1>3, <1>4 DEF ChunkRec
  <2> HIDE DEF slot
  <2> QED
    BY <2>1, <2>2 DEF ChunkRec
<1> HIDE DEF new, slot, c
<1>7. /\ chunks' \in Seq(ChunkRec) /\ DOMAIN chunks' = DOMAIN cs /\ chunks'[c] = new
      /\ \A d \in DOMAIN cs \ {c} : chunks'[d] = cs[d]
  BY <1>1, <1>2, <1>5, <1>6, ExceptSeq, LenProperties
<1>8. new.count = Cardinality(new.used)
  BY <1>3, <1>4, <1>6, SlotsFinite, FS_AddElement DEF ChunkRec
<1>9. \A d \in DOMAIN chunks' : chunks'[d].count = Cardinality(chunks'[d].used)
  BY <1>7, <1>8 DEF PoolSound
<1>10. /\ ElementsOf(chunks') = ElementsOf(cs) \cup {<<c, slot>>}
       /\ <<c, slot>> \notin ElementsOf(cs)
  BY <1>2, <1>4, <1>6, <1>7 DEF ElementsOf
<1>11. size' = Cardinality(ElementsOf(chunks')) /\ size' \in Int
  <2>1. IsFiniteSet(ElementsOf(cs)) /\ size = Cardinality(ElementsOf(cs))
    BY <1>1, ElementsFinite DEF PoolSound
  <2>2. Cardinality(ElementsOf(cs) \cup {<<c, slot>>}) = size + 1
    BY <1>10, <2>1, FS_AddElement
  <2>3. size' = size + 1 /\ size \in Int
    BY <1>1, <1>5
  <2> QED
    BY <1>10, <2>2, <2>3
<1>12. new.used = Slots <=> old.count + 1 = ChunkSize
  BY <1>6, <1>8, SlotsFinite DEF ChunkRec
<1>13. /\ nonfull' \in Seq(DOMAIN chunks')
       /\ \A p, q \in DOMAIN nonfull' : nonfull'[p] = nonfull'[q] => p = q
       /\ \A d \in DOMAIN chunks' :
            (\E p \in DOMAIN nonfull' : nonfull'[p] = d) <=> chunks'[d].used # Slots
  <2>1. CASE old.count + 1 = ChunkSize
    <3>1. nonfull' = Tail(list)
      BY <1>5, <2>1
    <3>0. \A p, q \in DOMAIN list : list[p] = list[q] => p = q
      BY DEF PoolSound
    <3>2. /\ Tail(list) \in Seq(DOMAIN cs)
          /\ \A p, q \in DOMAIN Tail(list) : Tail(list)[p] = Tail(list)[q] => p = q
          /\ \A x : (\E p \in DOMAIN Tail(list) : Tail(list)[p] = x)
                      <=> x # c /\ \E p \in DOMAIN list : list[p] = x
      <4> DEFINE S == DOMAIN cs
      <4>1. list \in Seq(S)
        BY <1>1
      <4> HIDE DEF S
      <4>2. /\ Tail(list) \in Seq(S)
            /\ \A p, q \in DOMAIN Tail(list) : Tail(list)[p] = Tail(list)[q] => p = q
            /\ \A x : (\E p \in DOMAIN Tail(list) : Tail(list)[p] = x)
                        <=> x # Head(list) /\ \E p \in DOMAIN list : list[p] = x
        BY <4>1, <3>0, TailKeeps
      <4> QED
        BY <4>2 DEF S, c
    <3> QED
      BY <1>7, <1>12, <2>1, <3>1, <3>2 DEF PoolSound
  <2>2. CASE old.count + 1 # ChunkSize
    <3>1. nonfull' = list /\ new.used # Slots
      BY <1>5, <1>12, <2>2
    <3> QED
      BY <1>1, <1>2, <1>7, <3>1 DEF PoolSound
  <2> QED
    BY <2>1, <2>2
<1>14. done' \in [op : {"add"}, at : Indices']
  BY <1>2, <1>4, <1>5, <1>7 DEF Indices
<1> QED
  BY <1>7, <1>9, <1>11, <1>13, <1>14 DEF PoolSound

\* add_element, with or without a new chunk.
LEMMA AddSound ==
  ASSUME IInv, NEW v \in Values, ChunkAdd(v)
  PROVE  IInv'
<1>1. CASE nonfull # <<>> /\ UseSlot(chunks, nonfull, v)
  BY <1>1, UseSlotSound DEF IInv
<1>2. CASE nonfull = <<>> /\ UseSlot(Append(chunks, NewChunk), <<Len(chunks) + 1>>, v)
  <2>1. PoolSound(Append(chunks, NewChunk), <<Len(chunks) + 1>>, size)
    BY <1>2, NewChunkSound DEF IInv
  <2> QED
    BY <1>2, <2>1, UseSlotSound DEF IInv
<1> QED
  BY <1>1, <1>2 DEF ChunkAdd

\* A write through at() changes no flag.
LEMMA AssignSound ==
  ASSUME IInv, NEW i \in Indices, NEW v \in Values, ChunkAssign(i, v)
  PROVE  IInv'
<1> DEFINE c == i[1]
           old == chunks[c]
           new == [old EXCEPT !.data[i[2]] = v]
<1>1. chunks \in Seq(ChunkRec) /\ c \in DOMAIN chunks /\ i[2] \in Slots /\ i = <<c, i[2]>>
  BY DEF IInv, PoolSound, Indices
<1>2. old \in ChunkRec
  BY <1>1
<1>3. new \in ChunkRec /\ new.used = old.used /\ new.count = old.count
  BY <1>1, <1>2 DEF ChunkRec
<1>4. /\ chunks' = [chunks EXCEPT ![c] = new] /\ nonfull' = nonfull /\ size' = size
      /\ done' = [op |-> "assign", at |-> i]
  BY DEF ChunkAssign, Done
<1> HIDE DEF new, c
<1>5. /\ chunks' \in Seq(ChunkRec) /\ DOMAIN chunks' = DOMAIN chunks
      /\ \A d \in DOMAIN chunks :
           chunks'[d].used = chunks[d].used /\ chunks'[d].count = chunks[d].count
  BY <1>1, <1>3, <1>4, ExceptSeq, LenProperties
<1>6. ElementsOf(chunks') = ElementsOf(chunks)
  BY <1>5 DEF ElementsOf
<1>7. PoolSound(chunks', nonfull', size')
  BY <1>4, <1>5, <1>6 DEF IInv, PoolSound
<1> QED
  BY <1>4, <1>5, <1>7 DEF IInv, Indices

\* remove_element: the chunk goes on the list exactly when it was full.
LEMMA RemoveSound ==
  ASSUME IInv, NEW i \in Indices, ChunkRemove(i)
  PROVE  IInv'
<1> DEFINE c == i[1]
           slot == i[2]
           old == chunks[c]
           new == Flagged(old, old.used \ {slot}, old.count - 1)
<1>1. /\ chunks \in Seq(ChunkRec) /\ nonfull \in Seq(DOMAIN chunks) /\ size \in Int
      /\ c \in DOMAIN chunks /\ slot \in Slots /\ i = <<c, slot>> /\ slot \in old.used
  BY DEF IInv, PoolSound, Indices, ChunkRemove, InUse
<1>2. old \in ChunkRec /\ old.count = Cardinality(old.used)
  BY <1>1 DEF IInv, PoolSound
<1>3. /\ new \in ChunkRec /\ new.used = old.used \ {slot} /\ new.count = old.count - 1
  BY <1>2 DEF ChunkRec, Flagged
<1>4. /\ chunks' = [chunks EXCEPT ![c] = new] /\ size' = size - 1
      /\ nonfull' = IF old.count = ChunkSize THEN Append(nonfull, c) ELSE nonfull
      /\ done' = [op |-> "remove", at |-> i]
  BY DEF ChunkRemove, Done
<1> HIDE DEF new, slot, c
<1>5. /\ chunks' \in Seq(ChunkRec) /\ DOMAIN chunks' = DOMAIN chunks /\ chunks'[c] = new
      /\ \A d \in DOMAIN chunks \ {c} : chunks'[d] = chunks[d]
  BY <1>1, <1>3, <1>4, ExceptSeq, LenProperties
<1>6. new.count = Cardinality(new.used) /\ new.used # Slots
  <2>1. IsFiniteSet(old.used)
    BY <1>2, SlotsFinite DEF ChunkRec
  <2>2. Cardinality(old.used \ {slot}) = Cardinality(old.used) - 1
    BY <1>1, <2>1, FS_RemoveElement
  <2> QED
    BY <1>1, <1>2, <1>3, <2>2
<1>7. \A d \in DOMAIN chunks' : chunks'[d].count = Cardinality(chunks'[d].used)
  BY <1>5, <1>6 DEF IInv, PoolSound
<1>8. ElementsOf(chunks') = ElementsOf(chunks) \ {i} /\ i \in ElementsOf(chunks)
  BY <1>1, <1>3, <1>5 DEF ElementsOf
<1>9. size' = Cardinality(ElementsOf(chunks')) /\ size' \in Int
  <2>1. IsFiniteSet(ElementsOf(chunks)) /\ size = Cardinality(ElementsOf(chunks))
    BY <1>1, ElementsFinite DEF IInv, PoolSound
  <2>2. Cardinality(ElementsOf(chunks) \ {i}) = size - 1
    BY <1>8, <2>1, FS_RemoveElement
  <2>3. size' = size - 1 /\ size \in Int
    BY <1>1, <1>4
  <2> QED
    BY <1>8, <2>2, <2>3
<1>10. /\ \A p, q \in DOMAIN nonfull : nonfull[p] = nonfull[q] => p = q
       /\ \A d \in DOMAIN chunks :
            (\E p \in DOMAIN nonfull : nonfull[p] = d) <=> chunks[d].used # Slots
  BY DEF IInv, PoolSound
<1>11. old.used = Slots <=> old.count = ChunkSize
  BY <1>2, SlotsFinite DEF ChunkRec
<1>12. /\ nonfull' \in Seq(DOMAIN chunks')
       /\ \A p, q \in DOMAIN nonfull' : nonfull'[p] = nonfull'[q] => p = q
       /\ \A d \in DOMAIN chunks' :
            (\E p \in DOMAIN nonfull' : nonfull'[p] = d) <=> chunks'[d].used # Slots
  <2>1. CASE old.count = ChunkSize
    <3> DEFINE S == DOMAIN chunks
               more == Append(nonfull, c)
    <3>1. \A p \in DOMAIN nonfull : nonfull[p] # c
      BY <1>1, <1>10, <1>11, <2>1
    <3>2. nonfull \in Seq(S) /\ c \in S
      BY <1>1
    <3> HIDE DEF S
    <3>3. /\ more \in Seq(S)
          /\ \A p, q \in DOMAIN more : more[p] = more[q] => p = q
          /\ \A x : (\E p \in DOMAIN more : more[p] = x)
                      <=> x = c \/ \E p \in DOMAIN nonfull : nonfull[p] = x
      BY <1>10, <3>1, <3>2, AppendKeeps
    <3>4. nonfull' = more
      BY <1>4, <2>1
    <3> HIDE DEF more
    <3> QED
      BY <1>5, <1>6, <1>10, <3>3, <3>4 DEF S
  <2>2. CASE old.count # ChunkSize
    <3>1. nonfull' = nonfull /\ old.used # Slots
      BY <1>4, <1>11, <2>2
    <3> QED
      BY <1>1, <1>5, <1>6, <1>10, <3>1
  <2> QED
    BY <2>1, <2>2
<1>13. PoolSound(chunks', nonfull', size')
  BY <1>5, <1>7, <1>9, <1>12 DEF PoolSound
<1> QED
  BY <1>4, <1>5, <1>13 DEF IInv, Indices

\* clear and free.
LEMMA ClearSound ==
  ASSUME IInv, ChunkClear
  PROVE  IInv'
<1>1. /\ chunks \in Seq(ChunkRec) /\ DOMAIN chunks = 1..Len(chunks) /\ Len(chunks) \in Nat
  BY LenProperties DEF IInv, PoolSound
<1>2. /\ chunks' = [c \in 1..Len(chunks) |-> Flagged(chunks[c], {}, 0)]
      /\ nonfull' = [c \in 1..Len(chunks) |-> c]
      /\ size' = 0 /\ done' = [op |-> "clear", at |-> Nowhere]
  BY <1>1 DEF ChunkClear, Done
<1>3. ASSUME NEW c \in 1..Len(chunks)
      PROVE  /\ Flagged(chunks[c], {}, 0) \in ChunkRec
             /\ Flagged(chunks[c], {}, 0).used = {}
             /\ Flagged(chunks[c], {}, 0).count = 0
  <2>1. chunks[c] \in ChunkRec
    BY <1>1
  <2> QED
    BY <2>1 DEF ChunkRec, Flagged
<1>4. /\ chunks' \in Seq(ChunkRec) /\ DOMAIN chunks' = 1..Len(chunks)
      /\ \A c \in DOMAIN chunks' : chunks'[c].used = {} /\ chunks'[c].count = 0
  <2>1. chunks' \in [1..Len(chunks) -> ChunkRec]
    BY <1>2, <1>3
  <2>2. chunks' \in Seq(ChunkRec)
    BY <1>1, <2>1, SeqDef
  <2> QED
    BY <1>2, <1>3, <2>1, <2>2
<1>5. /\ nonfull' \in Seq(DOMAIN chunks') /\ DOMAIN nonfull' = 1..Len(chunks)
      /\ \A p \in DOMAIN nonfull' : nonfull'[p] = p
  <2>1. nonfull' \in [1..Len(chunks) -> 1..Len(chunks)]
    BY <1>2
  <2>2. nonfull' \in Seq(1..Len(chunks))
    BY <1>1, <2>1, SeqDef
  <2> QED
    BY <1>2, <1>4, <2>2
<1>6. ElementsOf(chunks') = {}
  BY <1>4 DEF ElementsOf
<1>7. 1 \in Slots
  BY ChunkAssumption DEF Slots
<1>8. /\ \A c \in DOMAIN chunks' : chunks'[c].count = Cardinality(chunks'[c].used)
      /\ size' \in Int /\ size' = Cardinality(ElementsOf(chunks'))
  <2>1. Cardinality({}) = 0
    BY FS_EmptySet
  <2>2. Cardinality(ElementsOf(chunks')) = 0
    BY <1>6, <2>1
  <2>3. ASSUME NEW c \in DOMAIN chunks'
        PROVE  chunks'[c].count = Cardinality(chunks'[c].used)
    <3>1. chunks'[c].used = {} /\ chunks'[c].count = 0
      BY <1>4
    <3> QED
      BY <2>1, <3>1
  <2>4. size' = 0
    BY <1>2
  <2> QED
    BY <2>2, <2>3, <2>4
<1>9. /\ \A p, q \in DOMAIN nonfull' : nonfull'[p] = nonfull'[q] => p = q
      /\ \A c \in DOMAIN chunks' :
           (\E p \in DOMAIN nonfull' : nonfull'[p] = c) <=> chunks'[c].used # Slots
  BY <1>4, <1>5, <1>7
<1>10. PoolSound(chunks', nonfull', size')
  BY <1>4, <1>5, <1>8, <1>9 DEF PoolSound
<1> QED
  BY <1>2, <1>10 DEF IInv

\* No chunks, no list and no elements: after init and after free.
LEMMA EmptySound == PoolSound(<<>>, <<>>, 0)
<1>1. ElementsOf(<<>>) = {}
  BY DEF ElementsOf
<1> QED
  BY <1>1, FS_EmptySet DEF PoolSound

-----------------------------------------------------------------------------

\* A freshly initialised array is sound.
LEMMA InitIInv == ChunkInit => IInv
BY EmptySound DEF ChunkInit, IInv

\* The calls that end the behaviour for want of memory.
ChunkFails == ChunkAddFails \/ ChunkClearFails \/ \E i \in Indices : ChunkRemoveFails(i)

LEMMA FailingKeepsAll ==
  ASSUME ChunkFails
  PROVE  /\ chunks' = chunks /\ nonfull' = nonfull /\ size' = size /\ done' = done
         /\ chunkFault' = TRUE
BY DEF ChunkFails, ChunkAddFails, ChunkClearFails, ChunkRemoveFails, ChunkFaults

LEMMA FaultIsBoolean ==
  ASSUME chunkFault \in BOOLEAN, [ChunkNext]_chunkVars
  PROVE  chunkFault' \in BOOLEAN
<1>1. ASSUME NEW v \in Values, ChunkAdd(v) PROVE chunkFault' = chunkFault
  BY <1>1 DEF ChunkAdd, UseSlot, Done
<1>2. ASSUME NEW v \in Values, NEW i \in Indices, ChunkAssign(i, v) PROVE chunkFault' = chunkFault
  BY <1>2 DEF ChunkAssign, Done
<1>3. ASSUME NEW i \in Indices, ChunkRemove(i) PROVE chunkFault' = chunkFault
  BY <1>3 DEF ChunkRemove, Done
<1>4. CASE ChunkClear \/ ChunkFree
  BY <1>4 DEF ChunkClear, ChunkFree, Done
<1>5. CASE ChunkFails
  BY <1>5, FailingKeepsAll
<1>6. CASE UNCHANGED chunkVars
  BY <1>6 DEF chunkVars
<1> QED
  BY <1>1, <1>2, <1>3, <1>4, <1>5, <1>6 DEF ChunkNext, ChunkFails

\* Every operation keeps the inductive invariant.
LEMMA NextKeepsIInv == IInv /\ [ChunkNext]_chunkVars => IInv'
<1> SUFFICES ASSUME IInv, [ChunkNext]_chunkVars PROVE IInv'
  OBVIOUS
<1>1. ASSUME NEW v \in Values, ChunkAdd(v) PROVE IInv'
  BY <1>1, AddSound
<1>2. ASSUME NEW v \in Values, NEW i \in Indices, ChunkAssign(i, v) PROVE IInv'
  BY <1>2, AssignSound
<1>3. ASSUME NEW i \in Indices, ChunkRemove(i) PROVE IInv'
  BY <1>3, RemoveSound
<1>4. CASE ChunkClear
  BY <1>4, ClearSound
<1>5. CASE ChunkFree
  BY <1>5, EmptySound DEF ChunkFree, Done, IInv
<1>6. CASE UNCHANGED chunkVars
  BY <1>6 DEF chunkVars, IInv, Indices
<1>7. CASE ChunkFails
  BY <1>7, FailingKeepsAll DEF IInv, Indices
<1> QED
  BY <1>1, <1>2, <1>3, <1>4, <1>5, <1>6, <1>7 DEF ChunkNext, ChunkFails

\* The three invariants hold together throughout every behaviour.
THEOREM Inductive == ChunkSpec => []IInv
BY InitIInv, NextKeepsIInv, PTL DEF ChunkSpec

\* The chunks, the list and the count keep their types.
THEOREM ChunkTypeCorrect == ChunkSpec => []ChunkTypeOK
<1>1. IInv /\ chunkFault \in BOOLEAN => ChunkTypeOK
  BY DEF IInv, PoolSound, ChunkRec, ChunkTypeOK
<1>2. ChunkInit => chunkFault \in BOOLEAN
  BY DEF ChunkInit
<1>3. chunkFault \in BOOLEAN /\ [ChunkNext]_chunkVars => (chunkFault \in BOOLEAN)'
  BY FaultIsBoolean
<1> QED
  BY <1>1, <1>2, <1>3, Inductive, PTL DEF ChunkSpec

\* used_count and size always agree with the used flags.
THEOREM CountsAlwaysAgree == ChunkSpec => []CountsAgree
<1>1. ElementsOf(chunks) = Elements
  BY DEF ElementsOf, Elements, InUse, Indices
<1>2. IInv => CountsAgree
  BY <1>1 DEF IInv, PoolSound, CountsAgree
<1> QED
  BY <1>2, Inductive, PTL

\* nonfull_chunks always holds exactly the chunks with a free slot, so that
\* get_first_free_slot never looks for one in vain.
THEOREM NonfullAlwaysExact == ChunkSpec => []NonfullExact
<1>1. IInv => NonfullExact
  BY DEF IInv, PoolSound, NonfullExact
<1> QED
  BY <1>1, Inductive, PTL

\* A chunk is only allocated when every slot is in use.
THEOREM GrowthIsNeeded == ChunkSpec => GrowsOnlyWhenFull
<1>1. IInv /\ ChunkNext => (Len(chunks') > Len(chunks) => Elements = Indices)
  <2> SUFFICES ASSUME IInv, ChunkNext, Len(chunks') > Len(chunks) PROVE Elements = Indices
    OBVIOUS
  <2>1. chunks \in Seq(ChunkRec) /\ Len(chunks) \in Nat /\ DOMAIN chunks = 1..Len(chunks)
    BY LenProperties DEF IInv, PoolSound
  <2>2. ASSUME NEW list, NEW v \in Values, UseSlot(chunks, list, v) PROVE FALSE
    <3>1. DOMAIN chunks' = DOMAIN chunks
      BY <2>1, <2>2 DEF UseSlot
    <3> QED
      BY <2>1, <3>1
  <2>3. CASE nonfull = <<>>
    BY <2>3 DEF IInv, PoolSound, Elements, InUse, Indices
  <2>4. CASE nonfull # <<>>
    <3>1. ASSUME NEW v \in Values, ChunkAdd(v) PROVE FALSE
      BY <2>2, <2>4, <3>1 DEF ChunkAdd
    <3>2. ASSUME NEW v \in Values, NEW i \in Indices, ChunkAssign(i, v) PROVE FALSE
      <4>1. DOMAIN chunks' = DOMAIN chunks
        BY <2>1, <3>2 DEF ChunkAssign
      <4> QED
        BY <2>1, <4>1
    <3>3. ASSUME NEW i \in Indices, ChunkRemove(i) PROVE FALSE
      <4>1. DOMAIN chunks' = DOMAIN chunks
        BY <2>1, <3>3 DEF ChunkRemove
      <4> QED
        BY <2>1, <4>1
    <3>4. CASE ChunkClear
      <4>1. DOMAIN chunks' = DOMAIN chunks
        BY <2>1, <3>4 DEF ChunkClear
      <4> QED
        BY <2>1, <4>1
    <3>5. CASE ChunkFree
      <4>1. Len(chunks') = 0
        BY <3>5 DEF ChunkFree
      <4> QED
        BY <2>1, <4>1
    <3>6. CASE ChunkFails
      BY <2>1, <3>6, FailingKeepsAll
    <3> QED
      BY <3>1, <3>2, <3>3, <3>4, <3>5, <3>6 DEF ChunkNext, ChunkFails
  <2> QED
    BY <2>3, <2>4
<1> QED
  BY <1>1, Inductive, PTL DEF ChunkSpec, GrowsOnlyWhenFull

-----------------------------------------------------------------------------
(***************************************************************************)
(* ChunkArray implements HandlePool, for every chunk size, every number of *)
(* chunks and every set of values: every call maps to one step of the pool.*)
(***************************************************************************)

PoolItems(cs) == [i \in ElementsOf(cs) |-> cs[i[1]].data[i[2]]]

WithItem(items, h, v) == [i \in DOMAIN items \cup {h} |-> IF i = h THEN v ELSE items[i]]

Bounded == Len(chunks) <= MaxChunks

\* The mapping, in terms of PoolItems.
LEMMA Mapping ==
  /\ Elements = ElementsOf(chunks)
  /\ [i \in Elements |-> chunks[i[1]].data[i[2]]] = PoolItems(chunks)
  BY DEF Elements, ElementsOf, Indices, InUse, PoolItems

\* get_first_free_slot and the store: one slot more is in use, and holds v.
LEMMA SlotTaken ==
  ASSUME NEW cs, NEW list, NEW v \in Values,
         PoolSound(cs, list, size), list # <<>>, UseSlot(cs, list, v)
  PROVE  \E c \in DOMAIN cs, slot \in Slots :
           /\ slot \notin cs[c].used
           /\ done' = [op |-> "add", at |-> <<c, slot>>]
           /\ DOMAIN chunks' = DOMAIN cs
           /\ chunks'[c].used = cs[c].used \cup {slot}
           /\ chunks'[c].data = [cs[c].data EXCEPT ![slot] = v]
           /\ \A d \in DOMAIN cs \ {c} : chunks'[d] = cs[d]
<1> DEFINE c == Head(list)
           slot == Lowest(Slots \ cs[c].used)
           new == [used |-> cs[c].used \cup {slot}, count |-> cs[c].count + 1,
                   data |-> [cs[c].data EXCEPT ![slot] = v]]
<1>1. cs \in Seq(ChunkRec) /\ list \in Seq(DOMAIN cs)
  BY DEF PoolSound
<1>2. c \in DOMAIN cs /\ 1 \in DOMAIN list /\ list[1] = c
  BY <1>1, HeadTailProperties, LenProperties, EmptySeq
<1>3. cs[c] \in ChunkRec /\ cs[c].used # Slots
  BY <1>1, <1>2 DEF PoolSound
<1>4. slot \in Slots /\ slot \notin cs[c].used
  <2> DEFINE free == Slots \ cs[c].used
  <2>1. free \in SUBSET Slots /\ free # {}
    BY <1>3 DEF ChunkRec
  <2> HIDE DEF free
  <2>2. Lowest(free) \in free
    BY <2>1, LowestFree
  <2> QED
    BY <2>2 DEF free
<1>5. chunks' = [cs EXCEPT ![c] = new] /\ done' = [op |-> "add", at |-> <<c, slot>>]
  BY DEF UseSlot, Done
<1>6. new.used = cs[c].used \cup {slot} /\ new.data = [cs[c].data EXCEPT ![slot] = v]
  OBVIOUS
<1> HIDE DEF new, slot, c
<1>7. /\ DOMAIN chunks' = DOMAIN cs /\ chunks'[c] = new
      /\ \A d \in DOMAIN cs \ {c} : chunks'[d] = cs[d]
  BY <1>1, <1>2, <1>5
<1> QED
  BY <1>2, <1>4, <1>5, <1>6, <1>7

\* The item goes to a place that held none, and the others stay.
LEMMA ItemAdded ==
  ASSUME NEW cs, NEW list, NEW v \in Values,
         PoolSound(cs, list, size), list # <<>>, UseSlot(cs, list, v)
  PROVE  \E h \in ((DOMAIN cs) \X Slots) \ ElementsOf(cs) :
           /\ done' = [op |-> "add", at |-> h]
           /\ PoolItems(chunks') = WithItem(PoolItems(cs), h, v)
<1>1. PICK c \in DOMAIN cs, slot \in Slots :
        /\ slot \notin cs[c].used
        /\ done' = [op |-> "add", at |-> <<c, slot>>]
        /\ DOMAIN chunks' = DOMAIN cs
        /\ chunks'[c].used = cs[c].used \cup {slot}
        /\ chunks'[c].data = [cs[c].data EXCEPT ![slot] = v]
        /\ \A d \in DOMAIN cs \ {c} : chunks'[d] = cs[d]
  BY SlotTaken
<1> DEFINE h == <<c, slot>>
<1>2. h \in ((DOMAIN cs) \X Slots) \ ElementsOf(cs)
  BY <1>1 DEF ElementsOf
<1>3. cs[c].data \in [Slots -> Values \cup {Unset}]
  <2>1. cs[c] \in ChunkRec
    BY DEF PoolSound
  <2> QED  BY <2>1 DEF ChunkRec
<1>4. ElementsOf(chunks') = ElementsOf(cs) \cup {h}
  <2>1. ASSUME NEW i \in (DOMAIN cs) \X Slots
        PROVE  i \in ElementsOf(chunks') <=> i \in ElementsOf(cs) \/ i = h
    <3>1. i = <<i[1], i[2]>> /\ i[1] \in DOMAIN cs /\ i[2] \in Slots
      OBVIOUS
    <3>2. CASE i[1] = c
      BY <1>1, <3>1, <3>2 DEF ElementsOf
    <3>3. CASE i[1] # c
      BY <1>1, <3>1, <3>3 DEF ElementsOf
    <3> QED  BY <3>2, <3>3
  <2>2. /\ ElementsOf(chunks') \subseteq (DOMAIN cs) \X Slots
        /\ ElementsOf(cs) \subseteq (DOMAIN cs) \X Slots
    BY <1>1 DEF ElementsOf
  <2> QED  BY <1>2, <2>1, <2>2
<1>5. chunks'[h[1]].data[h[2]] = v
  BY <1>1, <1>3
<1>6. ASSUME NEW i \in ElementsOf(cs)
      PROVE  chunks'[i[1]].data[i[2]] = cs[i[1]].data[i[2]]
  <2>1. i[1] \in DOMAIN cs /\ i[2] \in Slots /\ i[2] \in cs[i[1]].used
    BY DEF ElementsOf
  <2>2. CASE i[1] = c
    <3>1. i[2] # slot /\ i[2] \in DOMAIN cs[c].data
      BY <1>1, <1>3, <2>1, <2>2
    <3>2. [cs[c].data EXCEPT ![slot] = v][i[2]] = cs[c].data[i[2]]
      BY <3>1
    <3> QED  BY <1>1, <2>2, <3>2
  <2>3. CASE i[1] # c
    BY <1>1, <2>1, <2>3
  <2> QED  BY <2>2, <2>3
<1> HIDE DEF h
<1>7. PoolItems(chunks') = WithItem(PoolItems(cs), h, v)
  BY <1>2, <1>4, <1>5, <1>6 DEF PoolItems, WithItem
<1> QED  BY <1>1, <1>2, <1>7 DEF h

\* A new chunk holds no items.
LEMMA NewChunkHoldsNone ==
  ASSUME NEW cs \in Seq(ChunkRec)
  PROVE  PoolItems(Append(cs, NewChunk)) = PoolItems(cs)
<1> DEFINE ds == Append(cs, NewChunk)
<1>1. /\ Len(cs) \in Nat /\ DOMAIN cs = 1..Len(cs) /\ DOMAIN ds = 1..(Len(cs) + 1)
      /\ \A d \in DOMAIN cs : ds[d] = cs[d]
      /\ ds[Len(cs) + 1] = NewChunk /\ NewChunk.used = {}
  <2>1. NewChunk \in ChunkRec /\ NewChunk.used = {}
    BY DEF NewChunk, ChunkRec
  <2> QED  BY <2>1, AppendProperties, LenProperties
<1>2. DOMAIN ds = DOMAIN cs \cup {Len(cs) + 1} /\ Len(cs) + 1 \notin DOMAIN cs
  BY <1>1
<1> HIDE DEF ds
<1>3. ElementsOf(ds) = ElementsOf(cs)
  BY <1>1, <1>2 DEF ElementsOf
<1>4. ASSUME NEW i \in ElementsOf(cs)
      PROVE  ds[i[1]] = cs[i[1]]
  BY <1>1 DEF ElementsOf
<1>5. PoolItems(ds) = PoolItems(cs)
  BY <1>3, <1>4 DEF PoolItems
<1> QED  BY <1>5 DEF ds

\* Chunks are allocated up to the bound.
LEMMA BoundedKept ==
  ASSUME IInv, Bounded, [ChunkNext]_chunkVars
  PROVE  Bounded'
<1>0. chunks \in Seq(ChunkRec) /\ Len(chunks) \in Nat /\ DOMAIN chunks = 1..Len(chunks)
  BY LenProperties DEF IInv, PoolSound
<1>1. ASSUME NEW v \in Values, ChunkAdd(v)
      PROVE  Bounded'
  <2>1. CASE nonfull # <<>> /\ UseSlot(chunks, nonfull, v)
    <3>1. Len(chunks') = Len(chunks)
      BY <1>0, <2>1 DEF UseSlot
    <3> QED  BY <3>1 DEF Bounded
  <2>2. CASE /\ nonfull = <<>> /\ Len(chunks) < MaxChunks
             /\ UseSlot(Append(chunks, NewChunk), <<Len(chunks) + 1>>, v)
    <3>1. Len(Append(chunks, NewChunk)) = Len(chunks) + 1
      BY <1>0
    <3>2. Len(chunks') = Len(chunks) + 1
      BY <3>1, <2>2 DEF UseSlot
    <3> QED  BY <1>0, <2>2, <3>2, ChunkAssumption DEF Bounded
  <2> QED  BY <1>1, <2>1, <2>2 DEF ChunkAdd
<1>2. ASSUME NEW v \in Values, NEW i \in Indices, ChunkAssign(i, v)
      PROVE  Bounded'
  BY <1>0, <1>2 DEF ChunkAssign, Bounded
<1>3. ASSUME NEW i \in Indices, ChunkRemove(i)
      PROVE  Bounded'
  BY <1>0, <1>3 DEF ChunkRemove, Bounded
<1>4. CASE ChunkClear
  BY <1>0, <1>4 DEF ChunkClear, Bounded
<1>5. CASE ChunkFree
  BY <1>5, ChunkAssumption DEF ChunkFree, Bounded
<1>6. CASE UNCHANGED chunkVars
  BY <1>6 DEF chunkVars, Bounded
<1>7. CASE ChunkFails
  BY <1>7, FailingKeepsAll DEF Bounded
<1> QED  BY <1>1, <1>2, <1>3, <1>4, <1>5, <1>6, <1>7 DEF ChunkNext, ChunkFails

\* Places the array may use are handles of the pool.
LEMMA IndicesAreHandles ==
  ASSUME chunks \in Seq(ChunkRec), Bounded
  PROVE  Indices \subseteq (1..MaxChunks) \X Slots
<1>1. DOMAIN chunks = 1..Len(chunks) /\ Len(chunks) \in Nat
  BY LenProperties
<1> QED  BY <1>1, ChunkAssumption DEF Indices, Bounded

\* add_element adds one item, at a handle that was free.
LEMMA PoolAdds ==
  ASSUME IInv, Bounded, Bounded', IInv', NEW v \in Values, ChunkAdd(v)
  PROVE  Pool!Add(v)
<1>1. \E h \in ((1..MaxChunks) \X Slots) \ ElementsOf(chunks) :
        /\ done' = [op |-> "add", at |-> h]
        /\ PoolItems(chunks') = WithItem(PoolItems(chunks), h, v)
  <2>0. chunks \in Seq(ChunkRec)
    BY DEF IInv, PoolSound
  <2>1. CASE nonfull # <<>> /\ UseSlot(chunks, nonfull, v)
    <3>1. PICK h \in ((DOMAIN chunks) \X Slots) \ ElementsOf(chunks) :
            /\ done' = [op |-> "add", at |-> h]
            /\ PoolItems(chunks') = WithItem(PoolItems(chunks), h, v)
      <4>1. PoolSound(chunks, nonfull, size)
        BY DEF IInv
      <4> QED  BY <2>1, <4>1, ItemAdded
    <3>2. h \in (1..MaxChunks) \X Slots
      BY <2>0, <3>1, IndicesAreHandles DEF Indices
    <3> QED  BY <3>1, <3>2
  <2>2. CASE /\ nonfull = <<>> /\ Len(chunks) < MaxChunks
             /\ UseSlot(Append(chunks, NewChunk), <<Len(chunks) + 1>>, v)
    <3> DEFINE ds == Append(chunks, NewChunk)
               list == <<Len(chunks) + 1>>
    <3>1. PoolSound(ds, list, size) /\ list # <<>> /\ UseSlot(ds, list, v)
      BY <2>2, NewChunkSound DEF IInv
    <3>2. \E h \in ((DOMAIN ds) \X Slots) \ ElementsOf(ds) :
            /\ done' = [op |-> "add", at |-> h]
            /\ PoolItems(chunks') = WithItem(PoolItems(ds), h, v)
      <4> HIDE DEF ds, list
      <4> QED  BY <3>1, ItemAdded
    <3>3. PoolItems(ds) = PoolItems(chunks)
      BY <2>0, NewChunkHoldsNone
    <3>4. ElementsOf(ds) = ElementsOf(chunks)
      BY <3>3 DEF PoolItems
    <3>5. DOMAIN ds \subseteq 1..MaxChunks
      BY <2>0, <2>2, LenProperties, ChunkAssumption
    <3> HIDE DEF ds
    <3> QED  BY <3>2, <3>3, <3>4, <3>5
  <2> QED  BY <2>1, <2>2 DEF ChunkAdd
<1>2. Mapping'
  BY Mapping, PTL
<1> QED  BY <1>1, <1>2, Mapping DEF Pool!Add, Pool!Done, WithItem, PoolItems

\* A write through at() changes the item there.
LEMMA AssignRefines ==
  ASSUME IInv, Bounded, NEW v \in Values, NEW i \in Indices, ChunkAssign(i, v)
  PROVE  Pool!Assign(i, v)
<1>1. chunks \in Seq(ChunkRec) /\ i \in ElementsOf(chunks) /\ i[1] \in DOMAIN chunks
  BY DEF IInv, PoolSound, ChunkAssign, InUse, Indices, ElementsOf
<1>2. chunks[i[1]] \in ChunkRec
  BY <1>1
<1> DEFINE new == [chunks[i[1]] EXCEPT !.data[i[2]] = v]
<1>3. /\ new.used = chunks[i[1]].used
      /\ new.data = [chunks[i[1]].data EXCEPT ![i[2]] = v]
  BY <1>2 DEF ChunkRec
<1>4. chunks' = [chunks EXCEPT ![i[1]] = new] /\ done' = [op |-> "assign", at |-> i]
  BY DEF ChunkAssign, Done
<1> HIDE DEF new
<1>5. /\ DOMAIN chunks' = DOMAIN chunks /\ chunks'[i[1]] = new
      /\ \A d \in (DOMAIN chunks) \ {i[1]} : chunks'[d] = chunks[d]
  BY <1>1, <1>4
<1>6. ElementsOf(chunks') = ElementsOf(chunks)
  BY <1>3, <1>5 DEF ElementsOf
<1>7. i[2] \in DOMAIN chunks[i[1]].data
  BY <1>1, <1>2 DEF ElementsOf, ChunkRec
<1>8. ASSUME NEW j \in ElementsOf(chunks)
      PROVE  chunks'[j[1]].data[j[2]] = IF j = i THEN v ELSE chunks[j[1]].data[j[2]]
  <2>1. j = <<j[1], j[2]>> /\ i = <<i[1], i[2]>> /\ j[1] \in DOMAIN chunks /\ j[2] \in Slots
    BY <1>1 DEF ElementsOf
  <2>2. CASE j[1] # i[1]
    BY <1>5, <2>1, <2>2
  <2>3. CASE j[1] = i[1] /\ j[2] # i[2]
    BY <1>2, <1>3, <1>5, <2>1, <2>3 DEF ChunkRec
  <2>4. CASE j[1] = i[1] /\ j[2] = i[2]
    BY <1>3, <1>5, <1>7, <2>1, <2>4
  <2> QED  BY <2>2, <2>3, <2>4
<1>9. PoolItems(chunks') = [PoolItems(chunks) EXCEPT ![i] = v]
  BY <1>1, <1>6, <1>8 DEF PoolItems
<1>10. DOMAIN PoolItems(chunks) = ElementsOf(chunks)
  BY DEF PoolItems
<1>11. Mapping'
  BY Mapping, PTL
<1> QED  BY <1>1, <1>4, <1>9, <1>10, <1>11, Mapping DEF Pool!Assign, Pool!Done

\* remove_element takes its item away and leaves the others.
LEMMA PoolRemoves ==
  ASSUME IInv, Bounded, NEW i \in Indices, ChunkRemove(i)
  PROVE  Pool!Remove(i)
<1>1. chunks \in Seq(ChunkRec) /\ i \in ElementsOf(chunks) /\ i[1] \in DOMAIN chunks
  BY DEF IInv, PoolSound, ChunkRemove, InUse, Indices, ElementsOf
<1> DEFINE new == Flagged(chunks[i[1]], chunks[i[1]].used \ {i[2]}, chunks[i[1]].count - 1)
<1>2. new.used = chunks[i[1]].used \ {i[2]} /\ new.data = chunks[i[1]].data
  BY DEF Flagged
<1>3. chunks' = [chunks EXCEPT ![i[1]] = new] /\ done' = [op |-> "remove", at |-> i]
  BY DEF ChunkRemove, Done
<1> HIDE DEF new
<1>4. /\ DOMAIN chunks' = DOMAIN chunks /\ chunks'[i[1]] = new
      /\ \A d \in (DOMAIN chunks) \ {i[1]} : chunks'[d] = chunks[d]
  BY <1>1, <1>3
<1>5. ElementsOf(chunks') = ElementsOf(chunks) \ {i}
  <2>1. ASSUME NEW j \in (DOMAIN chunks) \X Slots
        PROVE  j \in ElementsOf(chunks') <=> j \in ElementsOf(chunks) /\ j # i
    <3>1. j = <<j[1], j[2]>> /\ i = <<i[1], i[2]>> /\ j[1] \in DOMAIN chunks
      BY <1>1 DEF ElementsOf
    <3>2. CASE j[1] = i[1]
      BY <1>2, <1>4, <3>1, <3>2 DEF ElementsOf
    <3>3. CASE j[1] # i[1]
      BY <1>4, <3>1, <3>3 DEF ElementsOf
    <3> QED  BY <3>2, <3>3
  <2>2. /\ ElementsOf(chunks') \subseteq (DOMAIN chunks) \X Slots
        /\ ElementsOf(chunks) \subseteq (DOMAIN chunks) \X Slots
    BY <1>4 DEF ElementsOf
  <2> QED  BY <2>1, <2>2
<1>6. ASSUME NEW j \in ElementsOf(chunks)
      PROVE  chunks'[j[1]].data = chunks[j[1]].data
  BY <1>2, <1>4 DEF ElementsOf
<1>7. PoolItems(chunks') = [j \in ElementsOf(chunks) \ {i} |-> PoolItems(chunks)[j]]
  BY <1>5, <1>6 DEF PoolItems
<1>8. DOMAIN PoolItems(chunks) = ElementsOf(chunks)
  BY DEF PoolItems
<1>9. Mapping'
  BY Mapping, PTL
<1> QED  BY <1>1, <1>3, <1>7, <1>8, <1>9, Mapping DEF Pool!Remove, Pool!Done, Pool!Restrict

\* Chunks without a slot in use hold nothing.
LEMMA NoneHeld ==
  ASSUME NEW cs, \A c \in DOMAIN cs : cs[c].used = {}
  PROVE  PoolItems(cs) = <<>>
<1>1. ElementsOf(cs) = {}
  BY DEF ElementsOf
<1>2. PoolItems(cs) = [i \in {} |-> cs[i[1]].data[i[2]]]
  BY <1>1 DEF PoolItems
<1> QED  BY <1>2

\* clear and free take every item away.
LEMMA ClearRefines ==
  ASSUME IInv, ChunkClear \/ ChunkFree
  PROVE  Pool!Clear
<1>1. \A c \in DOMAIN chunks' : chunks'[c].used = {}
  <2>1. CASE ChunkClear
    BY <2>1 DEF ChunkClear, Flagged
  <2>2. CASE ChunkFree
    BY <2>2 DEF ChunkFree
  <2> QED  BY <2>1, <2>2
<1>2. done' = [op |-> "clear", at |-> Nowhere]
  BY DEF ChunkClear, ChunkFree, Done
<1>3. PoolItems(chunks') = <<>>
  BY <1>1, NoneHeld
<1>4. Mapping'
  BY Mapping, PTL
<1> QED  BY <1>2, <1>3, <1>4 DEF Pool!Clear, Pool!Done, Pool!Empty

\* An element stays at the index add_element gave it, with its value, through the
\* additions, removals and writes of others ("doesn't move memory", chunk_array.hpp):
\* for every chunk size, number of chunks and set of values.
THEOREM ElementsAlwaysStayPut == ChunkSpec => ElementsStayPut
<1>1. ChunkInit => IInv /\ Bounded /\ Pool!Init
  <2> SUFFICES ASSUME ChunkInit
               PROVE  Bounded /\ Pool!Init
    BY InitIInv
  <2>1. PoolItems(chunks) = <<>> /\ done = [op |-> "init", at |-> Nowhere]
    BY NoneHeld DEF ChunkInit
  <2> QED
    BY <2>1, Mapping, ChunkAssumption DEF ChunkInit, Bounded, Pool!Init, Pool!Empty
<1>2. IInv /\ Bounded /\ [ChunkNext]_chunkVars => IInv' /\ Bounded'
  BY NextKeepsIInv, BoundedKept
<1>3. ASSUME IInv, Bounded, IInv', Bounded', [ChunkNext]_chunkVars
      PROVE  [Pool!Next]_(Pool!vars)
  <2>1. Indices \subseteq (1..MaxChunks) \X Slots
    BY <1>3, IndicesAreHandles DEF IInv, PoolSound
  <2>2. ASSUME NEW v \in Values, ChunkAdd(v)
        PROVE  Pool!Next
    BY <1>3, <2>2, PoolAdds DEF Pool!Next
  <2>3. ASSUME NEW v \in Values, NEW i \in Indices, ChunkAssign(i, v)
        PROVE  Pool!Next
    BY <1>3, <2>1, <2>3, AssignRefines DEF Pool!Next
  <2>4. ASSUME NEW i \in Indices, ChunkRemove(i)
        PROVE  Pool!Next
    BY <1>3, <2>1, <2>4, PoolRemoves DEF Pool!Next
  <2>5. CASE ChunkClear \/ ChunkFree
    BY <1>3, <2>5, ClearRefines DEF Pool!Next
  <2>6. CASE UNCHANGED chunkVars
    BY <2>6 DEF chunkVars, Pool!vars, Elements, Indices, InUse
  <2>7. CASE ChunkFails
    BY <2>7, FailingKeepsAll DEF Pool!vars, Elements, Indices, InUse
  <2> QED  BY <1>3, <2>2, <2>3, <2>4, <2>5, <2>6, <2>7 DEF ChunkNext, ChunkFails
<1> QED  BY <1>1, <1>2, <1>3, PTL DEF ChunkSpec, ElementsStayPut, Pool!Spec

(***************************************************************************)
(* Probing                                                                 *)
(***************************************************************************)

\* The sum of the first k increments of _advance_table_it.
Triangle(k) == (k * (k + 1)) \div 2

LEMMA Triangles ==
  ASSUME NEW k \in Nat
  PROVE  Triangle(k) \in Nat /\ 2 * Triangle(k) = k * (k + 1)
<1>1. ASSUME NEW m \in Nat, NEW x \in Nat, x = 2 * m PROVE x \div 2 = m
  <2>1. x = 2 * (x \div 2) + (x % 2) /\ x % 2 \in 0..1 /\ x \div 2 \in Int
    OBVIOUS
  <2> QED  BY <1>1, <2>1
<1>2. PICK q \in Int : k = 2 * q \/ k = 2 * q + 1
  <2>1. (k % 2 = 0 /\ \E q \in Int : k = 2 * q) \/ (k % 2 = 1 /\ \E q \in Int : k = 2 * q + 1)
    BY EvenOrOdd
  <2> QED  BY <2>1
<1>3. \E m \in Nat : k * (k + 1) = 2 * m
  <2>1. CASE k = 2 * q
    <3>1. k * (k + 1) = 2 * (q * (k + 1)) /\ q \in Nat
      BY <2>1
    <3>2. q * (k + 1) \in Nat
      BY <3>1
    <3> QED  BY <3>1, <3>2
  <2>2. CASE k = 2 * q + 1
    <3>1. k + 1 = 2 * (q + 1) /\ q + 1 \in Nat
      BY <2>2
    <3>2. k * (k + 1) = 2 * (k * (q + 1)) /\ k * (q + 1) \in Nat
      BY <3>1
    <3> QED  BY <3>2
  <2> QED  BY <1>2, <2>1, <2>2
<1>4. PICK m \in Nat : k * (k + 1) = 2 * m
  BY <1>3
<1>5. PICK x \in Nat : x = k * (k + 1)
  BY <1>4
<1>6. x \div 2 = m
  BY <1>1, <1>4, <1>5
<1>7. Triangle(k) = x \div 2
  BY <1>5 DEF Triangle
<1> QED  BY <1>4, <1>6, <1>7

LEMMA ProbeIsSlot ==
  ASSUME NEW n \in Nat \ {0}, NEW h \in Nat, NEW k \in Nat
  PROVE  Probe(n, h, k) \in 0..(n - 1) /\ Probe(n, h, k) = (h + Triangle(k)) % n
<1>1. PICK t \in Nat : t = Triangle(k)
  BY Triangles
<1>2. (h + t) % n \in 0..(n - 1)
  OBVIOUS
<1>3. Probe(n, h, k) = (h + t) % n
  BY <1>1 DEF Probe, Triangle
<1> QED  BY <1>1, <1>2, <1>3

\* A multiple of n that is less than n is none.
LEMMA NoSmallMultiple ==
  ASSUME NEW n \in Nat \ {0}, NEW a \in Nat, a % n = 0, a < n
  PROVE  a = 0
<1>1. PICK q \in Int : a = n * q
  BY DividesIs
<1>2. q >= 1 => n * q >= n
  OBVIOUS
<1>3. q <= 0 => n * q <= 0
  OBVIOUS
<1> QED  BY <1>1, <1>2, <1>3

LEMMA ProbesDiffer ==
  ASSUME NEW n \in Nat, PowerOfTwo(n), NEW h \in Nat,
         NEW k \in 0..(n - 1), NEW j \in 0..(n - 1), j < k
  PROVE  Probe(n, h, j) # Probe(n, h, k)
<1> SUFFICES ASSUME Probe(n, h, j) = Probe(n, h, k) PROVE FALSE
  OBVIOUS
<1>0. n \in Nat \ {0} /\ j \in Nat /\ k \in Nat
  BY DEF PowerOfTwo
<1>1. PICK s \in Nat, t \in Nat : s = Triangle(j) /\ t = Triangle(k)
  BY <1>0, Triangles
<1>2. 2 * s = j * (j + 1) /\ 2 * t = k * (k + 1)
  BY <1>0, <1>1, Triangles
<1>3. (h + t) % n = (h + s) % n
  BY <1>0, <1>1, ProbeIsSlot
<1>4. PICK q \in Int : t - s = n * q
  <2>1. h + t \in Int /\ h + s \in Int
    OBVIOUS
  <2>2. \E q \in Int : (h + t) - (h + s) = n * q
    BY <1>0, <1>3, <2>1, SameRemainder
  <2> QED  BY <2>2
<1> DEFINE a == k - j
           b == k + j + 1
<1>5. a \in Nat /\ b \in Nat /\ 0 < a /\ a < 2 * n /\ 0 < b /\ b < 2 * n
  BY <1>0
<1>6. a * b = (2 * n) * q
  <2>1. a * b = k * (k + 1) - j * (j + 1)
    BY <1>0
  <2>2. 2 * t - 2 * s = 2 * (n * q)
    BY <1>4
  <2>3. 2 * (n * q) = (2 * n) * q
    OBVIOUS
  <2> QED  BY <1>2, <2>1, <2>2, <2>3
<1>7. a + b = 2 * k + 1
  BY <1>0
<1> HIDE DEF a, b
<1>8. (a * b) % (2 * n) = 0 /\ 2 * n \in Nat \ {0} /\ PowerOfTwo(2 * n)
  <2>1. 2 * n \in Nat \ {0} /\ a * b \in Int
    BY <1>0, <1>5
  <2> QED  BY <1>6, <2>1, DividesIs, PowersDouble
<1>9. CASE a % 2 = 1
  <2>1. b % (2 * n) = 0
    BY <1>5, <1>8, <1>9, OddFactorOut
  <2> QED  BY <1>5, <1>8, <2>1, NoSmallMultiple
<1>10. CASE b % 2 = 1
  <2>1. (b * a) % (2 * n) = 0
    <3>1. a * b = b * a
      BY <1>5
    <3> QED  BY <1>8, <3>1
  <2>2. a % (2 * n) = 0
    BY <1>5, <1>8, <1>10, <2>1, OddFactorOut
  <2> QED  BY <1>5, <1>8, <2>2, NoSmallMultiple
<1>11. a % 2 = 1 \/ b % 2 = 1
  <2>1. (a % 2 = 0 /\ \E c \in Int : a = 2 * c) \/ a % 2 = 1
    BY <1>5, EvenOrOdd
  <2>2. (b % 2 = 0 /\ \E c \in Int : b = 2 * c) \/ b % 2 = 1
    BY <1>5, EvenOrOdd
  <2> QED  BY <1>0, <1>7, <2>1, <2>2
<1> QED  BY <1>9, <1>10, <1>11

\* The probe visits every slot within as many steps as there are slots.
LEMMA ProbeVisitsAll ==
  ASSUME NEW n \in Nat, PowerOfTwo(n), NEW h \in Nat, NEW i \in 0..(n - 1)
  PROVE  \E k \in 0..(n - 1) : Probe(n, h, k) = i
<1> DEFINE f == [k \in 0..(n - 1) |-> Probe(n, h, k)]
<1>0. n \in Nat \ {0}
  BY DEF PowerOfTwo
<1>1. ASSUME NEW k \in 0..(n - 1) PROVE Probe(n, h, k) \in 0..(n - 1)
  <2>1. k \in Nat
    OBVIOUS
  <2> QED  BY <1>0, <2>1, ProbeIsSlot
<1>2. \A j, k \in 0..(n - 1) : f[j] = f[k] => j = k
  <2> SUFFICES ASSUME NEW j \in 0..(n - 1), NEW k \in 0..(n - 1), f[j] = f[k], j # k PROVE FALSE
    OBVIOUS
  <2>1. j < k \/ k < j
    BY <1>0
  <2>2. Probe(n, h, j) = Probe(n, h, k)
    OBVIOUS
  <2> HIDE DEF f
  <2>3. CASE j < k
    BY <2>2, <2>3, ProbesDiffer
  <2>4. CASE k < j
    BY <2>2, <2>4, ProbesDiffer
  <2> QED  BY <2>1, <2>3, <2>4
<1>3. f \in Injection(0..(n - 1), 0..(n - 1))
  BY <1>1, <1>2 DEF Injection, IsInjective
<1>4. IsFiniteSet(0..(n - 1))
  BY <1>0, FS_Interval
<1> HIDE DEF f
<1>5. f \in Surjection(0..(n - 1), 0..(n - 1))
  BY <1>3, <1>4, FS_Injection
<1>6. PICK k \in 0..(n - 1) : f[k] = i
  BY <1>5 DEF Surjection
<1> QED  BY <1>6 DEF f

LEMMA ProbeIsOnto ==
  ASSUME NEW n \in Nat, PowerOfTwo(n), NEW S, S = 0..(n - 1), NEW h \in S
  PROVE  {Probe(n, h, k) : k \in S} = S
<1> DEFINE P == {Probe(n, h, k) : k \in S}
<1>1. n \in Nat \ {0} /\ h \in Nat /\ S \subseteq Nat
  BY DEF PowerOfTwo
<1>2. P \subseteq S
  BY <1>1, ProbeIsSlot
<1>3. ASSUME NEW i \in S PROVE i \in P
  <2>1. PICK k \in 0..(n - 1) : Probe(n, h, k) = i
    BY <1>1, ProbeVisitsAll
  <2> QED  BY <2>1
<1> HIDE DEF P
<1>4. P = S
  BY <1>2, <1>3
<1> QED  BY <1>4 DEF P

(***************************************************************************)
(* Tables                                                                  *)
(***************************************************************************)

Slot == Entries \cup {Unused, Tombstone}

\* A table that holds memory.
IsTable(d) ==
  /\ Capacity(d) \in Nat /\ PowerOfTwo(Capacity(d))
  /\ d \in [0..(Capacity(d) - 1) -> Slot]

\* EntriesReachable, of any table.
Chained(d) ==
  \A i \in LiveSlots(d) : \E k \in 0..(2 * Capacity(d) - 1) :
    /\ Probe(Capacity(d), d[i].hash, k) = i
    /\ \A j \in 0..(k - 1) : d[Probe(Capacity(d), d[i].hash, j)] # Unused

LEMMA LiftedIs ==
  ASSUME NEW k \in Keys
  PROVE  Lifted(k) \in Nat /\ Lifted(k) >= FirstHash
BY HashTableAssumption DEF Lifted, FirstHash

LEMMA EntryIs ==
  ASSUME NEW k \in Keys, NEW v \in TableValues
  PROVE  /\ Entry(k, v) \in Entries /\ Live(Entry(k, v)) /\ Entry(k, v) # Unused
         /\ Entry(k, v).key = k /\ Entry(k, v).value = v /\ Entry(k, v).hash = Lifted(k)
<1>1. Lifted(k) \in Nat /\ Lifted(k) >= FirstHash
  BY LiftedIs
<1> QED  BY <1>1 DEF Entry, Entries, Live, Unused, FirstHash

LEMMA SlotIs ==
  ASSUME NEW e \in Slot
  PROVE  /\ Live(e) => /\ e.key \in Keys /\ e.value \in TableValues /\ e.hash = Lifted(e.key)
                       /\ e \in Entries /\ e = Entry(e.key, e.value) /\ e.hash \in Nat
                       /\ e.hash >= FirstHash /\ e # Unused
         /\ ~Live(e) => e = Unused \/ e = Tombstone
         /\ ~Live(Unused) /\ ~Live(Tombstone) /\ Unused # Tombstone
<1>1. ASSUME e \in Entries
      PROVE  Live(e) /\ e.key \in Keys /\ e.value \in TableValues /\ e.hash = Lifted(e.key)
             /\ e = Entry(e.key, e.value) /\ e.hash \in Nat /\ e.hash >= FirstHash /\ e # Unused
  <2>1. PICK k \in Keys, v \in TableValues : e = Entry(k, v)
    BY <1>1 DEF Entries
  <2> QED  BY <2>1, EntryIs, LiftedIs
<1>2. ~Live(Unused) /\ ~Live(Tombstone) /\ Unused # Tombstone
  BY DEF Live, Unused, Tombstone, FirstHash
<1> QED  BY <1>1, <1>2 DEF Slot

LEMMA CapacityIs ==
  ASSUME NEW n \in Nat, NEW d, DOMAIN d = 0..(n - 1)
  PROVE  Capacity(d) = n
<1>1. Cardinality(0..(n - 1)) = n
  BY FS_Interval
<1> QED  BY <1>1 DEF Capacity, SlotsOf

LEMMA TableHas ==
  ASSUME NEW d, IsTable(d)
  PROVE  /\ Capacity(d) \in Nat \ {0} /\ PowerOfTwo(Capacity(d))
         /\ DOMAIN d = 0..(Capacity(d) - 1) /\ SlotsOf(d) = 0..(Capacity(d) - 1)
         /\ \A i \in SlotsOf(d) : d[i] \in Slot
         /\ IsFiniteSet(SlotsOf(d)) /\ IsFiniteSet(LiveSlots(d)) /\ LiveSlots(d) \subseteq SlotsOf(d)
         /\ Cardinality(LiveSlots(d)) \in Nat
         /\ d # <<>>
<1>1. Capacity(d) \in Nat \ {0}
  BY DEF IsTable, PowerOfTwo
<1>2. DOMAIN d = 0..(Capacity(d) - 1) /\ \A i \in DOMAIN d : d[i] \in Slot
  BY DEF IsTable
<1>3. IsFiniteSet(0..(Capacity(d) - 1))
  BY <1>1, FS_Interval
<1>4. LiveSlots(d) \in SUBSET (0..(Capacity(d) - 1))
  BY <1>2 DEF LiveSlots, SlotsOf
<1>5. IsFiniteSet(LiveSlots(d))
  BY <1>3, <1>4, FS_Subset
<1>6. Cardinality(LiveSlots(d)) \in Nat
  BY <1>5, FS_CardinalityType
<1>7. 0 \in DOMAIN d
  BY <1>1, <1>2
<1> QED  BY <1>1, <1>2, <1>3, <1>4, <1>5, <1>6, <1>7 DEF SlotsOf, IsTable

LEMMA BlankIs ==
  ASSUME NEW n \in Nat, PowerOfTwo(n)
  PROVE  /\ IsTable(Blank(n)) /\ Capacity(Blank(n)) = n /\ Chained(Blank(n))
         /\ LiveSlots(Blank(n)) = {} /\ \A i \in 0..(n - 1) : Blank(n)[i] = Unused
<1>1. DOMAIN Blank(n) = 0..(n - 1) /\ \A i \in 0..(n - 1) : Blank(n)[i] = Unused
  BY DEF Blank
<1>2. Capacity(Blank(n)) = n
  BY <1>1, CapacityIs
<1>3. Blank(n) \in [0..(n - 1) -> Slot]
  BY DEF Blank, Slot
<1>4. LiveSlots(Blank(n)) = {}
  BY <1>1 DEF LiveSlots, SlotsOf, Live, Unused, FirstHash
<1> QED  BY <1>1, <1>2, <1>3, <1>4 DEF IsTable, Chained

Store(d, i, e) == [d EXCEPT ![i] = e]

\* What is put into a slot leaves a table.
LEMMA StoreIs ==
  ASSUME NEW d, IsTable(d), NEW i \in SlotsOf(d), NEW e \in Slot, NEW c, c = Store(d, i, e)
  PROVE  /\ IsTable(c) /\ Capacity(c) = Capacity(d) /\ SlotsOf(c) = SlotsOf(d)
         /\ c[i] = e /\ \A j \in SlotsOf(d) \ {i} : c[j] = d[j]
         /\ LiveSlots(c) = IF Live(e) THEN LiveSlots(d) \cup {i} ELSE LiveSlots(d) \ {i}
<1>1. DOMAIN d = 0..(Capacity(d) - 1) /\ SlotsOf(d) = DOMAIN d /\ Capacity(d) \in Nat
      /\ PowerOfTwo(Capacity(d)) /\ \A j \in DOMAIN d : d[j] \in Slot
  BY TableHas
<1>2. DOMAIN c = DOMAIN d /\ c[i] = e /\ \A j \in DOMAIN d \ {i} : c[j] = d[j]
  BY <1>1 DEF Store
<1>3. c \in [0..(Capacity(d) - 1) -> Slot]
  BY <1>1, <1>2 DEF IsTable, Store
<1>4. Capacity(c) = Capacity(d)
  BY <1>1, <1>2, CapacityIs
<1>5. IsTable(c)
  BY <1>1, <1>3, <1>4 DEF IsTable
<1>6. LiveSlots(c) = IF Live(e) THEN LiveSlots(d) \cup {i} ELSE LiveSlots(d) \ {i}
  BY <1>1, <1>2 DEF LiveSlots, SlotsOf
<1>7. SlotsOf(c) = SlotsOf(d)
  BY <1>1, <1>2 DEF SlotsOf
<1> QED  BY <1>1, <1>2, <1>4, <1>5, <1>6, <1>7

(***************************************************************************)
(* The loops over a probe                                                  *)
(***************************************************************************)

\* The steps of a probe at which a loop that ends at the entries of S may be left, and
\* the slot it is left at: LeftAt, of a set instead of a condition.
Stops(d, h, S) == {k \in 0..(2 * Capacity(d) - 1) : d[Probe(Capacity(d), h, k)] \in S}
LeftWith(d, h, S) ==
  IF Stops(d, h, S) = {} THEN {} ELSE {Probe(Capacity(d), h, Min(Stops(d, h, S)))}

\* The k-th step is the first that meets an entry of S.
FirstMeets(d, h, S, k) ==
  /\ k \in 0..(2 * Capacity(d) - 1)
  /\ Probe(Capacity(d), h, k) \in SlotsOf(d)
  /\ d[Probe(Capacity(d), h, k)] \in S
  /\ \A j \in 0..(k - 1) : d[Probe(Capacity(d), h, j)] \notin S

LEMMA LeftIs ==
  ASSUME NEW d, IsTable(d), NEW h \in Nat, NEW S
  PROVE  \/ LeftWith(d, h, S) = {} /\ \A k \in 0..(2 * Capacity(d) - 1) : d[Probe(Capacity(d), h, k)] \notin S
         \/ \E k \in Nat : FirstMeets(d, h, S, k) /\ LeftWith(d, h, S) = {Probe(Capacity(d), h, k)}
<1> DEFINE T == Stops(d, h, S)
<1>1. Capacity(d) \in Nat \ {0} /\ SlotsOf(d) = 0..(Capacity(d) - 1)
  BY TableHas
<1>2. CASE T = {}
  BY <1>2 DEF LeftWith, Stops
<1>3. CASE T # {}
  <2>1. T \in SUBSET Nat
    BY <1>1 DEF Stops
  <2>2. PICK s \in T : \A t \in T : s <= t
    BY <1>3, <2>1, LeastExists
  <2>3. PICK m : m = Min(T)
    OBVIOUS
  <2>4. m \in T /\ \A t \in T : m <= t
    <3> HIDE DEF T
    <3> QED  BY <2>2, <2>3 DEF Min
  <2>5. m \in Nat /\ m \in 0..(2 * Capacity(d) - 1) /\ d[Probe(Capacity(d), h, m)] \in S
    BY <2>1, <2>4 DEF Stops
  <2>6. Probe(Capacity(d), h, m) \in SlotsOf(d)
    BY <1>1, <2>5, ProbeIsSlot
  <2>7. ASSUME NEW j \in 0..(m - 1) PROVE d[Probe(Capacity(d), h, j)] \notin S
    <3>1. j \in 0..(2 * Capacity(d) - 1) /\ ~(m <= j)
      BY <1>1, <2>5
    <3>2. j \notin T
      BY <2>4, <3>1
    <3> QED  BY <3>1, <3>2 DEF Stops
  <2>8. LeftWith(d, h, S) = {Probe(Capacity(d), h, m)}
    BY <1>3, <2>3 DEF LeftWith
  <2>9. FirstMeets(d, h, S, m)
    BY <2>5, <2>6, <2>7 DEF FirstMeets
  <2> QED  BY <2>5, <2>8, <2>9
<1> QED  BY <1>2, <1>3

\* The entries at which a search for a key, and a removal by hash, end.
KeyOrUnused(key)  == {e \in Slot : e = Unused \/ ByKey(key, e)}
HashOrUnused(key) == {e \in Slot : e = Unused \/ ByHash(key, e)}

LEMMA LoopsAre ==
  ASSUME NEW d, IsTable(d), NEW k \in Keys
  PROVE  /\ KeyAt(d, k) = LeftWith(d, Lifted(k), KeyOrUnused(k))
         /\ HashAt(d, k) = LeftWith(d, Lifted(k), HashOrUnused(k))
<1>1. ASSUME NEW h \in Nat, NEW m \in 0..(2 * Capacity(d) - 1)
      PROVE  d[Probe(Capacity(d), h, m)] \in Slot
  <2>1. Capacity(d) \in Nat \ {0} /\ SlotsOf(d) = 0..(Capacity(d) - 1) /\ m \in Nat
        /\ \A i \in SlotsOf(d) : d[i] \in Slot
    BY TableHas
  <2> QED  BY <2>1, ProbeIsSlot
<1>3. KeyAt(d, k) = LeftWith(d, Lifted(k), KeyOrUnused(k))
  <2>1. {m \in 0..(2 * Capacity(d) - 1) :
           d[Probe(Capacity(d), Lifted(k), m)] = Unused \/ ByKey(k, d[Probe(Capacity(d), Lifted(k), m)])}
          = Stops(d, Lifted(k), KeyOrUnused(k))
    BY <1>1, LiftedIs DEF Stops, KeyOrUnused
  <2> QED  BY <2>1 DEF KeyAt, LeftAt, LeftWith
<1>4. HashAt(d, k) = LeftWith(d, Lifted(k), HashOrUnused(k))
  <2>1. {m \in 0..(2 * Capacity(d) - 1) :
           d[Probe(Capacity(d), Lifted(k), m)] = Unused \/ ByHash(k, d[Probe(Capacity(d), Lifted(k), m)])}
          = Stops(d, Lifted(k), HashOrUnused(k))
    BY <1>1, LiftedIs DEF Stops, HashOrUnused
  <2> QED  BY <2>1 DEF HashAt, LeftAt, LeftWith
<1> QED  BY <1>3, <1>4

\* No probe starts in a table without memory.
LEMMA NothingLeft ==
  ASSUME NEW k
  PROVE  KeyAt(<<>>, k) = {} /\ HashAt(<<>>, k) = {}
<1>1. Capacity(<<>>) = 0
  BY FS_EmptySet DEF Capacity, SlotsOf
<1>2. 0..(2 * Capacity(<<>>) - 1) = {}
  BY <1>1
<1> QED  BY <1>2 DEF KeyAt, HashAt, LeftAt

LEMMA RoomIs ==
  ASSUME NEW d, IsTable(d), NEW h \in Nat
  PROVE  RoomAt(d, h) = LeftWith(d, h, {Unused})
<1>1. {m \in 0..(2 * Capacity(d) - 1) : d[Probe(Capacity(d), h, m)] = Unused \/ Never(d[Probe(Capacity(d), h, m)])}
        = Stops(d, h, {Unused})
  BY DEF Stops, Never
<1> QED  BY <1>1 DEF RoomAt, LeftAt, LeftWith

\* A loop that looks for an unused slot ends if there is one.
LEMMA FindsRoom ==
  ASSUME NEW d, IsTable(d), NEW h \in Nat, NEW i \in SlotsOf(d), d[i] = Unused
  PROVE  RoomAt(d, h) # {}
<1>1. Capacity(d) \in Nat \ {0} /\ PowerOfTwo(Capacity(d)) /\ i \in 0..(Capacity(d) - 1)
  BY TableHas
<1>2. PICK k \in 0..(Capacity(d) - 1) : Probe(Capacity(d), h, k) = i
  BY <1>1, ProbeVisitsAll
<1>3. k \in 0..(2 * Capacity(d) - 1) /\ d[Probe(Capacity(d), h, k)] \in {Unused}
  BY <1>1, <1>2
<1> QED  BY <1>3, LeftIs, RoomIs

\* A table with fewer live entries than slots, and no removed ones, has room.
LEMMA RoomLeft ==
  ASSUME NEW d, IsTable(d), Cardinality(LiveSlots(d)) < Capacity(d),
         \A i \in SlotsOf(d) : d[i] # Tombstone
  PROVE  \E i \in SlotsOf(d) : d[i] = Unused
<1> SUFFICES ASSUME \A i \in SlotsOf(d) : d[i] # Unused PROVE FALSE
  OBVIOUS
<1>1. \A i \in SlotsOf(d) : Live(d[i])
  BY TableHas, SlotIs
<1>2. LiveSlots(d) = SlotsOf(d)
  BY <1>1 DEF LiveSlots
<1> QED  BY <1>2, TableHas DEF Capacity

\* A new entry, at the slot its probe ends at: the chains are kept.
LEMMA AddKeeps ==
  ASSUME NEW d, IsTable(d), Chained(d), NEW k \in Keys, NEW v \in TableValues,
         NEW i \in RoomAt(d, Lifted(k))
  PROVE  /\ i \in SlotsOf(d) /\ d[i] = Unused /\ RoomAt(d, Lifted(k)) = {i}
         /\ Chained(Store(d, i, Entry(k, v)))
<1>1. Lifted(k) \in Nat /\ Entry(k, v) \in Slot
  BY LiftedIs, EntryIs DEF Slot
<1>2. PICK m \in Nat : FirstMeets(d, Lifted(k), {Unused}, m)
                       /\ LeftWith(d, Lifted(k), {Unused}) = {Probe(Capacity(d), Lifted(k), m)}
  <2>1. i \in LeftWith(d, Lifted(k), {Unused})
    BY <1>1, RoomIs
  <2> QED  BY <1>1, <2>1, LeftIs
<1>3. RoomAt(d, Lifted(k)) = {i} /\ i = Probe(Capacity(d), Lifted(k), m)
  BY <1>1, <1>2, RoomIs
<1>4. i \in SlotsOf(d) /\ d[i] = Unused
  BY <1>2, <1>3 DEF FirstMeets
<1>5. PICK c : c = Store(d, i, Entry(k, v))
  OBVIOUS
<1>6. /\ Capacity(c) = Capacity(d) /\ SlotsOf(c) = SlotsOf(d)
      /\ c[i] = Entry(k, v) /\ \A j \in SlotsOf(d) \ {i} : c[j] = d[j]
      /\ LiveSlots(c) = LiveSlots(d) \cup {i}
  BY <1>1, <1>4, <1>5, StoreIs, EntryIs
<1>7. Entry(k, v) # Unused /\ Entry(k, v).hash = Lifted(k) /\ ~Live(d[i])
  BY <1>4, EntryIs, SlotIs DEF Slot
<1>8. ASSUME NEW x \in LiveSlots(c)
      PROVE  \E s \in 0..(2 * Capacity(c) - 1) :
               /\ Probe(Capacity(c), c[x].hash, s) = x
               /\ \A j \in 0..(s - 1) : c[Probe(Capacity(c), c[x].hash, j)] # Unused
  <2>1. CASE x = i
    <3>1. m \in 0..(2 * Capacity(c) - 1) /\ Probe(Capacity(c), c[x].hash, m) = x
      BY <1>2, <1>3, <1>6, <1>7, <2>1 DEF FirstMeets
    <3>2. ASSUME NEW j \in 0..(m - 1) PROVE c[Probe(Capacity(c), c[x].hash, j)] # Unused
      <4>1. PICK y : y = Probe(Capacity(d), Lifted(k), j)
        OBVIOUS
      <4>2. d[y] # Unused /\ y \in SlotsOf(d)
        <5>1. j \in Nat
          BY <1>2
        <5> QED  BY <1>1, <1>2, <4>1, <5>1, TableHas, ProbeIsSlot DEF FirstMeets
      <4> QED  BY <1>4, <1>6, <1>7, <2>1, <4>1, <4>2
    <3> QED  BY <3>1, <3>2
  <2>2. CASE x # i
    <3>1. x \in LiveSlots(d) /\ x \in SlotsOf(d) /\ c[x] = d[x] /\ d[x].hash \in Nat
      <4>1. x \in LiveSlots(d) /\ x \in SlotsOf(d)
        BY <1>6, <2>2, TableHas
      <4>2. d[x] \in Slot /\ Live(d[x])
        BY <4>1, TableHas DEF LiveSlots
      <4> QED  BY <1>6, <2>2, <4>1, <4>2, SlotIs
    <3>2. PICK s \in 0..(2 * Capacity(d) - 1) :
            /\ Probe(Capacity(d), d[x].hash, s) = x
            /\ \A j \in 0..(s - 1) : d[Probe(Capacity(d), d[x].hash, j)] # Unused
      BY <3>1 DEF Chained
    <3>3. ASSUME NEW j \in 0..(s - 1) PROVE c[Probe(Capacity(d), d[x].hash, j)] # Unused
      <4>1. PICK y : y = Probe(Capacity(d), d[x].hash, j)
        OBVIOUS
      <4>2. d[y] # Unused /\ y \in SlotsOf(d)
        <5>1. j \in Nat
          BY <3>2, TableHas
        <5> QED  BY <3>1, <3>2, <4>1, <5>1, TableHas, ProbeIsSlot
      <4> QED  BY <1>4, <1>6, <4>1, <4>2
    <3> QED  BY <1>6, <3>1, <3>2, <3>3
  <2> QED  BY <2>1, <2>2
<1>9. Chained(c)
  BY <1>8 DEF Chained
<1> QED  BY <1>3, <1>4, <1>5, <1>9

\* An entry in use that is removed, or gets another value: the chains are kept.
LEMMA MarkKeeps ==
  ASSUME NEW d, IsTable(d), Chained(d), NEW i \in LiveSlots(d), NEW e \in Slot, e # Unused,
         Live(e) => e.hash = d[i].hash
  PROVE  Chained(Store(d, i, e))
<1>1. PICK c : c = Store(d, i, e)
  OBVIOUS
<1>2. i \in SlotsOf(d)
  BY TableHas
<1>3. /\ Capacity(c) = Capacity(d) /\ SlotsOf(c) = SlotsOf(d)
      /\ c[i] = e /\ \A j \in SlotsOf(d) \ {i} : c[j] = d[j]
      /\ LiveSlots(c) \subseteq LiveSlots(d) /\ (i \in LiveSlots(c) => Live(e))
  BY <1>1, <1>2, StoreIs
<1>4. ASSUME NEW x \in LiveSlots(c)
      PROVE  \E s \in 0..(2 * Capacity(c) - 1) :
               /\ Probe(Capacity(c), c[x].hash, s) = x
               /\ \A j \in 0..(s - 1) : c[Probe(Capacity(c), c[x].hash, j)] # Unused
  <2>1. x \in LiveSlots(d) /\ x \in SlotsOf(d) /\ c[x].hash = d[x].hash
    BY <1>3, TableHas
  <2>2. d[x].hash \in Nat
    <3>1. d[x] \in Slot /\ Live(d[x])
      BY <2>1, TableHas DEF LiveSlots
    <3> QED  BY <3>1, SlotIs
  <2>3. PICK s \in 0..(2 * Capacity(d) - 1) :
          /\ Probe(Capacity(d), d[x].hash, s) = x
          /\ \A j \in 0..(s - 1) : d[Probe(Capacity(d), d[x].hash, j)] # Unused
    BY <2>1 DEF Chained
  <2>4. ASSUME NEW j \in 0..(s - 1) PROVE c[Probe(Capacity(d), d[x].hash, j)] # Unused
    <3>1. PICK y : y = Probe(Capacity(d), d[x].hash, j)
      OBVIOUS
    <3>2. d[y] # Unused /\ y \in SlotsOf(d)
      <4>1. j \in Nat
        BY <2>3, TableHas
      <4> QED  BY <2>2, <2>3, <3>1, <4>1, TableHas, ProbeIsSlot
    <3> QED  BY <1>3, <3>1, <3>2
  <2> QED  BY <1>3, <2>1, <2>3, <2>4
<1>5. Chained(c)
  BY <1>4 DEF Chained
<1> QED  BY <1>1, <1>5

(***************************************************************************)
(* What a table holds                                                      *)
(***************************************************************************)

Pairs == Keys \X TableValues

\* The slots that hold the pair e, and how many there are of each pair.
Where(d, e) == {i \in SlotsOf(d) : Live(d[i]) /\ d[i].key = e[1] /\ d[i].value = e[2]}
Counts(d)   == [e \in Pairs |-> Cardinality(Where(d, e))]

LEMMA WhereIs ==
  ASSUME NEW d, IsTable(d), NEW e
  PROVE  IsFiniteSet(Where(d, e)) /\ Cardinality(Where(d, e)) \in Nat /\ Where(d, e) \subseteq LiveSlots(d)
<1>1. Where(d, e) \in SUBSET LiveSlots(d)
  BY DEF Where, LiveSlots
<1>2. IsFiniteSet(Where(d, e))
  BY <1>1, TableHas, FS_Subset
<1> QED  BY <1>1, <1>2, FS_CardinalityType

LEMMA AddedWhere ==
  ASSUME NEW d, IsTable(d), NEW i \in SlotsOf(d), ~Live(d[i]), NEW k \in Keys, NEW v \in TableValues,
         NEW c, c = Store(d, i, Entry(k, v))
  PROVE  /\ \A e \in Pairs : Where(c, e) = IF e = <<k, v>> THEN Where(d, e) \cup {i} ELSE Where(d, e)
         /\ \A e : i \notin Where(d, e)
<1>1. Live(Entry(k, v)) /\ Entry(k, v).key = k /\ Entry(k, v).value = v /\ Entry(k, v) \in Slot
  BY EntryIs DEF Slot
<1>2. SlotsOf(c) = SlotsOf(d) /\ c[i] = Entry(k, v) /\ \A j \in SlotsOf(d) \ {i} : c[j] = d[j]
  BY <1>1, StoreIs
<1>3. \A e \in Pairs : e = <<k, v>> <=> (e[1] = k /\ e[2] = v)
  BY DEF Pairs
<1> QED  BY <1>1, <1>2, <1>3 DEF Where

LEMMA RemovedWhere ==
  ASSUME NEW d, IsTable(d), NEW i \in LiveSlots(d), NEW c, c = Store(d, i, Tombstone)
  PROVE  \A e \in Pairs : Where(c, e) = IF e = <<d[i].key, d[i].value>> THEN Where(d, e) \ {i} ELSE Where(d, e)
<1>1. i \in SlotsOf(d) /\ Live(d[i]) /\ Tombstone \in Slot /\ ~Live(Tombstone)
  BY SlotIs DEF LiveSlots, Slot
<1>2. SlotsOf(c) = SlotsOf(d) /\ c[i] = Tombstone /\ \A j \in SlotsOf(d) \ {i} : c[j] = d[j]
  BY <1>1, StoreIs
<1>3. \A e \in Pairs : e = <<d[i].key, d[i].value>> <=> (e[1] = d[i].key /\ e[2] = d[i].value)
  BY DEF Pairs
<1> QED  BY <1>1, <1>2, <1>3 DEF Where

\* An entry more, an entry less.
LEMMA AddedCounts ==
  ASSUME NEW d, IsTable(d), NEW i \in SlotsOf(d), ~Live(d[i]), NEW k \in Keys, NEW v \in TableValues,
         NEW c, c = Store(d, i, Entry(k, v))
  PROVE  /\ Counts(c) = [Counts(d) EXCEPT ![<<k, v>>] = @ + 1]
         /\ Cardinality(LiveSlots(c)) = Cardinality(LiveSlots(d)) + 1
<1>1. Entry(k, v) \in Slot /\ Live(Entry(k, v))
  BY EntryIs DEF Slot
<1>2. LiveSlots(c) = LiveSlots(d) \cup {i} /\ i \notin LiveSlots(d)
  BY <1>1, StoreIs DEF LiveSlots
<1>3. Cardinality(LiveSlots(c)) = Cardinality(LiveSlots(d)) + 1
  BY <1>2, TableHas, FS_AddElement
<1>4. ASSUME NEW e \in Pairs
      PROVE  Cardinality(Where(c, e)) = IF e = <<k, v>> THEN Cardinality(Where(d, e)) + 1 ELSE Cardinality(Where(d, e))
  <2>1. IsFiniteSet(Where(d, e)) /\ i \notin Where(d, e)
    BY WhereIs, AddedWhere
  <2>2. Cardinality(Where(d, e) \cup {i}) = Cardinality(Where(d, e)) + 1
    BY <2>1, FS_AddElement
  <2> QED  BY <2>2, AddedWhere
<1> QED  BY <1>3, <1>4 DEF Counts

LEMMA RemovedCounts ==
  ASSUME NEW d, IsTable(d), NEW i \in LiveSlots(d), NEW c, c = Store(d, i, Tombstone)
  PROVE  /\ Counts(c) = [Counts(d) EXCEPT ![<<d[i].key, d[i].value>>] = @ - 1]
         /\ Cardinality(LiveSlots(c)) = Cardinality(LiveSlots(d)) - 1
         /\ <<d[i].key, d[i].value>> \in Pairs /\ Counts(d)[<<d[i].key, d[i].value>>] > 0
<1>1. Tombstone \in Slot /\ ~Live(Tombstone) /\ i \in SlotsOf(d) /\ Live(d[i]) /\ d[i] \in Slot
  BY SlotIs, TableHas DEF Slot, LiveSlots
<1>2. LiveSlots(c) = LiveSlots(d) \ {i}
  BY <1>1, StoreIs
<1>3. Cardinality(LiveSlots(c)) = Cardinality(LiveSlots(d)) - 1
  BY <1>2, TableHas, FS_RemoveElement
<1>4. PICK p : p = <<d[i].key, d[i].value>>
  OBVIOUS
<1>5. p \in Pairs /\ i \in Where(d, p)
  BY <1>1, <1>4, SlotIs DEF Pairs, Where
<1>6. ASSUME NEW e \in Pairs
      PROVE  Cardinality(Where(c, e)) = IF e = p THEN Cardinality(Where(d, e)) - 1 ELSE Cardinality(Where(d, e))
  <2>1. CASE e = p
    <3>1. IsFiniteSet(Where(d, e)) /\ i \in Where(d, e)
      BY <1>5, <2>1, WhereIs
    <3>2. Cardinality(Where(d, e) \ {i}) = Cardinality(Where(d, e)) - 1
      BY <3>1, FS_RemoveElement
    <3> QED  BY <1>4, <2>1, <3>2, RemovedWhere
  <2>2. CASE e # p
    BY <1>4, <2>2, RemovedWhere
  <2> QED  BY <2>1, <2>2
<1>7. Cardinality(Where(d, p)) \in Nat /\ Cardinality(Where(d, p)) # 0
  <2>1. IsFiniteSet(Where(d, p)) /\ Where(d, p) # {}
    BY <1>5, WhereIs
  <2> QED  BY <2>1, FS_EmptySet, FS_CardinalityType
<1>8. Counts(c) = [Counts(d) EXCEPT ![p] = @ - 1]
  BY <1>6 DEF Counts
<1>9. Counts(d)[p] > 0
  <2>1. Counts(d)[p] = Cardinality(Where(d, p))
    BY <1>5 DEF Counts
  <2> QED  BY <1>7, <2>1
<1> QED  BY <1>3, <1>4, <1>5, <1>8, <1>9

(***************************************************************************)
(* Rehashing                                                               *)
(***************************************************************************)

\* f gives the new table after each of the first m slots: the function of Rehash.
IsFilling(d, n, m, f) ==
  f = [i \in 0..m |-> IF i = 0 THEN Blank(n)
                      ELSE IF Live(d[i - 1]) THEN Added(f[i - 1], d[i - 1]) ELSE f[i - 1]]

LEMMA FillingExists ==
  ASSUME NEW d, NEW n, NEW m \in Nat
  PROVE  \E f : IsFilling(d, n, m, f)
<1> DEFINE Without == {j \in Nat : ~\E f : IsFilling(d, n, j, f)}
<1>1. Without = {}
  <2> SUFFICES ASSUME Without # {} PROVE FALSE
    OBVIOUS
  <2>1. PICK j \in Without : \A i \in Without : j <= i
    BY LeastExists
  <2>2. j # 0
    <3>1. IsFilling(d, n, 0, [i \in 0..0 |-> Blank(n)])
      BY DEF IsFilling
    <3>2. ~\E f : IsFilling(d, n, j, f)
      BY <2>1
    <3> QED  BY <3>1, <3>2
  <2>3. j - 1 \in Nat /\ j \in Nat /\ j - 1 \notin Without
    BY <2>1, <2>2
  <2>4. PICK f : IsFilling(d, n, j - 1, f)
    BY <2>3
  <2>5. PICK x : x = IF Live(d[j - 1]) THEN Added(f[j - 1], d[j - 1]) ELSE f[j - 1]
    OBVIOUS
  <2>6. PICK g : g = [i \in 0..j |-> IF i = j THEN x ELSE f[i]]
    OBVIOUS
  <2>7. ASSUME NEW i \in 0..j
        PROVE  g[i] = IF i = 0 THEN Blank(n)
                      ELSE IF Live(d[i - 1]) THEN Added(g[i - 1], d[i - 1]) ELSE g[i - 1]
    <3>1. CASE i = j
      <4>1. g[i] = x /\ g[i - 1] = f[j - 1] /\ i # 0
        BY <2>2, <2>3, <2>6, <3>1
      <4> QED  BY <2>5, <3>1, <4>1
    <3>2. CASE i # j
      <4>1. i \in 0..(j - 1) /\ g[i] = f[i] /\ (i # 0 => g[i - 1] = f[i - 1])
        BY <2>3, <2>6, <3>2
      <4>2. f[i] = IF i = 0 THEN Blank(n)
                   ELSE IF Live(d[i - 1]) THEN Added(f[i - 1], d[i - 1]) ELSE f[i - 1]
        BY <2>4, <4>1 DEF IsFilling
      <4> QED  BY <4>1, <4>2
    <3> QED  BY <3>1, <3>2
  <2>8. IsFilling(d, n, j, g)
    BY <2>6, <2>7 DEF IsFilling
  <2> QED  BY <2>1, <2>8
<1> QED  BY <1>1

\* The new table holds the live entries of the first i slots of the old one.
Holds(d, n, i, c) ==
  /\ IsTable(c) /\ Capacity(c) = n /\ Chained(c)
  /\ \A x \in SlotsOf(c) : c[x] # Tombstone
  /\ Cardinality(LiveSlots(c)) = Cardinality({x \in LiveSlots(d) : x < i})
  /\ \A e \in Pairs : Cardinality(Where(c, e)) = Cardinality({x \in Where(d, e) : x < i})

LEMMA FillKeeps ==
  ASSUME NEW d, IsTable(d), NEW n \in Nat, PowerOfTwo(n), Cardinality(LiveSlots(d)) < n,
         NEW i \in SlotsOf(d), NEW c, Holds(d, n, i, c)
  PROVE  Holds(d, n, i + 1, IF Live(d[i]) THEN Added(c, d[i]) ELSE c)
<1>0. i \in Nat /\ d[i] \in Slot /\ SlotsOf(d) \subseteq Nat /\ LiveSlots(d) \subseteq SlotsOf(d)
  BY TableHas
<1>1. CASE ~Live(d[i])
  <2>1. {x \in LiveSlots(d) : x < i + 1} = {x \in LiveSlots(d) : x < i}
    BY <1>0, <1>1 DEF LiveSlots
  <2>2. \A e \in Pairs : {x \in Where(d, e) : x < i + 1} = {x \in Where(d, e) : x < i}
    BY <1>0, <1>1 DEF Where
  <2> QED  BY <1>1, <2>1, <2>2 DEF Holds
<1>2. CASE Live(d[i])
  <2>1. PICK k \in Keys, v \in TableValues : d[i] = Entry(k, v) /\ d[i].hash = Lifted(k)
                                            /\ d[i].key = k /\ d[i].value = v
    BY <1>0, <1>2, SlotIs
  <2>2. IsTable(c) /\ Capacity(c) = n /\ Chained(c) /\ \A x \in SlotsOf(c) : c[x] # Tombstone
    BY DEF Holds
  <2>3. Cardinality(LiveSlots(c)) < Capacity(c)
    <3>1. {x \in LiveSlots(d) : x < i} \in SUBSET LiveSlots(d)
      OBVIOUS
    <3>2. Cardinality({x \in LiveSlots(d) : x < i}) <= Cardinality(LiveSlots(d))
      BY <3>1, TableHas, FS_Subset
    <3>3. Cardinality(LiveSlots(c)) \in Nat /\ Cardinality(LiveSlots(d)) \in Nat
      BY <2>2, TableHas
    <3> QED  BY <2>2, <3>2, <3>3 DEF Holds
  <2>4. RoomAt(c, Lifted(k)) # {}
    BY <2>2, <2>3, RoomLeft, FindsRoom, LiftedIs
  <2>5. PICK j \in RoomAt(c, Lifted(k)) : j = CHOOSE x \in RoomAt(c, Lifted(k)) : TRUE
    BY <2>4
  <2>6. PICK b : b = Store(c, j, Entry(k, v))
    OBVIOUS
  <2>7. Added(c, d[i]) = b
    BY <2>1, <2>5, <2>6 DEF Added, Store
  <2>8. j \in SlotsOf(c) /\ c[j] = Unused /\ Chained(b)
    BY <2>2, <2>6, AddKeeps
  <2>9. ~Live(c[j]) /\ Entry(k, v) \in Slot /\ Entry(k, v) # Tombstone /\ Live(Entry(k, v))
    BY <2>8, EntryIs, SlotIs DEF Slot
  <2>10. /\ IsTable(b) /\ Capacity(b) = n /\ SlotsOf(b) = SlotsOf(c)
         /\ b[j] = Entry(k, v) /\ \A x \in SlotsOf(c) \ {j} : b[x] = c[x]
    BY <2>2, <2>6, <2>8, <2>9, StoreIs
  <2>11. \A x \in SlotsOf(b) : b[x] # Tombstone
    BY <2>2, <2>9, <2>10
  <2>12. Cardinality(LiveSlots(b)) = Cardinality(LiveSlots(c)) + 1
    <3>1. LiveSlots(b) = LiveSlots(c) \cup {j} /\ j \notin LiveSlots(c)
      BY <2>2, <2>6, <2>8, <2>9, StoreIs DEF LiveSlots
    <3> QED  BY <2>2, <3>1, TableHas, FS_AddElement
  <2>13. Cardinality({x \in LiveSlots(d) : x < i + 1}) = Cardinality({x \in LiveSlots(d) : x < i}) + 1
    <3>1. PICK A : A = {x \in LiveSlots(d) : x < i}
      OBVIOUS
    <3>2. {x \in LiveSlots(d) : x < i + 1} = A \cup {i} /\ i \notin A /\ A \in SUBSET LiveSlots(d)
      BY <1>0, <1>2, <3>1 DEF LiveSlots
    <3>3. IsFiniteSet(A)
      BY <3>2, TableHas, FS_Subset
    <3> QED  BY <3>1, <3>2, <3>3, FS_AddElement
  <2>14. ASSUME NEW e \in Pairs
         PROVE  Cardinality(Where(b, e)) = Cardinality({x \in Where(d, e) : x < i + 1})
    <3>1. PICK A : A = {x \in Where(d, e) : x < i}
      OBVIOUS
    <3>2. Cardinality(Where(c, e)) = Cardinality(A)
      BY <3>1 DEF Holds
    <3>3. Where(b, e) = IF e = <<k, v>> THEN Where(c, e) \cup {j} ELSE Where(c, e)
      BY <2>2, <2>6, <2>8, <2>9, AddedWhere
    <3>4. j \notin Where(c, e)
      BY <2>9 DEF Where
    <3>5. e = <<k, v>> <=> (e[1] = k /\ e[2] = v)
      BY DEF Pairs
    <3>6. {x \in Where(d, e) : x < i + 1} = (IF e = <<k, v>> THEN A \cup {i} ELSE A) /\ i \notin A
      BY <1>0, <1>2, <2>1, <3>1, <3>5 DEF Where
    <3>7. IsFiniteSet(A)
      <4>1. A \in SUBSET Where(d, e)
        BY <3>1
      <4> QED  BY <4>1, WhereIs, FS_Subset
    <3>8. IsFiniteSet(Where(c, e))
      BY <2>2, WhereIs
    <3>9. CASE e = <<k, v>>
      <4>1. Cardinality(Where(c, e) \cup {j}) = Cardinality(Where(c, e)) + 1
        BY <3>4, <3>8, FS_AddElement
      <4>2. Cardinality(A \cup {i}) = Cardinality(A) + 1
        BY <3>6, <3>7, FS_AddElement
      <4> QED  BY <3>2, <3>3, <3>6, <3>9, <4>1, <4>2
    <3>10. CASE e # <<k, v>>
      BY <3>2, <3>3, <3>6, <3>10
    <3> QED  BY <3>9, <3>10
  <2>15. Holds(d, n, i + 1, b)
    BY <2>8, <2>10, <2>11, <2>12, <2>13, <2>14 DEF Holds
  <2> QED  BY <1>2, <2>7, <2>15
<1> QED  BY <1>1, <1>2

\* A rehash into a table with room for all entries keeps each of them and every chain.
LEMMA RehashKeeps ==
  ASSUME NEW d, IsTable(d), NEW n \in Nat, PowerOfTwo(n), Cardinality(LiveSlots(d)) < n
  PROVE  /\ IsTable(Rehash(d, n)) /\ Capacity(Rehash(d, n)) = n /\ Chained(Rehash(d, n))
         /\ \A x \in SlotsOf(Rehash(d, n)) : Rehash(d, n)[x] # Tombstone
         /\ Cardinality(LiveSlots(Rehash(d, n))) = Cardinality(LiveSlots(d))
         /\ Counts(Rehash(d, n)) = Counts(d)
<1> DEFINE m == Capacity(d)
<1>0. m \in Nat /\ SlotsOf(d) = 0..(m - 1) /\ LiveSlots(d) \subseteq SlotsOf(d)
  BY TableHas
<1>1. PICK f : IsFilling(d, n, m, f) /\ Rehash(d, n) = f[m]
  <2>1. PICK g : g = CHOOSE f : IsFilling(d, n, m, f)
    OBVIOUS
  <2>2. IsFilling(d, n, m, g)
    BY <1>0, <2>1, FillingExists
  <2>3. Rehash(d, n) = g[m]
    BY <2>1 DEF Rehash, IsFilling
  <2> QED  BY <2>2, <2>3
<1> HIDE DEF m
<1>2. ASSUME NEW i \in 0..m
      PROVE  f[i] = IF i = 0 THEN Blank(n)
                    ELSE IF Live(d[i - 1]) THEN Added(f[i - 1], d[i - 1]) ELSE f[i - 1]
  BY <1>1 DEF IsFilling
<1> DEFINE Not == {i \in 0..m : ~Holds(d, n, i, f[i])}
<1>3. Not = {}
  <2> SUFFICES ASSUME Not # {} PROVE FALSE
    OBVIOUS
  <2>1. Not \in SUBSET Nat
    BY <1>0
  <2>2. PICK i \in Not : \A j \in Not : i <= j
    <3> HIDE DEF Not
    <3> QED  BY <2>1, LeastExists
  <2>3. i \in 0..m /\ ~Holds(d, n, i, f[i])
    BY <2>2
  <2>4. CASE i = 0
    <3>1. f[0] = Blank(n)
      BY <1>2, <2>3, <2>4
    <3>2. PICK c : c = Blank(n)
      OBVIOUS
    <3>3. /\ IsTable(c) /\ Capacity(c) = n /\ Chained(c) /\ LiveSlots(c) = {}
          /\ \A x \in SlotsOf(c) : c[x] = Unused
      BY <3>2, BlankIs, TableHas
    <3>4. {x \in LiveSlots(d) : x < 0} = {} /\ \A e \in Pairs : {x \in Where(d, e) : x < 0} = {}
      BY <1>0 DEF Where
    <3>5. \A e \in Pairs : Where(c, e) = {}
      BY <3>3 DEF Where, LiveSlots
    <3>6. \A x \in SlotsOf(c) : c[x] # Tombstone
      BY <3>3 DEF Unused, Tombstone
    <3>7. Holds(d, n, 0, c)
      BY <3>3, <3>4, <3>5, <3>6 DEF Holds
    <3> QED  BY <2>3, <2>4, <3>1, <3>2, <3>7
  <2>5. CASE i # 0
    <3>1. PICK j \in Nat : i = j + 1
      BY <1>0, <2>3, <2>5
    <3>2. j \in SlotsOf(d) /\ j \in 0..m /\ ~(i <= j)
      BY <1>0, <2>3, <3>1
    <3>3. Holds(d, n, j, f[j])
      BY <2>2, <3>2
    <3>4. f[i] = IF Live(d[j]) THEN Added(f[j], d[j]) ELSE f[j]
      <4>1. i - 1 = j
        BY <3>1
      <4> QED  BY <1>2, <2>3, <2>5, <4>1
    <3>5. PICK c : c = f[j]
      OBVIOUS
    <3>6. Holds(d, n, j + 1, IF Live(d[j]) THEN Added(c, d[j]) ELSE c)
      BY <3>2, <3>3, <3>5, FillKeeps
    <3> QED  BY <2>3, <3>1, <3>4, <3>5, <3>6
  <2> QED  BY <2>4, <2>5
<1>4. Holds(d, n, m, f[m])
  BY <1>0, <1>3
<1> HIDE DEF Not
<1>5. PICK c : c = Rehash(d, n)
  OBVIOUS
<1>6. Holds(d, n, m, c)
  BY <1>1, <1>4, <1>5
<1>7. {x \in LiveSlots(d) : x < m} = LiveSlots(d)
  BY <1>0
<1>8. \A e \in Pairs : {x \in Where(d, e) : x < m} = Where(d, e)
  BY <1>0 DEF Where
<1>9. Counts(c) = Counts(d)
  BY <1>6, <1>8 DEF Holds, Counts
<1> QED  BY <1>5, <1>6, <1>7, <1>9 DEF Holds

(***************************************************************************)
(* Expanding                                                               *)
(***************************************************************************)

LEMMA TableSizeIs ==
  ASSUME NEW n \in Nat
  PROVE  TableSize(n) \in Nat /\ PowerOfTwo(TableSize(n)) /\ TableSize(n) >= n
BY CeilIs, HashTableAssumption DEF TableSize

LEMMA EmptyTable ==
  /\ SlotsOf(<<>>) = {} /\ Capacity(<<>>) = 0 /\ LiveSlots(<<>>) = {}
  /\ Cardinality(LiveSlots(<<>>)) = 0 /\ Counts(<<>>) = [e \in Pairs |-> 0]
<1>1. SlotsOf(<<>>) = {}
  BY DEF SlotsOf
<1>2. LiveSlots(<<>>) = {} /\ \A e \in Pairs : Where(<<>>, e) = {}
  BY <1>1 DEF LiveSlots, Where
<1> QED  BY <1>1, <1>2, FS_EmptySet DEF Capacity, Counts

LEMMA NothingLive ==
  ASSUME NEW d, LiveSlots(d) = {}
  PROVE  Cardinality(LiveSlots(d)) = 0 /\ Counts(d) = [e \in Pairs |-> 0]
<1>1. \A e \in Pairs : Where(d, e) = {}
  BY DEF LiveSlots, Where
<1> QED  BY <1>1, FS_EmptySet DEF Counts

LEMMA MaxOfTwo ==
  ASSUME NEW a \in Nat, NEW b \in Nat
  PROVE  Max({a, b}) \in {a, b} /\ Max({a, b}) >= a /\ Max({a, b}) >= b
<1>1. \E x \in {a, b} : \A y \in {a, b} : x >= y
  OBVIOUS
<1> QED  BY <1>1 DEF Max

LEMMA Scaled ==
  ASSUME NEW a \in Nat, NEW b \in Nat, a <= b, NEW f \in Nat
  PROVE  a * f <= b * f /\ a * f \in Nat /\ b * f \in Nat
<1>1. PICK c \in Nat : b = a + c
  <2>1. b - a \in Nat /\ b = a + (b - a)
    OBVIOUS
  <2> QED  BY <2>1
<1>2. b * f = a * f + c * f /\ a * f \in Nat /\ c * f \in Nat
  BY <1>1
<1> QED  BY <1>2

\* The size of the table and the load factor it is kept at.
TableSound(d, live) ==
  /\ d = <<>> \/ (IsTable(d) /\ Chained(d))
  /\ live = Cardinality(LiveSlots(d))
  /\ live * 100 <= Capacity(d) * Factor

LEMMA SoundHas ==
  ASSUME NEW d, NEW live, TableSound(d, live)
  PROVE  live \in Nat /\ Capacity(d) \in Nat /\ live <= Capacity(d) /\ (d = <<>> => live = 0)
         /\ (d # <<>> => IsTable(d) /\ Chained(d) /\ live < Capacity(d))
<1>1. CASE d = <<>>
  BY <1>1, EmptyTable DEF TableSound
<1>2. CASE d # <<>>
  <2>1. IsTable(d) /\ Chained(d) /\ live = Cardinality(LiveSlots(d)) /\ live * 100 <= Capacity(d) * Factor
    BY <1>2 DEF TableSound
  <2>2. live \in Nat /\ Capacity(d) \in Nat \ {0}
    BY <2>1, TableHas
  <2>3. Capacity(d) * Factor <= Capacity(d) * 99
    <3>1. Factor \in Nat /\ Factor <= 99
      BY HashTableAssumption
    <3>2. Factor * Capacity(d) <= 99 * Capacity(d)
      BY <2>2, <3>1, Scaled
    <3> QED  BY <2>2, <3>1, <3>2
  <2>4. live * 100 <= Capacity(d) * 99
    <3>1. PICK x \in Nat : x = Capacity(d) * Factor
      BY <2>2, HashTableAssumption
    <3> QED  BY <2>1, <2>2, <2>3, <3>1
  <2> QED  BY <1>2, <2>1, <2>2, <2>4
<1> QED  BY <1>1, <1>2

\* An expanded table holds what the table held, and has room for an entry more.
LEMMA ExpandedIs ==
  ASSUME NEW d, NEW live, TableSound(d, live), NEW c, c = Expanded(d, live)
  PROVE  /\ IsTable(c) /\ Chained(c) /\ Counts(c) = Counts(d) /\ Cardinality(LiveSlots(c)) = live
         /\ (live + 1) * 100 <= Capacity(c) * Factor
<1>0. live \in Nat /\ Capacity(d) \in Nat /\ Factor \in Nat /\ MinTableSize \in Nat
      /\ MinTableSize * Factor >= 100 /\ PowerOfTwo(MinTableSize)
  BY SoundHas, HashTableAssumption
<1>1. CASE d = <<>>
  <2>1. PICK n \in Nat : n = TableSize(MinTableSize) /\ PowerOfTwo(n) /\ n >= MinTableSize
    BY <1>0, TableSizeIs
  <2>2. c = Blank(n) /\ live = 0
    BY <1>1, <2>1, SoundHas DEF Expanded
  <2>3. IsTable(c) /\ Capacity(c) = n /\ Chained(c) /\ LiveSlots(c) = {}
    BY <2>1, <2>2, BlankIs
  <2>4. Cardinality(LiveSlots(c)) = 0 /\ Counts(c) = [e \in Pairs |-> 0]
    BY <2>3, NothingLive
  <2>5. MinTableSize * Factor <= n * Factor
    BY <1>0, <2>1, Scaled
  <2>6. PICK x \in Nat, y \in Nat : x = MinTableSize * Factor /\ y = n * Factor
    BY <1>0, <2>1
  <2>7. (live + 1) * 100 <= Capacity(c) * Factor
    BY <1>0, <2>2, <2>3, <2>5, <2>6
  <2> QED  BY <1>1, <2>2, <2>3, <2>4, <2>7, EmptyTable
<1>2. CASE d # <<>>
  <2>1. IsTable(d) /\ live = Cardinality(LiveSlots(d)) /\ live * 100 <= Capacity(d) * Factor
        /\ live < Capacity(d) /\ PowerOfTwo(Capacity(d))
    BY <1>2, SoundHas, TableHas DEF TableSound
  <2>2. PICK g \in Nat : g = IF ExpandDoubles(Capacity(d), live) THEN 2 * Capacity(d) ELSE Capacity(d)
    BY <1>0
  <2>3. PICK n : n = ExpandedSize(Capacity(d), live)
    OBVIOUS
  <2>4. n \in {MinTableSize, g} /\ n >= MinTableSize /\ n >= g
    <3>1. n = Max({MinTableSize, g})
      BY <2>2, <2>3 DEF ExpandedSize
    <3> QED  BY <1>0, <3>1, MaxOfTwo
  <2>5. PowerOfTwo(2 * Capacity(d))
    BY <1>0, <2>1, PowersDouble
  <2>6. n \in Nat /\ PowerOfTwo(n) /\ live < n
    BY <1>0, <2>1, <2>2, <2>4, <2>5
  <2>7. c = Rehash(d, n)
    BY <1>2, <2>3 DEF Expanded
  <2>8. /\ IsTable(c) /\ Chained(c) /\ Capacity(c) = n /\ Counts(c) = Counts(d)
        /\ Cardinality(LiveSlots(c)) = live
    BY <2>1, <2>6, <2>7, RehashKeeps
  <2>9. (live + 1) * 100 <= n * Factor
    <3>1. PICK x \in Nat, y \in Nat, z \in Nat :
             x = Capacity(d) * Factor /\ y = MinTableSize * Factor /\ z = n * Factor
      BY <1>0, <2>6
    <3>2. y <= z
      BY <1>0, <2>4, <2>6, <3>1, Scaled
    <3>3. g * Factor <= z
      BY <1>0, <2>4, <2>6, <3>1, Scaled
    <3>4. CASE ExpandDoubles(Capacity(d), live)
      <4>1. 2 * x <= z
        <5>1. g * Factor = 2 * x
          BY <1>0, <2>2, <3>1, <3>4
        <5> QED  BY <3>3, <5>1
      <4> QED  BY <1>0, <2>1, <3>1, <3>2, <4>1
    <3>5. CASE ~ExpandDoubles(Capacity(d), live)
      <4>1. (live + 1) * 100 <= x
        BY <1>0, <3>1, <3>5 DEF ExpandDoubles
      <4>2. x <= z
        BY <2>2, <3>1, <3>3, <3>5
      <4> QED  BY <1>0, <3>1, <4>1, <4>2
    <3> QED  BY <3>4, <3>5
  <2> QED  BY <2>8, <2>9
<1> QED  BY <1>1, <1>2

\* The adds of an expansion find room in the new table: none of them expands it again,
\* which Rehash relies on (expand_table calls add_element_by_key for each entry).
THEOREM ExpansionIsEnough ==
  ASSUME NEW d, NEW live, TableSound(d, live), NEW j \in Nat, j < live
  PROVE  ~NeedsExpand(Capacity(Expanded(d, live)), j)
<1>1. PICK c : c = Expanded(d, live)
  OBVIOUS
<1>2. IsTable(c) /\ (live + 1) * 100 <= Capacity(c) * Factor /\ live \in Nat
  BY <1>1, ExpandedIs, SoundHas
<1>3. PICK x \in Nat : x = Capacity(c) * Factor
  BY <1>2, TableHas, HashTableAssumption
<1>4. ~((j + 1) * 100 >= x)
  BY <1>2, <1>3
<1> QED  BY <1>1, <1>3, <1>4 DEF NeedsExpand

\* What an element is added to holds what the table held, with room for it.
LEMMA RoomyIs ==
  ASSUME TableSound(slots, tableSize), NEW c, c = Roomy
  PROVE  /\ IsTable(c) /\ Chained(c) /\ Counts(c) = Counts(slots) /\ Cardinality(LiveSlots(c)) = tableSize
         /\ (tableSize + 1) * 100 <= Capacity(c) * Factor
<1>0. tableSize \in Nat /\ Capacity(slots) \in Nat /\ Factor \in Nat
  BY SoundHas, HashTableAssumption
<1>1. CASE slots = <<>>
  <2>1. c = Expanded(slots, tableSize)
    BY <1>1 DEF Roomy, Expanded
  <2> QED  BY <2>1, ExpandedIs
<1>2. CASE slots # <<>> /\ NeedsExpand(Capacity(slots), tableSize)
  <2>1. c = Expanded(slots, tableSize)
    BY <1>2 DEF Roomy
  <2> QED  BY <2>1, ExpandedIs
<1>3. CASE slots # <<>> /\ ~NeedsExpand(Capacity(slots), tableSize)
  <2>1. c = slots
    BY <1>3 DEF Roomy
  <2>2. IsTable(slots) /\ Chained(slots) /\ tableSize = Cardinality(LiveSlots(slots))
    BY <1>3, SoundHas DEF TableSound
  <2>3. PICK x \in Nat : x = Capacity(slots) * Factor
    BY <1>0
  <2>4. (tableSize + 1) * 100 <= x
    BY <1>0, <1>3, <2>3 DEF NeedsExpand
  <2> QED  BY <2>1, <2>2, <2>3, <2>4
<1> QED  BY <1>1, <1>2, <1>3

(***************************************************************************)
(* Searching                                                               *)
(***************************************************************************)

\* A loop that is left at an unused slot has not passed by an entry it looks for.
LEMMA MissMeansNone ==
  ASSUME NEW d, IsTable(d), Chained(d), NEW h \in Nat, NEW S, NEW i \in LeftWith(d, h, S), d[i] = Unused
  PROVE  \A x \in LiveSlots(d) : d[x].hash = h => d[x] \notin S
<1> SUFFICES ASSUME NEW x \in LiveSlots(d), d[x].hash = h, d[x] \in S PROVE FALSE
  OBVIOUS
<1>1. PICK m \in Nat : FirstMeets(d, h, S, m) /\ i = Probe(Capacity(d), h, m)
  <2>1. LeftWith(d, h, S) # {}
    OBVIOUS
  <2> QED  BY <2>1, LeftIs
<1>2. PICK s \in 0..(2 * Capacity(d) - 1) :
        /\ Probe(Capacity(d), h, s) = x
        /\ \A j \in 0..(s - 1) : d[Probe(Capacity(d), h, j)] # Unused
  BY DEF Chained
<1>3. s \in Nat /\ d[x] # Unused
  <2>1. d[x] \in Slot /\ Live(d[x]) /\ Capacity(d) \in Nat
    BY TableHas DEF LiveSlots
  <2> QED  BY <1>2, <2>1, SlotIs
<1>4. CASE m < s
  BY <1>1, <1>2, <1>3, <1>4
<1>5. CASE m = s
  BY <1>1, <1>2, <1>3, <1>5
<1>6. CASE s < m
  BY <1>1, <1>2, <1>3, <1>6 DEF FirstMeets
<1> QED  BY <1>1, <1>3, <1>4, <1>5, <1>6

\* What a search for a key ends at.
LEMMA KeyFound ==
  ASSUME NEW d, IsTable(d), Chained(d), NEW k \in Keys, NEW i \in KeyAt(d, k)
  PROVE  /\ i \in SlotsOf(d)
         /\ d[i] # Unused => i \in LiveSlots(d) /\ d[i].key = k
         /\ d[i] = Unused => \A x \in LiveSlots(d) : d[x].key # k
<1>1. Lifted(k) \in Nat /\ i \in LeftWith(d, Lifted(k), KeyOrUnused(k))
  BY LiftedIs, LoopsAre
<1>2. PICK m \in Nat : FirstMeets(d, Lifted(k), KeyOrUnused(k), m) /\ i = Probe(Capacity(d), Lifted(k), m)
  BY <1>1, LeftIs
<1>3. i \in SlotsOf(d) /\ d[i] \in KeyOrUnused(k)
  BY <1>2 DEF FirstMeets
<1>4. d[i] # Unused => i \in LiveSlots(d) /\ d[i].key = k
  BY <1>3 DEF KeyOrUnused, ByKey, LiveSlots
<1>5. ASSUME d[i] = Unused, NEW x \in LiveSlots(d), d[x].key = k PROVE FALSE
  <2>1. d[x] \in Slot /\ Live(d[x])
    BY TableHas DEF LiveSlots
  <2>2. d[x].hash = Lifted(k)
    BY <1>5, <2>1, SlotIs
  <2>3. d[x] \in KeyOrUnused(k)
    BY <1>5, <2>1, <2>2 DEF KeyOrUnused, ByKey
  <2> QED  BY <1>1, <1>5, <2>2, <2>3, MissMeansNone
<1> QED  BY <1>3, <1>4, <1>5

\* What a removal by hash ends at.
LEMMA HashFound ==
  ASSUME NEW d, IsTable(d), Chained(d), NEW k \in Keys, NEW i \in HashAt(d, k)
  PROVE  /\ i \in SlotsOf(d)
         /\ d[i] # Unused => i \in LiveSlots(d) /\ Lifted(d[i].key) = Lifted(k)
         /\ d[i] = Unused => \A x \in LiveSlots(d) : Lifted(d[x].key) # Lifted(k)
<1>1. Lifted(k) \in Nat /\ Lifted(k) >= FirstHash /\ i \in LeftWith(d, Lifted(k), HashOrUnused(k))
  BY LiftedIs, LoopsAre
<1>2. PICK m \in Nat : FirstMeets(d, Lifted(k), HashOrUnused(k), m) /\ i = Probe(Capacity(d), Lifted(k), m)
  BY <1>1, LeftIs
<1>3. i \in SlotsOf(d) /\ d[i] \in HashOrUnused(k)
  BY <1>2 DEF FirstMeets
<1>4. d[i] # Unused => i \in LiveSlots(d) /\ Lifted(d[i].key) = Lifted(k)
  <2> SUFFICES ASSUME d[i] # Unused PROVE i \in LiveSlots(d) /\ Lifted(d[i].key) = Lifted(k)
    OBVIOUS
  <2>1. d[i].hash = Lifted(k) /\ d[i] \in Slot
    BY <1>3 DEF HashOrUnused, ByHash
  <2>2. Live(d[i])
    BY <1>1, <2>1 DEF Live
  <2> QED  BY <1>3, <2>1, <2>2, SlotIs DEF LiveSlots
<1>5. ASSUME d[i] = Unused, NEW x \in LiveSlots(d), Lifted(d[x].key) = Lifted(k) PROVE FALSE
  <2>1. d[x] \in Slot /\ Live(d[x])
    BY TableHas DEF LiveSlots
  <2>2. d[x].hash = Lifted(k)
    BY <1>5, <2>1, SlotIs
  <2>3. d[x] \in HashOrUnused(k)
    BY <1>5, <2>1, <2>2 DEF HashOrUnused, ByHash
  <2> QED  BY <1>1, <1>5, <2>2, <2>3, MissMeansNone
<1> QED  BY <1>3, <1>4, <1>5

\* A pair that no entry has is counted as none.
LEMMA NotCounted ==
  ASSUME NEW d, NEW e \in Pairs, \A x \in LiveSlots(d) : d[x].key # e[1]
  PROVE  Counts(d)[e] = 0
<1>1. Where(d, e) = {}
  BY DEF Where, LiveSlots
<1> QED  BY <1>1, FS_EmptySet DEF Counts

\* An entry that is in the table is counted.
LEMMA Counted ==
  ASSUME NEW d, IsTable(d), NEW i \in LiveSlots(d)
  PROVE  /\ <<d[i].key, d[i].value>> \in Pairs /\ Counts(d)[<<d[i].key, d[i].value>>] > 0
         /\ d[i].key \in Keys /\ d[i].value \in TableValues
<1>1. PICK p : p = <<d[i].key, d[i].value>>
  OBVIOUS
<1>2. d[i] \in Slot /\ Live(d[i]) /\ i \in SlotsOf(d)
  BY TableHas DEF LiveSlots
<1>3. p \in Pairs /\ i \in Where(d, p) /\ d[i].key \in Keys /\ d[i].value \in TableValues
  BY <1>1, <1>2, SlotIs DEF Pairs, Where
<1>4. Cardinality(Where(d, p)) \in Nat /\ Cardinality(Where(d, p)) # 0
  <2>1. IsFiniteSet(Where(d, p)) /\ Where(d, p) # {}
    BY <1>3, WhereIs
  <2> QED  BY <2>1, FS_EmptySet, FS_CardinalityType
<1>5. Counts(d)[p] = Cardinality(Where(d, p))
  BY <1>3 DEF Counts
<1> QED  BY <1>1, <1>3, <1>4, <1>5

(***************************************************************************)
(* The calls                                                               *)
(***************************************************************************)

TableInv ==
  /\ TableSound(slots, tableSize)
  /\ tableSize <= MaxEntries
  /\ ret \in TableValues \cup {"none", "true", "false"}
  /\ hung \in BOOLEAN

\* A step that only records a call that does not return.
Silent == UNCHANGED <<slots, ret>>

\* What table[k] = v and the removals find in the table.
NoneOf(k) == \A e \in Pairs : e[1] = k => Counts(slots)[e] = 0
NoneLike(k) == \A e \in Pairs : Lifted(e[1]) = Lifted(k) => Counts(slots)[e] = 0

LEMMA AddIsSound ==
  ASSUME TableInv, NEW k \in Keys, NEW v \in TableValues, AddElement(k, v)
  PROVE  /\ TableInv'
         /\ \/ Silent
            \/ ret' = "none" /\ Counts(slots)' = [Counts(slots) EXCEPT ![<<k, v>>] = @ + 1]
<1>1. CASE Hangs
  BY <1>1 DEF Hangs, Silent, TableInv
<1>2. ASSUME ~Hangs PROVE TableInv' /\ ret' = "none" /\ Counts(slots)' = [Counts(slots) EXCEPT ![<<k, v>>] = @ + 1]
  <2>1. PICK d : d = Roomy
    OBVIOUS
  <2>2. PICK i \in RoomAt(d, Lifted(k)) :
          /\ slots' = [d EXCEPT ![i] = Entry(k, v)]
          /\ tableSize' = tableSize + 1 /\ Returns("none")
    BY <1>2, <2>1 DEF AddElement
  <2>3. tableSize < MaxEntries
    BY DEF AddElement
  <2>4. /\ IsTable(d) /\ Chained(d) /\ Counts(d) = Counts(slots) /\ Cardinality(LiveSlots(d)) = tableSize
        /\ (tableSize + 1) * 100 <= Capacity(d) * Factor
    BY <2>1, RoomyIs DEF TableInv
  <2>5. PICK c : c = Store(d, i, Entry(k, v))
    OBVIOUS
  <2>6. i \in SlotsOf(d) /\ ~Live(d[i]) /\ Chained(c) /\ Entry(k, v) \in Slot /\ Live(Entry(k, v))
    <3>1. i \in SlotsOf(d) /\ d[i] = Unused /\ Chained(c)
      BY <2>4, <2>5, AddKeeps
    <3>2. Entry(k, v) \in Slot /\ Live(Entry(k, v))
      BY EntryIs DEF Slot
    <3> QED  BY <3>1, <3>2, SlotIs
  <2>7. IsTable(c) /\ Capacity(c) = Capacity(d)
    BY <2>4, <2>5, <2>6, StoreIs
  <2>8. Counts(c) = [Counts(d) EXCEPT ![<<k, v>>] = @ + 1] /\ Cardinality(LiveSlots(c)) = Cardinality(LiveSlots(d)) + 1
    BY <2>4, <2>5, <2>6, AddedCounts
  <2>9. TableSound(c, tableSize + 1)
    BY <2>4, <2>6, <2>7, <2>8 DEF TableSound
  <2>10. tableSize \in Nat /\ MaxEntries \in Nat
    BY SoundHas, HashTableAssumption DEF TableInv
  <2>11. slots' = c
    BY <2>2, <2>5 DEF Store
  <2>12. TableInv'
    <3>1. tableSize' = tableSize + 1
      BY <2>2
    <3>2. TableSound(slots', tableSize')
      BY <2>9, <2>11, <3>1
    <3>3. tableSize' <= MaxEntries
      BY <2>3, <2>10, <3>1
    <3>4. ret' = "none" /\ hung' = hung /\ hung \in BOOLEAN
      BY <2>2 DEF TableInv, Returns
    <3> QED  BY <3>2, <3>3, <3>4 DEF TableInv
  <2>13. Counts(slots') = [Counts(slots) EXCEPT ![<<k, v>>] = @ + 1]
    BY <2>4, <2>8, <2>11, Zenon
  <2> QED  BY <2>2, <2>12, <2>13 DEF Returns
<1> QED  BY <1>1, <1>2

\* One entry less.
LEMMA MarkIsSound ==
  ASSUME TableInv, NEW i \in LiveSlots(slots), MarkRemoved(i), Returns("true")
  PROVE  /\ TableInv' /\ ret' = "true"
         /\ Counts(slots)' = [Counts(slots) EXCEPT ![<<slots[i].key, slots[i].value>>] = @ - 1]
<1>1. slots # <<>>
  BY EmptyTable
<1>2. IsTable(slots) /\ Chained(slots) /\ tableSize \in Nat /\ tableSize = Cardinality(LiveSlots(slots))
      /\ tableSize * 100 <= Capacity(slots) * Factor
  BY <1>1, SoundHas DEF TableInv, TableSound
<1>3. PICK d : d = slots
  OBVIOUS
<1>4. PICK c : c = Store(d, i, Tombstone)
  OBVIOUS
<1>5. Tombstone \in Slot /\ ~Live(Tombstone) /\ Tombstone # Unused
  BY SlotIs DEF Slot
<1>6. IsTable(c) /\ Capacity(c) = Capacity(d) /\ Chained(c)
  <2>1. i \in SlotsOf(d)
    BY <1>2, <1>3, TableHas
  <2> QED  BY <1>2, <1>3, <1>4, <1>5, <2>1, StoreIs, MarkKeeps
<1>7. /\ Counts(c) = [Counts(d) EXCEPT ![<<d[i].key, d[i].value>>] = @ - 1]
      /\ Cardinality(LiveSlots(c)) = Cardinality(LiveSlots(d)) - 1
  BY <1>2, <1>3, <1>4, RemovedCounts
<1>8. TableSound(c, tableSize - 1)
  <2>1. PICK x \in Nat : x = Capacity(d) * Factor
    BY <1>2, <1>3, TableHas, HashTableAssumption
  <2>2. (tableSize - 1) * 100 <= x
    BY <1>2, <1>3, <2>1
  <2> QED  BY <1>2, <1>3, <1>6, <1>7, <2>1, <2>2 DEF TableSound
<1>9. tableSize' = tableSize - 1 /\ tableSize' <= MaxEntries
  BY <1>2, HashTableAssumption DEF MarkRemoved, TableInv
<1>10. slots' = c
  BY <1>3, <1>4 DEF MarkRemoved, Store
<1> QED  BY <1>3, <1>7, <1>8, <1>9, <1>10 DEF TableInv, Returns

LEMMA SearchMisses ==
  ASSUME TableInv, NEW k \in Keys, Miss(KeyAt(slots, k))
  PROVE  NoneOf(k)
<1>1. \A x \in LiveSlots(slots) : slots[x].key # k
  <2>1. CASE slots = <<>>
    BY <2>1, EmptyTable
  <2>2. CASE slots # <<>>
    <3>1. IsTable(slots) /\ Chained(slots)
      BY <2>2, SoundHas DEF TableInv
    <3>2. PICK i \in KeyAt(slots, k) : slots[i] = Unused
      BY <2>2 DEF Miss
    <3> QED  BY <3>1, <3>2, KeyFound
  <2> QED  BY <2>1, <2>2
<1> QED  BY <1>1, NotCounted DEF NoneOf

LEMMA HashMisses ==
  ASSUME TableInv, NEW k \in Keys, Miss(HashAt(slots, k))
  PROVE  NoneLike(k)
<1>1. \A x \in LiveSlots(slots) : Lifted(slots[x].key) # Lifted(k)
  <2>1. CASE slots = <<>>
    BY <2>1, EmptyTable
  <2>2. CASE slots # <<>>
    <3>1. IsTable(slots) /\ Chained(slots)
      BY <2>2, SoundHas DEF TableInv
    <3>2. PICK i \in HashAt(slots, k) : slots[i] = Unused
      BY <2>2 DEF Miss
    <3> QED  BY <3>1, <3>2, HashFound
  <2> QED  BY <2>1, <2>2
<1> QED  BY <1>1, NotCounted DEF NoneLike

LEMMA SearchHits ==
  ASSUME TableInv, NEW k \in Keys, NEW i \in Hit(KeyAt(slots, k))
  PROVE  IsTable(slots) /\ i \in LiveSlots(slots) /\ slots[i].key = k
<1>1. i \in KeyAt(slots, k) /\ slots[i] # Unused
  BY DEF Hit
<1>2. slots # <<>>
  BY <1>1, NothingLeft
<1>3. IsTable(slots) /\ Chained(slots)
  BY <1>2, SoundHas DEF TableInv
<1> QED  BY <1>1, <1>3, KeyFound

LEMMA HashHits ==
  ASSUME TableInv, NEW k \in Keys, NEW i \in Hit(HashAt(slots, k))
  PROVE  IsTable(slots) /\ i \in LiveSlots(slots) /\ Lifted(slots[i].key) = Lifted(k)
<1>1. i \in HashAt(slots, k) /\ slots[i] # Unused
  BY DEF Hit
<1>2. slots # <<>>
  BY <1>1, NothingLeft
<1>3. IsTable(slots) /\ Chained(slots)
  BY <1>2, SoundHas DEF TableInv
<1> QED  BY <1>1, <1>3, HashFound

\* A value that is stored over another: one pair less, one more.
LEMMA PutIsSound ==
  ASSUME TableInv, NEW k \in Keys, NEW v \in TableValues, NEW i \in Hit(KeyAt(slots, k)),
         slots' = [slots EXCEPT ![i].value = v], UNCHANGED tableSize, Returns("none")
  PROVE  /\ TableInv' /\ ret' = "none"
         /\ \E e \in Pairs : /\ e[1] = k /\ Counts(slots)[e] > 0
                             /\ Counts(slots)' = [[Counts(slots) EXCEPT ![e] = @ - 1] EXCEPT ![<<k, v>>] = @ + 1]
<1>1. IsTable(slots) /\ i \in LiveSlots(slots) /\ slots[i].key = k
  BY SearchHits
<1>2. PICK d : d = slots
  OBVIOUS
<1>3. i \in SlotsOf(d) /\ d[i] \in Slot /\ Live(d[i]) /\ d # <<>>
  BY <1>1, <1>2, TableHas DEF LiveSlots
<1>4. PICK o \in TableValues : d[i] = Entry(k, o) /\ d[i].hash = Lifted(k) /\ d[i].key = k /\ d[i].value = o
  BY <1>1, <1>2, <1>3, SlotIs
<1>5. PICK c : c = Store(d, i, Entry(k, v))
  OBVIOUS
<1>6. slots' = c
  <2>1. [d[i] EXCEPT !.value = v] = Entry(k, v)
    BY <1>4 DEF Entry
  <2> QED  BY <1>2, <1>5, <2>1 DEF Store
<1>7. Entry(k, v) \in Slot /\ Live(Entry(k, v)) /\ Entry(k, v).hash = Lifted(k) /\ Entry(k, v) # Unused
  BY EntryIs DEF Slot
<1>8. TableSound(d, tableSize) /\ Chained(d)
  BY <1>2, <1>3, SoundHas DEF TableInv
<1>9. IsTable(c) /\ Capacity(c) = Capacity(d) /\ LiveSlots(c) = LiveSlots(d) /\ Chained(c)
  <2>1. IsTable(c) /\ Capacity(c) = Capacity(d) /\ LiveSlots(c) = LiveSlots(d) \cup {i}
    BY <1>1, <1>2, <1>3, <1>5, <1>7, StoreIs
  <2>2. Chained(c)
    BY <1>1, <1>2, <1>4, <1>5, <1>7, <1>8, MarkKeeps
  <2> QED  BY <1>1, <1>2, <2>1, <2>2
<1>10. TableSound(c, tableSize)
  BY <1>3, <1>8, <1>9 DEF TableSound
<1>11. PICK b : b = Store(d, i, Tombstone)
  OBVIOUS
<1>12. IsTable(b) /\ SlotsOf(b) = SlotsOf(d) /\ b[i] = Tombstone /\ ~Live(b[i])
  <2>1. Tombstone \in Slot /\ ~Live(Tombstone)
    BY SlotIs DEF Slot
  <2> QED  BY <1>1, <1>2, <1>3, <1>11, <2>1, StoreIs
<1>13. c = Store(b, i, Entry(k, v))
  BY <1>5, <1>11 DEF Store
<1>14. Counts(b) = [Counts(d) EXCEPT ![<<k, o>>] = @ - 1] /\ <<k, o>> \in Pairs /\ Counts(d)[<<k, o>>] > 0
  <2>1. /\ Counts(b) = [Counts(d) EXCEPT ![<<d[i].key, d[i].value>>] = @ - 1]
        /\ <<d[i].key, d[i].value>> \in Pairs /\ Counts(d)[<<d[i].key, d[i].value>>] > 0
    BY <1>1, <1>2, <1>11, RemovedCounts
  <2>2. d[i].key = k /\ d[i].value = o
    BY <1>4
  <2> QED  BY <2>1, <2>2
<1>15. Counts(c) = [Counts(b) EXCEPT ![<<k, v>>] = @ + 1]
  BY <1>3, <1>12, <1>13, AddedCounts
<1>16. PICK e \in Pairs : e = <<k, o>>
  BY <1>14
<1>17. e[1] = k /\ Counts(slots)[e] > 0
       /\ Counts(slots') = [[Counts(slots) EXCEPT ![e] = @ - 1] EXCEPT ![<<k, v>>] = @ + 1]
  BY <1>2, <1>6, <1>14, <1>15, <1>16
<1>18. TableInv'
  <2>1. TableSound(slots', tableSize') /\ tableSize' <= MaxEntries
    BY <1>6, <1>10 DEF TableInv
  <2>2. ret' = "none" /\ hung' = hung /\ hung \in BOOLEAN
    BY DEF TableInv, Returns
  <2> QED  BY <2>1, <2>2 DEF TableInv
<1> QED  BY <1>17, <1>18 DEF Returns

\* A table of unused slots.
LEMMA BlankIsSound ==
  ASSUME TableInv, NEW n \in Nat, PowerOfTwo(n), slots' = Blank(n), tableSize' = 0, Returns("none")
  PROVE  TableInv' /\ ret' = "none" /\ Counts(slots)' = [e \in Pairs |-> 0]
<1>1. PICK c : c = Blank(n)
  OBVIOUS
<1>2. IsTable(c) /\ Chained(c) /\ LiveSlots(c) = {} /\ Capacity(c) = n
  BY <1>1, BlankIs
<1>3. Cardinality(LiveSlots(c)) = 0 /\ Counts(c) = [e \in Pairs |-> 0]
  BY <1>2, NothingLive
<1>4. 0 * 100 <= Capacity(c) * Factor /\ 0 <= MaxEntries
  BY <1>2, HashTableAssumption
<1>5. TableSound(c, 0)
  BY <1>2, <1>3, <1>4 DEF TableSound
<1>6. ret' = "none" /\ hung' = hung /\ hung \in BOOLEAN
  BY DEF TableInv, Returns
<1>7. TableSound(slots', tableSize') /\ tableSize' <= MaxEntries
  BY <1>1, <1>4, <1>5
<1> QED  BY <1>1, <1>3, <1>6, <1>7 DEF TableInv

LEMMA FreeIsSound ==
  ASSUME TableInv, slots' = <<>>, tableSize' = 0, Returns("none")
  PROVE  TableInv' /\ ret' = "none" /\ Counts(slots)' = [e \in Pairs |-> 0]
<1>1. 0 * 100 <= Capacity(<<>>) * Factor /\ 0 <= MaxEntries
  BY EmptyTable, HashTableAssumption
<1>2. TableSound(<<>>, 0)
  BY <1>1, EmptyTable DEF TableSound
<1>3. ret' = "none" /\ hung' = hung /\ hung \in BOOLEAN
  BY DEF TableInv, Returns
<1>4. TableSound(slots', tableSize') /\ tableSize' <= MaxEntries
  BY <1>1, <1>2
<1> QED  BY <1>3, <1>4, EmptyTable DEF TableInv

LEMMA ClearIsSound ==
  ASSUME TableInv, Clear
  PROVE  TableInv' /\ ret' = "none" /\ Counts(slots)' = [e \in Pairs |-> 0]
<1>1. slots' = [i \in SlotsOf(slots) |-> Unused] /\ tableSize' = 0 /\ Returns("none")
  BY DEF Clear
<1>2. CASE slots = <<>>
  <2>1. slots' = <<>>
    BY <1>1, <1>2, EmptyTable
  <2> QED  BY <1>1, <2>1, FreeIsSound
<1>3. CASE slots # <<>>
  <2>1. PICK n \in Nat : n = Capacity(slots) /\ PowerOfTwo(n) /\ SlotsOf(slots) = 0..(n - 1)
    BY <1>3, SoundHas, TableHas DEF TableInv
  <2>2. slots' = Blank(n)
    BY <1>1, <2>1 DEF Blank
  <2> QED  BY <1>1, <2>1, <2>2, BlankIsSound
<1> QED  BY <1>2, <1>3

LEMMA ExpandIsSound ==
  ASSUME TableInv, ExpandTable
  PROVE  TableInv' /\ ret' = "none" /\ Counts(slots)' = Counts(slots)
<1>1. PICK c : c = Expanded(slots, tableSize)
  OBVIOUS
<1>2. slots' = c /\ tableSize' = tableSize /\ ret' = "none" /\ hung' = hung
  BY <1>1 DEF ExpandTable, Returns
<1>3. /\ IsTable(c) /\ Chained(c) /\ Counts(c) = Counts(slots) /\ Cardinality(LiveSlots(c)) = tableSize
      /\ (tableSize + 1) * 100 <= Capacity(c) * Factor
  BY <1>1, ExpandedIs DEF TableInv
<1>4. tableSize \in Nat /\ tableSize <= MaxEntries /\ hung \in BOOLEAN
  BY SoundHas DEF TableInv
<1>5. TableSound(c, tableSize)
  <2>1. PICK x \in Nat : x = Capacity(c) * Factor
    BY <1>3, TableHas, HashTableAssumption
  <2> QED  BY <1>3, <1>4, <2>1 DEF TableSound
<1> QED  BY <1>2, <1>3, <1>4, <1>5 DEF TableInv

\* A call that leaves the table as it is.
LEMMA AskIsSound ==
  ASSUME TableInv, UNCHANGED <<slots, tableSize>>, NEW r \in TableValues \cup {"none", "true", "false"}, Returns(r)
  PROVE  TableInv' /\ ret' = r
<1>1. ret' = r /\ hung' = hung /\ slots' = slots /\ tableSize' = tableSize
  BY DEF Returns
<1>2. TableSound(slots', tableSize') /\ tableSize' <= MaxEntries
  BY <1>1 DEF TableInv
<1>3. hung' \in BOOLEAN
  BY <1>1 DEF TableInv
<1> QED  BY <1>1, <1>2, <1>3 DEF TableInv

(***************************************************************************)
(* The map                                                                 *)
(***************************************************************************)

LEMMA CountIs == Map!vars = <<Counts(slots), ret>>
BY DEF Map!vars, Counts, Where, Pairs

LEMMA MapIs ==
  /\ \A e : Map!Without(Counts(slots), e) = [Counts(slots) EXCEPT ![e] = @ - 1]
  /\ \A K \in SUBSET Keys : Map!EntriesOf(K) = {e \in Pairs : e[1] \in K /\ Counts(slots)[e] > 0}
<1>2. ASSUME NEW K \in SUBSET Keys
      PROVE  Map!EntriesOf(K) = {e \in Pairs : e[1] \in K /\ Counts(slots)[e] > 0}
  <2>1. Map!EntriesOf(K) = {e \in K \X TableValues : Counts(slots)[e] > 0}
    BY DEF Map!EntriesOf, Counts, Where, Pairs
  <2> QED  BY <2>1 DEF Pairs
<1> QED  BY <1>2 DEF Map!With, Map!Without

\* As long as a pair is not counted below zero it is counted in Nat.
LEMMA CountsAreNat ==
  ASSUME TableSound(slots, tableSize), NEW e \in Pairs
  PROVE  Counts(slots)[e] \in Nat
<1>1. CASE slots = <<>>
  BY <1>1, EmptyTable
<1>2. CASE slots # <<>>
  <2>1. Cardinality(Where(slots, e)) \in Nat
    BY <1>2, SoundHas, WhereIs
  <2> QED  BY <2>1 DEF Counts
<1> QED  BY <1>1, <1>2

MapStep == Map!Next \/ UNCHANGED Map!vars

LEMMA SilentStep ==
  ASSUME Silent
  PROVE  MapStep
BY CountIs DEF Silent, MapStep, Map!vars

LEMMA OtherStep ==
  ASSUME ret' = "none", Counts(slots)' = Counts(slots)
  PROVE  MapStep
<1>1. Map!Other
  BY DEF Map!Other, Counts, Where, Pairs
<1> QED  BY <1>1 DEF MapStep, Map!Next

LEMMA ClearStep ==
  ASSUME ret' = "none", Counts(slots)' = [e \in Pairs |-> 0]
  PROVE  MapStep
<1>1. Map!Clear
  BY DEF Map!Clear, Map!Empty, Counts, Where, Pairs
<1> QED  BY <1>1 DEF MapStep, Map!Next

LEMMA AddStep ==
  ASSUME NEW k \in Keys, NEW v \in TableValues, ret' = "none",
         Counts(slots)' = [Counts(slots) EXCEPT ![<<k, v>>] = @ + 1]
  PROVE  MapStep
<1>1. Map!Add(k, v)
  BY DEF Map!Add, Map!With, Counts, Where, Pairs
<1> QED  BY <1>1 DEF MapStep, Map!Next

LEMMA PutStep ==
  ASSUME NEW k \in Keys, NEW v \in TableValues, ret' = "none",
         NEW e \in Pairs, e[1] = k, Counts(slots)[e] > 0,
         Counts(slots)' = [[Counts(slots) EXCEPT ![e] = @ - 1] EXCEPT ![<<k, v>>] = @ + 1]
  PROVE  MapStep
<1>1. e \in Map!EntriesOf({k})
  BY MapIs
<1>2. Map!With(Map!Without(Counts(slots), e), <<k, v>>)
        = [[Counts(slots) EXCEPT ![e] = @ - 1] EXCEPT ![<<k, v>>] = @ + 1]
  BY DEF Map!With, Map!Without
<1>3. Map!Put(k, v)
  BY <1>1, <1>2 DEF Map!Put, Counts, Where, Pairs
<1> QED  BY <1>3 DEF MapStep, Map!Next

LEMMA RemovedStep ==
  ASSUME NEW k \in Keys, NEW K \in SUBSET Keys, ret' = "true",
         NEW e \in Pairs, e[1] \in K, Counts(slots)[e] > 0,
         Counts(slots)' = [Counts(slots) EXCEPT ![e] = @ - 1],
         Map!Remove(K) => MapStep
  PROVE  MapStep
<1>1. e \in Map!EntriesOf(K)
  BY MapIs
<1>2. Map!Without(Counts(slots), e) = Counts(slots)'
  BY DEF Map!Without
<1>3. Map!Remove(K)
  BY <1>1, <1>2 DEF Map!Remove, Counts, Where, Pairs
<1> QED  BY <1>3

LEMMA NotRemovedStep ==
  ASSUME NEW K \in SUBSET Keys, ret' = "false", UNCHANGED slots,
         \A e \in Pairs : e[1] \in K => Counts(slots)[e] = 0,
         Map!Remove(K) => MapStep
  PROVE  MapStep
<1>1. Map!EntriesOf(K) = {}
  BY MapIs
<1>2. Map!Remove(K)
  BY <1>1 DEF Map!Remove
<1> QED  BY <1>2

\* What RemoveByKey and RemoveByHash of the map are.
LEMMA RemovesAre ==
  ASSUME NEW k \in Keys
  PROVE  /\ Map!Remove({k}) => MapStep
         /\ Map!Remove({j \in Keys : Lifted(j) = Lifted(k)}) => MapStep
<1>1. Map!Remove({k}) => Map!RemoveByKey(k)
  BY DEF Map!RemoveByKey
<1>2. Map!Remove({j \in Keys : Lifted(j) = Lifted(k)}) => Map!RemoveByHash(k)
  BY DEF Map!RemoveByHash
<1>3. Map!RemoveByKey(k) \/ Map!RemoveByHash(k) => Map!Next
  BY DEF Map!Next
<1> QED  BY <1>1, <1>2, <1>3 DEF MapStep

\* add_element_by_key, through every expansion, adds the pair.
LEMMA TableAdds ==
  ASSUME TableInv, NEW k \in Keys, NEW v \in TableValues, AddElement(k, v)
  PROVE  TableInv' /\ MapStep
BY AddIsSound, SilentStep, AddStep

\* table[k] = v replaces what a search finds, and adds where it finds nothing.
LEMMA PutRefines ==
  ASSUME TableInv, NEW k \in Keys, NEW v \in TableValues, SearchOrInsert(k, v)
  PROVE  TableInv' /\ MapStep
<1>1. CASE Hangs
  <2>1. Silent /\ TableInv'
    BY <1>1 DEF Hangs, Silent, TableInv
  <2> QED  BY <2>1, SilentStep
<1>2. ASSUME NEW i \in Hit(KeyAt(slots, k)), slots' = [slots EXCEPT ![i].value = v],
             UNCHANGED tableSize, Returns("none")
      PROVE  TableInv' /\ MapStep
  <2>1. /\ TableInv' /\ ret' = "none"
        /\ \E e \in Pairs : /\ e[1] = k /\ Counts(slots)[e] > 0
                            /\ Counts(slots)' = [[Counts(slots) EXCEPT ![e] = @ - 1] EXCEPT ![<<k, v>>] = @ + 1]
    BY <1>2, PutIsSound
  <2>2. PICK e \in Pairs :
          /\ e[1] = k /\ Counts(slots)[e] > 0
          /\ Counts(slots)' = [[Counts(slots) EXCEPT ![e] = @ - 1] EXCEPT ![<<k, v>>] = @ + 1]
    BY <2>1
  <2>3. MapStep
    BY <2>1, <2>2, PutStep
  <2> QED  BY <2>1, <2>3
<1>3. CASE Miss(KeyAt(slots, k)) /\ AddElement(k, v)
  BY <1>3, TableAdds
<1> QED  BY <1>1, <1>2, <1>3 DEF SearchOrInsert

LEMMA TableRemoves ==
  ASSUME TableInv, NEW k \in Keys, RemoveElementByKey(k) \/ RemoveElementByHash(k)
  PROVE  TableInv' /\ MapStep
<1>1. CASE Hangs
  <2>1. Silent /\ TableInv'
    BY <1>1 DEF Hangs, Silent, TableInv
  <2> QED  BY <2>1, SilentStep
<1>2. ASSUME NEW i \in Hit(KeyAt(slots, k)), MarkRemoved(i), Returns("true")
      PROVE  TableInv' /\ MapStep
  <2>1. IsTable(slots) /\ i \in LiveSlots(slots) /\ slots[i].key = k
    BY SearchHits
  <2>2. /\ TableInv' /\ ret' = "true"
        /\ Counts(slots)' = [Counts(slots) EXCEPT ![<<slots[i].key, slots[i].value>>] = @ - 1]
    BY <1>2, <2>1, MarkIsSound
  <2>3. PICK e \in Pairs : e = <<slots[i].key, slots[i].value>> /\ Counts(slots)[e] > 0 /\ e[1] \in {k}
    <3>1. PICK p : p = <<slots[i].key, slots[i].value>>
      OBVIOUS
    <3>2. p \in Pairs /\ Counts(slots)[p] > 0 /\ p[1] = k
      BY <2>1, <3>1, Counted
    <3> QED  BY <3>1, <3>2
  <2>4. Counts(slots)' = [Counts(slots) EXCEPT ![e] = @ - 1] /\ {k} \in SUBSET Keys /\ (Map!Remove({k}) => MapStep)
    BY <2>2, <2>3, RemovesAre
  <2> QED  BY <2>2, <2>3, <2>4, RemovedStep
<1>3. ASSUME NEW i \in Hit(HashAt(slots, k)), MarkRemoved(i), Returns("true")
      PROVE  TableInv' /\ MapStep
  <2>0. PICK K : K = {j \in Keys : Lifted(j) = Lifted(k)}
    OBVIOUS
  <2>1. IsTable(slots) /\ i \in LiveSlots(slots) /\ Lifted(slots[i].key) = Lifted(k)
    BY HashHits
  <2>2. /\ TableInv' /\ ret' = "true"
        /\ Counts(slots)' = [Counts(slots) EXCEPT ![<<slots[i].key, slots[i].value>>] = @ - 1]
    BY <1>3, <2>1, MarkIsSound
  <2>3. PICK e \in Pairs : e = <<slots[i].key, slots[i].value>> /\ Counts(slots)[e] > 0 /\ e[1] \in K
    <3>1. PICK p : p = <<slots[i].key, slots[i].value>>
      OBVIOUS
    <3>2. p \in Pairs /\ Counts(slots)[p] > 0 /\ p[1] = slots[i].key /\ p[1] \in Keys
      BY <2>1, <3>1, Counted
    <3> QED  BY <2>0, <2>1, <3>1, <3>2
  <2>4. Counts(slots)' = [Counts(slots) EXCEPT ![e] = @ - 1] /\ K \in SUBSET Keys /\ (Map!Remove(K) => MapStep)
    BY <2>0, <2>2, <2>3, RemovesAre
  <2> QED  BY <2>2, <2>3, <2>4, RemovedStep
<1>4. ASSUME Miss(KeyAt(slots, k)), UNCHANGED <<slots, tableSize>>, Returns("false")
      PROVE  TableInv' /\ MapStep
  <2>1. NoneOf(k)
    BY <1>4, SearchMisses
  <2>2. TableInv' /\ ret' = "false"
    BY <1>4, AskIsSound
  <2>3. \A e \in Pairs : e[1] \in {k} => Counts(slots)[e] = 0
    BY <2>1 DEF NoneOf
  <2>4. {k} \in SUBSET Keys /\ (Map!Remove({k}) => MapStep)
    BY RemovesAre
  <2> QED  BY <1>4, <2>2, <2>3, <2>4, NotRemovedStep
<1>5. ASSUME Miss(HashAt(slots, k)), UNCHANGED <<slots, tableSize>>, Returns("false")
      PROVE  TableInv' /\ MapStep
  <2>0. PICK K : K = {j \in Keys : Lifted(j) = Lifted(k)}
    OBVIOUS
  <2>1. NoneLike(k)
    BY <1>5, HashMisses
  <2>2. TableInv' /\ ret' = "false"
    BY <1>5, AskIsSound
  <2>3. \A e \in Pairs : e[1] \in K => Counts(slots)[e] = 0
    BY <2>0, <2>1 DEF NoneLike
  <2>4. K \in SUBSET Keys /\ (Map!Remove(K) => MapStep)
    BY <2>0, RemovesAre
  <2> QED  BY <1>5, <2>2, <2>3, <2>4, NotRemovedStep
<1> QED
  BY <1>1, <1>2, <1>3, <1>4, <1>5 DEF RemoveElementByKey, RemoveElementByHash, RemoveElement

\* A search that returns finds the value of an entry of the key, if there is one.
LEMMA SearchRefines ==
  ASSUME TableInv, NEW k \in Keys, Search(k)
  PROVE  TableInv' /\ MapStep
<1>1. CASE Hangs
  <2>1. Silent /\ TableInv'
    BY <1>1 DEF Hangs, Silent, TableInv
  <2> QED  BY <2>1, SilentStep
<1>2. ASSUME NEW i \in Hit(KeyAt(slots, k)), UNCHANGED <<slots, tableSize>>, Returns(slots[i].value)
      PROVE  TableInv' /\ MapStep
  <2>1. IsTable(slots) /\ i \in LiveSlots(slots) /\ slots[i].key = k
    BY SearchHits
  <2>2. PICK e \in Pairs : e = <<slots[i].key, slots[i].value>> /\ Counts(slots)[e] > 0
    BY <2>1, Counted
  <2>3. e \in Map!EntriesOf({k}) /\ e[2] = slots[i].value
    BY <2>1, <2>2, MapIs
  <2>4. TableInv' /\ ret' = slots[i].value
    BY <1>2, <2>1, Counted, AskIsSound
  <2>5. Map!Search(k)
    BY <1>2, <2>3, <2>4 DEF Map!Search
  <2> QED  BY <2>4, <2>5 DEF MapStep, Map!Next
<1>3. ASSUME Miss(KeyAt(slots, k)), UNCHANGED <<slots, tableSize>>, Returns("none")
      PROVE  TableInv' /\ MapStep
  <2>1. TableInv' /\ ret' = "none"
    BY <1>3, AskIsSound
  <2>2. Counts(slots)' = Counts(slots)
    BY <1>3
  <2> QED  BY <2>1, <2>2, OtherStep
<1> QED  BY <1>1, <1>2, <1>3 DEF Search

LEMMA InitIsSound == TableInit => TableInv /\ Map!Init
<1> SUFFICES ASSUME TableInit PROVE TableInv /\ Map!Init
  OBVIOUS
<1>1. slots = <<>> /\ tableSize = 0 /\ ret = "none" /\ hung = FALSE
  BY DEF TableInit
<1>2. 0 * 100 <= Capacity(<<>>) * Factor /\ 0 <= MaxEntries
  BY EmptyTable, HashTableAssumption
<1>3. TableSound(slots, tableSize) /\ tableSize <= MaxEntries
  BY <1>1, <1>2, EmptyTable DEF TableSound
<1>4. Counts(slots) = Map!Empty
  BY <1>1, EmptyTable DEF Map!Empty, Pairs
<1>5. Map!Init
  BY <1>1, <1>4 DEF Map!Init, Counts, Where, Pairs
<1>6. hung \in BOOLEAN
  BY <1>1
<1> QED  BY <1>1, <1>3, <1>5, <1>6 DEF TableInv

\* Every call keeps the invariant, and is a call of the map or does not return.
LEMMA NextIsSound == TableInv /\ [TableNext]_tableVars => TableInv' /\ MapStep
<1> SUFFICES ASSUME TableInv, [TableNext]_tableVars PROVE TableInv' /\ MapStep
  OBVIOUS
<1>1. ASSUME NEW n \in InitialSizes, InitTable(n) PROVE TableInv' /\ MapStep
  <2>1. PICK m \in Nat : m = TableSize(n) /\ PowerOfTwo(m)
    BY HashTableAssumption, TableSizeIs
  <2>2. slots' = Blank(m) /\ tableSize' = 0 /\ Returns("none")
    BY <1>1, <2>1 DEF InitTable
  <2> QED  BY <2>1, <2>2, BlankIsSound, ClearStep
<1>2. ASSUME NEW k \in Keys, NEW v \in TableValues, AddElement(k, v) PROVE TableInv' /\ MapStep
  BY <1>2, TableAdds
<1>3. ASSUME NEW k \in Keys, NEW v \in TableValues, SearchOrInsert(k, v) PROVE TableInv' /\ MapStep
  BY <1>3, PutRefines
<1>4. ASSUME NEW k \in Keys, RemoveElementByKey(k) \/ RemoveElementByHash(k) PROVE TableInv' /\ MapStep
  BY <1>4, TableRemoves
<1>5. ASSUME NEW k \in Keys, Search(k) PROVE TableInv' /\ MapStep
  BY <1>5, SearchRefines
<1>6. CASE ExpandTable
  BY <1>6, ExpandIsSound, OtherStep
<1>7. CASE Clear
  BY <1>7, ClearIsSound, ClearStep
<1>8. CASE FreeTable
  <2>1. slots' = <<>> /\ tableSize' = 0 /\ Returns("none")
    BY <1>8 DEF FreeTable
  <2> QED  BY <2>1, FreeIsSound, ClearStep
<1>9. CASE UNCHANGED tableVars
  <2>1. UNCHANGED <<slots, tableSize, ret, hung>>
    BY <1>9 DEF tableVars
  <2>2. Silent /\ TableInv'
    BY <2>1 DEF Silent, TableInv
  <2> QED  BY <2>2, SilentStep
<1> QED  BY <1>1, <1>2, <1>3, <1>4, <1>5, <1>6, <1>7, <1>8, <1>9 DEF TableNext

LEMMA AlwaysSound == TableSpec => []TableInv
BY InitIsSound, NextIsSound, PTL DEF TableSpec

\* The slots and the answers keep their types, through every expansion.
THEOREM TableKeepsTypes == TableSpec => []TableTypeOK
<1>1. TableInv => TableTypeOK
  <2> SUFFICES ASSUME TableInv PROVE TableTypeOK
    OBVIOUS
  <2>1. ASSUME slots # <<>> PROVE SlotsOf(slots) = 0..(Capacity(slots) - 1)
                                  /\ \A i \in SlotsOf(slots) : slots[i] \in Slot
    BY <2>1, SoundHas, TableHas DEF TableInv
  <2>2. slots = <<>> => SlotsOf(slots) = {}
    BY EmptyTable
  <2>3. tableSize \in 0..MaxEntries
    BY SoundHas, HashTableAssumption DEF TableInv
  <2>4. ret \in TableValues \cup {"none", "true", "false"} /\ hung \in BOOLEAN
    BY DEF TableInv
  <2> QED  BY <2>1, <2>2, <2>3, <2>4 DEF TableTypeOK, Slot
<1> QED  BY <1>1, AlwaysSound, PTL

\* table->size counts the live entries and stays within the load factor, however adds,
\* removals and expansions follow each other (add_element_by_key, expand_table).
THEOREM LoadStaysBounded == TableSpec => []LoadBound
<1>1. TableInv => LoadBound
  BY DEF TableInv, TableSound, LoadBound
<1> QED  BY <1>1, AlwaysSound, PTL

\* No unused slot lies on the way of a probe to its entry: removals leave a mark, and
\* a rehash builds every chain anew (remove_element, expand_table).
THEOREM ChainsStayWhole == TableSpec => []EntriesReachable
<1>1. TableInv => EntriesReachable
  <2> SUFFICES ASSUME TableInv PROVE EntriesReachable
    OBVIOUS
  <2>1. CASE slots = <<>>
    BY <2>1, EmptyTable DEF EntriesReachable
  <2>2. CASE slots # <<>>
    BY <2>2, SoundHas DEF TableInv, EntriesReachable, Chained
  <2> QED  BY <2>1, <2>2
<1> QED  BY <1>1, AlwaysSound, PTL

\* A probe by growing increments visits every slot of a table within as many steps as
\* it has slots, for every power of two (_advance_table_it).
THEOREM ProbesCover == TableSpec => []ProbeCoversTable
<1>1. TableInv => ProbeCoversTable
  <2> SUFFICES ASSUME TableInv PROVE ProbeCoversTable
    OBVIOUS
  <2>1. CASE slots = <<>>
    BY <2>1, EmptyTable DEF ProbeCoversTable
  <2>2. CASE slots # <<>>
    <3>1. /\ Capacity(slots) \in Nat \ {0} /\ PowerOfTwo(Capacity(slots))
          /\ SlotsOf(slots) = 0..(Capacity(slots) - 1)
      BY <2>2, SoundHas, TableHas DEF TableInv
    <3> QED  BY <3>1, ProbeIsOnto DEF ProbeCoversTable
  <2> QED  BY <2>1, <2>2
<1> QED  BY <1>1, AlwaysSound, PTL

\* As long as its calls return, the table is a map: no entry is lost, doubled or found
\* under a wrong key, for every set of keys and every way their hashes collide.
THEOREM TableImplementsMap == TableSpec => BehavesAsMultiMap
<1>1. MapStep => [Map!Next]_(Map!vars)
  BY DEF MapStep
<1> QED
  BY <1>1, InitIsSound, NextIsSound, AlwaysSound, PTL DEF TableSpec, BehavesAsMultiMap, Map!Spec

(***************************************************************************)
(* The containers side by side                                             *)
(***************************************************************************)

allVars == <<part, tableVars, setState, chunkVars, listVars, arrayVars>>

\* A behaviour of the run is one of each container: the container that was chosen takes
\* its own steps and the others stutter.
THEOREM EachContainerRuns ==
  Spec => TableSpec /\ ChunkSpec /\ ListSpec /\ ArraySpec /\ Sets!SetSpec
<1>1. Init => TableInit /\ ChunkInit /\ ListInit /\ ArrayInit /\ Sets!SetInit
  BY DEF Init
<1>2. [Next]_allVars => [TableNext]_tableVars
  BY DEF Next, allVars
<1>3. [Next]_allVars => [ChunkNext]_chunkVars
  BY DEF Next, allVars
<1>4. [Next]_allVars => [ListNext]_listVars
  BY DEF Next, allVars
<1>5. [Next]_allVars => [ArrayNext]_arrayVars
  BY DEF Next, allVars
<1>6. [Next]_allVars => [Sets!SetNext]_(Sets!setVars)
  BY DEF Next, allVars, setState, Sets!setVars, Sets!arrayVars
<1> QED  BY <1>1, <1>2, <1>3, <1>4, <1>5, <1>6, PTL DEF Spec, allVars, TableSpec, ChunkSpec, ListSpec, ArraySpec, Sets!SetSpec

\* Table, list and array keep the types of their memory and fields, whatever fails.
THEOREM ContainersKeepTypes == Spec => []ContainersTypeOK
BY EachContainerRuns, TableKeepsTypes, ChainsAlwaysAgree, ArrayKeepsBlock, PTL DEF ContainersTypeOK

\* The proofs about SortedSet, with the array and the values of the run's set.
S == INSTANCE ContainersProofs WITH
  arr <- setArray, arrayCall <- setCall, arrayFault <- setFault,
  hasCompare <- setCompare, ArrayValues <- 1..4, ArrayRanges <- {}

\* What the instance assumes of its constants.
LEMMA RunAssumption == S!ArrayAssumption /\ S!ListAssumption /\ 1..4 \subseteq Int
<1>1. S!ListAssumption
  BY ListAssumption DEF S!ListAssumption
<1>2. S!ArrayAssumption
  BY ArrayAssumption DEF S!ArrayAssumption
<1>3. 1..4 \subseteq Int
  OBVIOUS
<1> QED  BY <1>1, <1>2, <1>3

\* Both instances of the set's module take the same steps.
LEMMA SameSearch ==
  ASSUME NEW v
  PROVE  Sets!NearestIndexOf(v) = S!NearestIndexOf(v)
BY DEF Sets!NearestIndexOf, S!NearestIndexOf, Sets!BinarySearch, S!BinarySearch, Sets!Bounds,
    S!Bounds, Sets!Middle, S!Middle, Sets!Compare, S!Compare

LEMMA SameCalls ==
  /\ \A op, i, n, s : Sets!ArrayCalled(op, i, n, s) = S!ArrayCalled(op, i, n, s)
  /\ \A new : Sets!Keeps(new) = S!Keeps(new)
  /\ Sets!Faults = S!Faults /\ Sets!Refused = S!Refused /\ Sets!NoArray = S!NoArray
  /\ \A n : Sets!Block(n) = S!Block(n)
  /\ Sets!ArrayCounts = S!ArrayCounts
BY DEF Sets!ArrayCalled, S!ArrayCalled, Sets!Keeps, S!Keeps, Sets!Faults, S!Faults,
    Sets!Refused, S!Refused, Sets!NoArray, S!NoArray, Sets!Block, S!Block,
    Sets!ArrayCounts, S!ArrayCounts
\* The operators both instances take their steps by are the same.
LEMMA SameArrayCalls ==
  ASSUME NEW i, NEW n, NEW s
  PROVE  /\ Sets!ArrayInsertRange(i, s) = S!ArrayInsertRange(i, s)
         /\ Sets!ArrayAddRange(i, s) = S!ArrayAddRange(i, s)
         /\ Sets!ArrayReserve(n) = S!ArrayReserve(n)
         /\ Sets!ArrayResize(n) = S!ArrayResize(n)
         /\ Sets!ArrayRemove(i, n) = S!ArrayRemove(i, n)
         /\ Sets!Removed(i, n) = S!Removed(i, n)
         /\ Sets!ArrayShrink = S!ArrayShrink
         /\ Sets!ArrayClear = S!ArrayClear
         /\ Sets!ArrayFree = S!ArrayFree
<1>1. Sets!ArrayInsertElements("insert", i, Len(s), s) = S!ArrayInsertElements("insert", i, Len(s), s)
  BY DEF Sets!ArrayInsertElements, S!ArrayInsertElements, Sets!ArrayCalled, S!ArrayCalled,
    Sets!Keeps, S!Keeps, Sets!Faults, S!Faults, Sets!Opened, S!Opened, Sets!HasRoom, S!HasRoom,
    Sets!Larger, S!Larger, Sets!Grown, S!Grown, Sets!Block, S!Block, Sets!CeilExp2, S!CeilExp2,
    Sets!PowerOfTwo, S!PowerOfTwo
<1>2. Sets!ArrayInsertRange(i, s) = S!ArrayInsertRange(i, s)
       /\ Sets!ArrayAddRange(i, s) = S!ArrayAddRange(i, s)
  BY <1>1 DEF Sets!ArrayInsertRange, S!ArrayInsertRange, Sets!ArrayAddRange, S!ArrayAddRange,
    Sets!NoMemory, S!NoMemory, Sets!HasRoom, S!HasRoom, Sets!Refused, S!Refused,
    Sets!ArrayCalled, S!ArrayCalled, Sets!Keeps, S!Keeps, Sets!Faults, S!Faults,
    Sets!NoArray, S!NoArray
<1>3. Sets!ArrayReserve(n) = S!ArrayReserve(n)
  BY DEF Sets!ArrayReserve, S!ArrayReserve, Sets!Refused, S!Refused, Sets!Block, S!Block,
    Sets!ArrayCalled, S!ArrayCalled, Sets!Keeps, S!Keeps, Sets!Faults, S!Faults,
    Sets!NoArray, S!NoArray
<1>4. Sets!ArrayResize(n) = S!ArrayResize(n)
  BY DEF Sets!ArrayResize, S!ArrayResize, Sets!Refused, S!Refused, Sets!Block, S!Block,
    Sets!ArrayCalled, S!ArrayCalled, Sets!Keeps, S!Keeps, Sets!Faults, S!Faults,
    Sets!NoArray, S!NoArray
<1>5. /\ Sets!Removed(i, n) = S!Removed(i, n)
      /\ Sets!ArrayRemove(i, n) = S!ArrayRemove(i, n)
  BY DEF Sets!ArrayRemove, S!ArrayRemove, Sets!Removed, S!Removed, Sets!ArrayCalled,
    S!ArrayCalled, Sets!Keeps, S!Keeps, Sets!Faults, S!Faults, Sets!NoArray, S!NoArray
<1>6. Sets!ArrayShrink = S!ArrayShrink /\ Sets!ArrayClear = S!ArrayClear /\ Sets!ArrayFree = S!ArrayFree
  BY DEF Sets!ArrayShrink, S!ArrayShrink, Sets!ArrayClear, S!ArrayClear, Sets!ArrayFree,
    S!ArrayFree, Sets!Refused, S!Refused, Sets!Block, S!Block, Sets!ArrayCalled,
    S!ArrayCalled, Sets!Keeps, S!Keeps, Sets!Faults, S!Faults, Sets!NoArray, S!NoArray
<1> QED  BY <1>2, <1>3, <1>4, <1>5, <1>6

LEMMA SameSteps == Sets!SetNext = S!SetNext /\ Sets!SetInit = S!SetInit /\ Sets!setVars = S!setVars
<1>1. ASSUME NEW v PROVE Sets!SetAdd(v) = S!SetAdd(v)
  BY SameSearch, SameArrayCalls DEF Sets!SetAdd, S!SetAdd, Sets!SetFaults, S!SetFaults, Sets!Readable, S!Readable,
    Sets!ArrayCalled, S!ArrayCalled, Sets!Keeps, S!Keeps, Sets!Faults, S!Faults,
    Sets!NoArray, S!NoArray
<1>2. ASSUME NEW v PROVE Sets!SetInsertAnew(v) = S!SetInsertAnew(v)
  BY DEF Sets!SetInsertAnew, S!SetInsertAnew, Sets!ArrayCounts, S!ArrayCounts, Sets!ArrayCalled,
    S!ArrayCalled, Sets!Keeps, S!Keeps, Sets!Faults, S!Faults, Sets!NoArray, S!NoArray
<1>3. ASSUME NEW v PROVE Sets!SetRemove(v) = S!SetRemove(v)
  BY SameSearch, SameArrayCalls DEF Sets!SetRemove, S!SetRemove, Sets!SetFaults, S!SetFaults, Sets!Readable, S!Readable,
    Sets!ArrayCalled, S!ArrayCalled, Sets!Keeps, S!Keeps, Sets!Faults, S!Faults,
    Sets!NoArray, S!NoArray
<1>4. ASSUME NEW v PROVE Sets!SetInsert(v) = S!SetInsert(v)
  BY <1>1, <1>2 DEF Sets!SetInsert, S!SetInsert
<1>5. Sets!SetFree = S!SetFree
  BY SameArrayCalls DEF Sets!SetFree, S!SetFree
<1>6. Sets!SetKeepsCompare = S!SetKeepsCompare
  BY <1>3, SameArrayCalls DEF Sets!SetKeepsCompare, S!SetKeepsCompare, Sets!SetResize, S!SetResize, Sets!ArrayCounts,
    S!ArrayCounts
<1>7. Sets!SetInit = S!SetInit /\ Sets!setVars = S!setVars
  BY DEF Sets!SetInit, S!SetInit, Sets!ArrayInit, S!ArrayInit, Sets!NoCall, S!NoCall,
    Sets!NoArray, S!NoArray, Sets!setVars, S!setVars, Sets!arrayVars, S!arrayVars
<1> QED  BY <1>4, <1>5, <1>6, <1>7 DEF Sets!SetNext, S!SetNext

\* What the set's properties say in both instances.
LEMMA SameSetProperties ==
  /\ S!SearchIsExact => Sets!SearchIsExact
  /\ S!SetOf!Init => Sets!SetOf!Init
  /\ [S!SetOf!Next]_(S!SetOf!vars) => [Sets!SetOf!Next]_(Sets!SetOf!vars)
<1>1. ASSUME S!SearchIsExact PROVE Sets!SearchIsExact
  <2>1. Sets!Members = S!Members
    BY DEF Sets!Members, S!Members
  <2>2. ASSUME setArray.size > 0, NEW v \in 1..4
        PROVE  /\ Sets!SetContains(v) <=> v \in Sets!Members
               /\ Sets!NearestIndexOf(v).index = Sets!Cardinality({w \in Sets!Members : w < v})
    <3>1. /\ S!SetContains(v) <=> v \in S!Members
          /\ S!NearestIndexOf(v).index = S!Cardinality({w \in S!Members : w < v})
      BY <1>1, <2>2 DEF S!SearchIsExact
    <3>2. {w \in Sets!Members : w < v} = {w \in S!Members : w < v}
      BY <2>1
    <3>3. Sets!SetContains(v) <=> S!SetContains(v)
      BY SameSearch DEF Sets!SetContains, S!SetContains
    <3>4. \A T : Sets!Cardinality(T) = S!Cardinality(T)
      BY DEF Sets!Cardinality, S!Cardinality
    <3> QED  BY <2>1, <3>1, <3>2, <3>3, <3>4, SameSearch
  <2>3. \A i, j \in 1..setArray.size : i < j => setArray.cells[i] < setArray.cells[j]
    BY <1>1 DEF S!SearchIsExact
  <2> QED  BY <2>2, <2>3 DEF Sets!SearchIsExact
<1>2. S!SetOf!Init => Sets!SetOf!Init
  BY DEF Sets!SetOf!Init, S!SetOf!Init, Sets!Members, S!Members
<1>3. [S!SetOf!Next]_(S!SetOf!vars) => [Sets!SetOf!Next]_(Sets!SetOf!vars)
  BY DEF Sets!SetOf!Next, S!SetOf!Next, Sets!SetOf!vars, S!SetOf!vars, Sets!SetOf!Insert,
    S!SetOf!Insert, Sets!SetOf!Remove, S!SetOf!Remove, Sets!SetOf!Truncate,
    S!SetOf!Truncate, Sets!SetOf!Other, S!SetOf!Other, Sets!Members, S!Members
<1> QED  BY <1>1, <1>2, <1>3

LEMMA RunSetSteps ==
  /\ Sets!SetInit => S!SetInv /\ Sets!SetOf!Init
  /\ S!SetInv /\ [Sets!SetNext]_(Sets!setVars) =>
       S!SetInv' /\ [Sets!SetOf!Next]_(Sets!SetOf!vars)
<1>1. Sets!SetInit => S!SetInv /\ Sets!SetOf!Init
  BY S!SetBegins, RunAssumption, SameSteps, SameSetProperties
<1>2. ASSUME S!SetInv, [Sets!SetNext]_(Sets!setVars)
      PROVE  S!SetInv' /\ [Sets!SetOf!Next]_(Sets!SetOf!vars)
  <2>1. [S!SetNext]_(S!setVars)
    BY <1>2, SameSteps DEF Sets!setVars, S!setVars, Sets!arrayVars, S!arrayVars
  <2>2. S!SetStep
    BY <1>2, <2>1, S!SetSteps, RunAssumption
  <2> QED  BY <2>2, SameSetProperties DEF S!SetStep
<1> QED  BY <1>1, <1>2

\* However the set is used in the run, its elements ascend and every search finds exactly
\* the members (binary_search, nearest_index_of).
THEOREM RunSearchesExactly == Spec => []SetIsSearched
<1>1. S!SetInv => SetIsSearched
  BY S!SetIsExact, RunAssumption, SameSetProperties DEF SetIsSearched
<1>2. Sets!SetSpec => []SetIsSearched
  BY <1>1, RunSetSteps, PTL DEF Sets!SetSpec
<1> QED  BY <1>2, EachContainerRuns, PTL

\* The run's set holds what was inserted and not removed (insert_element, remove_element).
THEOREM RunKeepsMembers == Spec => SetKeepsMembers
<1>1. Sets!SetSpec => Sets!SetHoldsMembers
  BY RunSetSteps, PTL DEF Sets!SetSpec, Sets!SetHoldsMembers, Sets!SetOf!Spec
<1> QED  BY <1>1, EachContainerRuns DEF SetKeepsMembers
=============================================================================
