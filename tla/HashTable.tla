----------------------------- MODULE HashTable -----------------------------
(***************************************************************************)
(* hash_table.hpp: open addressing in an array of entries, each unused,    *)
(* removed, or holding the hash, key and value of an element.  The slots   *)
(* of an array of n entries are numbered 0..n-1; n is always a power of    *)
(* two, because init rounds up and expand_table doubles.                   *)
(*                                                                         *)
(* A probe that meets neither its key nor an unused slot goes round for    *)
(* ever: the variable hung records that the call never returned.           *)
(***************************************************************************)
EXTENDS Integers, FiniteSets, FiniteSetsExt, Bits

CONSTANTS
  Keys, TableValues,
  Hash,          \* table->hasher, the value before it is lifted to FIRST_HASH
  MinTableSize,  \* MIN_TABLE_SIZE
  Factor,        \* TABLE_SIZE_FACTOR
  InitialSizes,  \* sizes given to init
  MaxEntries     \* bound: live entries

ASSUME HashTableAssumption ==
  /\ Hash \in [Keys -> Nat]
  /\ MinTableSize \in Nat \ {0} /\ PowerOfTwo(MinTableSize) /\ Factor \in 1..99
  /\ MinTableSize * Factor >= 100   \* the least table holds an element
  /\ InitialSizes \subseteq Nat /\ MaxEntries \in Nat
  /\ {"none", "true", "false"} \cap TableValues = {}

VARIABLES
  slots,      \* table->data: the entries, <<>> while data.data is null
  tableSize,  \* table->size
  ret,        \* the answer of the latest call
  hung        \* whether a call is probing for ever

tableVars == <<slots, tableSize, ret, hung>>

FirstHash == 2
Unused    == [hash |-> 0]
Tombstone   == [hash |-> 1]
\* The hash a key is stored and looked up under (_iterate_table).
Lifted(k) == IF Hash[k] < FirstHash THEN Hash[k] + FirstHash ELSE Hash[k]
Entry(k, v) == [hash |-> Lifted(k), key |-> k, value |-> v]
Entries   == {Entry(k, v) : k \in Keys, v \in TableValues}

SlotsOf(d)    == DOMAIN d
Capacity(d) == Cardinality(SlotsOf(d))
Live(e)     == e.hash >= FirstHash
LiveSlots(d) == {i \in SlotsOf(d) : Live(d[i])}

TableTypeOK ==
  /\ slots = <<>> \/ SlotsOf(slots) = 0..(Capacity(slots) - 1)
  /\ \A i \in SlotsOf(slots) : slots[i] \in Entries \cup {Unused, Tombstone}
  /\ tableSize \in 0..MaxEntries
  /\ ret \in TableValues \cup {"none", "true", "false"}
  /\ hung \in BOOLEAN

(***************************************************************************)
(* Probing (_iterate_table and _advance_table_it): the increment grows by  *)
(* one with every step.  The index after k steps repeats after 2n of them. *)
(***************************************************************************)

\* Variant: the increment grows by two.
ProbeSquares(n, h, k) == (h + k * k) % n

Probe(n, h, k) == (h + (k * (k + 1)) \div 2) % n

\* The loop over d from hash h: the slot it is left at, if it is left at all.
LeftAt(d, h, Match(_)) ==
  LET n     == Capacity(d)
      stops == {k \in 0..(2 * n - 1) :
                  LET e == d[Probe(n, h, k)] IN e = Unused \/ Match(e)}
  IN IF stops = {} THEN {} ELSE {Probe(n, h, Min(stops))}

Never(e) == FALSE

\* Where the next element of hash h is put: the loop ends at an unused slot.
RoomAt(d, h) == LeftAt(d, h, Never)

(***************************************************************************)
(* Growing                                                                 *)
(***************************************************************************)

Blank(n) == [i \in 0..(n - 1) |-> Unused]

\* ceil_exp2, with init's default for 0.
TableSize(n)   == IF n = 0 THEN MinTableSize ELSE CeilExp2(n)

\* Variant: the table is expanded when it is already full.
NeedsExpandLate(n, live) == live * 100 >= n * 100

\* The two tests on the load, of add_element_by_key and of expand_table.
NeedsExpand(n, live)   == (live + 1) * 100 >= n * Factor
ExpandDoubles(n, live) == (live + 1) * 100 > n * Factor

ExpandedSize(n, live) ==
  Max({MinTableSize, IF ExpandDoubles(n, live) THEN 2 * n ELSE n})

\* Variant: the entries keep their index.
RehashCopies(d, n) == [i \in 0..(n - 1) |-> IF i \in LiveSlots(d) THEN d[i] ELSE Unused]

\* The live entries of d, in slot order, each added at the unused slot its probe
\* ends at.  There is room for all of them: no add expands the new table again.
Added(d, e) == [d EXCEPT ![CHOOSE x \in RoomAt(d, e.hash) : TRUE] = e]

Rehash(d, n) ==
  LET filled[i \in 0..Capacity(d)] ==
        IF i = 0 THEN Blank(n)
        ELSE IF Live(d[i - 1]) THEN Added(filled[i - 1], d[i - 1]) ELSE filled[i - 1]
  IN  filled[Capacity(d)]

Expanded(d, live) ==
  IF d = <<>> THEN Blank(TableSize(MinTableSize)) ELSE Rehash(d, ExpandedSize(Capacity(d), live))

\* The table an element is added to: add_element_by_key's first lines.
Roomy ==
  IF slots = <<>> THEN Blank(TableSize(MinTableSize))
  ELSE IF NeedsExpand(Capacity(slots), tableSize) THEN Expanded(slots, tableSize) ELSE slots

(***************************************************************************)
(* Operations                                                              *)
(***************************************************************************)

TableInit == slots = <<>> /\ tableSize = 0 /\ ret = "none" /\ hung = FALSE

Hangs == hung' = TRUE /\ UNCHANGED <<slots, tableSize, ret>>
Returns(r) == ret' = r /\ UNCHANGED hung

\* init of a table that holds no memory.
InitTable(n) ==
  /\ ~hung /\ slots = <<>>
  /\ slots' = Blank(TableSize(n)) /\ tableSize' = 0 /\ Returns("none")

ExpandTable ==
  /\ ~hung
  /\ slots' = Expanded(slots, tableSize) /\ UNCHANGED tableSize /\ Returns("none")

\* add_element_by_key, and the caller's store through the pointer it returns.
AddElement(k, v) ==
  /\ ~hung /\ tableSize < MaxEntries
  /\ LET d  == Roomy
         at == RoomAt(d, Lifted(k))
     IN \/ at = {} /\ Hangs
        \/ \E i \in at : /\ slots' = [d EXCEPT ![i] = Entry(k, v)]
                        /\ tableSize' = tableSize + 1 /\ Returns("none")

ByKey(k, e)  == Live(e) /\ e.hash = Lifted(k) /\ e.key = k
ByHash(k, e) == e.hash = Lifted(k)

\* The slots at which a search for k, and a removal by its hash, end.
KeyAt(d, k)  == LeftAt(d, Lifted(k), LAMBDA e : ByKey(k, e))
HashAt(d, k) == LeftAt(d, Lifted(k), LAMBDA e : ByHash(k, e))

\* What the loops of search and of the removals end in: an entry that matches,
\* an unused slot (or a table without slots), or no end.
Hit(at)  == {i \in at : slots[i] # Unused}
Miss(at) == slots = <<>> \/ \E i \in at : slots[i] = Unused
Lost(at) == slots # <<>> /\ at = {}

\* table[k] = v: search_or_insert.
SearchOrInsert(k, v) ==
  LET at == KeyAt(slots, k)
  IN /\ ~hung
     /\ \/ Lost(at) /\ Hangs
        \/ \E i \in Hit(at) : /\ slots' = [slots EXCEPT ![i].value = v]
                            /\ UNCHANGED tableSize /\ Returns("none")
        \/ Miss(at) /\ AddElement(k, v)

\* Variant: a removed entry is marked unused.
MarkUnused(i) == slots' = [slots EXCEPT ![i] = Unused] /\ tableSize' = tableSize - 1

\* Variant: the size goes down twice, as by a removal that also frees the key.
MarkTwice(i) == slots' = [slots EXCEPT ![i] = Tombstone] /\ tableSize' = tableSize - 2

MarkRemoved(i) == slots' = [slots EXCEPT ![i] = Tombstone] /\ tableSize' = tableSize - 1

RemoveElement(at) ==
  /\ ~hung
  /\ \/ Lost(at) /\ Hangs
     \/ \E i \in Hit(at) : MarkRemoved(i) /\ Returns("true")
     \/ Miss(at) /\ UNCHANGED <<slots, tableSize>> /\ Returns("false")

RemoveElementByKey(k)  == RemoveElement(KeyAt(slots, k))
RemoveElementByHash(k) == RemoveElement(HashAt(slots, k))

Search(k) ==
  LET at == KeyAt(slots, k)
  IN /\ ~hung
     /\ \/ Lost(at) /\ Hangs
        \/ \E i \in Hit(at) : UNCHANGED <<slots, tableSize>> /\ Returns(slots[i].value)
        \/ Miss(at) /\ UNCHANGED <<slots, tableSize>> /\ Returns("none")

Clear ==
  /\ ~hung
  /\ slots' = [i \in SlotsOf(slots) |-> Unused] /\ tableSize' = 0 /\ Returns("none")

FreeTable ==
  /\ ~hung
  /\ slots' = <<>> /\ tableSize' = 0 /\ Returns("none")

TableNext ==
  \/ \E n \in InitialSizes : InitTable(n)
  \/ \E k \in Keys : \/ \E v \in TableValues : AddElement(k, v) \/ SearchOrInsert(k, v)
                     \/ RemoveElementByKey(k) \/ RemoveElementByHash(k) \/ Search(k)
  \/ ExpandTable \/ Clear \/ FreeTable

TableSpec == TableInit /\ [][TableNext]_tableVars

(***************************************************************************)
(* Properties                                                              *)
(***************************************************************************)

\* table->size, which decides when to expand, counts the live entries, and they never
\* exceed the load factor, however adds, removals and expansions follow each other.
LoadBound ==
  /\ tableSize = Cardinality(LiveSlots(slots))
  /\ tableSize * 100 <= Capacity(slots) * Factor

\* No unused slot lies between the start of an entry's probe and the entry: a
\* removal or a rehash never cuts the chain that a search follows.
EntriesReachable ==
  LET n == Capacity(slots)
  IN \A i \in LiveSlots(slots) : \E k \in 0..(2 * n - 1) :
       /\ Probe(n, slots[i].hash, k) = i
       /\ \A j \in 0..(k - 1) : slots[Probe(n, slots[i].hash, j)] # Unused

\* A probe visits every slot within as many steps as there are slots, so it
\* ends whenever an unused slot is left.
ProbeCoversTable ==
  LET n == Capacity(slots)
  IN \A h \in SlotsOf(slots) : {Probe(n, h, k) : k \in SlotsOf(slots)} = SlotsOf(slots)

Map == INSTANCE MultiMap WITH
  count <- [e \in Keys \X TableValues |->
              Cardinality({i \in SlotsOf(slots) : Live(slots[i])
                                        /\ slots[i].key = e[1] /\ slots[i].value = e[2]})],
  Values <- TableValues,
  SameHash <- LAMBDA x, y : Lifted(x) = Lifted(y)

\* As long as every call returns, the table is a map: no entry is lost, doubled
\* or found under a wrong key across collisions, removals and expansions.
BehavesAsMultiMap == Map!Spec

(***************************************************************************)
(* A statement of the header that the code does not keep                   *)
(***************************************************************************)

\* "If no entry is found, returns nullptr" (search) and "expands the table
\* automatically when necessary" (add_element_by_key): every call returns.
EveryCallReturns == ~hung
=============================================================================
