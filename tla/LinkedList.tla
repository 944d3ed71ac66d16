----------------------------- MODULE LinkedList -----------------------------
(***************************************************************************)
(* linked_list.hpp: nodes from the allocator, chained in both directions,  *)
(* with the ends and the number of nodes kept in the list.                 *)
(*                                                                         *)
(* An index counts from 0 as in the code.  The allocator returns the       *)
(* lowest free address; the code never compares addresses.                 *)
(***************************************************************************)
EXTENDS Integers, Sequences, FiniteSets

CONSTANTS
  ListNodes,   \* bound: nodes that are allocated at a time
  ListValues,
  ListUnset,   \* what a new node holds
  ListRanges   \* the elements given to add_range, insert_range, add_at_*

ASSUME ListAssumption ==
  /\ ListNodes \in Nat
  /\ ListRanges \subseteq Seq(ListValues) \ {<<>>}

VARIABLES
  nodes,       \* the allocated nodes: address to next, previous, value
  first, last, listSize,
  listCall,    \* the latest call and its arguments
  listCrashed  \* whether a null node was dereferenced

listVars == <<nodes, first, last, listSize, listCall, listCrashed>>

Null      == 0
Addresses == 1..ListNodes
ListCounts == 0..ListNodes

ListTypeOK ==
  /\ DOMAIN nodes \subseteq Addresses
  /\ \A a \in DOMAIN nodes :
       nodes[a] \in [next : Addresses \cup {Null}, previous : Addresses \cup {Null},
                     value : ListValues \cup {ListUnset}]
  /\ first \in Addresses \cup {Null} /\ last \in Addresses \cup {Null}
  /\ listSize \in 0..ListNodes
  /\ listCrashed \in BOOLEAN

ListInit ==
  /\ nodes = <<>> /\ first = Null /\ last = Null /\ listSize = 0
  /\ listCall = [op |-> "init", at |-> 0, n |-> 0, s |-> <<>>]
  /\ listCrashed = FALSE

ListCalled(op, at, n, s) ==
  /\ ~listCrashed
  /\ listCall' = [op |-> op, at |-> at, n |-> n, s |-> s]
  /\ UNCHANGED listCrashed

SameList == UNCHANGED <<nodes, first, last, listSize>>

\* k steps along the chain of next or of previous, as every loop takes them.
Follow(from, link, k) ==
  LET step[j \in 0..k] ==
        IF j = 0 THEN from
        ELSE IF step[j - 1] = Null THEN Null ELSE nodes[step[j - 1]][link]
  IN step[k]

\* Variant: the walk from the front goes a node too far.
NthNodeNext(i) ==
  IF i < 0 \/ i >= listSize THEN Null
  ELSE IF i < listSize \div 2 THEN Follow(first, "next", i + 1)
       ELSE Follow(last, "previous", listSize - 1 - i)

\* From the end that is nearer.
NthNode(i) ==
  IF i < 0 \/ i >= listSize THEN Null
  ELSE IF i < listSize \div 2 THEN Follow(first, "next", i)
       ELSE Follow(last, "previous", listSize - 1 - i)

FreeAddresses == Addresses \ DOMAIN nodes
\* The j-th address the allocator returns.
Fresh(j) ==
  CHOOSE a \in FreeAddresses : Cardinality({b \in FreeAddresses : b < a}) = j - 1

\* Variant: the node behind the new ones keeps its previous.
SpliceOneWay(before, after, s) ==
  LET k == Len(s)
      address == [j \in 1..k |-> Fresh(j)]
      new(j) == [previous |-> IF j = 1 THEN before ELSE address[j - 1],
                 next     |-> IF j = k THEN after ELSE address[j + 1],
                 value    |-> s[j]]
  IN /\ k <= Cardinality(FreeAddresses)
     /\ nodes' = [a \in DOMAIN nodes \cup {address[j] : j \in 1..k} |->
                    IF a \in DOMAIN nodes
                    THEN [nodes[a] EXCEPT !.next = IF a = before THEN address[1] ELSE @]
                    ELSE new(CHOOSE j \in 1..k : address[j] = a)]
     /\ first' = IF before = Null THEN address[1] ELSE first
     /\ last' = IF after = Null THEN address[k] ELSE last
     /\ listSize' = listSize + k

\* New nodes with the values s, chained in between two neighbours.
Splice(before, after, s) ==
  LET k == Len(s)
      address == [j \in 1..k |-> Fresh(j)]
      new(j) == [previous |-> IF j = 1 THEN before ELSE address[j - 1],
                 next     |-> IF j = k THEN after ELSE address[j + 1],
                 value    |-> s[j]]
  IN /\ k <= Cardinality(FreeAddresses)
     /\ nodes' = [a \in DOMAIN nodes \cup {address[j] : j \in 1..k} |->
                    IF a \in DOMAIN nodes
                    THEN [nodes[a] EXCEPT !.next = IF a = before THEN address[1] ELSE @,
                                          !.previous = IF a = after THEN address[k] ELSE @]
                    ELSE new(CHOOSE j \in 1..k : address[j] = a)]
     /\ first' = IF before = Null THEN address[1] ELSE first
     /\ last' = IF after = Null THEN address[k] ELSE last
     /\ listSize' = listSize + k

Blanks(n) == [j \in 1..n |-> ListUnset]

ListAddElements(s) == Splice(last, Null, s)

\* The neighbours of the new nodes are the nodes at and before the index.
ListInsertElements(i, s) ==
  CASE i < 0 \/ i > listSize -> SameList
    [] i = listSize          -> ListAddElements(s)
    [] OTHER                 -> Splice(nodes[NthNode(i)].previous, NthNode(i), s)

\* add_elements, insert_elements: nothing happens for no elements.
ListGrow(i, n) ==
  /\ ListCalled("grow", i, n, <<>>)
  /\ IF n > 0 THEN ListInsertElements(i, Blanks(n)) ELSE SameList

\* add_range, add_at_end; insert_range, add_at_start.
ListAddRange(s) == ListCalled("insert", listSize, Len(s), s) /\ ListAddElements(s)
ListInsertRange(i, s) == ListCalled("insert", i, Len(s), s) /\ ListInsertElements(i, s)

\* Variant: size drops by the number asked for.
ListRemoveElementsCountsAsked(i, n) ==
  LET node    == NthNode(i)
      before  == nodes[node].previous
      after   == Follow(node, "next", n)
      removed == {Follow(node, "next", j) : j \in 0..(n - 1)} \ {Null}
  IN IF n <= 0 \/ i >= listSize THEN SameList
     ELSE /\ nodes' = [a \in DOMAIN nodes \ removed |->
                         [nodes[a] EXCEPT !.next = IF a = before THEN after ELSE @,
                                          !.previous = IF a = after THEN before ELSE @]]
          /\ first' = IF before = Null THEN after ELSE first
          /\ last' = IF after = Null THEN before ELSE last
          /\ listSize' = listSize - n

ListRemoveElements(i, n) ==
  LET node    == NthNode(i)
      before  == nodes[node].previous
      after   == Follow(node, "next", n)
      removed == {Follow(node, "next", j) : j \in 0..(n - 1)} \ {Null}
  IN IF n <= 0 \/ i >= listSize THEN SameList
     ELSE /\ nodes' = [a \in DOMAIN nodes \ removed |->
                         [nodes[a] EXCEPT !.next = IF a = before THEN after ELSE @,
                                          !.previous = IF a = after THEN before ELSE @]]
          /\ first' = IF before = Null THEN after ELSE first
          /\ last' = IF after = Null THEN before ELSE last
          /\ listSize' = listSize - Cardinality(removed)

\* Before the first element there is no node, and the one before it is read all
\* the same.
ListRemove(i, n) ==
  \/ /\ i >= 0 \/ n <= 0
     /\ ListCalled("remove", i, n, <<>>)
     /\ ListRemoveElements(i, n)
  \/ /\ i < 0 /\ n > 0 /\ ~listCrashed
     /\ listCrashed' = TRUE
     /\ listCall' = [op |-> "remove", at |-> i, n |-> n, s |-> <<>>]
     /\ SameList

\* In an empty list it asks for the node at -1.
ListRemoveFromEnd == ListRemove(listSize - 1, 1)

\* free and clear walk back from the last node.
FreeList ==
  /\ nodes' = [a \in DOMAIN nodes \ {Follow(last, "previous", j) : j \in 0..listSize} |-> nodes[a]]
  /\ first' = Null /\ last' = Null /\ listSize' = 0

ListResize(n) ==
  /\ ListCalled("resize", 0, n, <<>>)
  /\ CASE n = listSize             -> SameList
       [] n > listSize             -> ListAddElements(Blanks(n - listSize))
       [] n < listSize /\ n <= 0   -> FreeList
       [] OTHER                    -> ListRemoveElements(n, listSize - n)

ListFree == ListCalled("resize", 0, 0, <<>>) /\ FreeList

\* at(list, i) or list[i], and a store through it.
ListAssign(i, v) ==
  /\ i < listSize /\ ListCalled("assign", i, 1, <<v>>)
  /\ nodes' = [nodes EXCEPT ![NthNode(i)].value = v]
  /\ UNCHANGED <<first, last, listSize>>

ListNext ==
  \/ \E i \in ListCounts \cup {-1} : \/ \E n \in ListCounts : ListGrow(i, n)
                                    \/ \E s \in ListRanges : ListInsertRange(i, s)
  \/ \E s \in ListRanges : ListAddRange(s)
  \/ \E i \in ListCounts \cup {-1}, n \in ListCounts : ListRemove(i, n)
  \/ ListRemoveFromEnd
  \/ \E i \in ListCounts, s \in ListRanges : Len(s) = 1 /\ ListAssign(i, s[1])
  \/ \E n \in ListCounts : ListResize(n)
  \/ ListFree

ListSpec == ListInit /\ [][ListNext]_listVars

(***************************************************************************)
(* Properties                                                              *)
(***************************************************************************)

\* The chain from first and the chain from last are each other's reverse, they
\* are as long as size says, and they hold every node that is allocated: no
\* insertion, removal or resize tears, loops or leaks a part of the list.
ChainsAgree ==
  /\ {Follow(first, "next", j) : j \in 0..(listSize - 1)} = DOMAIN nodes
  /\ Cardinality(DOMAIN nodes) = listSize
  /\ Follow(first, "next", listSize) = Null
  /\ \A j \in 0..(listSize - 1) :
       Follow(last, "previous", j) = Follow(first, "next", listSize - 1 - j)
  /\ Follow(last, "previous", listSize) = Null

ListItems == [j \in 1..listSize |-> nodes[Follow(first, "next", j - 1)].value]

Line ==
  INSTANCE ItemSequence WITH
    Values <- ListValues \cup {ListUnset}, items <- ListItems, call <- listCall

RemovesBelowZero == listCall'.op = "remove" /\ listCall'.at < 0

\* Every call changes the sequence of elements as the header says, at the
\* position it was given and nowhere else, but one: a removal at a negative
\* position reads through a null node, and so does remove_from_end of an empty
\* list, of which the header says that it does nothing (linked_list.hpp:80).  No
\* other call in any state comes to a null node.
ListIsSequence ==
  Line!Init /\ [][IF listCrashed' THEN RemovesBelowZero ELSE Line!Next]_<<Line!vars, listCrashed>>
=============================================================================
