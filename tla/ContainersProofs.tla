-------------------------- MODULE ContainersProofs --------------------------
(***************************************************************************)
(* Proofs about Array, about SortedSet, which is an array kept sorted, and *)
(* about LinkedList, for every bound, set of values and ranges.            *)
(***************************************************************************)
EXTENDS LinkedList, SortedSet, NumberProofs, SequenceTheorems

(***************************************************************************)
(* Sequences                                                               *)
(***************************************************************************)

\* What is where in two sequences joined.
LEMMA Joined ==
  ASSUME NEW V, NEW a \in Seq(V), NEW s \in Seq(V)
  PROVE  /\ a \o s \in Seq(V) /\ Len(a \o s) = Len(a) + Len(s)
         /\ \A k \in 1..Len(a) : (a \o s)[k] = a[k]
         /\ \A k \in 1..Len(s) : (a \o s)[Len(a) + k] = s[k]
<1>1. a \o s \in Seq(V) /\ Len(a \o s) = Len(a) + Len(s)
  BY ConcatProperties
<1>2. \A k \in 1..(Len(a) + Len(s)) : (a \o s)[k] = IF k <= Len(a) THEN a[k] ELSE s[k - Len(a)]
  BY ConcatProperties
<1>3. PICK p \in Nat, q \in Nat : p = Len(a) /\ q = Len(s)
  BY LenProperties
<1>4. ASSUME NEW k \in 1..p PROVE (a \o s)[k] = a[k]
  <2>1. k \in 1..(p + q) /\ k <= p
    OBVIOUS
  <2> QED  BY <1>2, <1>3, <2>1
<1>5. ASSUME NEW k \in 1..q PROVE (a \o s)[p + k] = s[k]
  <2>1. p + k \in 1..(p + q) /\ ~(p + k <= p) /\ p + k - p = k
    OBVIOUS
  <2> QED  BY <1>2, <1>3, <2>1
<1> QED  BY <1>1, <1>3, <1>4, <1>5

\* A part of a sequence.
LEMMA PartIs ==
  ASSUME NEW V, NEW u \in Seq(V), NEW i \in Nat, NEW j \in Nat, i <= j, j <= Len(u)
  PROVE  /\ SubSeq(u, i + 1, j) \in Seq(V) /\ Len(SubSeq(u, i + 1, j)) = j - i
         /\ \A k \in 1..(j - i) : SubSeq(u, i + 1, j)[k] = u[i + k]
<1>1. Len(u) \in Nat /\ \A k \in (i + 1)..j : u[k] \in V
  <2>1. Len(u) \in Nat
    BY LenProperties
  <2>2. \A k \in (i + 1)..j : k \in 1..Len(u)
    BY <2>1
  <2> QED  BY <2>1, <2>2, ElementOfSeq
<1>2. j - i = (IF i + 1 <= j THEN j - (i + 1) + 1 ELSE 0) /\ j - (i + 1) + 1 = j - i
      /\ \A k \in 1..(j - i) : (i + 1) + k - 1 = i + k
  OBVIOUS
<1>3. SubSeq(u, i + 1, j) \in Seq(V) /\ Len(SubSeq(u, i + 1, j)) = j - i
  BY <1>1, <1>2, SubSeqProperties
<1>4. \A k \in 1..(j - i) : SubSeq(u, i + 1, j)[k] = u[(i + 1) + k - 1]
  BY <1>1, <1>2, SubSeqProperties
<1> QED  BY <1>2, <1>3, <1>4

LEMMA UptoIs ==
  ASSUME NEW V, NEW u \in Seq(V), NEW i \in Nat, i <= Len(u)
  PROVE  /\ SubSeq(u, 1, i) \in Seq(V) /\ Len(SubSeq(u, 1, i)) = i
         /\ \A k \in 1..i : SubSeq(u, 1, i)[k] = u[k]
<1>1. Len(u) \in Nat
  BY LenProperties
<1>2. ASSUME NEW k \in 1..i PROVE u[k] \in V
  <2>1. k \in 1..Len(u)
    BY <1>1
  <2> QED  BY <2>1, ElementOfSeq
<1>3. /\ SubSeq(u, 1, i) \in Seq(V)
      /\ Len(SubSeq(u, 1, i)) = IF 1 <= i THEN i - 1 + 1 ELSE 0
      /\ \A k \in 1..(i - 1 + 1) : SubSeq(u, 1, i)[k] = u[1 + k - 1]
  BY <1>2, SubSeqProperties
<1>4. ASSUME NEW k \in 1..i PROVE SubSeq(u, 1, i)[k] = u[k]
  <2>1. k \in 1..(i - 1 + 1) /\ 1 + k - 1 = k
    OBVIOUS
  <2> QED  BY <1>3, <2>1
<1> QED  BY <1>3, <1>4

\* w is u with s in place of what is behind i and up to j.
Replaces(u, i, j, s, w) ==
  /\ i <= j /\ j <= Len(u) /\ Len(w) = i + Len(s) + (Len(u) - j)
  /\ \A k \in 1..i : w[k] = u[k]
  /\ \A k \in 1..Len(s) : w[i + k] = s[k]
  /\ \A k \in 1..(Len(u) - j) : w[i + Len(s) + k] = u[j + k]

LEMMA Spliced ==
  ASSUME NEW V, NEW u \in Seq(V), NEW w \in Seq(V), NEW s \in Seq(V),
         NEW i \in Nat, NEW j \in Nat, Replaces(u, i, j, s, w)
  PROVE  w = SubSeq(u, 1, i) \o s \o SubSeq(u, j + 1, Len(u))
<1> DEFINE a == SubSeq(u, 1, i)
           c == SubSeq(u, j + 1, Len(u))
           b == a \o s
<1>0. PICK n \in Nat, q \in Nat, r \in Nat : n = Len(u) /\ q = Len(s) /\ r = n - j /\ i <= j /\ j <= n
  BY LenProperties DEF Replaces
<1>1. a \in Seq(V) /\ Len(a) = i /\ \A k \in 1..i : a[k] = u[k]
  <2>1. i <= Len(u)
    BY <1>0
  <2> QED  BY <2>1, UptoIs
<1>2. c \in Seq(V) /\ Len(c) = r /\ \A k \in 1..r : c[k] = u[j + k]
  <2>1. j <= n /\ n <= Len(u)
    BY <1>0
  <2>2. c = SubSeq(u, j + 1, n)
    BY <1>0
  <2>3. SubSeq(u, j + 1, n) \in Seq(V) /\ Len(SubSeq(u, j + 1, n)) = n - j
        /\ \A k \in 1..(n - j) : SubSeq(u, j + 1, n)[k] = u[j + k]
    BY <2>1, PartIs
  <2> HIDE DEF c
  <2> QED  BY <1>0, <2>2, <2>3
<1>3. Len(w) = i + q + r /\ (\A k \in 1..i : w[k] = u[k]) /\ (\A k \in 1..q : w[i + k] = s[k])
      /\ \A k \in 1..r : w[i + q + k] = u[j + k]
  BY <1>0 DEF Replaces
<1>4. /\ b \in Seq(V) /\ Len(b) = i + q
      /\ \A k \in 1..i : b[k] = a[k]
      /\ \A k \in 1..q : b[i + k] = s[k]
  <2> HIDE DEF a
  <2>1. Len(a) = i /\ Len(s) = q
    BY <1>0, <1>1
  <2>2. a \in Seq(V)
    BY <1>1
  <2>3. /\ a \o s \in Seq(V) /\ Len(a \o s) = Len(a) + Len(s)
        /\ \A k \in 1..Len(a) : (a \o s)[k] = a[k]
        /\ \A k \in 1..Len(s) : (a \o s)[Len(a) + k] = s[k]
    BY <2>2, Joined
  <2> QED  BY <2>1, <2>3
<1> HIDE DEF a, b, c
<1>5. /\ b \o c \in Seq(V) /\ Len(b \o c) = (i + q) + r
      /\ \A k \in 1..(i + q) : (b \o c)[k] = b[k]
      /\ \A k \in 1..r : (b \o c)[(i + q) + k] = c[k]
  <2>1. b \in Seq(V) /\ c \in Seq(V)
    BY <1>2, <1>4
  <2>2. /\ b \o c \in Seq(V) /\ Len(b \o c) = Len(b) + Len(c)
        /\ \A k \in 1..Len(b) : (b \o c)[k] = b[k]
        /\ \A k \in 1..Len(c) : (b \o c)[Len(b) + k] = c[k]
    BY <2>1, Joined
  <2> QED  BY <1>2, <1>4, <2>2
<1>6. ASSUME NEW k \in 1..(i + q + r) PROVE w[k] = (b \o c)[k]
  <2>1. CASE k <= i
    <3>1. k \in 1..i /\ k \in 1..(i + q)
      BY <2>1
    <3> QED  BY <1>1, <1>3, <1>4, <1>5, <3>1
  <2>2. CASE i < k /\ k <= i + q
    <3>1. PICK m \in 1..q : k = i + m
      <4>1. k - i \in 1..q /\ k = i + (k - i)
        BY <2>2
      <4> QED  BY <4>1
    <3>2. k \in 1..(i + q)
      BY <2>2
    <3> QED  BY <1>3, <1>4, <1>5, <3>1, <3>2
  <2>3. CASE k > i + q
    <3>1. PICK m \in 1..r : k = (i + q) + m
      <4>1. k - (i + q) \in 1..r /\ k = (i + q) + (k - (i + q))
        BY <2>3
      <4> QED  BY <4>1
    <3>2. w[k] = u[j + m]
      BY <1>3, <3>1
    <3>3. (b \o c)[k] = c[m] /\ c[m] = u[j + m]
      BY <1>2, <1>5, <3>1
    <3> QED  BY <3>2, <3>3
  <2>4. k <= i \/ (i < k /\ k <= i + q) \/ k > i + q
    OBVIOUS
  <2> QED  BY <2>1, <2>2, <2>3, <2>4, Zenon
<1>7. w = b \o c
  <2>1. Len(w) = Len(b \o c) /\ Len(w) = i + q + r
    BY <1>3, <1>5
  <2>2. \A k \in 1..Len(w) : w[k] = (b \o c)[k]
    BY <1>6, <2>1
  <2> QED  BY <1>5, <2>1, <2>2, SeqEqual
<1> QED  BY <1>7 DEF a, b, c

\* The same with nothing in its place.
LEMMA CutOut ==
  ASSUME NEW V, NEW u \in Seq(V), NEW w \in Seq(V),
         NEW i \in Nat, NEW j \in Nat, Replaces(u, i, j, <<>>, w)
  PROVE  w = SubSeq(u, 1, i) \o SubSeq(u, j + 1, Len(u))
<1>1. <<>> \in Seq(V)
  BY EmptySeq
<1>2. w = SubSeq(u, 1, i) \o <<>> \o SubSeq(u, j + 1, Len(u))
  BY <1>1, Spliced
<1>3. SubSeq(u, 1, i) \in Seq(V)
  <2>1. i <= Len(u)
    BY LenProperties DEF Replaces
  <2> QED  BY <2>1, UptoIs
<1> QED  BY <1>2, <1>3, ConcatEmptySeq

(***************************************************************************)
(* The array                                                               *)
(***************************************************************************)

\* The elements of an array.
ItemsOf(a) == [i \in 1..a.size |-> IF a.data = "live" THEN a.cells[i] ELSE ArrayUnset]

\* The block is as large as is recorded, or there is none, and the elements fit.
Sound(a) ==
  /\ {"data", "cells", "size", "reserved"} \subseteq DOMAIN a
  /\ a.data \in {"null", "live", "freed"}
  /\ a.cells \in Seq(Contents) /\ Len(a.cells) = IF a.data = "live" THEN a.reserved ELSE 0
  /\ a.size \in Nat /\ a.reserved \in ArrayCounts /\ a.size <= a.reserved

ArrayInv == Sound(arr) /\ arrayFault \in BOOLEAN

LEMMA ArrayBegins == ArrayInit => ArrayInv
<1> SUFFICES ASSUME ArrayInit PROVE ArrayInv
  OBVIOUS
<1>1. <<>> \in Seq(Contents) /\ Len(<<>>) = 0
  BY EmptySeq
<1>2. Sound(NoArray)
  BY <1>1, ArrayAssumption DEF Sound, NoArray, ArrayCounts
<1> QED  BY <1>2 DEF ArrayInit, ArrayInv

LEMMA InvIsTyped == ArrayInv => ArrayTypeOK /\ ReservedIsBlock
BY ArrayAssumption DEF ArrayInv, Sound, ArrayTypeOK, ReservedIsBlock, ArrayCounts

\* The elements are a sequence.
LEMMA ItemsAre ==
  ASSUME NEW a, Sound(a)
  PROVE  /\ ItemsOf(a) \in Seq(Contents) /\ Len(ItemsOf(a)) = a.size
         /\ \A i \in 1..a.size :
              /\ ItemsOf(a)[i] \in Contents
              /\ ItemsOf(a)[i] = IF a.data = "live" THEN a.cells[i] ELSE ArrayUnset
<1>1. ASSUME NEW i \in 1..a.size, a.data = "live" PROVE a.cells[i] \in Contents
  <2>1. i \in 1..Len(a.cells)
    BY <1>1 DEF Sound, ArrayCounts
  <2> QED  BY <2>1, ElementOfSeq DEF Sound
<1>2. ArrayUnset \in Contents
  BY DEF Contents
<1>3. ItemsOf(a) \in [1..a.size -> Contents] /\ a.size \in Nat
  BY <1>1, <1>2 DEF ItemsOf, Sound
<1>4. ItemsOf(a) \in Seq(Contents) /\ Len(ItemsOf(a)) = a.size
  BY <1>3
<1> QED  BY <1>1, <1>2, <1>4 DEF ItemsOf

\* A larger or smaller block keeps what fits of the old one.
LEMMA BlockIs ==
  ASSUME Sound(arr), NEW n \in Nat
  PROVE  /\ Block(n) \in Seq(Contents) /\ Len(Block(n)) = n
         /\ \A i \in 1..n : i <= arr.size =>
              Block(n)[i] = IF arr.data = "live" THEN arr.cells[i] ELSE ArrayUnset
<1>1. ASSUME NEW i \in 1..n, i <= Len(arr.cells) PROVE arr.cells[i] \in Contents
  <2>1. i \in 1..Len(arr.cells)
    BY <1>1, LenProperties DEF Sound
  <2> QED  BY <2>1, ElementOfSeq DEF Sound
<1>2. Block(n) \in [1..n -> Contents]
  BY <1>1 DEF Block, Contents
<1>3. Block(n) \in Seq(Contents) /\ Len(Block(n)) = n
  BY <1>2
<1>4. ASSUME NEW i \in 1..n, i <= arr.size
      PROVE  Block(n)[i] = IF arr.data = "live" THEN arr.cells[i] ELSE ArrayUnset
  <2>1. CASE arr.data = "live"
    <3>1. i <= Len(arr.cells)
      BY <1>4, <2>1 DEF Sound, ArrayCounts
    <3> QED  BY <2>1, <3>1 DEF Block
  <2>2. CASE arr.data # "live"
    <3>1. ~(i <= Len(arr.cells))
      BY <1>4, <2>2 DEF Sound
    <3> QED  BY <2>2, <3>1 DEF Block
  <2> QED  BY <2>1, <2>2
<1> QED  BY <1>3, <1>4

\* An array that gets a block of m cells, for as many of its elements as fit.
LEMMA Reblocked ==
  ASSUME Sound(arr), NEW a, NEW m \in ArrayCounts,
         {"data", "cells", "size", "reserved"} \subseteq DOMAIN a,
         a.data = "live", a.cells = Block(m), a.reserved = m, a.size \in Nat, a.size <= m
  PROVE  Sound(a) /\ \A i \in 1..a.size : i <= arr.size => ItemsOf(a)[i] = ItemsOf(arr)[i]
<1>1. m \in Nat
  BY DEF ArrayCounts
<1>2. Sound(a)
  BY <1>1, BlockIs DEF Sound
<1>3. ASSUME NEW i \in 1..a.size, i <= arr.size PROVE ItemsOf(a)[i] = ItemsOf(arr)[i]
  <2>1. ItemsOf(a)[i] = Block(m)[i]
    BY <1>2, ItemsAre
  <2>2. i \in 1..m /\ i \in 1..arr.size
    BY <1>1, <1>3 DEF Sound
  <2>3. Block(m)[i] = IF arr.data = "live" THEN arr.cells[i] ELSE ArrayUnset
    BY <1>1, <1>3, <2>2, BlockIs
  <2>4. ItemsOf(arr)[i] = IF arr.data = "live" THEN arr.cells[i] ELSE ArrayUnset
    BY <2>2, ItemsAre
  <2> QED  BY <2>1, <2>3, <2>4
<1> QED  BY <1>2, <1>3

\* ceil_exp2 makes room for the elements that are there and those that come.
LEMMA GrownIs ==
  ASSUME Sound(arr), NEW n \in Nat \ {0}, Larger(n)
  PROVE  /\ Sound(Grown(n)) /\ Grown(n).data = "live" /\ Grown(n).size = arr.size
         /\ arr.size + n <= Grown(n).reserved
         /\ \A i \in 1..arr.size : ItemsOf(Grown(n))[i] = ItemsOf(arr)[i]
<1>1. PICK m \in Nat : m = CeilExp2(arr.reserved + n) /\ arr.reserved + n <= m /\ m <= ArrayMax
  <2>1. arr.reserved + n \in Nat \ {0}
    BY DEF Sound, ArrayCounts
  <2>2. CeilExp2(arr.reserved + n) \in (arr.reserved + n)..(2 * (arr.reserved + n) - 1)
    BY <2>1, CeilIs
  <2> QED  BY <2>1, <2>2 DEF Larger
<1>2. /\ {"data", "cells", "size", "reserved"} \subseteq DOMAIN Grown(n)
      /\ Grown(n).data = "live" /\ Grown(n).cells = Block(m) /\ Grown(n).reserved = m
      /\ Grown(n).size = arr.size
  BY <1>1 DEF Sound, Grown
<1>3. m \in ArrayCounts /\ arr.size \in Nat /\ arr.size + n <= m /\ arr.size <= m
  BY <1>1, ArrayAssumption DEF Sound, ArrayCounts
<1>4. Sound(Grown(n)) /\ \A i \in 1..arr.size : i <= arr.size => ItemsOf(Grown(n))[i] = ItemsOf(arr)[i]
  BY <1>2, <1>3, Reblocked
<1> QED  BY <1>2, <1>3, <1>4

\* Room for n elements is made before position i, and s written into it.
LEMMA OpenedIs ==
  ASSUME NEW a, Sound(a), NEW i \in Nat, i <= a.size, NEW n \in Nat, a.size + n <= a.reserved,
         NEW s \in Seq(Contents), s = <<>> \/ Len(s) = n,
         a.data = "live" \/ (i = a.size /\ s = <<>>)
  PROVE  /\ Sound(Opened(a, i, n, s)) /\ Opened(a, i, n, s).size = a.size + n
         /\ \E t \in [1..n -> Contents] :
              /\ Replaces(ItemsOf(a), i, i, t, ItemsOf(Opened(a, i, n, s)))
              /\ Len(s) = n => t = s
<1> DEFINE b == Opened(a, i, n, s)
<1>1. PICK m \in Nat, q \in Nat : m = Len(a.cells) /\ q = Len(s) /\ (q = 0 \/ q = n)
                                  /\ (a.data = "live" => m = a.reserved)
  BY EmptySeq, LenProperties DEF Sound, ArrayCounts
<1>2. /\ {"data", "cells", "size", "reserved"} \subseteq DOMAIN b
      /\ b.data = a.data /\ b.reserved = a.reserved /\ b.size = a.size + n
      /\ b.cells = [j \in DOMAIN a.cells |->
               IF j \in (i + 1)..(i + Len(s)) THEN s[j - i]
               ELSE IF j \in (i + n + 1)..(a.size + n) THEN a.cells[j - n]
               ELSE a.cells[j]]
  BY DEF Sound, Opened
<1> HIDE DEF b
<1>3. a.cells \in [1..m -> Contents] /\ a.size \in Nat /\ s \in [1..q -> Contents]
  BY <1>1, LenProperties DEF Sound
<1>4. /\ b.cells \in [1..m -> Contents]
      /\ \A j \in 1..m : b.cells[j] = IF j \in (i + 1)..(i + q) THEN s[j - i]
                                      ELSE IF j \in (i + n + 1)..(a.size + n) THEN a.cells[j - n]
                                      ELSE a.cells[j]
  <2>1. ASSUME NEW j \in (i + 1)..(i + q) PROVE s[j - i] \in Contents
    BY <1>3
  <2>2. ASSUME NEW j \in 1..m, j \in (i + n + 1)..(a.size + n) PROVE a.cells[j - n] \in Contents
    <3>1. j - n \in 1..m
      BY <1>3, <2>2
    <3> QED  BY <1>3, <3>1
  <2> QED  BY <1>1, <1>2, <1>3, <2>1, <2>2
<1>5. b.cells \in Seq(Contents) /\ Len(b.cells) = m
  BY <1>4
<1>6. Sound(b)
  BY <1>1, <1>2, <1>5 DEF Sound
<1>7. /\ ItemsOf(a) \in Seq(Contents) /\ Len(ItemsOf(a)) = a.size
      /\ ItemsOf(b) \in Seq(Contents) /\ Len(ItemsOf(b)) = a.size + n
  BY <1>2, <1>6, ItemsAre
<1>8. PICK t \in [1..n -> Contents] : /\ \A k \in 1..n : t[k] = ItemsOf(b)[i + k]
                                      /\ Len(t) = n /\ t \in Seq(Contents)
  <2> DEFINE t == [k \in 1..n |-> ItemsOf(b)[i + k]]
  <2>1. ASSUME NEW k \in 1..n PROVE ItemsOf(b)[i + k] \in Contents
    <3>1. i + k \in 1..b.size
      BY <1>2, <1>3
    <3> QED  BY <1>6, <3>1, ItemsAre
  <2>2. t \in [1..n -> Contents]
    BY <2>1
  <2>3. \A k \in 1..n : t[k] = ItemsOf(b)[i + k]
    OBVIOUS
  <2> HIDE DEF t
  <2>4. Len(t) = n /\ t \in Seq(Contents)
    BY <2>2
  <2> QED  BY <2>2, <2>3, <2>4
<1>9. \A k \in 1..i : ItemsOf(b)[k] = ItemsOf(a)[k]
  <2> SUFFICES ASSUME NEW k \in 1..i PROVE ItemsOf(b)[k] = ItemsOf(a)[k]
    OBVIOUS
  <2>1. k \in 1..a.size /\ k \in 1..b.size
    BY <1>2, <1>3
  <2>2. CASE a.data = "live"
    <3>1. k \in 1..m /\ ~(k \in (i + 1)..(i + q)) /\ ~(k \in (i + n + 1)..(a.size + n))
      BY <1>1, <2>1, <2>2 DEF Sound, ArrayCounts
    <3>2. b.cells[k] = a.cells[k]
      BY <1>4, <3>1
    <3> QED  BY <1>2, <1>6, <2>1, <2>2, <3>2, ItemsAre
  <2>3. CASE a.data # "live"
    BY <1>2, <1>6, <2>1, <2>3, ItemsAre
  <2> QED  BY <2>2, <2>3
<1>10. \A k \in 1..(a.size - i) : ItemsOf(b)[i + n + k] = ItemsOf(a)[i + k]
  <2> SUFFICES ASSUME NEW k \in 1..(a.size - i) PROVE ItemsOf(b)[i + n + k] = ItemsOf(a)[i + k]
    OBVIOUS
  <2>1. i + k \in 1..a.size /\ i + n + k \in 1..b.size
    BY <1>2, <1>3
  <2>2. CASE a.data = "live"
    <3>0. PICK z \in Nat, x \in Nat : z = a.size /\ x = i + n + k /\ z + n <= m /\ k >= 1 /\ i + k <= z
      <4>1. a.size + n <= m /\ k >= 1 /\ i + k <= a.size /\ i + n + k \in Nat
        BY <1>1, <1>3, <2>1, <2>2
      <4> QED  BY <1>3, <4>1
    <3>1. /\ i + n + k \in 1..m /\ ~(i + n + k \in (i + 1)..(i + q))
          /\ i + n + k \in (i + n + 1)..(a.size + n) /\ i + n + k - n = i + k
      <4>1. x \in 1..m /\ ~(x \in (i + 1)..(i + q)) /\ x \in (i + n + 1)..(z + n) /\ x - n = i + k
        BY <1>1, <3>0
      <4> QED  BY <3>0, <4>1
    <3>2. b.cells[i + n + k] = a.cells[i + k]
      BY <1>4, <3>1
    <3> QED  BY <1>2, <1>6, <2>1, <2>2, <3>2, ItemsAre
  <2>3. CASE a.data # "live"
    BY <1>2, <1>6, <2>1, <2>3, ItemsAre
  <2> QED  BY <2>2, <2>3
<1>11. Replaces(ItemsOf(a), i, i, t, ItemsOf(b))
  <2>1. a.size + n = i + n + (a.size - i)
    BY <1>3
  <2>2. PICK u, w : u = ItemsOf(a) /\ w = ItemsOf(b)
    OBVIOUS
  <2>3. Len(u) = a.size /\ Len(w) = a.size + n /\ Len(t) = n
        /\ (\A k \in 1..i : w[k] = u[k]) /\ (\A k \in 1..n : w[i + k] = t[k])
        /\ \A k \in 1..(a.size - i) : w[i + n + k] = u[i + k]
    BY <1>7, <1>8, <1>9, <1>10, <2>2
  <2>4. Replaces(u, i, i, t, w)
    BY <1>3, <2>1, <2>3 DEF Replaces
  <2> QED  BY <2>2, <2>4
<1>12. Len(s) = n => t = s
  <2> SUFFICES ASSUME q = n PROVE t = s
    BY <1>1
  <2>1. ASSUME NEW k \in 1..n PROVE t[k] = s[k]
    <3>1. a.data = "live"
      BY <1>1, <2>1, EmptySeq
    <3>4. m = a.reserved /\ a.size + n <= m
      BY <1>1, <3>1
    <3>2. i + k \in 1..m /\ i + k \in (i + 1)..(i + q) /\ i + k - i = k /\ i + k \in 1..b.size
      BY <1>2, <1>3, <3>4
    <3>3. b.cells[i + k] = s[k]
      BY <1>4, <3>2
    <3> QED  BY <1>2, <1>6, <1>8, <3>1, <3>2, <3>3, ItemsAre
  <2> QED  BY <1>3, <2>1
<1> QED  BY <1>2, <1>6, <1>8, <1>11, <1>12 DEF b

-----------------------------------------------------------------------------

\* What a call does to the elements, told by the records before and after it.
Stays(op)    == arrayCall'.op = op /\ ItemsOf(arr)' = ItemsOf(arr)
Opens(i, t)  == Replaces(ItemsOf(arr), i, i, t, ItemsOf(arr)')

LEMMA ItemsAreItems == ArrayItems = ItemsOf(arr) /\ ArrayItems' = ItemsOf(arr)'
BY DEF ArrayItems, ItemsOf

LEMMA CallIs ==
  ASSUME NEW op, NEW at, NEW n, NEW s, ArrayCalled(op, at, n, s)
  PROVE  arrayCall'.op = op /\ arrayCall'.at = at /\ arrayCall'.n = n /\ arrayCall'.s = s
BY DEF ArrayCalled

\* Arrays of the same size with the same elements.
LEMMA SameItems ==
  ASSUME NEW a, NEW b, Sound(a), Sound(b), a.size = b.size,
         \A i \in 1..a.size : ItemsOf(b)[i] = ItemsOf(a)[i]
  PROVE  ItemsOf(b) = ItemsOf(a)
<1>1. /\ ItemsOf(a) \in Seq(Contents) /\ Len(ItemsOf(a)) = a.size
      /\ ItemsOf(b) \in Seq(Contents) /\ Len(ItemsOf(b)) = a.size
  BY ItemsAre
<1>2. \A i \in 1..Len(ItemsOf(b)) : ItemsOf(b)[i] = ItemsOf(a)[i]
  BY <1>1
<1> QED  BY <1>1, <1>2, SeqEqual

\* Nothing is changed, or a fault is recorded.
LEMMA FaultKeeps ==
  ASSUME ArrayInv, Faults \/ UNCHANGED arrayVars
  PROVE  ArrayInv' /\ UNCHANGED <<ArrayItems, arrayCall>>
<1>1. UNCHANGED <<arr, arrayCall>> /\ arrayFault' \in BOOLEAN
  BY DEF Faults, arrayVars, ArrayInv
<1> QED  BY <1>1 DEF ArrayInv, ArrayItems, Sound

LEMMA RefusedKeeps ==
  ASSUME ArrayInv, Refused
  PROVE  ArrayInv' /\ Row!Next
<1>1. arr' = arr /\ arrayFault' = arrayFault /\ arrayCall'.op = "refused"
  BY CallIs DEF Refused, Keeps
<1>2. ArrayInv' /\ ArrayItems' = ArrayItems
  BY <1>1 DEF ArrayInv, ArrayItems, Sound
<1> QED  BY <1>1, <1>2 DEF Row!Next, Row!Refuse, Row!Called

\* Memory is asked for or given back; the elements stay.
LEMMA KeptItems ==
  ASSUME ArrayInv, NEW a, ArrayCalled("grow", 0, 0, <<>>), Keeps(a),
         Sound(a), a.size = arr.size, \A i \in 1..a.size : ItemsOf(a)[i] = ItemsOf(arr)[i]
  PROVE  ArrayInv' /\ Row!Next
<1>1. arr' = a /\ arrayFault' = arrayFault
  BY DEF Keeps
<1>2. ArrayInv'
  BY <1>1 DEF ArrayInv, Sound
<1>3. ItemsOf(arr)' = ItemsOf(a)
  BY <1>1 DEF ItemsOf
<1>4. ItemsOf(a) = ItemsOf(arr)
  BY SameItems DEF ArrayInv
<1>5. ArrayItems' = ArrayItems
  BY <1>3, <1>4, ItemsAreItems
<1>6. arrayCall'.op = "grow" /\ arrayCall'.n = 0
  BY CallIs
<1> QED  BY <1>2, <1>5, <1>6 DEF Row!Next, Row!Grow, Row!Called

\* The first n elements stay, and those behind them are new.
LEMMA ResizedItems ==
  ASSUME ArrayInv, NEW a, NEW n \in Nat, NEW at, NEW s, ArrayCalled("resize", at, n, s), Keeps(a),
         Sound(a), a.size = n, \A i \in 1..n : i <= arr.size => ItemsOf(a)[i] = ItemsOf(arr)[i]
  PROVE  ArrayInv' /\ Row!Next
<1>1. arr' = a /\ arrayFault' = arrayFault
  BY DEF Keeps
<1>2. ArrayInv'
  BY <1>1 DEF ArrayInv, Sound
<1>3. ItemsOf(arr)' = ItemsOf(a)
  BY <1>1 DEF ItemsOf
<1>4. arrayCall'.op = "resize" /\ arrayCall'.n = n
  BY CallIs
<1> DEFINE u == ItemsOf(arr)
           w == ItemsOf(a)
<1>5. /\ u \in Seq(Contents) /\ Len(u) = arr.size /\ arr.size \in Nat
      /\ w \in Seq(Contents) /\ Len(w) = n
      /\ \A i \in 1..n : w[i] \in Contents
  BY ItemsAre DEF ArrayInv, Sound
<1> HIDE DEF u, w
<1>6. CASE n <= arr.size
  <2>1. SubSeq(u, 1, n) \in Seq(Contents) /\ Len(SubSeq(u, 1, n)) = n
        /\ \A k \in 1..n : SubSeq(u, 1, n)[k] = u[k]
    BY <1>5, <1>6, UptoIs
  <2>2. \A k \in 1..n : w[k] = u[k]
    BY <1>5, <1>6 DEF u, w
  <2>3. \A k \in 1..Len(w) : w[k] = SubSeq(u, 1, n)[k]
    BY <1>5, <2>1, <2>2
  <2>4. w = SubSeq(u, 1, n)
    BY <1>5, <2>1, <2>3, SeqEqual
  <2>5. Row!Resize
    BY <1>3, <1>4, <1>5, <1>6, <2>4, ItemsAreItems DEF Row!Resize, Row!Called, Row!Upto, u, w
  <2> QED  BY <1>2, <2>5 DEF Row!Next
<1>7. CASE arr.size < n
  <2>1. PICK m \in Nat : m = n - arr.size
    BY <1>5, <1>7
  <2> DEFINE t == [k \in 1..m |-> w[arr.size + k]]
  <2>2. t \in [1..m -> Contents]
    <3>1. ASSUME NEW k \in 1..m PROVE w[arr.size + k] \in Contents
      <4>1. arr.size + k \in 1..n
        BY <1>5, <2>1
      <4> QED  BY <1>5, <4>1
    <3> QED  BY <3>1
  <2>3. \A k \in 1..m : t[k] = w[arr.size + k]
    OBVIOUS
  <2> HIDE DEF t
  <2>4. t \in Seq(Contents) /\ Len(t) = m
    BY <2>2
  <2>5. u \o t \in Seq(Contents) /\ Len(u \o t) = Len(u) + Len(t)
        /\ (\A k \in 1..Len(u) : (u \o t)[k] = u[k])
        /\ \A k \in 1..Len(t) : (u \o t)[Len(u) + k] = t[k]
    <3>1. u \in Seq(Contents) /\ t \in Seq(Contents)
      BY <1>5, <2>4
    <3> QED  BY <3>1, Joined
  <2>6. \A k \in 1..Len(w) : w[k] = (u \o t)[k]
    <3> SUFFICES ASSUME NEW k \in 1..n PROVE w[k] = (u \o t)[k]
      BY <1>5
    <3>1. CASE k <= arr.size
      <4>1. k \in 1..Len(u) /\ w[k] = u[k]
        BY <1>5, <3>1 DEF u, w
      <4> QED  BY <2>5, <4>1
    <3>2. CASE k > arr.size
      <4>1. PICK j \in 1..m : k = arr.size + j
        <5>1. k - arr.size \in 1..m /\ k = arr.size + (k - arr.size)
          BY <1>5, <2>1, <3>2
        <5> QED  BY <5>1
      <4>2. j \in 1..Len(t) /\ Len(u) + j = k
        BY <1>5, <2>4, <4>1
      <4>3. (u \o t)[Len(u) + j] = t[j]
        BY <2>5, <4>2
      <4>4. (u \o t)[k] = t[j]
        BY <4>2, <4>3, Zenon
      <4> QED  BY <2>3, <4>1, <4>4
    <3>3. k <= arr.size \/ k > arr.size
      BY <1>5
    <3> QED  BY <3>1, <3>2, <3>3, Zenon
  <2>7. Len(w) = Len(u \o t)
    BY <1>5, <2>1, <2>4, <2>5
  <2>8. w = u \o t
    BY <1>5, <2>5, <2>6, <2>7, SeqEqual
  <2>9. ~(n <= arr.size)
    BY <1>5, <1>7
  <2>10. Row!Resize
    BY <1>3, <1>4, <1>5, <2>1, <2>2, <2>8, <2>9, ItemsAreItems
       DEF Row!Resize, Row!Called, Row!AnyOf, u, w
  <2> QED  BY <1>2, <2>10 DEF Row!Next
<1> QED  BY <1>5, <1>6, <1>7

-----------------------------------------------------------------------------

\* Room for n elements before position i, made in the block or in a larger one.
LEMMA InsertOpens ==
  ASSUME ArrayInv, NEW op, NEW i \in Int, NEW n \in Nat \ {0},
         NEW s \in Seq(Contents), s = <<>> \/ Len(s) = n, ArrayInsertElements(op, i, n, s)
  PROVE  /\ ArrayInv'
         /\ \/ UNCHANGED <<ArrayItems, arrayCall>>
            \/ /\ arrayCall'.op = op /\ arrayCall'.at = i /\ arrayCall'.n = n /\ arrayCall'.s = s
               /\ IF i \in 0..Len(ArrayItems)
                  THEN \E t \in [1..n -> Contents] :
                         Replaces(ArrayItems, i, i, t, ArrayItems') /\ (Len(s) = n => t = s)
                  ELSE ArrayItems' = ArrayItems
<1>1. Sound(arr) /\ arr.size \in Nat /\ Len(ItemsOf(arr)) = arr.size
  BY ItemsAre DEF ArrayInv, Sound
<1>2. CASE Faults
  BY <1>2, FaultKeeps
<1>3. CASE i \notin 0..arr.size /\ ArrayCalled(op, i, n, s) /\ Keeps(arr)
  <2>1. arr' = arr /\ arrayFault' = arrayFault /\ i \notin 0..Len(ArrayItems)
    BY <1>1, <1>3, ItemsAreItems DEF Keeps
  <2>2. ArrayInv' /\ ArrayItems' = ArrayItems
    BY <2>1 DEF ArrayInv, ArrayItems, Sound
  <2> QED  BY <1>3, <2>1, <2>2, CallIs
<1>4. ASSUME NEW a, Sound(a), a.size = arr.size, ItemsOf(a) = ItemsOf(arr), a.size + n <= a.reserved,
             i \in 0..arr.size, ArrayCalled(op, i, n, s), Keeps(Opened(a, i, n, s)),
             a.data = "live" \/ (i = a.size /\ s = <<>>)
      PROVE  /\ ArrayInv'
             /\ arrayCall'.op = op /\ arrayCall'.at = i /\ arrayCall'.n = n /\ arrayCall'.s = s
             /\ i \in 0..Len(ArrayItems)
             /\ \E t \in [1..n -> Contents] :
                  Replaces(ArrayItems, i, i, t, ArrayItems') /\ (Len(s) = n => t = s)
  <2>1. i \in Nat /\ i <= a.size
    BY <1>1, <1>4
  <2>2. /\ Sound(Opened(a, i, n, s))
        /\ \E t \in [1..n -> Contents] :
             Replaces(ItemsOf(a), i, i, t, ItemsOf(Opened(a, i, n, s))) /\ (Len(s) = n => t = s)
    BY <1>4, <2>1, OpenedIs
  <2>3. arr' = Opened(a, i, n, s) /\ arrayFault' = arrayFault
    BY <1>4 DEF Keeps
  <2>4. ArrayInv' /\ ArrayItems' = ItemsOf(Opened(a, i, n, s))
    BY <2>2, <2>3 DEF ArrayInv, Sound, ArrayItems, ItemsOf
  <2>5. ArrayItems = ItemsOf(a)
    BY <1>4, ItemsAreItems
  <2>6. arrayCall'.op = op /\ arrayCall'.at = i /\ arrayCall'.n = n /\ arrayCall'.s = s
    BY <1>4, CallIs
  <2>7. i \in 0..Len(ArrayItems)
    BY <1>1, <1>4, ItemsAreItems
  <2> QED  BY <2>2, <2>4, <2>5, <2>6, <2>7
<1>5. CASE /\ i \in 0..arr.size /\ HasRoom(n) /\ (arr.data = "live" \/ (i = arr.size /\ s = <<>>))
           /\ ArrayCalled(op, i, n, s) /\ Keeps(Opened(arr, i, n, s))
  <2>1. arr.size + n <= arr.reserved
    BY <1>1, <1>5 DEF HasRoom, Sound, ArrayCounts
  <2> QED  BY <1>1, <1>4, <1>5, <2>1
<1>6. CASE /\ i \in 0..arr.size /\ Larger(n)
           /\ ArrayCalled(op, i, n, s) /\ Keeps(Opened(Grown(n), i, n, s))
  <2>1. /\ Sound(Grown(n)) /\ Grown(n).data = "live" /\ Grown(n).size = arr.size
        /\ arr.size + n <= Grown(n).reserved
        /\ \A k \in 1..arr.size : ItemsOf(Grown(n))[k] = ItemsOf(arr)[k]
    BY <1>1, <1>6, GrownIs
  <2>2. ItemsOf(Grown(n)) = ItemsOf(arr)
    BY <1>1, <2>1, SameItems
  <2> QED  BY <1>4, <1>6, <2>1, <2>2
<1> QED
  BY <1>2, <1>3, <1>5, <1>6 DEF ArrayInsertElements

\* A range is put in.
LEMMA RangeInserted ==
  ASSUME ArrayInv, NEW i \in Int, NEW s \in ArrayRanges, ArrayInsertElements("insert", i, Len(s), s)
  PROVE  ArrayInv' /\ (Row!Next \/ UNCHANGED <<ArrayItems, arrayCall>>)
<1>1. s \in Seq(Contents) /\ Len(s) \in Nat \ {0}
  <2>1. s \in Seq(ArrayValues) /\ s # <<>>
    BY ArrayAssumption
  <2> QED  BY <2>1, EmptySeq, SeqMonotonic DEF Contents
<1>2. /\ ArrayInv'
      /\ \/ UNCHANGED <<ArrayItems, arrayCall>>
         \/ /\ arrayCall'.op = "insert" /\ arrayCall'.at = i /\ arrayCall'.s = s
            /\ IF i \in 0..Len(ArrayItems) THEN Replaces(ArrayItems, i, i, s, ArrayItems')
               ELSE ArrayItems' = ArrayItems
  BY <1>1, InsertOpens
<1>3. CASE i \in 0..Len(ArrayItems) /\ Replaces(ArrayItems, i, i, s, ArrayItems')
           /\ arrayCall'.op = "insert" /\ arrayCall'.at = i /\ arrayCall'.s = s
  <2>1. ArrayItems \in Seq(Contents) /\ ArrayItems' \in Seq(Contents)
    BY <1>2, ItemsAre, ItemsAreItems DEF ArrayInv
  <2>2. i \in Nat
    BY <1>3
  <2>3. ArrayItems' = SubSeq(ArrayItems, 1, i) \o s \o SubSeq(ArrayItems, i + 1, Len(ArrayItems))
    BY <1>1, <1>3, <2>1, <2>2, Spliced
  <2> QED  BY <1>2, <1>3, <2>3 DEF Row!Next, Row!Insert, Row!Called, Row!Upto, Row!From
<1> QED
  BY <1>2, <1>3 DEF Row!Next, Row!Insert, Row!Called

\* Room is made for elements nobody has written yet.
LEMMA GrowKeeps ==
  ASSUME ArrayInv, NEW i \in Int, NEW n \in ArrayCounts, ArrayGrow(i, n)
  PROVE  ArrayInv' /\ (Row!Next \/ UNCHANGED <<ArrayItems, arrayCall>>)
<1>1. n \in Nat
  BY DEF ArrayCounts
<1>2. CASE n > 0 /\ ArrayInsertElements("grow", i, n, <<>>)
  <2>1. <<>> \in Seq(Contents) /\ n \in Nat \ {0}
    BY <1>1, <1>2, EmptySeq
  <2>2. /\ ArrayInv'
        /\ \/ UNCHANGED <<ArrayItems, arrayCall>>
           \/ /\ arrayCall'.op = "grow" /\ arrayCall'.at = i /\ arrayCall'.n = n
              /\ IF i \in 0..Len(ArrayItems)
                 THEN \E t \in [1..n -> Contents] : Replaces(ArrayItems, i, i, t, ArrayItems')
                 ELSE ArrayItems' = ArrayItems
    BY <1>2, <2>1, InsertOpens
  <2>3. ASSUME i \in 0..Len(ArrayItems), NEW t \in [1..n -> Contents],
               Replaces(ArrayItems, i, i, t, ArrayItems')
        PROVE  ArrayItems' = SubSeq(ArrayItems, 1, i) \o t \o SubSeq(ArrayItems, i + 1, Len(ArrayItems))
    <3>1. ArrayItems \in Seq(Contents) /\ ArrayItems' \in Seq(Contents)
      BY <2>2, ItemsAre, ItemsAreItems DEF ArrayInv
    <3>2. i \in Nat /\ t \in Seq(Contents)
      BY <1>1, <2>3
    <3> QED  BY <2>3, <3>1, <3>2, Spliced
  <2>4. CASE i \in 0..Len(ArrayItems) /\ n > 0 /\ arrayCall'.op = "grow" /\ arrayCall'.at = i /\ arrayCall'.n = n
             /\ \E t \in [1..n -> Contents] : Replaces(ArrayItems, i, i, t, ArrayItems')
    BY <2>2, <2>3, <2>4 DEF Row!Next, Row!Grow, Row!Called, Row!AnyOf, Row!Upto, Row!From
  <2> QED  BY <1>2, <2>2, <2>4 DEF Row!Next, Row!Grow, Row!Called
<1>3. CASE Refused
  BY <1>3, RefusedKeeps
<1>4. CASE n = 0 /\ ArrayCalled("grow", i, n, <<>>) /\ Keeps(arr)
  <2>1. arr' = arr /\ arrayFault' = arrayFault /\ arrayCall'.op = "grow" /\ arrayCall'.n = 0
    BY <1>4, CallIs DEF Keeps
  <2>2. ArrayInv' /\ ArrayItems' = ArrayItems
    BY <2>1 DEF ArrayInv, ArrayItems, Sound
  <2> QED  BY <2>1, <2>2 DEF Row!Next, Row!Grow, Row!Called
<1> QED  BY <1>2, <1>3, <1>4 DEF ArrayGrow

\* What is left when n elements are taken out behind the first i.
LEMMA RemovedIs ==
  ASSUME Sound(arr), NEW i \in Int, NEW n \in Nat,
         ~(i >= 0 /\ i + n < arr.size /\ n > 0 /\ arr.data # "live")
  PROVE  /\ Sound(Removed(i, n))
         /\ IF i \in 0..(arr.size - 1) /\ n > 0
            THEN Replaces(ItemsOf(arr), i, IF i + n < arr.size THEN i + n ELSE arr.size, <<>>,
                          ItemsOf(Removed(i, n)))
            ELSE Removed(i, n) = arr
<1>1. /\ arr.size \in Nat /\ arr.reserved \in Nat /\ Len(<<>>) = 0
      /\ Len(ItemsOf(arr)) = arr.size
  BY ItemsAre, EmptySeq DEF Sound, ArrayCounts
<1>2. CASE ~(i \in 0..(arr.size - 1) /\ n > 0)
  BY <1>1, <1>2 DEF Removed
<1> DEFINE b == Removed(i, n)
<1>3. CASE i \in 0..(arr.size - 1) /\ n > 0 /\ i + n >= arr.size
  <2>1. b = [arr EXCEPT !.size = i] /\ i \in Nat /\ i < arr.size
    BY <1>1, <1>3 DEF Removed
  <2> HIDE DEF b
  <2>2. /\ {"data", "cells", "size", "reserved"} \subseteq DOMAIN b
        /\ b.data = arr.data /\ b.cells = arr.cells /\ b.reserved = arr.reserved /\ b.size = i
    BY <2>1 DEF Sound
  <2>3. Sound(b)
    BY <1>1, <2>1, <2>2 DEF Sound
  <2>4. ASSUME NEW k \in 1..i PROVE ItemsOf(b)[k] = ItemsOf(arr)[k]
    <3>1. k \in 1..b.size /\ k \in 1..arr.size
      BY <1>1, <2>1, <2>2
    <3> QED  BY <2>2, <2>3, <3>1, ItemsAre
  <2>5. Len(ItemsOf(b)) = i
    BY <2>2, <2>3, ItemsAre
  <2>6. Replaces(ItemsOf(arr), i, arr.size, <<>>, ItemsOf(b))
    <3>1. PICK u, w, e : u = ItemsOf(arr) /\ w = ItemsOf(b) /\ e = <<>>
      OBVIOUS
    <3>2. /\ Len(u) = arr.size /\ Len(w) = i /\ Len(e) = 0 /\ i <= arr.size
          /\ \A k \in 1..i : w[k] = u[k]
      <4>1. \A k \in 1..i : ItemsOf(b)[k] = ItemsOf(arr)[k]
        BY <2>4
      <4>2. Len(u) = arr.size /\ Len(w) = i /\ Len(e) = 0 /\ i <= arr.size
        BY <1>1, <2>1, <2>5, <3>1
      <4> QED  BY <3>1, <4>1, <4>2
    <3>3. Replaces(u, i, arr.size, e, w)
      BY <1>1, <2>1, <3>2 DEF Replaces
    <3> QED  BY <3>1, <3>3
  <2>7. ~(i + n < arr.size)
    BY <1>1, <1>3
  <2> QED  BY <1>3, <2>3, <2>6, <2>7 DEF b
<1>4. CASE i \in 0..(arr.size - 1) /\ n > 0 /\ ~(i + n >= arr.size)
  <2>1. /\ b = [arr EXCEPT !.size = arr.size - n,
                   !.cells = [j \in DOMAIN arr.cells |->
                      IF j \in (i + 1)..(arr.size - n) THEN arr.cells[j + n] ELSE arr.cells[j]]]
        /\ i \in Nat /\ i + n < arr.size /\ arr.data = "live"
    BY <1>1, <1>4 DEF Removed
  <2> HIDE DEF b
  <2>2. /\ {"data", "cells", "size", "reserved"} \subseteq DOMAIN b
        /\ b.data = "live" /\ b.reserved = arr.reserved /\ b.size = arr.size - n
        /\ b.cells = [j \in DOMAIN arr.cells |->
                        IF j \in (i + 1)..(arr.size - n) THEN arr.cells[j + n] ELSE arr.cells[j]]
    BY <2>1 DEF Sound
  <2>3. arr.cells \in [1..arr.reserved -> Contents]
    BY <2>1, LenProperties DEF Sound
  <2>4. b.cells \in [1..arr.reserved -> Contents]
    <3>1. ASSUME NEW j \in (i + 1)..(arr.size - n) PROVE arr.cells[j + n] \in Contents
      <4>1. j + n \in 1..arr.reserved
        BY <1>1, <2>1 DEF Sound
      <4> QED  BY <2>3, <4>1
    <3> QED  BY <2>2, <2>3, <3>1
  <2>5. Sound(b)
    <3>1. b.cells \in Seq(Contents) /\ Len(b.cells) = arr.reserved
      BY <1>1, <2>4
    <3> QED  BY <1>1, <2>1, <2>2, <3>1 DEF Sound
  <2>6. ASSUME NEW k \in 1..i PROVE ItemsOf(b)[k] = ItemsOf(arr)[k]
    <3>1. k \in 1..b.size /\ k \in 1..arr.size /\ ~(k \in (i + 1)..(arr.size - n)) /\ k \in 1..arr.reserved
      BY <1>1, <2>1, <2>2 DEF Sound
    <3>2. b.cells[k] = arr.cells[k]
      BY <2>2, <2>3, <3>1
    <3> QED  BY <2>1, <2>2, <2>5, <3>1, <3>2, ItemsAre
  <2>7. ASSUME NEW k \in 1..(arr.size - (i + n)) PROVE ItemsOf(b)[i + k] = ItemsOf(arr)[i + n + k]
    <3>1. /\ i + k \in 1..b.size /\ i + n + k \in 1..arr.size /\ i + k \in (i + 1)..(arr.size - n)
          /\ i + k + n = i + n + k /\ i + k \in 1..arr.reserved
      BY <1>1, <2>1, <2>2 DEF Sound
    <3>2. b.cells[i + k] = arr.cells[i + n + k]
      BY <2>2, <2>3, <3>1
    <3> QED  BY <2>1, <2>2, <2>5, <3>1, <3>2, ItemsAre
  <2>8. Len(ItemsOf(b)) = arr.size - n
    BY <2>2, <2>5, ItemsAre
  <2>9. Replaces(ItemsOf(arr), i, i + n, <<>>, ItemsOf(b))
    <3>1. PICK u, w, e, z : u = ItemsOf(arr) /\ w = ItemsOf(b) /\ e = <<>> /\ z = arr.size
      OBVIOUS
    <3>2. /\ Len(u) = z /\ Len(w) = z - n /\ Len(e) = 0 /\ i + n < z /\ z \in Nat
          /\ \A k \in 1..i : w[k] = u[k]
          /\ \A k \in 1..(z - (i + n)) : w[i + k] = u[i + n + k]
      BY <1>1, <2>1, <2>6, <2>7, <2>8, <3>1
    <3>3. /\ i <= i + n /\ i + n <= z /\ z - n = i + 0 + (z - (i + n))
          /\ \A k \in 1..(z - (i + n)) : w[i + 0 + k] = u[i + n + k]
      <4>1. i + 0 = i
        BY <2>1
      <4> QED  BY <2>1, <3>2, <4>1
    <3>4. Replaces(u, i, i + n, e, w)
      BY <2>1, <3>2, <3>3 DEF Replaces
    <3> QED  BY <3>1, <3>4
  <2>10. i + n < arr.size
    BY <2>1
  <2> QED  BY <1>4, <2>5, <2>9, <2>10 DEF b
<1> QED  BY <1>1, <1>2, <1>3, <1>4

\* remove_elements.
LEMMA RemoveKeeps ==
  ASSUME ArrayInv, NEW i \in Int, NEW n \in Nat, ArrayRemove(i, n)
  PROVE  ArrayInv' /\ (Row!Next \/ UNCHANGED <<ArrayItems, arrayCall>>)
<1>1. CASE i >= 0 /\ i + n < arr.size /\ n > 0 /\ arr.data # "live"
  BY <1>1, FaultKeeps DEF ArrayRemove
<1>2. CASE ~(i >= 0 /\ i + n < arr.size /\ n > 0 /\ arr.data # "live")
  <2>1. ArrayCalled("remove", i, n, <<>>) /\ arr' = Removed(i, n) /\ arrayFault' = arrayFault
    BY <1>2 DEF ArrayRemove, Keeps
  <2>2. /\ arr.size \in Nat /\ Len(ArrayItems) = arr.size /\ ArrayItems \in Seq(Contents)
        /\ arrayCall'.op = "remove" /\ arrayCall'.at = i /\ arrayCall'.n = n
    BY <2>1, CallIs, ItemsAre, ItemsAreItems DEF ArrayInv, Sound
  <2>3. /\ Sound(Removed(i, n))
        /\ IF i \in 0..(arr.size - 1) /\ n > 0
           THEN Replaces(ItemsOf(arr), i, IF i + n < arr.size THEN i + n ELSE arr.size, <<>>,
                         ItemsOf(Removed(i, n)))
           ELSE Removed(i, n) = arr
    BY <1>2, RemovedIs DEF ArrayInv
  <2>4. ArrayInv' /\ ArrayItems' = ItemsOf(Removed(i, n)) /\ ArrayItems' \in Seq(Contents)
    <3>1. ArrayInv' /\ ArrayItems' = ItemsOf(Removed(i, n))
      BY <2>1, <2>3 DEF ArrayInv, Sound, ArrayItems, ItemsOf
    <3> QED  BY <2>3, <3>1, ItemsAre
  <2>5. CASE ~(i \in 0..(arr.size - 1) /\ n > 0)
    <3>1. ArrayItems' = ArrayItems
      BY <2>3, <2>4, <2>5, ItemsAreItems
    <3> QED  BY <2>2, <2>4, <2>5, <3>1 DEF Row!Next, Row!Remove, Row!Called
  <2>6. CASE i \in 0..(arr.size - 1) /\ n > 0
    <3> DEFINE j == IF i + n < arr.size THEN i + n ELSE arr.size
    <3>1. i \in Nat /\ j \in Nat
      BY <2>2, <2>6
    <3>2. Replaces(ArrayItems, i, j, <<>>, ArrayItems')
      BY <2>3, <2>4, <2>6, ItemsAreItems
    <3>3. SubSeq(ArrayItems, j + 1, arr.size) = SubSeq(ArrayItems, i + n + 1, arr.size)
      <4>1. CASE i + n < arr.size
        BY <4>1
      <4>2. CASE ~(i + n < arr.size)
        <5>1. j = arr.size /\ arr.size < j + 1 /\ arr.size < i + n + 1
              /\ j + 1 \in Int /\ i + n + 1 \in Int /\ arr.size \in Int
          BY <2>2, <3>1, <4>2
        <5> QED  BY <5>1, SubSeqEmpty
      <4> QED  BY <4>1, <4>2
    <3> HIDE DEF j
    <3>4. ArrayItems' = SubSeq(ArrayItems, 1, i) \o SubSeq(ArrayItems, j + 1, Len(ArrayItems))
      BY <2>2, <2>4, <3>1, <3>2, CutOut
    <3>5. ArrayItems' = SubSeq(ArrayItems, 1, i) \o SubSeq(ArrayItems, i + n + 1, Len(ArrayItems))
      BY <2>2, <3>3, <3>4
    <3> QED
      BY <2>2, <2>4, <2>6, <3>5 DEF Row!Next, Row!Remove, Row!Called, Row!Upto, Row!From
  <2> QED  BY <2>5, <2>6
<1> QED  BY <1>1, <1>2

\* A store through the pointer that at gives.
LEMMA AssignKeeps ==
  ASSUME ArrayInv, NEW i \in ArrayCounts, NEW v \in Contents, ArrayAssign(i, v)
  PROVE  ArrayInv' /\ (Row!Next \/ UNCHANGED <<ArrayItems, arrayCall>>)
<1>1. CASE arr.data # "live"
  BY <1>1, FaultKeeps DEF ArrayAssign
<1>2. CASE arr.data = "live"
  <2>1. /\ i < arr.size /\ i \in Nat /\ arr.size \in Nat /\ arr.reserved \in Nat
        /\ arr.size <= arr.reserved /\ arr' = [arr EXCEPT !.cells[i + 1] = v]
        /\ arrayFault' = arrayFault /\ ArrayCalled("assign", i, 1, <<v>>)
    BY <1>2 DEF ArrayAssign, Keeps, ArrayInv, Sound, ArrayCounts
  <2>2. arrayCall'.op = "assign" /\ arrayCall'.at = i /\ arrayCall'.s = <<v>>
    BY <2>1, CallIs
  <2>3. arr.cells \in [1..arr.reserved -> Contents] /\ Sound(arr)
    BY <1>2, LenProperties DEF ArrayInv, Sound
  <2>4. /\ {"data", "cells", "size", "reserved"} \subseteq DOMAIN arr'
        /\ arr'.data = "live" /\ arr'.size = arr.size /\ arr'.reserved = arr.reserved
        /\ arr'.cells = [arr.cells EXCEPT ![i + 1] = v]
    BY <1>2, <2>1 DEF ArrayInv, Sound
  <2>5. i + 1 \in 1..arr.reserved /\ i + 1 \in 1..arr.size
    BY <2>1
  <2>6. /\ arr'.cells \in [1..arr.reserved -> Contents]
        /\ \A k \in 1..arr.reserved : arr'.cells[k] = IF k = i + 1 THEN v ELSE arr.cells[k]
    BY <2>3, <2>4, <2>5
  <2>7. arr'.cells \in Seq(Contents) /\ Len(arr'.cells) = arr.reserved
    <3>1. PICK c : c = arr'.cells
      OBVIOUS
    <3>2. c \in [1..arr.reserved -> Contents]
      BY <2>6, <3>1
    <3>3. c \in Seq(Contents) /\ Len(c) = arr.reserved
      BY <2>1, <3>2
    <3> QED  BY <3>1, <3>3
  <2>8. PICK b : b = arr'
    OBVIOUS
  <2>9. Sound(b)
    BY <2>1, <2>3, <2>4, <2>7, <2>8 DEF Sound
  <2>10. ArrayInv' /\ ArrayItems' = ItemsOf(b)
    BY <2>1, <2>8, <2>9 DEF ArrayInv, Sound, ArrayItems, ItemsOf
  <2>11. /\ ItemsOf(b) \in Seq(Contents) /\ Len(ItemsOf(b)) = arr.size
         /\ ArrayItems \in Seq(Contents) /\ Len(ArrayItems) = arr.size
    BY <2>3, <2>4, <2>8, <2>9, ItemsAre, ItemsAreItems
  <2>12. ASSUME NEW k \in 1..arr.size
         PROVE  ItemsOf(b)[k] = IF k = i + 1 THEN v ELSE ArrayItems[k]
    <3>1. k \in 1..arr.reserved /\ k \in 1..b.size
      BY <2>1, <2>4, <2>8
    <3>2. ItemsOf(b)[k] = arr'.cells[k] /\ ItemsOf(arr)[k] = arr.cells[k]
      BY <1>2, <2>3, <2>4, <2>8, <2>9, <3>1, ItemsAre
    <3> QED  BY <2>6, <3>1, <3>2, ItemsAreItems
  <2>13. ItemsOf(b) = [ArrayItems EXCEPT ![i + 1] = v]
    <3>1. /\ [ArrayItems EXCEPT ![i + 1] = v] \in Seq(Contents)
          /\ Len([ArrayItems EXCEPT ![i + 1] = v]) = arr.size
          /\ \A k \in 1..arr.size :
               [ArrayItems EXCEPT ![i + 1] = v][k] = IF k = i + 1 THEN v ELSE ArrayItems[k]
      BY <2>5, <2>11, ExceptSeq
    <3> QED  BY <2>11, <2>12, <3>1, SeqEqual
  <2>14. i \in 0..(Len(ArrayItems) - 1) /\ <<v>>[1] = v
    BY <2>1, <2>11
  <2> QED
    BY <2>2, <2>10, <2>13, <2>14 DEF Row!Next, Row!Assign, Row!Called
<1> QED  BY <1>1, <1>2

\* init of an array that has no memory.
LEMMA InitKeeps ==
  ASSUME ArrayInv, NEW n \in ArrayCounts, ArrayInitN(n)
  PROVE  ArrayInv' /\ Row!Next
<1>1. arr.data # "live" /\ Sound(arr) /\ ArrayCalled("resize", 0, n, <<>>) /\ n \in Nat
  BY DEF ArrayInitN, ArrayInv, ArrayCounts
<1>2. ASSUME NEW a, Keeps(a), Sound(a), a.size = n,
             a.data = "live" => \A k \in 1..n : a.cells[k] = ArrayUnset
      PROVE  ArrayInv' /\ Row!Next
  <2>1. ASSUME NEW k \in 1..n, k <= arr.size PROVE ItemsOf(a)[k] = ItemsOf(arr)[k]
    <3>1. k \in 1..a.size /\ k \in 1..arr.size
      BY <1>1, <1>2, <2>1 DEF Sound
    <3>2. ItemsOf(a)[k] = ArrayUnset /\ ItemsOf(arr)[k] = ArrayUnset
      BY <1>1, <1>2, <3>1, ItemsAre
    <3> QED  BY <3>2
  <2> QED  BY <1>1, <1>2, <2>1, ResizedItems
<1>3. <<>> \in Seq(Contents) /\ Len(<<>>) = 0
  BY EmptySeq
<1>4. CASE Keeps([data |-> IF n = 0 THEN "null" ELSE "live",
                  cells |-> [i \in 1..n |-> ArrayUnset], size |-> n, reserved |-> n])
  <2> DEFINE c == [i \in 1..n |-> ArrayUnset]
             a == [data |-> IF n = 0 THEN "null" ELSE "live", cells |-> c, size |-> n, reserved |-> n]
  <2>1. c \in Seq(Contents) /\ Len(c) = n /\ \A k \in 1..n : c[k] = ArrayUnset
    BY <1>1 DEF Contents
  <2> HIDE DEF c
  <2>2. Sound(a) /\ a.size = n /\ a.cells = c
    <3>1. /\ a.data = (IF n = 0 THEN "null" ELSE "live") /\ a.cells = c /\ a.size = n /\ a.reserved = n
          /\ DOMAIN a = {"data", "cells", "size", "reserved"}
      OBVIOUS
    <3> HIDE DEF a
    <3> QED  BY <1>1, <2>1, <3>1 DEF Sound
  <2>3. Keeps(a)
    BY <1>4 DEF c
  <2> HIDE DEF a
  <2> QED  BY <1>2, <2>1, <2>2, <2>3
<1>5. CASE Keeps([NoArray EXCEPT !.size = n, !.reserved = n])
  <2> DEFINE a == [NoArray EXCEPT !.size = n, !.reserved = n]
  <2>1. Sound(a) /\ a.size = n /\ a.data = "null"
    BY <1>1, <1>3 DEF Sound, NoArray
  <2> HIDE DEF a
  <2> QED  BY <1>2, <1>5, <2>1 DEF a
<1> QED  BY <1>4, <1>5 DEF ArrayInitN

\* reserve and its kind.
LEMMA ReserveKeeps ==
  ASSUME ArrayInv, NEW n \in ArrayCounts, ArrayReserve(n)
  PROVE  ArrayInv' /\ (Row!Next \/ UNCHANGED <<ArrayItems, arrayCall>>)
<1>1. Sound(arr) /\ n \in Nat /\ arr.size \in Nat /\ arr.reserved \in Nat /\ arr.size <= arr.reserved
  BY DEF ArrayInv, Sound, ArrayCounts
<1>2. CASE ArrayCalled("grow", 0, 0, <<>>) /\ Keeps(arr)
  BY <1>1, <1>2, KeptItems
<1>3. CASE Faults
  BY <1>3, FaultKeeps
<1>4. CASE Refused
  BY <1>4, RefusedKeeps
<1>5. CASE /\ arr.reserved < n /\ ArrayCalled("grow", 0, 0, <<>>)
           /\ Keeps([arr EXCEPT !.data = "live", !.cells = Block(n), !.reserved = n])
  <2> DEFINE a == [arr EXCEPT !.data = "live", !.cells = Block(n), !.reserved = n]
  <2>1. /\ {"data", "cells", "size", "reserved"} \subseteq DOMAIN a
        /\ a.data = "live" /\ a.cells = Block(n) /\ a.reserved = n /\ a.size = arr.size
    BY <1>1 DEF Sound
  <2> HIDE DEF a
  <2>2. a.size \in Nat /\ a.size <= n
    BY <1>1, <1>5, <2>1
  <2>3. Sound(a) /\ \A i \in 1..a.size : i <= arr.size => ItemsOf(a)[i] = ItemsOf(arr)[i]
    BY <1>1, <2>1, <2>2, Reblocked
  <2>4. \A i \in 1..a.size : ItemsOf(a)[i] = ItemsOf(arr)[i]
    BY <1>1, <2>1, <2>3
  <2> QED  BY <1>5, <2>1, <2>3, <2>4, KeptItems DEF a
<1> QED  BY <1>2, <1>3, <1>4, <1>5 DEF ArrayReserve

LEMMA NoArrayIs == Sound(NoArray) /\ NoArray.size = 0
<1>1. <<>> \in Seq(Contents) /\ Len(<<>>) = 0
  BY EmptySeq
<1> QED  BY <1>1, ArrayAssumption DEF Sound, NoArray, ArrayCounts

\* resize: the elements that fit stay.
LEMMA ResizeKeeps ==
  ASSUME ArrayInv, NEW n \in ArrayCounts, ArrayResize(n)
  PROVE  ArrayInv' /\ (Row!Next \/ UNCHANGED <<ArrayItems, arrayCall>>)
<1>1. Sound(arr) /\ n \in Nat /\ arr.size \in Nat /\ arr.reserved \in Nat /\ arr.size <= arr.reserved
  BY DEF ArrayInv, Sound, ArrayCounts
<1>2. CASE arr.reserved = n /\ ArrayCalled("resize", 0, n, <<>>) /\ Keeps([arr EXCEPT !.size = n])
  <2> DEFINE a == [arr EXCEPT !.size = n]
  <2>1. /\ {"data", "cells", "size", "reserved"} \subseteq DOMAIN a
        /\ a.data = arr.data /\ a.cells = arr.cells /\ a.reserved = arr.reserved /\ a.size = n
    BY <1>1 DEF Sound
  <2> HIDE DEF a
  <2>2. Sound(a)
    BY <1>1, <1>2, <2>1 DEF Sound
  <2>3. ASSUME NEW i \in 1..n, i <= arr.size PROVE ItemsOf(a)[i] = ItemsOf(arr)[i]
    <3>1. i \in 1..a.size /\ i \in 1..arr.size
      BY <1>1, <2>1, <2>3
    <3> QED  BY <1>1, <2>1, <2>2, <3>1, ItemsAre
  <2> QED  BY <1>1, <1>2, <2>1, <2>2, <2>3, ResizedItems DEF a
<1>3. CASE Faults
  BY <1>3, FaultKeeps
<1>4. CASE Refused
  BY <1>4, RefusedKeeps
<1>5. CASE n = 0 /\ ArrayCalled("resize", 0, 0, <<>>) /\ Keeps(NoArray)
  BY <1>5, NoArrayIs, ResizedItems
<1>6. CASE /\ ArrayCalled("resize", 0, n, <<>>)
           /\ Keeps([data |-> "live", cells |-> Block(n), size |-> n, reserved |-> n])
  <2> DEFINE a == [data |-> "live", cells |-> Block(n), size |-> n, reserved |-> n]
  <2>1. /\ {"data", "cells", "size", "reserved"} \subseteq DOMAIN a
        /\ a.data = "live" /\ a.cells = Block(n) /\ a.reserved = n /\ a.size = n
    OBVIOUS
  <2> HIDE DEF a
  <2>2. Sound(a) /\ \A i \in 1..a.size : i <= arr.size => ItemsOf(a)[i] = ItemsOf(arr)[i]
    BY <1>1, <2>1, Reblocked
  <2> QED  BY <1>1, <1>6, <2>1, <2>2, ResizedItems DEF a
<1> QED  BY <1>2, <1>3, <1>4, <1>5, <1>6 DEF ArrayResize

\* shrink_to_fit, which leaves a pointer to what it freed behind.
LEMMA ShrinkKeeps ==
  ASSUME ArrayInv, ArrayShrink
  PROVE  ArrayInv' /\ (Row!Next \/ UNCHANGED <<ArrayItems, arrayCall>>)
<1>1. /\ Sound(arr) /\ arr.size \in Nat /\ arr.reserved \in Nat /\ arr.size <= arr.reserved
      /\ arr.reserved \in ArrayCounts /\ arr.size \in ArrayCounts
  BY ArrayAssumption DEF ArrayInv, Sound, ArrayCounts
<1>2. CASE ArrayCalled("grow", 0, 0, <<>>) /\ Keeps(arr)
  BY <1>1, <1>2, KeptItems
<1>3. CASE Faults
  BY <1>3, FaultKeeps
<1>4. CASE Refused
  BY <1>4, RefusedKeeps
<1>5. CASE /\ arr.size = 0 /\ ArrayCalled("grow", 0, 0, <<>>)
           /\ Keeps([arr EXCEPT !.cells = <<>>, !.data = IF @ = "null" THEN "null" ELSE "freed"])
  <2> DEFINE a == [arr EXCEPT !.cells = <<>>, !.data = IF @ = "null" THEN "null" ELSE "freed"]
  <2>1. /\ {"data", "cells", "size", "reserved"} \subseteq DOMAIN a
        /\ a.data \in {"null", "freed"} /\ a.cells = <<>> /\ a.reserved = arr.reserved /\ a.size = 0
    BY <1>1, <1>5 DEF Sound
  <2> HIDE DEF a
  <2>2. <<>> \in Seq(Contents) /\ Len(<<>>) = 0
    BY EmptySeq
  <2>3. Sound(a)
    BY <1>1, <2>1, <2>2 DEF Sound
  <2>4. \A i \in 1..a.size : ItemsOf(a)[i] = ItemsOf(arr)[i]
    BY <2>1
  <2> QED  BY <1>5, <2>1, <2>3, <2>4, KeptItems DEF a
<1>6. CASE /\ ArrayCalled("grow", 0, 0, <<>>)
           /\ Keeps([arr EXCEPT !.data = "live", !.cells = Block(arr.size), !.reserved = arr.size])
  <2> DEFINE a == [arr EXCEPT !.data = "live", !.cells = Block(arr.size), !.reserved = arr.size]
  <2>1. /\ {"data", "cells", "size", "reserved"} \subseteq DOMAIN a
        /\ a.data = "live" /\ a.cells = Block(arr.size) /\ a.reserved = arr.size /\ a.size = arr.size
    BY <1>1 DEF Sound
  <2> HIDE DEF a
  <2>2. a.size \in Nat /\ a.size <= arr.size
    BY <1>1, <2>1
  <2>3. PICK m \in ArrayCounts : m = arr.size
    BY <1>1
  <2>4. Sound(a) /\ \A i \in 1..a.size : i <= arr.size => ItemsOf(a)[i] = ItemsOf(arr)[i]
    BY <1>1, <2>1, <2>2, <2>3, Reblocked
  <2>5. \A i \in 1..a.size : ItemsOf(a)[i] = ItemsOf(arr)[i]
    BY <1>1, <2>1, <2>4
  <2> QED  BY <1>6, <2>1, <2>4, <2>5, KeptItems DEF a
<1> QED  BY <1>2, <1>3, <1>4, <1>5, <1>6 DEF ArrayShrink

LEMMA ClearKeeps ==
  ASSUME ArrayInv, ArrayClear
  PROVE  ArrayInv' /\ Row!Next
<1> DEFINE a == [arr EXCEPT !.size = 0]
<1>1. /\ {"data", "cells", "size", "reserved"} \subseteq DOMAIN a
      /\ a.data = arr.data /\ a.cells = arr.cells /\ a.reserved = arr.reserved /\ a.size = 0
  BY DEF ArrayInv, Sound
<1>2. ArrayCalled("resize", 0, 0, <<>>) /\ Keeps(a)
  BY DEF ArrayClear
<1> HIDE DEF a
<1>3. Sound(a)
  BY <1>1 DEF ArrayInv, Sound, ArrayCounts
<1> QED  BY <1>1, <1>2, <1>3, ResizedItems

LEMMA FreeKeeps ==
  ASSUME ArrayInv, ArrayFree
  PROVE  ArrayInv' /\ (Row!Next \/ UNCHANGED <<ArrayItems, arrayCall>>)
<1>1. CASE Faults
  BY <1>1, FaultKeeps
<1>2. CASE ArrayCalled("resize", 0, 0, <<>>) /\ Keeps(NoArray)
  BY <1>2, NoArrayIs, ResizedItems
<1> QED  BY <1>1, <1>2 DEF ArrayFree

\* Every call keeps the invariant and changes the elements as a sequence.
LEMMA ArrayStep ==
  ASSUME ArrayInv, [ArrayNext]_arrayVars
  PROVE  ArrayInv' /\ (Row!Next \/ UNCHANGED <<ArrayItems, arrayCall>>)
<1>1. CASE UNCHANGED arrayVars
  BY <1>1, FaultKeeps
<1>2. ASSUME NEW n \in ArrayCounts, ArrayInitN(n) \/ ArrayReserve(n) \/ ArrayResize(n)
      PROVE  ArrayInv' /\ (Row!Next \/ UNCHANGED <<ArrayItems, arrayCall>>)
  BY <1>2, InitKeeps, ReserveKeeps, ResizeKeeps
<1>3. ASSUME NEW i \in ArrayCounts \cup {-1}, NEW n \in ArrayCounts, ArrayGrow(i, n) \/ ArrayRemove(i, n)
      PROVE  ArrayInv' /\ (Row!Next \/ UNCHANGED <<ArrayItems, arrayCall>>)
  <2>1. i \in Int /\ n \in Nat
    BY DEF ArrayCounts
  <2> QED  BY <1>3, <2>1, GrowKeeps, RemoveKeeps
<1>4. ASSUME NEW i \in Int, NEW s \in ArrayRanges, ArrayInsertRange(i, s) \/ ArrayAddRange(i, s)
      PROVE  ArrayInv' /\ (Row!Next \/ UNCHANGED <<ArrayItems, arrayCall>>)
  BY <1>4, RangeInserted, RefusedKeeps, FaultKeeps DEF ArrayInsertRange, ArrayAddRange
<1>5. ASSUME NEW i \in ArrayCounts, NEW s \in ArrayRanges, Len(s) = 1, ArrayAssign(i, s[1])
      PROVE  ArrayInv' /\ (Row!Next \/ UNCHANGED <<ArrayItems, arrayCall>>)
  <2>1. s \in Seq(ArrayValues) /\ 1 \in 1..Len(s)
    BY <1>5, ArrayAssumption
  <2>2. s[1] \in Contents
    BY <2>1, ElementOfSeq DEF Contents
  <2> QED  BY <1>5, <2>2, AssignKeeps
<1>6. ASSUME NEW s \in ArrayRanges,
             \/ \E i \in ArrayCounts : ArrayInsertRange(i, s)
             \/ ArrayAddRange(arr.size, s)
             \/ Len(s) = 1 /\ ArrayAddRange(0, s)
      PROVE  ArrayInv' /\ (Row!Next \/ UNCHANGED <<ArrayItems, arrayCall>>)
  <2>1. arr.size \in Int /\ 0 \in Int /\ ArrayCounts \subseteq Int
    BY DEF ArrayInv, Sound, ArrayCounts
  <2> QED  BY <1>4, <1>6, <2>1
<1>7. CASE ArrayShrink \/ ArrayClear \/ ArrayFree
  BY <1>7, ShrinkKeeps, ClearKeeps, FreeKeeps
<1> QED  BY <1>1, <1>2, <1>3, <1>5, <1>6, <1>7 DEF ArrayNext

\* The fields of an array keep their types, and reserved_size is the size of the block,
\* which the elements fit in: for every bound and set of values, whatever fails.
THEOREM ArrayKeepsBlock == ArraySpec => [](ArrayTypeOK /\ ReservedIsBlock)
<1>1. ArrayInv /\ [ArrayNext]_arrayVars => ArrayInv'
  BY ArrayStep
<1> QED  BY <1>1, ArrayBegins, InvIsTyped, PTL DEF ArraySpec

\* Every function of array.hpp changes the elements as the sequence it is promised to be:
\* whether it fits, moves the elements to a larger block or gets no memory.
THEOREM ArrayImplementsSequence == ArraySpec => ArrayIsSequence
<1>1. ArrayInit => Row!Init
  <2> SUFFICES ASSUME ArrayInit PROVE Row!Init
    OBVIOUS
  <2>1. ArrayItems \in Seq(Contents) /\ Len(ArrayItems) = 0
    BY ArrayBegins, ItemsAre, ItemsAreItems DEF ArrayInv, ArrayInit, NoArray
  <2>2. ArrayItems = <<>>
    BY <2>1, EmptySeq
  <2> QED  BY <2>2 DEF ArrayInit, NoCall, Row!Init
<1>2. ArrayInv /\ [ArrayNext]_arrayVars => ArrayInv' /\ [Row!Next]_(Row!vars)
  BY ArrayStep DEF Row!vars
<1> QED  BY <1>1, <1>2, ArrayBegins, PTL DEF ArraySpec, ArrayIsSequence, Row!Spec

(***************************************************************************)
(* The binary search.                                                      *)
(***************************************************************************)

\* What is answered between the bounds b, where f has the answers between others.
Round(f, v, b) ==
  LET m == Middle(b)
      c == Compare(v, arr.cells[m + 1])
  IN IF c > 0 /\ m + 1 <= b[2] THEN f[<<m + 1, b[2]>>]
     ELSE IF c < 0 /\ m # 0 /\ b[1] <= m - 1 THEN f[<<b[1], m - 1>>]
     ELSE [index |-> m, comparison |-> c]

\* f has the answers between all bounds that are less than k apart.
Near(k) == {b \in Bounds : b[2] - b[1] < k}
Answers(f, v, k) == f = [b \in Near(k) |-> Round(f, v, b)]

LEMMA BoundsAre ==
  ASSUME arr.size \in Nat, NEW b \in Bounds
  PROVE  /\ b[1] \in Nat /\ b[1] <= arr.size /\ b[2] \in Int /\ b[2] >= -1 /\ b[2] < arr.size
         /\ b = <<b[1], b[2]>> /\ Middle(b) \in Int
         /\ b[1] <= b[2] => Middle(b) >= b[1] /\ Middle(b) <= b[2]
         /\ b[1] > b[2] => Middle(b) < b[1] /\ Middle(b) >= b[2]
BY DEF Bounds, Middle

\* An answer only asks for those between bounds that are closer.
LEMMA RoundNeedsCloser ==
  ASSUME arr.size \in Nat, NEW v, NEW k \in Nat, NEW b \in Near(k + 1), NEW f, NEW g,
         \A a \in Near(k) : f[a] = g[a]
  PROVE  Round(f, v, b) = Round(g, v, b)
<1>1. PICK m : m = Middle(b)
  OBVIOUS
<1>2. PICK c : c = Compare(v, arr.cells[m + 1])
  OBVIOUS
<1>3. /\ b[1] \in Nat /\ b[1] <= arr.size /\ b[2] \in Int /\ b[2] >= -1 /\ b[2] < arr.size /\ m \in Int
      /\ b[1] <= b[2] => m >= b[1] /\ m <= b[2]
      /\ b[1] > b[2] => m < b[1] /\ m >= b[2]
      /\ b[2] - b[1] < k + 1
  BY <1>1, BoundsAre DEF Near
<1>4. m + 1 <= b[2] => <<m + 1, b[2]>> \in Near(k)
  <2> SUFFICES ASSUME m + 1 <= b[2] PROVE <<m + 1, b[2]>> \in Near(k)
    OBVIOUS
  <2>1. b[1] <= b[2] /\ m + 1 \in 0..arr.size /\ b[2] \in -1..(arr.size - 1) /\ b[2] - (m + 1) < k
    BY <1>3
  <2> QED  BY <2>1 DEF Near, Bounds
<1>5. b[1] <= m - 1 => <<b[1], m - 1>> \in Near(k)
  <2> SUFFICES ASSUME b[1] <= m - 1 PROVE <<b[1], m - 1>> \in Near(k)
    OBVIOUS
  <2>1. b[1] <= b[2] /\ b[1] \in 0..arr.size /\ m - 1 \in -1..(arr.size - 1) /\ (m - 1) - b[1] < k
    BY <1>3
  <2> QED  BY <2>1 DEF Near, Bounds
<1>6. ASSUME NEW h
      PROVE  Round(h, v, b) = IF c > 0 /\ m + 1 <= b[2] THEN h[<<m + 1, b[2]>>]
                              ELSE IF c < 0 /\ m # 0 /\ b[1] <= m - 1 THEN h[<<b[1], m - 1>>]
                              ELSE [index |-> m, comparison |-> c]
  BY <1>1, <1>2 DEF Round
<1>7. CASE c > 0 /\ m + 1 <= b[2]
  BY <1>4, <1>6, <1>7
<1>8. CASE ~(c > 0 /\ m + 1 <= b[2]) /\ c < 0 /\ m # 0 /\ b[1] <= m - 1
  BY <1>5, <1>6, <1>8
<1>9. CASE ~(c > 0 /\ m + 1 <= b[2]) /\ ~(c < 0 /\ m # 0 /\ b[1] <= m - 1)
  BY <1>6, <1>9
<1> QED  BY <1>7, <1>8, <1>9

LEMMA AnswersExist ==
  ASSUME arr.size \in Nat, NEW v, NEW k \in Nat
  PROVE  \E f : Answers(f, v, k)
<1> DEFINE Without == {j \in Nat : ~\E f : Answers(f, v, j)}
<1> SUFFICES ASSUME Without # {} PROVE FALSE
  OBVIOUS
<1>1. PICK j \in Without : \A i \in Without : j <= i
  BY LeastExists
<1>2. PICK i, h : (j # 0 => i \in Nat /\ j = i + 1 /\ Answers(h, v, i)) /\ (j = 0 => i = 0)
  <2>1. j # 0 => j - 1 \in Nat /\ j = (j - 1) + 1 /\ j - 1 \notin Without
    BY <1>1
  <2> QED  BY <2>1
<1>3. PICK f : f = [b \in Near(j) |-> Round(h, v, b)]
  OBVIOUS
<1>4. ASSUME NEW b \in Near(j) PROVE Round(f, v, b) = Round(h, v, b)
  <2>1. CASE j # 0
    <3>1. \A a \in Near(i) : a \in Near(j)
      BY <1>1, <1>2, <2>1, BoundsAre DEF Near
    <3>2. \A a \in Near(i) : f[a] = h[a]
      BY <1>2, <1>3, <2>1, <3>1 DEF Answers
    <3> QED  BY <1>2, <2>1, <3>2, RoundNeedsCloser
  <2>2. CASE j = 0
    <3>1. /\ b[1] \in Nat /\ b[2] \in Int /\ Middle(b) \in Int /\ b[2] < b[1] 
          /\ Middle(b) < b[1] /\ Middle(b) >= b[2]
      BY <2>2, BoundsAre DEF Near
    <3>2. ~(Middle(b) + 1 <= b[2]) /\ ~(b[1] <= Middle(b) - 1)
      BY <3>1
    <3> QED  BY <3>2 DEF Round
  <2> QED  BY <2>1, <2>2
<1>5. Answers(f, v, j)
  BY <1>3, <1>4 DEF Answers
<1> QED  BY <1>1, <1>5

\* The search is the function it is defined by.
LEMMA SearchIsOne ==
  ASSUME arr.size \in Nat \ {0}, NEW v
  PROVE  \E f : Answers(f, v, arr.size + 2) /\ BinarySearch(v) = f[<<0, arr.size - 1>>]
<1> DEFINE s == CHOOSE f : f = [b \in Bounds |-> Round(f, v, b)]
<1>1. Near(arr.size + 2) = Bounds
  BY BoundsAre DEF Near
<1>2. \E f : f = [b \in Bounds |-> Round(f, v, b)]
  <2>1. arr.size + 2 \in Nat
    OBVIOUS
  <2>2. \E f : Answers(f, v, arr.size + 2)
    BY <2>1, AnswersExist
  <2> QED  BY <1>1, <2>2 DEF Answers
<1>3. s = [b \in Bounds |-> Round(s, v, b)]
  BY <1>2
<1>4. BinarySearch(v) = s[<<0, arr.size - 1>>]
  BY DEF BinarySearch, Round
<1> HIDE DEF s
<1> QED  BY <1>1, <1>3, <1>4 DEF Answers

\* The elements are numbers in ascending order.
Ascending ==
  /\ \A i \in 1..arr.size : arr.cells[i] \in Int
  /\ \A i, j \in 1..arr.size : i < j => arr.cells[i] < arr.cells[j]

\* What is outside the bounds b is on its side of v.
Encloses(b, v) ==
  \A i \in 1..arr.size : /\ i <= b[1] => arr.cells[i] < v
                         /\ i > b[2] + 1 => arr.cells[i] > v

\* The element looked at last, or the place beside it, is that of v.
Finds(a, v) ==
  /\ a.index \in 0..(arr.size - 1)
  /\ a = [index |-> a.index, comparison |-> Compare(v, arr.cells[a.index + 1])]
  /\ a.comparison > 0 => \A i \in 1..arr.size : i > a.index + 1 => arr.cells[i] > v
  /\ a.comparison < 0 => \A i \in 1..arr.size : i <= a.index => arr.cells[i] < v

LEMMA SearchFinds ==
  ASSUME arr.size \in Nat \ {0}, Ascending, NEW v \in Int
  PROVE  Finds(BinarySearch(v), v)
<1>1. PICK f : Answers(f, v, arr.size + 2) /\ BinarySearch(v) = f[<<0, arr.size - 1>>]
  BY SearchIsOne
<1>2. \A b \in Bounds : f[b] = Round(f, v, b)
  <2>1. Near(arr.size + 2) = Bounds
    BY BoundsAre DEF Near
  <2> QED  BY <1>1, <2>1 DEF Answers
<1> DEFINE Lost == {k \in Nat : \E b \in Bounds : b[2] - b[1] = k /\ Encloses(b, v) /\ ~Finds(f[b], v)}
<1>3. Lost = {}
  <2> SUFFICES ASSUME Lost # {} PROVE FALSE
    OBVIOUS
  <2>1. PICK k \in Lost : \A i \in Lost : k <= i
    BY LeastExists
  <2>2. PICK b \in Bounds : b[2] - b[1] = k /\ Encloses(b, v) /\ ~Finds(f[b], v)
    BY <2>1
  <2>3. ASSUME NEW a \in Bounds, a[1] <= a[2], a[2] - a[1] < b[2] - b[1], Encloses(a, v)
        PROVE  Finds(f[a], v)
    <3>1. a[2] - a[1] \in Nat /\ a[2] - a[1] \notin Lost
      BY <2>1, <2>2, <2>3, BoundsAre
    <3> QED  BY <2>3, <3>1
  <2>4. PICK m, c : m = Middle(b) /\ c = Compare(v, arr.cells[m + 1])
    OBVIOUS
  <2>5. /\ b[1] \in Nat /\ b[1] <= arr.size /\ b[2] \in Int /\ b[2] < arr.size /\ b[1] <= b[2]
        /\ m \in Int /\ m >= b[1] /\ m <= b[2] /\ m + 1 \in 1..arr.size /\ m \in 0..(arr.size - 1)
    <3>1. b[2] - b[1] \in Nat
      BY <2>1, <2>2
    <3> QED  BY <2>4, <3>1, BoundsAre
  <2>6. PICK x \in Int : x = arr.cells[m + 1]
    BY <2>5 DEF Ascending
  <2>7. c = IF v < x THEN -1 ELSE IF v > x THEN 1 ELSE 0
    BY <2>4, <2>6 DEF Compare
  <2>8. f[b] = IF c > 0 /\ m + 1 <= b[2] THEN f[<<m + 1, b[2]>>]
               ELSE IF c < 0 /\ m # 0 /\ b[1] <= m - 1 THEN f[<<b[1], m - 1>>]
               ELSE [index |-> m, comparison |-> c]
    BY <1>2, <2>4 DEF Round
  <2>9. ASSUME c > 0 PROVE \A i \in 1..arr.size : i <= m + 1 => arr.cells[i] < v
    <3> SUFFICES ASSUME NEW i \in 1..arr.size, i <= m + 1 PROVE arr.cells[i] < v
      OBVIOUS
    <3>1. x < v /\ (i = m + 1 \/ i < m + 1)
      BY <2>5, <2>7, <2>9
    <3>2. i < m + 1 => arr.cells[i] < x
      BY <2>5, <2>6 DEF Ascending
    <3> QED  BY <2>6, <3>1, <3>2 DEF Ascending
  <2>10. ASSUME c < 0 PROVE \A i \in 1..arr.size : i >= m + 1 => arr.cells[i] > v
    <3> SUFFICES ASSUME NEW i \in 1..arr.size, i >= m + 1 PROVE arr.cells[i] > v
      OBVIOUS
    <3>1. x > v /\ (i = m + 1 \/ i > m + 1)
      BY <2>5, <2>7, <2>10
    <3>2. i > m + 1 => arr.cells[i] > x
      BY <2>5, <2>6 DEF Ascending
    <3> QED  BY <2>6, <3>1, <3>2 DEF Ascending
  <2>11. CASE c > 0 /\ m + 1 <= b[2]
    <3>1. <<m + 1, b[2]>> \in Bounds
      BY <2>5, <2>11 DEF Bounds
    <3>2. Encloses(<<m + 1, b[2]>>, v)
      BY <2>2, <2>9, <2>11 DEF Encloses
    <3>3. Finds(f[<<m + 1, b[2]>>], v)
      BY <2>3, <2>5, <2>11, <3>1, <3>2
    <3> QED  BY <2>2, <2>8, <2>11, <3>3
  <2>12. CASE ~(c > 0 /\ m + 1 <= b[2]) /\ c < 0 /\ m # 0 /\ b[1] <= m - 1
    <3>1. <<b[1], m - 1>> \in Bounds
      BY <2>5, <2>12 DEF Bounds
    <3>2. Encloses(<<b[1], m - 1>>, v)
      BY <2>2, <2>5, <2>10, <2>12 DEF Encloses
    <3>3. Finds(f[<<b[1], m - 1>>], v)
      BY <2>3, <2>5, <2>12, <3>1, <3>2
    <3> QED  BY <2>2, <2>8, <2>12, <3>3
  <2>13. CASE ~(c > 0 /\ m + 1 <= b[2]) /\ ~(c < 0 /\ m # 0 /\ b[1] <= m - 1)
    <3>1. f[b] = [index |-> m, comparison |-> c]
      BY <2>8, <2>13
    <3>2. c > 0 => \A i \in 1..arr.size : i > m + 1 => arr.cells[i] > v
      BY <2>2, <2>5, <2>13 DEF Encloses
    <3>3. c < 0 => \A i \in 1..arr.size : i <= m => arr.cells[i] < v
      BY <2>2, <2>5, <2>13 DEF Encloses
    <3>4. Finds(f[b], v)
      BY <2>4, <2>5, <3>1, <3>2, <3>3 DEF Finds
    <3> QED  BY <2>2, <3>4
  <2> QED  BY <2>11, <2>12, <2>13
<1>4. <<0, arr.size - 1>> \in Bounds /\ Encloses(<<0, arr.size - 1>>, v) /\ (arr.size - 1) - 0 \in Nat
  BY DEF Bounds, Encloses
<1> QED  BY <1>1, <1>3, <1>4

\* nearest_index_of gives the place of v: as many elements as that are less.
LEMMA PlaceIs ==
  ASSUME arr.size \in Nat \ {0}, Ascending, NEW v \in Int
  PROVE  LET a == NearestIndexOf(v)
         IN  /\ a.index \in 0..arr.size /\ a.comparison \in {-1, 0, 1}
             /\ \A i \in 1..arr.size : i <= a.index => arr.cells[i] < v
             /\ a.comparison = 0 => a.index < arr.size /\ arr.cells[a.index + 1] = v
             /\ a.comparison # 0 => \A i \in 1..arr.size : i > a.index => arr.cells[i] > v
<1>1. PICK a : a = BinarySearch(v)
  OBVIOUS
<1>2. PICK n \in 0..(arr.size - 1) : n = a.index
  BY <1>1, SearchFinds DEF Finds
<1>3. PICK x \in Int : x = arr.cells[n + 1] /\ n + 1 \in 1..arr.size
  BY DEF Ascending
<1>4. PICK c \in {-1, 0, 1} : c = Compare(v, x)
  BY DEF Compare
<1>5. /\ a = [index |-> n, comparison |-> c]
      /\ c > 0 => \A i \in 1..arr.size : i > n + 1 => arr.cells[i] > v
      /\ c < 0 => \A i \in 1..arr.size : i <= n => arr.cells[i] < v
  BY <1>1, <1>2, <1>3, <1>4, SearchFinds DEF Finds
<1>6. (c > 0 <=> x < v) /\ (c < 0 <=> v < x) /\ (c = 0 <=> v = x)
  BY <1>4 DEF Compare
<1>7. \A i \in 1..arr.size : arr.cells[i] \in Int /\ (i < n + 1 => arr.cells[i] < x)
                             /\ (i > n + 1 => arr.cells[i] > x)
  BY <1>3 DEF Ascending
<1>8. CASE c > 0
  <2>1. NearestIndexOf(v) = [index |-> n + 1, comparison |-> c]
    BY <1>1, <1>5, <1>8 DEF NearestIndexOf
  <2>2. \A i \in 1..arr.size : i <= n + 1 => arr.cells[i] < v
    BY <1>3, <1>6, <1>7, <1>8
  <2> QED  BY <1>5, <1>8, <2>1, <2>2
<1>9. CASE ~(c > 0)
  <2>1. NearestIndexOf(v) = [index |-> n, comparison |-> c]
    BY <1>1, <1>5, <1>9 DEF NearestIndexOf
  <2>2. \A i \in 1..arr.size : i <= n => arr.cells[i] < v
    BY <1>5, <1>6, <1>7, <1>9
  <2>3. c # 0 => \A i \in 1..arr.size : i > n => arr.cells[i] > v
    BY <1>3, <1>6, <1>7, <1>9
  <2> QED  BY <1>3, <1>6, <1>9, <2>1, <2>2, <2>3
<1> QED  BY <1>8, <1>9

(***************************************************************************)
(* The set                                                                 *)
(***************************************************************************)

RangeOf(u) == {u[k] : k \in 1..Len(u)}

\* A sequence of values in ascending order.
Ordered(u) ==
  /\ \A k \in 1..Len(u) : u[k] \in ArrayValues
  /\ \A k, l \in 1..Len(u) : k < l => u[k] < u[l]

\* The array of the set, whose elements are in memory; without a compare function
\* there are none.
Compared == hasCompare \in BOOLEAN /\ (~hasCompare => arr.size = 0)

SetInv == ArrayInv /\ Readable /\ Ordered(ArrayItems) /\ Compared

LEMMA ElementsAre ==
  ASSUME ArrayInv, Readable
  PROVE  /\ arr.size \in Nat /\ Len(ArrayItems) = arr.size
         /\ \A i \in 1..arr.size : ArrayItems[i] = arr.cells[i]
         /\ Members = RangeOf(ArrayItems)
<1>1. arr.size \in Nat /\ Len(ArrayItems) = arr.size
  BY ItemsAre, ItemsAreItems DEF ArrayInv, Sound
<1>2. ASSUME NEW i \in 1..arr.size PROVE ArrayItems[i] = arr.cells[i]
  <2>1. arr.data = "live"
    BY <1>1 DEF Readable
  <2> QED  BY <2>1 DEF ArrayItems
<1>3. Members = RangeOf(ArrayItems)
  <2>1. Members = {arr.cells[i] : i \in 1..arr.size}
    BY DEF Members
  <2>2. RangeOf(ArrayItems) = {ArrayItems[i] : i \in 1..arr.size}
    BY <1>1 DEF RangeOf
  <2> QED  BY <1>2, <2>1, <2>2
<1> QED  BY <1>1, <1>2, <1>3

LEMMA OrderedAscends ==
  ASSUME ArrayValues \subseteq Int, SetInv
  PROVE  Ascending
<1>1. /\ arr.size \in Nat /\ Len(ArrayItems) = arr.size
      /\ \A i \in 1..arr.size : ArrayItems[i] = arr.cells[i]
  BY ElementsAre DEF SetInv
<1>2. Ordered(ArrayItems)
  BY DEF SetInv
<1> QED  BY <1>1, <1>2 DEF Ordered, Ascending

\* A member is where the search says.
LEMMA FoundIsMember ==
  ASSUME ArrayValues \subseteq Int, SetInv, arr.size > 0, NEW v \in ArrayValues
  PROVE  SetContains(v) <=> v \in Members
<1>1. arr.size \in Nat \ {0} /\ v \in Int /\ Ascending
  BY OrderedAscends, ElementsAre DEF SetInv
<1>2. PICK a : a = NearestIndexOf(v)
  OBVIOUS
<1>3. /\ a.index \in 0..arr.size /\ a.comparison \in {-1, 0, 1}
      /\ \A i \in 1..arr.size : i <= a.index => arr.cells[i] < v
      /\ a.comparison = 0 => a.index < arr.size /\ arr.cells[a.index + 1] = v
      /\ a.comparison # 0 => \A i \in 1..arr.size : i > a.index => arr.cells[i] > v
  BY <1>1, <1>2, PlaceIs
<1>4. CASE a.comparison = 0
  <2>1. a.index + 1 \in 1..arr.size /\ arr.cells[a.index + 1] = v
    BY <1>1, <1>3, <1>4
  <2> QED  BY <1>2, <1>4, <2>1 DEF SetContains, Members
<1>5. CASE a.comparison # 0
  <2>1. ASSUME NEW i \in 1..arr.size PROVE arr.cells[i] # v
    <3>1. i <= a.index \/ i > a.index
      BY <1>1, <1>3
    <3>2. arr.cells[i] \in Int
      BY <1>1 DEF Ascending
    <3> QED  BY <1>1, <1>3, <1>5, <3>1, <3>2
  <2> QED  BY <1>2, <1>5, <2>1 DEF SetContains, Members
<1> QED  BY <1>4, <1>5

LEMMA SetIsExact ==
  ASSUME ArrayValues \subseteq Int, SetInv
  PROVE  SearchIsExact
<1>1. /\ arr.size \in Nat /\ Ascending
  BY OrderedAscends, ElementsAre DEF SetInv
<1>2. ASSUME arr.size > 0, NEW v \in ArrayValues
      PROVE  NearestIndexOf(v).index = Cardinality({w \in Members : w < v})
  <2>0. arr.size \in Nat \ {0} /\ v \in Int
    BY <1>1, <1>2
  <2>1. PICK n \in 0..arr.size, c \in {-1, 0, 1} :
          n = NearestIndexOf(v).index /\ c = NearestIndexOf(v).comparison
    BY <1>1, <2>0, PlaceIs
  <2>2. /\ \A i \in 1..arr.size : i <= n => arr.cells[i] < v
        /\ \A i \in 1..arr.size : i > n => ~(arr.cells[i] < v)
    <3>1. /\ c \in {-1, 0, 1} /\ \A i \in 1..arr.size : i <= n => arr.cells[i] < v
          /\ c = 0 => n < arr.size /\ arr.cells[n + 1] = v
          /\ c # 0 => \A i \in 1..arr.size : i > n => arr.cells[i] > v
      BY <1>1, <2>0, <2>1, PlaceIs
    <3>2. ASSUME NEW i \in 1..arr.size, i > n PROVE ~(arr.cells[i] < v)
      <4>1. arr.cells[i] \in Int
        BY <1>1 DEF Ascending
      <4>2. CASE c # 0
        BY <2>0, <3>1, <3>2, <4>1, <4>2
      <4>3. CASE c = 0
        <5>1. n + 1 \in 1..arr.size /\ arr.cells[n + 1] = v /\ (i = n + 1 \/ n + 1 < i)
          BY <2>0, <3>1, <3>2, <4>3
        <5>2. n + 1 < i => arr.cells[n + 1] < arr.cells[i]
          BY <1>1, <5>1 DEF Ascending
        <5> QED  BY <2>0, <4>1, <5>1, <5>2
      <4> QED  BY <4>2, <4>3
    <3> QED  BY <3>1, <3>2
  <2> DEFINE L == {w \in Members : w < v}
             f == [i \in 1..n |-> arr.cells[i]]
  <2>3. f \in [1..n -> L]
    BY <2>0, <2>2 DEF Members
  <2>4. \A i, j \in 1..n : f[i] = f[j] => i = j
    <3> SUFFICES ASSUME NEW i \in 1..n, NEW j \in 1..n, arr.cells[i] = arr.cells[j], i # j PROVE FALSE
      OBVIOUS
    <3>1. i \in 1..arr.size /\ j \in 1..arr.size /\ (i < j \/ j < i)
      BY <2>0
    <3>2. arr.cells[i] \in Int /\ (i < j => arr.cells[i] < arr.cells[j])
          /\ (j < i => arr.cells[j] < arr.cells[i])
      BY <1>1, <3>1 DEF Ascending
    <3> QED  BY <3>1, <3>2
  <2>5. \A w \in L : \E i \in 1..n : f[i] = w
    <3> TAKE w \in L
    <3>1. PICK i \in 1..arr.size : arr.cells[i] = w
      BY DEF Members
    <3>2. i \in 1..n
      BY <2>0, <2>2, <3>1
    <3> QED  BY <3>1, <3>2
  <2>6. f \in Bijection(1..n, L)
    BY <2>3, <2>4, <2>5 DEF Bijection, Injection, Surjection, IsInjective
  <2> HIDE DEF f, L
  <2>7. Cardinality(L) = n
    BY <2>0, <2>6, FS_CountingElements DEF ExistsBijection
  <2> QED  BY <2>1, <2>7 DEF L
<1>3. \A i, j \in 1..arr.size : i < j => arr.cells[i] < arr.cells[j]
  BY <1>1 DEF Ascending
<1> QED  BY <1>2, <1>3, FoundIsMember DEF SearchIsExact

\* A value put where it belongs.
LEMMA PutIn ==
  ASSUME ArrayValues \subseteq Int, NEW u, Ordered(u), Len(u) \in Nat, NEW v \in ArrayValues,
         NEW i \in 0..Len(u), \A k \in 1..Len(u) : (k <= i => u[k] < v) /\ (k > i => v < u[k]),
         NEW w, NEW t, Len(t) = 1, t[1] = v, Replaces(u, i, i, t, w)
  PROVE  Ordered(w) /\ RangeOf(w) = RangeOf(u) \cup {v}
<1>1. PICK n \in Nat : n = Len(u) /\ i <= n
  OBVIOUS
<1>2. /\ Len(w) = n + 1
      /\ \A k \in 1..i : w[k] = u[k]
      /\ \A k \in 1..1 : w[i + k] = t[k]
      /\ \A k \in 1..(n - i) : w[i + 1 + k] = u[i + k]
  BY <1>1 DEF Replaces
<1>3. w[i + 1] = v /\ i + 1 \in 1..(n + 1)
  BY <1>1, <1>2
<1>4. ASSUME NEW k \in (i + 2)..(n + 1) PROVE w[k] = u[k - 1] /\ k - 1 \in 1..n /\ k - 1 > i
  <2>1. k - (i + 1) \in 1..(n - i) /\ i + 1 + (k - (i + 1)) = k /\ i + (k - (i + 1)) = k - 1
    BY <1>1
  <2>2. w[i + 1 + (k - (i + 1))] = u[i + (k - (i + 1))]
    BY <1>2, <2>1
  <2> QED  BY <1>1, <2>1, <2>2
<1>5. ASSUME NEW k \in 1..(n + 1)
      PROVE  \/ k <= i /\ k \in 1..n /\ w[k] = u[k]
             \/ k = i + 1 /\ w[k] = v
             \/ k > i + 1 /\ w[k] = u[k - 1] /\ k - 1 \in 1..n /\ k - 1 > i
  <2>1. k <= i \/ k = i + 1 \/ k \in (i + 2)..(n + 1)
    BY <1>1
  <2> QED  BY <1>1, <1>2, <1>3, <1>4, <2>1
<1>6. \A k \in 1..n : u[k] \in ArrayValues /\ u[k] \in Int /\ (k <= i => u[k] < v)
                      /\ (k > i => v < u[k])
  BY <1>1 DEF Ordered
<1>7. \A k, l \in 1..n : k < l => u[k] < u[l]
  BY <1>1 DEF Ordered
<1>8. ASSUME NEW k \in 1..(n + 1) PROVE w[k] \in ArrayValues
  BY <1>5, <1>6
<1>9. ASSUME NEW k \in 1..(n + 1), NEW l \in 1..(n + 1), k < l PROVE w[k] < w[l]
  <2>1. CASE k <= i /\ k \in 1..n /\ w[k] = u[k]
    <3>1. CASE l <= i /\ l \in 1..n /\ w[l] = u[l]
      BY <1>7, <1>9, <2>1, <3>1
    <3>2. CASE l = i + 1 /\ w[l] = v
      BY <1>6, <2>1, <3>2
    <3>3. CASE l > i + 1 /\ w[l] = u[l - 1] /\ l - 1 \in 1..n /\ l - 1 > i
      <4>1. k < l - 1
        BY <2>1, <3>3
      <4> QED  BY <1>7, <2>1, <3>3, <4>1
    <3> QED  BY <1>5, <3>1, <3>2, <3>3
  <2>2. CASE k = i + 1 /\ w[k] = v
    <3>1. l > i + 1 /\ w[l] = u[l - 1] /\ l - 1 \in 1..n /\ l - 1 > i
      BY <1>1, <1>5, <1>9, <2>2
    <3> QED  BY <1>6, <2>2, <3>1
  <2>3. CASE k > i + 1 /\ w[k] = u[k - 1] /\ k - 1 \in 1..n /\ k - 1 > i
    <3>1. l > i + 1 /\ w[l] = u[l - 1] /\ l - 1 \in 1..n /\ k - 1 < l - 1
      BY <1>1, <1>5, <1>9, <2>3
    <3> QED  BY <1>7, <2>3, <3>1
  <2> QED  BY <1>5, <2>1, <2>2, <2>3
<1>10. RangeOf(w) \subseteq RangeOf(u) \cup {v}
  BY <1>1, <1>2, <1>5 DEF RangeOf
<1>11. v \in RangeOf(w)
  BY <1>2, <1>3 DEF RangeOf
<1>12. ASSUME NEW x \in RangeOf(u) PROVE x \in RangeOf(w)
  <2>1. PICK k \in 1..n : x = u[k]
    BY <1>1 DEF RangeOf
  <2>2. CASE k <= i
    <3>1. w[k] = u[k] /\ k \in 1..(n + 1)
      BY <1>1, <1>2, <2>2
    <3> QED  BY <1>2, <2>1, <3>1 DEF RangeOf
  <2>3. CASE k > i
    <3>1. k + 1 \in (i + 2)..(n + 1) /\ (k + 1) - 1 = k /\ k + 1 \in 1..(n + 1)
      BY <1>1, <2>3
    <3>2. w[k + 1] = u[k]
      BY <1>4, <3>1
    <3> QED  BY <1>2, <2>1, <3>1, <3>2 DEF RangeOf
  <2> QED  BY <1>1, <2>2, <2>3
<1>13. Ordered(w)
  BY <1>2, <1>8, <1>9 DEF Ordered
<1> QED  BY <1>10, <1>11, <1>12, <1>13

\* Some elements in a row taken out.
LEMMA TakenOut ==
  ASSUME ArrayValues \subseteq Int, NEW u, Ordered(u), Len(u) \in Nat,
         NEW i \in Nat, NEW j \in Nat, NEW w, Replaces(u, i, j, <<>>, w)
  PROVE  /\ Ordered(w) /\ RangeOf(w) \subseteq RangeOf(u)
         /\ j = i + 1 => RangeOf(w) = RangeOf(u) \ {u[j]}
<1>1. PICK n \in Nat : n = Len(u) /\ i <= j /\ j <= n
  BY DEF Replaces
<1>2. /\ Len(w) = n - (j - i) /\ n - (j - i) \in Nat
      /\ \A k \in 1..i : w[k] = u[k]
      /\ \A k \in 1..(n - j) : w[i + k] = u[j + k]
  BY <1>1 DEF Replaces
<1>3. ASSUME NEW k \in (i + 1)..Len(w) PROVE w[k] = u[k + (j - i)] /\ k + (j - i) \in (j + 1)..n
  <2>1. k - i \in 1..(n - j) /\ i + (k - i) = k /\ j + (k - i) = k + (j - i)
    BY <1>1, <1>2
  <2>2. w[i + (k - i)] = u[j + (k - i)]
    BY <1>2, <2>1
  <2>3. k + (j - i) \in (j + 1)..n
    BY <1>1, <1>2
  <2> QED  BY <2>1, <2>2, <2>3
<1>4. ASSUME NEW k \in 1..Len(w)
      PROVE  \/ k <= i /\ k \in 1..n /\ w[k] = u[k]
             \/ k > i /\ w[k] = u[k + (j - i)] /\ k + (j - i) \in (j + 1)..n
  BY <1>1, <1>2, <1>3
<1>5. /\ \A k \in 1..n : u[k] \in ArrayValues /\ u[k] \in Int
      /\ \A k, l \in 1..n : k < l => u[k] < u[l]
  BY <1>1 DEF Ordered
<1>6. \A k \in 1..Len(w) : w[k] \in ArrayValues /\ w[k] \in RangeOf(u)
  <2> TAKE k \in 1..Len(w)
  <2>1. \E l \in 1..n : w[k] = u[l]
    <3>1. \A l \in (j + 1)..n : l \in 1..n
      BY <1>1
    <3> QED  BY <1>4, <3>1
  <2> QED  BY <1>1, <1>5, <2>1 DEF RangeOf
<1>7. ASSUME NEW k \in 1..Len(w), NEW l \in 1..Len(w), k < l PROVE w[k] < w[l]
  <2>1. CASE l <= i
    <3>1. k \in 1..n /\ l \in 1..n /\ w[k] = u[k] /\ w[l] = u[l]
      BY <1>4, <1>7, <2>1
    <3> QED  BY <1>5, <1>7, <3>1
  <2>2. CASE k > i
    <3>1. PICK p \in 1..n, q \in 1..n : p = k + (j - i) /\ q = l + (j - i)
      BY <1>1, <1>4, <1>7, <2>2
    <3>2. w[k] = u[p] /\ w[l] = u[q] /\ p < q
      BY <1>1, <1>4, <1>7, <2>2, <3>1
    <3> QED  BY <1>5, <3>2
  <2>3. CASE k <= i /\ l > i
    <3>1. PICK q \in 1..n : q = l + (j - i)
      BY <1>1, <1>4, <2>3
    <3>2. w[k] = u[k] /\ w[l] = u[q] /\ k \in 1..n /\ k < q
      BY <1>1, <1>4, <1>7, <2>3, <3>1
    <3> QED  BY <1>5, <3>2
  <2> QED  BY <2>1, <2>2, <2>3
<1>8. Ordered(w) /\ RangeOf(w) \subseteq RangeOf(u)
  BY <1>6, <1>7 DEF Ordered, RangeOf
<1>9. ASSUME j = i + 1 PROVE RangeOf(w) = RangeOf(u) \ {u[j]}
  <2>1. ASSUME NEW k \in 1..Len(w) PROVE w[k] # u[j]
    <3>1. j \in 1..n
      BY <1>1, <1>9
    <3>2. CASE k <= i
      <4>1. w[k] = u[k] /\ k \in 1..n /\ k < j
        BY <1>4, <1>9, <3>2
      <4> QED  BY <1>5, <3>1, <4>1
    <3>3. CASE k > i
      <4>1. PICK p \in 1..n : p = k + (j - i) /\ p > j
        BY <1>1, <1>4, <3>3
      <4>2. w[k] = u[p]
        BY <1>4, <3>3, <4>1
      <4> QED  BY <1>5, <3>1, <4>1, <4>2
    <3> QED  BY <3>2, <3>3
  <2>2. ASSUME NEW x \in RangeOf(u), x # u[j] PROVE x \in RangeOf(w)
    <3>1. PICK k \in 1..n : x = u[k]
      BY <1>1 DEF RangeOf
    <3>2. CASE k <= i
      <4>1. w[k] = u[k] /\ k \in 1..Len(w)
        BY <1>1, <1>2, <1>9, <3>2
      <4> QED  BY <3>1, <4>1 DEF RangeOf
    <3>3. CASE k > j
      <4>1. k - 1 \in (i + 1)..Len(w) /\ (k - 1) + (j - i) = k /\ k - 1 \in 1..Len(w)
        BY <1>1, <1>2, <1>9, <3>3
      <4>2. w[k - 1] = u[k]
        BY <1>3, <4>1
      <4> QED  BY <3>1, <4>1, <4>2 DEF RangeOf
    <3>4. k # j
      BY <2>2, <3>1
    <3> QED  BY <1>9, <3>2, <3>3, <3>4
  <2> QED  BY <1>8, <2>1, <2>2 DEF RangeOf
<1> QED  BY <1>8, <1>9

SetStep == SetInv' /\ [SetOf!Next]_(SetOf!vars)

LEMMA ElementsBecome ==
  ASSUME ArrayInv', Readable'
  PROVE  arr'.size \in Nat /\ Len(ArrayItems') = arr'.size /\ Members' = RangeOf(ArrayItems')
<1>1. arr'.size \in Nat /\ Len(ArrayItems') = arr'.size
  BY ItemsAre, ItemsAreItems DEF ArrayInv, Sound, ItemsOf
<1>2. ASSUME NEW i \in 1..arr'.size PROVE ArrayItems'[i] = arr'.cells[i]
  <2>1. arr'.data = "live"
    BY <1>1 DEF Readable
  <2> QED  BY <2>1 DEF ArrayItems
<1>3. Members' = RangeOf(ArrayItems')
  <2>1. Members' = {arr'.cells[i] : i \in 1..arr'.size}
    BY DEF Members
  <2>2. RangeOf(ArrayItems') = {ArrayItems'[i] : i \in 1..arr'.size}
    BY <1>1 DEF RangeOf
  <2> QED  BY <1>2, <2>1, <2>2
<1> QED  BY <1>1, <1>3

\* Without a compare function there are no elements, in the next state as in this one.
LEMMA ComparedStays ==
  ASSUME SetInv, UNCHANGED hasCompare, arr.size = 0 => arr'.size = 0
  PROVE  Compared'
<1>1. hasCompare \in BOOLEAN /\ (~hasCompare => arr.size = 0) /\ hasCompare' = hasCompare
  BY DEF SetInv, Compared
<1>2. hasCompare' \in BOOLEAN
  BY <1>1
<1>3. ASSUME ~hasCompare' PROVE arr'.size = 0
  <2>1. CASE hasCompare = TRUE
    BY <1>1, <1>3, <2>1
  <2>2. CASE hasCompare = FALSE
    BY <1>1, <2>2
  <2> QED  BY <1>1, <2>1, <2>2
<1> QED  BY <1>2, <1>3 DEF Compared

\* The members stay.
LEMMA MembersStay ==
  ASSUME SetInv, ArrayInv', Readable', Compared', ArrayItems' = ArrayItems,
         \/ arrayCall' = arrayCall
         \/ arrayCall'.op \in {"grow", "refused"} /\ arrayCall'.s = <<>>
  PROVE  SetStep
<1>1. Members' = Members
  BY ElementsAre, ElementsBecome DEF SetInv
<1>2. Ordered(ArrayItems')
  BY DEF SetInv
<1>3. SetInv'
  BY <1>2 DEF SetInv
<1>4. CASE arrayCall' = arrayCall
  <2>1. UNCHANGED SetOf!vars
    BY <1>1, <1>4 DEF SetOf!vars
  <2> QED  BY <1>3, <2>1 DEF SetStep
<1>5. CASE arrayCall'.op \in {"grow", "refused"} /\ arrayCall'.s = <<>>
  BY <1>1, <1>3, <1>5 DEF SetStep, SetOf!Next, SetOf!Other
<1> QED  BY <1>4, <1>5

\* Some of them go.
LEMMA MembersGo ==
  ASSUME ArrayValues \subseteq Int, SetInv, ArrayInv', Readable', Compared',
         \/ \E i \in Nat, j \in Nat : Replaces(ArrayItems, i, j, <<>>, ArrayItems')
         \/ ArrayItems' = ArrayItems,
         arrayCall'.op \in {"remove", "resize"}, arrayCall'.s = <<>>
  PROVE  SetStep
<1>1. /\ arr.size \in Nat /\ Len(ArrayItems) = arr.size /\ Members = RangeOf(ArrayItems)
      /\ Members' = RangeOf(ArrayItems') /\ Ordered(ArrayItems)
  BY ElementsAre, ElementsBecome DEF SetInv
<1>2. Ordered(ArrayItems') /\ Members' \subseteq Members
  BY <1>1, TakenOut
<1>3. SetInv'
  BY <1>2 DEF SetInv
<1>4. SetOf!Truncate
  BY <1>2 DEF SetOf!Truncate
<1> QED  BY <1>3, <1>4 DEF SetStep, SetOf!Next

\* A shorter array has the first of the elements.
LEMMA SetCut ==
  ASSUME ArrayValues \subseteq Int, SetInv, NEW n \in Nat, n <= arr.size,
         ArrayInv', Readable', Compared', Row!Next \/ UNCHANGED <<ArrayItems, arrayCall>>,
         arrayCall'.op = "resize", arrayCall'.n = n, arrayCall'.s = <<>>
  PROVE  SetStep
<1>1. arr.size \in Nat /\ Len(ArrayItems) = arr.size /\ ArrayItems \in Seq(Contents)
  BY ItemsAre, ItemsAreItems DEF SetInv, ArrayInv, Sound
<1>2. CASE Row!Next
  <2>1. ArrayItems' = SubSeq(ArrayItems, 1, n)
    BY <1>1, <1>2 DEF Row!Next, Row!Insert, Row!Grow, Row!Remove, Row!Resize, Row!Assign,
                      Row!Refuse, Row!Called, Row!Upto
  <2>2. Len(ArrayItems') = n /\ \A k \in 1..n : ArrayItems'[k] = ArrayItems[k]
    BY <1>1, <2>1, UptoIs
  <2>3. Len(<<>>) = 0
    BY EmptySeq
  <2>4. Replaces(ArrayItems, n, arr.size, <<>>, ArrayItems')
    BY <1>1, <2>2, <2>3 DEF Replaces
  <2> QED  BY <1>1, <2>4, MembersGo
<1> QED  BY <1>2, MembersGo

(***************************************************************************)
(* Its operations                                                          *)
(***************************************************************************)

LEMMA FaultStays ==
  ASSUME SetInv, Faults \/ UNCHANGED arrayVars, hasCompare' = TRUE \/ UNCHANGED hasCompare
  PROVE  SetStep
<1>1. ArrayInv' /\ UNCHANGED <<ArrayItems, arrayCall, arr>>
  BY FaultKeeps DEF SetInv, Faults, arrayVars
<1>2. Readable'
  BY <1>1 DEF SetInv, Readable
<1>3. Compared'
  <2>1. CASE hasCompare' = TRUE
    BY <2>1 DEF Compared
  <2>2. CASE UNCHANGED hasCompare
    BY <1>1, <2>2, ComparedStays
  <2> QED  BY <2>1, <2>2
<1> QED  BY <1>1, <1>2, <1>3, MembersStay

LEMMA RefusedStays ==
  ASSUME SetInv, Refused, Compared'
  PROVE  SetStep
<1>1. ArrayInv' /\ arr' = arr /\ arrayCall'.op = "refused" /\ arrayCall'.s = <<>>
  BY RefusedKeeps, CallIs DEF SetInv, Refused, Keeps
<1>2. ArrayItems' = ArrayItems
  BY <1>1 DEF ArrayItems
<1>3. Readable'
  BY <1>1 DEF SetInv, Readable
<1> QED  BY <1>1, <1>2, <1>3, MembersStay

\* Memory is asked for or given back.
LEMMA SetGrows ==
  ASSUME SetInv, ArrayInv', Row!Next \/ UNCHANGED <<ArrayItems, arrayCall>>,
         NEW a, ArrayCalled("grow", 0, 0, <<>>), Keeps(a),
         a.size = arr.size, a.size > 0 => a.data = "live", UNCHANGED hasCompare
  PROVE  SetStep
<1>1. arrayCall'.op = "grow" /\ arrayCall'.n = 0 /\ arrayCall'.s = <<>>
  BY CallIs
<1>2. arr' = a
  BY DEF Keeps
<1>3. Readable' /\ Compared'
  BY <1>2, ComparedStays DEF Readable
<1>4. ArrayItems' = ArrayItems
  BY <1>1 DEF Row!Next, Row!Insert, Row!Grow, Row!Remove, Row!Resize, Row!Assign,
              Row!Refuse, Row!Called
<1> QED  BY <1>1, <1>3, <1>4, MembersStay

\* reserve.
LEMMA SetReserves ==
  ASSUME SetInv, NEW n \in ArrayCounts, ArrayReserve(n), UNCHANGED hasCompare
  PROVE  SetStep
<1>0. ArrayInv' /\ (Row!Next \/ UNCHANGED <<ArrayItems, arrayCall>>)
  BY ReserveKeeps DEF SetInv
<1>1. CASE Faults
  BY <1>1, FaultStays
<1>2. CASE Refused
  BY <1>2, RefusedStays, ComparedStays DEF Refused, Keeps
<1>3. {"data", "cells", "size", "reserved"} \subseteq DOMAIN arr /\ Readable
  BY DEF SetInv, ArrayInv, Sound
<1>4. CASE ArrayCalled("grow", 0, 0, <<>>) /\ Keeps(arr)
  BY <1>0, <1>3, <1>4, SetGrows DEF Readable
<1>5. CASE /\ ArrayCalled("grow", 0, 0, <<>>)
           /\ Keeps([arr EXCEPT !.data = "live", !.cells = Block(n), !.reserved = n])
  <2>1. PICK a : a = [arr EXCEPT !.data = "live", !.cells = Block(n), !.reserved = n]
    OBVIOUS
  <2>2. a.size = arr.size /\ a.data = "live" /\ Keeps(a)
    BY <1>3, <1>5, <2>1
  <2> QED  BY <1>0, <1>5, <2>2, SetGrows
<1> QED  BY <1>1, <1>2, <1>4, <1>5 DEF ArrayReserve

LEMMA SetShrinks ==
  ASSUME SetInv, ArrayShrink, UNCHANGED hasCompare
  PROVE  SetStep
<1>0. ArrayInv' /\ (Row!Next \/ UNCHANGED <<ArrayItems, arrayCall>>)
  BY ShrinkKeeps DEF SetInv
<1>1. CASE Faults
  BY <1>1, FaultStays
<1>2. CASE Refused
  BY <1>2, RefusedStays, ComparedStays DEF Refused, Keeps
<1>3. {"data", "cells", "size", "reserved"} \subseteq DOMAIN arr /\ Readable
  BY DEF SetInv, ArrayInv, Sound
<1>4. CASE ArrayCalled("grow", 0, 0, <<>>) /\ Keeps(arr)
  BY <1>0, <1>3, <1>4, SetGrows DEF Readable
<1>5. CASE /\ ArrayCalled("grow", 0, 0, <<>>) /\ arr.size = 0
           /\ Keeps([arr EXCEPT !.cells = <<>>, !.data = IF @ = "null" THEN "null" ELSE "freed"])
  <2>1. PICK a : a = [arr EXCEPT !.cells = <<>>, !.data = IF @ = "null" THEN "null" ELSE "freed"]
    OBVIOUS
  <2>2. a.size = arr.size /\ Keeps(a)
    BY <1>3, <1>5, <2>1
  <2>3. ~(a.size > 0)
    BY <1>5, <2>2
  <2> QED  BY <1>0, <1>5, <2>2, <2>3, SetGrows
<1>6. CASE /\ ArrayCalled("grow", 0, 0, <<>>)
           /\ Keeps([arr EXCEPT !.data = "live", !.cells = Block(arr.size), !.reserved = arr.size])
  <2>1. PICK a : a = [arr EXCEPT !.data = "live", !.cells = Block(arr.size), !.reserved = arr.size]
    OBVIOUS
  <2>2. a.size = arr.size /\ a.data = "live" /\ Keeps(a)
    BY <1>3, <1>6, <2>1
  <2> QED  BY <1>0, <1>6, <2>2, SetGrows
<1> QED  BY <1>1, <1>2, <1>4, <1>5, <1>6 DEF ArrayShrink

LEMMA SetResizes ==
  ASSUME ArrayValues \subseteq Int, SetInv, NEW n \in ArrayCounts, SetResize(n), UNCHANGED hasCompare
  PROVE  SetStep
<1>0. ArrayResize(n) /\ n <= arr.size /\ n \in Nat
  BY DEF SetResize, ArrayCounts
<1>1. CASE Faults
  BY <1>1, FaultStays
<1>2. CASE Refused
  BY <1>2, RefusedStays, ComparedStays DEF Refused, Keeps
<1>3. CASE ~(Faults \/ Refused)
  <2>1. \/ ArrayCalled("resize", 0, n, <<>>) /\ Keeps([arr EXCEPT !.size = n])
        \/ n = 0 /\ ArrayCalled("resize", 0, 0, <<>>) /\ Keeps(NoArray)
        \/ /\ ArrayCalled("resize", 0, n, <<>>)
           /\ Keeps([data |-> "live", cells |-> Block(n), size |-> n, reserved |-> n])
    BY <1>0, <1>3 DEF ArrayResize
  <2>2. arrayCall'.op = "resize" /\ arrayCall'.n = n /\ arrayCall'.s = <<>>
    BY <2>1, CallIs
  <2>3. {"data", "cells", "size", "reserved"} \subseteq DOMAIN arr /\ Readable /\ arr.size \in Nat
    BY DEF SetInv, ArrayInv, Sound
  <2>4. Readable' /\ arr'.size = n
    BY <1>0, <2>1, <2>3 DEF Keeps, Readable, NoArray
  <2>5. Compared'
    <3>1. arr.size = 0 => arr'.size = 0
      BY <1>0, <2>4
    <3> QED  BY <3>1, ComparedStays
  <2>6. ArrayInv' /\ (Row!Next \/ UNCHANGED <<ArrayItems, arrayCall>>)
    BY <1>0, ResizeKeeps DEF SetInv
  <2> QED  BY <1>0, <2>2, <2>4, <2>5, <2>6, SetCut
<1> QED  BY <1>1, <1>2, <1>3

\* clear and free; free also forgets the compare function.
LEMMA SetClears ==
  ASSUME ArrayValues \subseteq Int, SetInv,
         \/ ArrayClear /\ UNCHANGED hasCompare
         \/ SetFree
  PROVE  SetStep
<1>1. hasCompare' \in BOOLEAN
  BY DEF SetFree, SetInv, Compared
<1>2. ArrayInv' /\ (Row!Next \/ UNCHANGED <<ArrayItems, arrayCall>>)
  BY ClearKeeps, FreeKeeps DEF SetInv, SetFree
<1>3. {"data", "cells", "size", "reserved"} \subseteq DOMAIN arr /\ arr.size \in Nat /\ Readable
  BY DEF SetInv, ArrayInv, Sound
<1>4. CASE /\ ArrayCalled("resize", 0, 0, <<>>)
           /\ Keeps([arr EXCEPT !.size = 0]) \/ Keeps(NoArray)
  <2>1. arrayCall'.op = "resize" /\ arrayCall'.n = 0 /\ arrayCall'.s = <<>>
    BY <1>4, CallIs
  <2>2. arr'.size = 0
    BY <1>3, <1>4 DEF Keeps, NoArray
  <2>3. Readable' /\ Compared'
    BY <1>1, <2>2 DEF Readable, Compared
  <2> QED  BY <1>2, <1>3, <2>1, <2>3, SetCut
<1>5. CASE Faults
  <2>0. \A a : ~Keeps(a)
    BY <1>5, Zenon DEF Faults, Keeps
  <2>1. arr.data = "freed" /\ SetFree
    BY <2>0 DEF SetFree, ArrayFree, ArrayClear
  <2>2. arr' = arr /\ arr.size = 0
    BY <1>3, <1>5, <2>1 DEF Faults, Readable
  <2>3. Readable' /\ Compared'
    BY <1>1, <2>2 DEF Readable, Compared
  <2>4. UNCHANGED <<ArrayItems, arrayCall>>
    BY <1>5, FaultKeeps DEF SetInv
  <2> QED  BY <1>2, <2>3, <2>4, MembersStay
<1> QED  BY <1>4, <1>5 DEF SetFree, ArrayFree, ArrayClear

\* A value is put in where it belongs.
LEMMA InsertReads ==
  ASSUME SetInv, NEW op, NEW i, NEW n, NEW s, s # <<>>, ArrayInsertElements(op, i, n, s)
  PROVE  Readable'
<1>1. {"data", "cells", "size", "reserved"} \subseteq DOMAIN arr /\ Readable
  BY DEF SetInv, ArrayInv, Sound
<1>2. CASE arr' = arr
  BY <1>1, <1>2 DEF Readable
<1>3. CASE arr.data = "live" /\ Keeps(Opened(arr, i, n, s))
  BY <1>1, <1>3 DEF Readable, Keeps, Opened
<1>4. CASE Keeps(Opened(Grown(n), i, n, s))
  <2>1. PICK a : a = Grown(n)
    OBVIOUS
  <2>2. {"data", "cells", "size"} \subseteq DOMAIN a /\ a.data = "live"
    BY <1>1, <2>1 DEF Grown
  <2> QED  BY <1>4, <2>1, <2>2 DEF Readable, Keeps, Opened
<1> QED  BY <1>2, <1>3, <1>4 DEF ArrayInsertElements, Faults, Keeps

LEMMA ItemsInserted ==
  ASSUME ArrayInv, NEW i \in Int, NEW s \in Seq(Contents), Len(s) \in Nat \ {0},
         ArrayInsertElements("insert", i, Len(s), s)
  PROVE  /\ ArrayInv'
         /\ \/ UNCHANGED <<ArrayItems, arrayCall>>
            \/ /\ arrayCall'.op = "insert" /\ arrayCall'.s = s
               /\ i \in 0..Len(ArrayItems) => Replaces(ArrayItems, i, i, s, ArrayItems')
BY InsertOpens

LEMMA SetOpens ==
  ASSUME ArrayValues \subseteq Int, SetInv, NEW v \in ArrayValues, NEW i \in 0..arr.size,
         \A k \in 1..arr.size : (k <= i => arr.cells[k] < v) /\ (k > i => v < arr.cells[k]),
         ArrayInsertElements("insert", i, Len(<<v>>), <<v>>), hasCompare' = TRUE
  PROVE  SetStep
<1>1. /\ arr.size \in Nat /\ Len(ArrayItems) = arr.size /\ Members = RangeOf(ArrayItems)
      /\ Ordered(ArrayItems) /\ \A k \in 1..arr.size : ArrayItems[k] = arr.cells[k]
  BY ElementsAre DEF SetInv
<1>0. PICK s : s = <<v>>
  OBVIOUS
<1>2. s \in Seq(Contents) /\ Len(s) = 1 /\ s[1] = v
  <2>1. v \in Contents
    BY DEF Contents
  <2> QED  BY <1>0, <2>1
<1>3. s # <<>>
  BY <1>2, EmptySeq
<1>4. Readable' /\ Compared'
  BY <1>0, <1>3, InsertReads DEF Compared
<1>5. ArrayInsertElements("insert", i, Len(s), s) /\ i \in Int /\ ArrayInv /\ Len(s) \in Nat \ {0}
  BY <1>0, <1>1, <1>2 DEF SetInv
<1>6. /\ ArrayInv'
      /\ \/ UNCHANGED <<ArrayItems, arrayCall>>
         \/ /\ arrayCall'.op = "insert" /\ arrayCall'.s = s
            /\ i \in 0..Len(ArrayItems) => Replaces(ArrayItems, i, i, s, ArrayItems')
  BY <1>2, <1>5, ItemsInserted
<1>7. CASE UNCHANGED <<ArrayItems, arrayCall>>
  BY <1>4, <1>6, <1>7, MembersStay
<1>8. CASE arrayCall'.op = "insert" /\ arrayCall'.s = s /\ Replaces(ArrayItems, i, i, s, ArrayItems')
  <2>1. Ordered(ArrayItems') /\ RangeOf(ArrayItems') = RangeOf(ArrayItems) \cup {v}
    BY <1>1, <1>2, <1>8, PutIn
  <2>2. Members' = Members \cup {v}
    BY <1>1, <1>4, <1>6, <2>1, ElementsBecome
  <2>3. SetInv'
    BY <1>4, <1>6, <2>1 DEF SetInv
  <2>4. SetOf!Insert(v)
    BY <1>0, <1>8, <2>2 DEF SetOf!Insert
  <2> QED  BY <2>3, <2>4 DEF SetStep, SetOf!Next
<1> QED  BY <1>1, <1>6, <1>7, <1>8

\* The elements and their call are kept, and the members are what the call makes them.
LEMMA SetCalled ==
  ASSUME SetInv, NEW op, NEW at, NEW n, NEW v \in ArrayValues,
         ArrayCalled(op, at, n, <<v>>), Keeps(arr), Compared',
         \/ op = "insert" /\ v \in Members
         \/ op = "remove" /\ v \notin Members
  PROVE  SetStep
<1>1. arrayCall'.op = op /\ arrayCall'.s = <<v>> /\ arr' = arr /\ UNCHANGED arrayFault
  BY CallIs DEF Keeps
<1>2. ArrayItems' = ArrayItems /\ Members' = Members /\ Readable'
  BY <1>1 DEF ArrayItems, Members, Readable, SetInv
<1>3. ArrayInv'
  BY <1>1 DEF SetInv, ArrayInv
<1>4. Ordered(ArrayItems')
  BY <1>2 DEF SetInv
<1>5. SetInv'
  BY <1>2, <1>3, <1>4 DEF SetInv
<1>6. CASE op = "insert" /\ v \in Members
  BY <1>1, <1>2, <1>5, <1>6 DEF SetStep, SetOf!Next, SetOf!Insert
<1>7. CASE op = "remove" /\ v \notin Members
  BY <1>1, <1>2, <1>5, <1>7 DEF SetStep, SetOf!Next, SetOf!Remove
<1> QED  BY <1>6, <1>7

LEMMA SetAdds ==
  ASSUME ArrayValues \subseteq Int, SetInv, NEW v \in ArrayValues, SetAdd(v), hasCompare' = TRUE
  PROVE  SetStep
<1>1. arr.size \in Nat /\ Compared' /\ v \in Int
  BY DEF SetInv, ArrayInv, Sound, Compared
<1>2. PICK a : a = NearestIndexOf(v)
  OBVIOUS
<1>3. CASE Faults
  BY <1>3, FaultStays
<1>4. CASE Refused
  BY <1>1, <1>4, RefusedStays
<1>5. CASE arr.size = 0 /\ ArrayInsertElements("insert", 0, Len(<<v>>), <<v>>)
  BY <1>1, <1>5, SetOpens
<1>6. CASE arr.size > 0 /\ a.comparison = 0 /\ ArrayCalled("insert", a.index, 1, <<v>>) /\ Keeps(arr)
  <2>1. v \in Members
    BY <1>2, <1>6, FoundIsMember DEF SetContains
  <2> QED  BY <1>1, <1>6, <2>1, SetCalled
<1>7. CASE arr.size > 0 /\ a.comparison # 0 /\ ArrayInsertElements("insert", a.index, Len(<<v>>), <<v>>)
  <2>1. arr.size \in Nat \ {0} /\ Ascending
    BY <1>1, <1>7, OrderedAscends
  <2>2. /\ a.index \in 0..arr.size
        /\ \A i \in 1..arr.size : i <= a.index => arr.cells[i] < v
        /\ a.comparison # 0 => \A i \in 1..arr.size : i > a.index => arr.cells[i] > v
    BY <1>1, <1>2, <2>1, PlaceIs
  <2>3. \A k \in 1..arr.size : arr.cells[k] \in Int
    BY ElementsAre DEF SetInv, Ordered
  <2>4. \A k \in 1..arr.size : (k <= a.index => arr.cells[k] < v) /\ (k > a.index => v < arr.cells[k])
    BY <1>1, <1>7, <2>2, <2>3
  <2> QED  BY <1>7, <2>2, <2>4, SetOpens
<1> QED  BY <1>2, <1>3, <1>4, <1>5, <1>6, <1>7 DEF SetAdd, SetFaults, ArrayAddRange, ArrayInsertRange

\* The set has a compare function again.
LEMMA SetBeginsAnew ==
  ASSUME ArrayValues \subseteq Int, SetInv, ~hasCompare, NEW v \in ArrayValues, SetInsertAnew(v),
         hasCompare' = TRUE
  PROVE  SetStep
<1>1. Compared' /\ arr.size = 0
  BY DEF SetInv, Compared
<1>2. CASE Faults
  BY <1>2, FaultStays
<1>3. CASE /\ 1 \in ArrayCounts /\ ArrayCalled("insert", 0, 1, <<v>>)
           /\ Keeps([data |-> "live", cells |-> <<v>>, size |-> 1, reserved |-> 1])
  <2>1. /\ arr'.data = "live" /\ arr'.cells = <<v>> /\ arr'.size = 1 /\ arr'.reserved = 1
        /\ DOMAIN arr' = {"data", "cells", "size", "reserved"} /\ UNCHANGED arrayFault
    BY <1>3 DEF Keeps
  <2>2. arr'.cells \in Seq(Contents) /\ Len(arr'.cells) = 1 /\ arr'.cells[1] = v
    BY <2>1 DEF Contents
  <2>3. ArrayInv'
    BY <1>3, <2>1, <2>2 DEF SetInv, ArrayInv, Sound
  <2>4. Readable' /\ Members' = {v}
    BY <2>1, <2>2 DEF Readable, Members
  <2>5. Len(ArrayItems') = 1 /\ ArrayItems'[1] = v
    BY <2>1, <2>2, <2>3, <2>4, ElementsBecome DEF ArrayItems
  <2>6. Ordered(ArrayItems')
    BY <2>5 DEF Ordered
  <2>7. SetInv'
    BY <1>1, <2>3, <2>4, <2>6 DEF SetInv
  <2>8. Members = {}
    BY <1>1 DEF Members
  <2>9. SetOf!Insert(v)
    BY <1>3, <2>4, <2>8, CallIs DEF SetOf!Insert
  <2> QED  BY <2>7, <2>9 DEF SetStep, SetOf!Next
<1> QED  BY <1>2, <1>3 DEF SetInsertAnew

(***************************************************************************)
(* Elements are taken out.                                                 *)
(***************************************************************************)

LEMMA RemovedReads ==
  ASSUME SetInv, NEW i \in Int, NEW n \in Nat, arr' = Removed(i, n)
  PROVE  Readable' /\ (arr.size = 0 => arr'.size = 0)
<1>1. {"data", "cells", "size", "reserved"} \subseteq DOMAIN arr /\ Readable /\ arr.size \in Nat
  BY DEF SetInv, ArrayInv, Sound
<1>2. arr'.data = arr.data
  BY <1>1 DEF Removed
<1>3. arr'.size > 0 => arr.size > 0
  BY <1>1 DEF Removed
<1>4. arr.size = 0 => arr'.size = 0
  BY <1>1 DEF Removed
<1> QED  BY <1>1, <1>2, <1>3, <1>4 DEF Readable

\* remove_elements.
LEMMA SetDrops ==
  ASSUME ArrayValues \subseteq Int, SetInv, NEW i \in ArrayCounts, NEW n \in ArrayCounts,
         ArrayRemove(i, n), UNCHANGED hasCompare
  PROVE  SetStep
<1>1. i \in Int /\ i \in Nat /\ n \in Nat
  BY DEF ArrayCounts
<1>2. CASE Faults
  BY <1>2, FaultStays
<1>3. CASE /\ ~(i >= 0 /\ i + n < arr.size /\ n > 0 /\ arr.data # "live")
           /\ ArrayCalled("remove", i, n, <<>>) /\ Keeps(Removed(i, n))
  <2>1. arr' = Removed(i, n) /\ arrayCall'.op = "remove" /\ arrayCall'.s = <<>> /\ UNCHANGED arrayFault
    BY <1>3, CallIs DEF Keeps
  <2>2. Readable' /\ Compared'
    BY <1>1, <2>1, RemovedReads, ComparedStays
  <2>3. Sound(arr) /\ arr.size \in Nat
    BY DEF SetInv, ArrayInv, Sound
  <2>4. /\ Sound(Removed(i, n))
        /\ IF i \in 0..(arr.size - 1) /\ n > 0
           THEN Replaces(ItemsOf(arr), i, IF i + n < arr.size THEN i + n ELSE arr.size, <<>>,
                         ItemsOf(Removed(i, n)))
           ELSE Removed(i, n) = arr
    BY <1>1, <1>3, <2>3, RemovedIs
  <2>5. ArrayInv'
    BY <2>1, <2>4 DEF SetInv, ArrayInv
  <2>6. ArrayItems' = ItemsOf(Removed(i, n)) /\ ArrayItems = ItemsOf(arr)
    BY <2>1, ItemsAreItems DEF ItemsOf
  <2>7. PICK j \in Nat : j = IF i + n < arr.size THEN i + n ELSE arr.size
    BY <1>1, <2>3
  <2>8. Replaces(ArrayItems, i, j, <<>>, ArrayItems') \/ ArrayItems' = ArrayItems
    BY <2>4, <2>6, <2>7
  <2>9. \/ \E k \in Nat, l \in Nat : Replaces(ArrayItems, k, l, <<>>, ArrayItems')
        \/ ArrayItems' = ArrayItems
    BY <1>1, <2>8
  <2> QED  BY <2>1, <2>2, <2>5, <2>9, MembersGo
<1> QED  BY <1>2, <1>3 DEF ArrayRemove

\* remove.
LEMMA SetRemoves ==
  ASSUME ArrayValues \subseteq Int, SetInv, NEW v \in ArrayValues, SetRemove(v), UNCHANGED hasCompare
  PROVE  SetStep
<1>1. arr.size \in Nat /\ v \in Int /\ Sound(arr)
  BY DEF SetInv, ArrayInv, Sound
<1>2. PICK a : a = NearestIndexOf(v)
  OBVIOUS
<1>3. CASE Faults
  BY <1>3, FaultStays
<1>4. CASE arr.size = 0 /\ ArrayCalled("remove", a.index, 1, <<v>>)
           /\ Keeps(IF a.index < 0 \/ a.comparison # 0 THEN arr ELSE Removed(a.index, 1))
  <2>1. a.index = -1 /\ a.comparison = 0
    BY <1>2, <1>4 DEF NearestIndexOf, BinarySearch
  <2>2. Keeps(arr)
    BY <1>4, <2>1
  <2>3. v \notin Members /\ Compared'
    BY <1>4, <2>2, ComparedStays DEF Members, Keeps
  <2> QED  BY <1>4, <2>2, <2>3, SetCalled
<1>5. CASE arr.size > 0 /\ Readable /\ ArrayCalled("remove", a.index, 1, <<v>>)
           /\ Keeps(IF a.index < 0 \/ a.comparison # 0 THEN arr ELSE Removed(a.index, 1))
  <2>1. arr.size \in Nat \ {0} /\ Ascending
    BY <1>1, <1>5, OrderedAscends
  <2>2. a.index \in 0..arr.size /\ (a.comparison = 0 => a.index < arr.size /\ arr.cells[a.index + 1] = v)
    BY <1>1, <1>2, <2>1, PlaceIs
  <2>3. a.comparison = 0 <=> v \in Members
    BY <1>2, <1>5, FoundIsMember DEF SetContains
  <2>4. CASE a.comparison # 0
    <3>1. Keeps(arr)
      BY <1>5, <2>4
    <3>2. Compared'
      BY <3>1, ComparedStays DEF Keeps
    <3> QED  BY <1>5, <2>3, <2>4, <3>1, <3>2, SetCalled
  <2>5. CASE a.comparison = 0
    <3>1. PICK i \in Nat : i = a.index /\ i < arr.size /\ i \in Int /\ i \in 0..(arr.size - 1) /\ i + 1 \in Nat
      BY <1>1, <2>2, <2>5
    <3>2. arr' = Removed(i, 1) /\ UNCHANGED arrayFault /\ arr.data = "live"
      BY <1>5, <2>5, <3>1 DEF Keeps, Readable
    <3>3. arrayCall'.op = "remove" /\ arrayCall'.s = <<v>>
      BY <1>5, CallIs
    <3>4. Readable' /\ Compared'
      BY <3>1, <3>2, RemovedReads, ComparedStays
    <3>5. /\ Sound(Removed(i, 1))
          /\ Replaces(ItemsOf(arr), i, IF i + 1 < arr.size THEN i + 1 ELSE arr.size, <<>>,
                      ItemsOf(Removed(i, 1)))
      <4>1. ~(i >= 0 /\ i + 1 < arr.size /\ 1 > 0 /\ arr.data # "live") /\ 1 \in Nat /\ 1 > 0
        BY <3>2
      <4> QED  BY <1>1, <3>1, <4>1, RemovedIs
    <3>6. ArrayInv'
      BY <3>2, <3>5 DEF SetInv, ArrayInv
    <3>7. ArrayItems' = ItemsOf(Removed(i, 1)) /\ ArrayItems = ItemsOf(arr)
      BY <3>2, ItemsAreItems DEF ItemsOf
    <3>8. PICK j \in Nat : j = i + 1
      OBVIOUS
    <3>9. Replaces(ArrayItems, i, j, <<>>, ArrayItems')
      <4>1. j = IF i + 1 < arr.size THEN i + 1 ELSE arr.size
        BY <1>1, <3>1, <3>8
      <4> QED  BY <3>5, <3>7, <4>1
    <3>10. /\ Len(ArrayItems) = arr.size /\ Members = RangeOf(ArrayItems) /\ Ordered(ArrayItems)
           /\ \A k \in 1..arr.size : ArrayItems[k] = arr.cells[k]
           /\ Members' = RangeOf(ArrayItems')
      BY <3>4, <3>6, ElementsAre, ElementsBecome DEF SetInv
    <3>11. ArrayItems[j] = v
      BY <1>1, <2>2, <2>5, <3>1, <3>8, <3>10
    <3>12. Ordered(ArrayItems') /\ RangeOf(ArrayItems') = RangeOf(ArrayItems) \ {ArrayItems[j]}
      <4>1. PICK u, w : u = ArrayItems /\ w = ArrayItems'
        OBVIOUS
      <4>2. Ordered(u) /\ Len(u) \in Nat /\ i \in Nat /\ Replaces(u, i, j, <<>>, w)
        BY <1>1, <3>9, <3>10, <4>1
      <4>3. Ordered(w) /\ RangeOf(w) = RangeOf(u) \ {u[j]}
        BY <3>8, <4>2, TakenOut
      <4> QED  BY <4>1, <4>3
    <3>13. SetInv'
      BY <3>4, <3>6, <3>12 DEF SetInv
    <3>14. SetOf!Remove(v)
      BY <3>3, <3>10, <3>11, <3>12 DEF SetOf!Remove
    <3> QED  BY <3>13, <3>14 DEF SetStep, SetOf!Next
  <2> QED  BY <2>4, <2>5
<1> QED  BY <1>1, <1>2, <1>3, <1>4, <1>5 DEF SetRemove, SetFaults

(***************************************************************************)
(* The set                                                                 *)
(***************************************************************************)

LEMMA SetBegins == SetInit => SetInv /\ SetOf!Init
<1> SUFFICES ASSUME SetInit PROVE SetInv /\ SetOf!Init
  OBVIOUS
<1>1. ArrayInv /\ arr.size = 0
  BY ArrayBegins DEF SetInit, ArrayInit, NoArray
<1>2. Readable
  BY <1>1 DEF Readable
<1>3. Ordered(ArrayItems)
  BY <1>1, <1>2, ElementsAre DEF Ordered
<1>4. Compared
  BY <1>1 DEF SetInit, Compared
<1>5. Members = {}
  BY <1>1 DEF Members
<1>6. SetOf!Init
  BY <1>5 DEF SetOf!Init, SetInit, ArrayInit, NoCall
<1> QED  BY <1>1, <1>2, <1>3, <1>4, <1>6 DEF SetInv

LEMMA SetSteps ==
  ASSUME ArrayValues \subseteq Int, SetInv, [SetNext]_setVars
  PROVE  SetStep
<1>1. CASE UNCHANGED setVars
  <2>1. UNCHANGED arrayVars /\ UNCHANGED hasCompare
    BY <1>1 DEF setVars
  <2> QED  BY <2>1, FaultStays
<1>2. CASE SetFree
  BY <1>2, SetClears
<1>3. ASSUME NEW v \in ArrayValues, SetInsert(v) PROVE SetStep
  BY <1>3, SetAdds, SetBeginsAnew DEF SetInsert
<1>4. CASE SetKeepsCompare
  <2>1. UNCHANGED hasCompare
    BY <1>4 DEF SetKeepsCompare
  <2>2. ASSUME NEW v \in ArrayValues, SetRemove(v) PROVE SetStep
    BY <2>1, <2>2, SetRemoves
  <2>3. ASSUME NEW n \in ArrayCounts, ArrayReserve(n) \/ SetResize(n) PROVE SetStep
    BY <2>1, <2>3, SetReserves, SetResizes
  <2>4. ASSUME NEW i \in ArrayCounts, NEW n \in ArrayCounts, ArrayRemove(i, n) PROVE SetStep
    BY <2>1, <2>4, SetDrops
  <2>5. CASE ArrayShrink \/ ArrayClear
    BY <2>1, <2>5, SetShrinks, SetClears
  <2> QED  BY <1>4, <2>2, <2>3, <2>4, <2>5 DEF SetKeepsCompare
<1> QED  BY <1>1, <1>2, <1>3, <1>4 DEF SetNext

\* The elements of a set ascend, and binary_search of sort.hpp finds exactly them and the place
\* where any other value belongs: for every capacity and every set of values that compare as
\* integers do, after any calls, failed allocations included.
THEOREM SearchesAreExact == ArrayValues \subseteq Int => (SetSpec => []SearchIsExact)
<1> SUFFICES ASSUME ArrayValues \subseteq Int PROVE SetSpec => []SearchIsExact
  OBVIOUS
<1>1. SetInv /\ [SetNext]_setVars => SetInv'
  BY SetSteps DEF SetStep
<1>2. SetInit => SetInv
  BY SetBegins
<1>3. SetInv => SearchIsExact
  BY SetIsExact
<1> QED  BY <1>1, <1>2, <1>3, PTL DEF SetSpec

\* insert_element puts a value into the set and remove_element takes it out, each once and
\* nothing else with it.
THEOREM SetImplementsMembers == ArrayValues \subseteq Int => (SetSpec => SetHoldsMembers)
<1> SUFFICES ASSUME ArrayValues \subseteq Int PROVE SetSpec => SetHoldsMembers
  OBVIOUS
<1>1. SetInv /\ [SetNext]_setVars => SetInv' /\ [SetOf!Next]_(SetOf!vars)
  BY SetSteps DEF SetStep
<1>2. SetInit => SetInv /\ SetOf!Init
  BY SetBegins
<1> QED  BY <1>1, <1>2, PTL DEF SetSpec, SetHoldsMembers, SetOf!Spec

(***************************************************************************)
(* The linked list                                                         *)
(***************************************************************************)

\* Follow and ListItems of nodes that are named, to speak of a state and the next.
Walk(N, from, link, k) ==
  LET step[j \in 0..k] ==
        IF j = 0 THEN from
        ELSE IF step[j - 1] = Null THEN Null ELSE N[step[j - 1]][link]
  IN step[k]

LEMMA FollowIsWalk ==
  ASSUME NEW from, NEW link, NEW k
  PROVE  Follow(from, link, k) = Walk(nodes, from, link, k)
BY DEF Follow, Walk

\* A walk is what it is said to be step by step.
LEMMA WalkIs ==
  ASSUME NEW N, NEW from, NEW link, NEW k \in Nat, NEW d, d[0] = from,
         \A j \in 1..k : d[j] = IF d[j - 1] = Null THEN Null ELSE N[d[j - 1]][link]
  PROVE  Walk(N, from, link, k) = d[k]
<1> DEFINE Steps(f) == [j \in 0..k |-> IF j = 0 THEN from
                                       ELSE IF f[j - 1] = Null THEN Null ELSE N[f[j - 1]][link]]
           s == CHOOSE f : f = Steps(f)
           g == [j \in 0..k |-> d[j]]
<1>1. g = Steps(g)
  OBVIOUS
<1>2. s = Steps(s)
  BY <1>1
<1>3. Walk(N, from, link, k) = s[k]
  BY DEF Walk
<1>4. \A j \in 0..k : s[j] = IF j = 0 THEN from
                             ELSE IF s[j - 1] = Null THEN Null ELSE N[s[j - 1]][link]
  BY <1>2
<1> HIDE DEF s, g, Steps
<1>5. ASSUME s[k] # d[k] PROVE FALSE
  <2> DEFINE Wrong == {j \in Nat : j <= k /\ s[j] # d[j]}
  <2>1. PICK j \in Wrong : \A i \in Wrong : j <= i
    <3>1. k \in Wrong /\ Wrong \in SUBSET Nat
      BY <1>5
    <3> HIDE DEF Wrong
    <3> QED  BY <3>1, LeastExists
  <2>2. CASE j = 0
    BY <1>4, <2>1, <2>2
  <2>3. CASE j # 0
    <3>1. j - 1 \in Nat /\ j - 1 <= k /\ j \in 1..k /\ j \in 0..k /\ ~(j <= j - 1)
      BY <2>1, <2>3
    <3>2. s[j - 1] = d[j - 1]
      BY <2>1, <3>1
    <3> QED  BY <1>4, <2>1, <3>1, <3>2
  <2> QED  BY <2>2, <2>3
<1> QED  BY <1>3, <1>5

\* What may be stored, and what a node is.
Storable == ListValues \cup {ListUnset}
Links    == Addresses \cup {Null}
Node     == [next : Links, previous : Links, value : Storable]

\* c has the addresses of the n nodes in the order of the list, and null outside.
Lined(N, f, l, n, c) ==
  /\ N \in [DOMAIN N -> Node] /\ DOMAIN N \subseteq Addresses /\ n \in Nat
  /\ \A j \in Int : IF j \in 1..n THEN c[j] \in DOMAIN N ELSE c[j] = Null
  /\ \A j \in 1..n : N[c[j]].next = c[j + 1] /\ N[c[j]].previous = c[j - 1]
  /\ \A j, k \in 1..n : c[j] = c[k] => j = k
  /\ \A a \in DOMAIN N : \E j \in 1..n : c[j] = a
  /\ f = c[1] /\ l = c[n]

LEMMA LinedIs ==
  ASSUME NEW N, NEW f, NEW l, NEW n, NEW c, Lined(N, f, l, n, c)
  PROVE  /\ n \in Nat /\ \A j \in Int : c[j] \in Links
         /\ \A j \in Int : c[j] = Null <=> j \notin 1..n
         /\ \A j \in 1..n : c[j] \in DOMAIN N /\ c[j] \in Addresses /\ c[j] # Null
<1>1. n \in Nat /\ \A j \in Int : IF j \in 1..n THEN c[j] \in DOMAIN N ELSE c[j] = Null
  BY DEF Lined
<1>2. ASSUME NEW a \in DOMAIN N PROVE a \in Addresses /\ a # Null
  BY ListAssumption DEF Lined, Addresses, Null
<1>3. \A j \in 1..n : c[j] \in DOMAIN N /\ c[j] \in Addresses /\ c[j] # Null
  BY <1>1, <1>2
<1> QED  BY <1>1, <1>3 DEF Links

\* Forward and backward, from any node or from behind the ends.
LEMMA NextIs ==
  ASSUME NEW N, NEW f, NEW l, NEW n, NEW c, Lined(N, f, l, n, c),
         NEW p \in Int, p >= 1, NEW k \in Nat
  PROVE  Walk(N, c[p], "next", k) = c[p + k]
<1> DEFINE d == [j \in Nat |-> c[p + j]]
<1>1. d[0] = c[p] /\ d[k] = c[p + k]
  OBVIOUS
<1>2. ASSUME NEW j \in 1..k
      PROVE  d[j] = IF d[j - 1] = Null THEN Null ELSE N[d[j - 1]]["next"]
  <2>1. PICK q \in Int : q = p + (j - 1) /\ q + 1 = p + j /\ q >= 1
    OBVIOUS
  <2>2. d[j] = c[q + 1] /\ d[j - 1] = c[q]
    BY <2>1
  <2>3. CASE q \in 1..n
    <3>1. c[q] # Null
      BY <2>3, LinedIs
    <3>2. N[c[q]].next = c[q + 1]
      BY <2>3 DEF Lined
    <3> QED  BY <2>2, <3>1, <3>2
  <2>4. CASE q \notin 1..n
    <3>1. q + 1 \notin 1..n
      BY <2>1, <2>4, LinedIs
    <3>2. c[q] = Null /\ c[q + 1] = Null
      BY <2>1, <2>4, <3>1, LinedIs
    <3> QED  BY <2>2, <3>2
  <2> QED  BY <2>3, <2>4
<1> HIDE DEF d
<1> QED  BY <1>1, <1>2, WalkIs

LEMMA PreviousIs ==
  ASSUME NEW N, NEW f, NEW l, NEW n, NEW c, Lined(N, f, l, n, c),
         NEW p \in Int, p <= n, NEW k \in Nat
  PROVE  Walk(N, c[p], "previous", k) = c[p - k]
<1>0. n \in Nat
  BY LinedIs
<1> DEFINE d == [j \in Nat |-> c[p - j]]
<1>1. d[0] = c[p] /\ d[k] = c[p - k]
  OBVIOUS
<1>2. ASSUME NEW j \in 1..k
      PROVE  d[j] = IF d[j - 1] = Null THEN Null ELSE N[d[j - 1]]["previous"]
  <2>1. PICK q \in Int : q = p - (j - 1) /\ q - 1 = p - j /\ q <= n
    BY <1>0
  <2>2. d[j] = c[q - 1] /\ d[j - 1] = c[q]
    BY <2>1
  <2>3. CASE q \in 1..n
    <3>1. c[q] # Null
      BY <2>3, LinedIs
    <3>2. N[c[q]].previous = c[q - 1]
      BY <2>3 DEF Lined
    <3> QED  BY <2>2, <3>1, <3>2
  <2>4. CASE q \notin 1..n
    <3>1. q - 1 \notin 1..n
      BY <1>0, <2>1, <2>4
    <3>2. c[q] = Null /\ c[q - 1] = Null
      BY <2>1, <2>4, <3>1, LinedIs
    <3> QED  BY <2>2, <3>2
  <2> QED  BY <2>3, <2>4
<1> HIDE DEF d
<1> QED  BY <1>1, <1>2, WalkIs

\* The list and its invariant.
ListLined(c) == Lined(nodes, first, last, listSize, c)
ListInv == (\E c : ListLined(c)) /\ listCrashed \in BOOLEAN

\* get_node counts from the nearer end.
LEMMA NthIs ==
  ASSUME NEW c, ListLined(c), NEW i \in Int
  PROVE  NthNode(i) = c[i + 1]
<1>1. listSize \in Nat /\ first = c[1] /\ last = c[listSize]
  BY DEF ListLined, Lined
<1>2. CASE i < 0 \/ i >= listSize
  <2>1. i + 1 \notin 1..listSize
    BY <1>1, <1>2
  <2> QED  BY <1>2, <2>1, LinedIs DEF NthNode, ListLined
<1>3. CASE i \in Nat /\ i < listSize
  <2>1. Follow(first, "next", i) = c[i + 1]
    <3>1. Walk(nodes, c[1], "next", i) = c[1 + i]
      BY <1>3, NextIs DEF ListLined
    <3>2. 1 + i = i + 1
      OBVIOUS
    <3> QED  BY <1>1, <3>1, <3>2, FollowIsWalk
  <2>2. Follow(last, "previous", listSize - 1 - i) = c[i + 1]
    <3>1. PICK k \in Nat : k = listSize - 1 - i /\ listSize - k = i + 1
      BY <1>1, <1>3
    <3>2. Walk(nodes, c[listSize], "previous", k) = c[listSize - k]
      BY <1>1, <3>1, PreviousIs DEF ListLined
    <3>3. Follow(last, "previous", k) = c[i + 1]
      BY <1>1, <3>1, <3>2, FollowIsWalk
    <3> QED  BY <3>1, <3>3
  <2>3. ~(i < 0 \/ i >= listSize)
    BY <1>1, <1>3
  <2>4. NthNode(i) \in {Follow(first, "next", i), Follow(last, "previous", listSize - 1 - i)}
    BY <2>3, Zenon DEF NthNode
  <2> QED  BY <2>1, <2>2, <2>4
<1> QED  BY <1>1, <1>2, <1>3

(***************************************************************************)
(* The allocator                                                           *)
(***************************************************************************)

Below(F, a) == {b \in F : b < a}

\* A finite set of numbers has one with j - 1 below it, for each j up to its size.
LEMMA RankExists ==
  ASSUME NEW F \in SUBSET Nat, IsFiniteSet(F), NEW j \in Nat, j < Cardinality(F)
  PROVE  \E a \in F : Cardinality(Below(F, a)) = j
<1> DEFINE Without == {i \in Nat : i < Cardinality(F) /\ ~\E a \in F : Cardinality(Below(F, a)) = i}
<1> SUFFICES ASSUME Without # {} PROVE FALSE
  OBVIOUS
<1>0. Cardinality(F) \in Nat
  BY FS_CardinalityType
<1>1. PICK i \in Without : \A k \in Without : i <= k
  <2>1. Without \in SUBSET Nat
    OBVIOUS
  <2> HIDE DEF Without
  <2> QED  BY <2>1, LeastExists
<1>2. CASE i = 0
  <2>0. Cardinality(F) # 0
    BY <1>0, <1>1, <1>2
  <2>1. F # {}
    BY <2>0, FS_EmptySet
  <2>2. PICK a \in F : \A b \in F : a <= b
    BY <2>1, LeastExists
  <2>3. Below(F, a) = {}
    <3>1. ASSUME NEW b \in F PROVE ~(b < a)
      <4>1. a \in Nat /\ b \in Nat /\ a <= b
        BY <2>2
      <4> QED  BY <4>1
    <3> QED  BY <3>1 DEF Below
  <2> QED  BY <1>1, <1>2, <2>3, FS_EmptySet
<1>3. CASE i # 0
  <2>1. i - 1 \in Nat /\ i - 1 < Cardinality(F) /\ ~(i <= i - 1)
    BY <1>0, <1>1, <1>3
  <2>2. PICK a \in F : Cardinality(Below(F, a)) = i - 1
    BY <1>1, <2>1
  <2> DEFINE Upto == Below(F, a) \cup {a}
             Above == F \ Upto
  <2>3. IsFiniteSet(Below(F, a)) /\ a \notin Below(F, a)
    <3>1. Below(F, a) \subseteq F /\ a \in Nat /\ ~(a < a)
      BY DEF Below
    <3>2. IsFiniteSet(Below(F, a))
      BY <3>1, FS_Subset
    <3> QED  BY <3>1, <3>2 DEF Below
  <2>4. Cardinality(Upto) = i
    <3>1. Cardinality(Upto) = Cardinality(Below(F, a)) + 1
      BY <2>3, FS_AddElement
    <3> QED  BY <1>1, <2>2, <3>1
  <2>5. Above # {}
    <3>1. Upto \subseteq F
      BY DEF Below
    <3>2. Upto # F
      BY <1>1, <2>4
    <3> QED  BY <3>1, <3>2
  <2>6. PICK b \in Above : \A x \in Above : b <= x
    <3>1. Above \in SUBSET Nat
      OBVIOUS
    <3> HIDE DEF Above
    <3> QED  BY <2>5, <3>1, LeastExists
  <2>7. b \in Nat /\ a \in Nat /\ b > a
    BY <2>6 DEF Below
  <2>8. Below(F, b) = Upto
    <3>1. ASSUME NEW x \in F PROVE x < b <=> x \in Upto
      <4>1. x \in Nat
        OBVIOUS
      <4>2. x \in Upto => x < b
        BY <2>7, <4>1 DEF Below
      <4>3. x \notin Upto => b <= x
        BY <2>6
      <4> QED  BY <2>7, <4>1, <4>2, <4>3
    <3> QED  BY <3>1 DEF Below
  <2> QED  BY <1>1, <2>4, <2>6, <2>8
<1> QED  BY <1>2, <1>3

\* The addresses of new nodes are free and different.
LEMMA FreshIs ==
  ASSUME NEW k \in Nat, k <= Cardinality(FreeAddresses)
  PROVE  /\ \A j \in 1..k : Fresh(j) \in FreeAddresses
         /\ \A i, j \in 1..k : Fresh(i) = Fresh(j) => i = j
<1>1. IsFiniteSet(FreeAddresses) /\ FreeAddresses \in SUBSET Nat /\ Cardinality(FreeAddresses) \in Nat
  <2>1. IsFiniteSet(Addresses) /\ FreeAddresses \subseteq Addresses /\ Addresses \in SUBSET Nat
    BY ListAssumption, FS_Interval DEF Addresses, FreeAddresses
  <2> QED  BY <2>1, FS_Subset, FS_CardinalityType
<1>2. ASSUME NEW j \in 1..k
      PROVE  Fresh(j) \in FreeAddresses /\ Cardinality({b \in FreeAddresses : b < Fresh(j)}) = j - 1
  <2>1. j - 1 \in Nat /\ j - 1 < Cardinality(FreeAddresses)
    BY <1>1
  <2>2. \E a \in FreeAddresses : Cardinality({b \in FreeAddresses : b < a}) = j - 1
    BY <1>1, <2>1, RankExists DEF Below
  <2> QED  BY <2>2 DEF Fresh
<1>3. ASSUME NEW i \in 1..k, NEW j \in 1..k, Fresh(i) = Fresh(j) PROVE i = j
  <2>1. i - 1 = j - 1
    BY <1>2, <1>3
  <2> QED  BY <2>1
<1> QED  BY <1>2, <1>3

(***************************************************************************)
(* What the invariant says                                                 *)
(***************************************************************************)

LEMMA SizeIsNodes ==
  ASSUME NEW N, NEW f, NEW l, NEW n, NEW c, Lined(N, f, l, n, c)
  PROVE  IsFiniteSet(DOMAIN N) /\ Cardinality(DOMAIN N) = n /\ n <= ListNodes
<1>1. n \in Nat /\ IsFiniteSet(1..n) /\ Cardinality(1..n) = n
  <2>1. n \in Nat
    BY LinedIs
  <2> QED  BY <2>1, FS_Interval
<1>2. IsFiniteSet(Addresses) /\ Cardinality(Addresses) = ListNodes
  BY ListAssumption, FS_Interval DEF Addresses
<1>3. IsFiniteSet(DOMAIN N) /\ Cardinality(DOMAIN N) <= ListNodes
  <2>1. DOMAIN N \subseteq Addresses
    BY DEF Lined
  <2> QED  BY <1>2, <2>1, FS_Subset
<1> DEFINE g == [j \in 1..n |-> c[j]]
<1>4. g \in Bijection(1..n, DOMAIN N)
  <2>1. g \in [1..n -> DOMAIN N]
    BY LinedIs
  <2>2. \A i, j \in 1..n : g[i] = g[j] => i = j
    BY DEF Lined
  <2>3. \A a \in DOMAIN N : \E j \in 1..n : g[j] = a
    BY DEF Lined
  <2> HIDE DEF g
  <2> QED  BY <2>1, <2>2, <2>3 DEF Bijection, Injection, Surjection, IsInjective
<1>5. Cardinality(DOMAIN N) = n
  <2>1. ExistsBijection(1..n, DOMAIN N)
    BY <1>4 DEF ExistsBijection
  <2> QED  BY <1>1, <2>1, FS_Bijection
<1> QED  BY <1>3, <1>5

LEMMA LinedIsTyped == ListInv => ListTypeOK
<1> SUFFICES ASSUME ListInv PROVE ListTypeOK
  OBVIOUS
<1>1. PICK c : ListLined(c)
  BY DEF ListInv
<1>2. \A a \in DOMAIN nodes : nodes[a] \in [next : Links, previous : Links, value : Storable]
  BY <1>1 DEF ListLined, Lined, Node
<1>3. first \in Links /\ last \in Links /\ DOMAIN nodes \subseteq Addresses
  <2>1. first = c[1] /\ last = c[listSize] /\ listSize \in Int /\ DOMAIN nodes \subseteq Addresses
    BY <1>1 DEF ListLined, Lined
  <2> QED  BY <1>1, <2>1, LinedIs DEF ListLined
<1>4. listSize \in 0..ListNodes
  <2>1. listSize \in Nat /\ listSize <= ListNodes
    BY <1>1, SizeIsNodes, LinedIs DEF ListLined
  <2> QED  BY <2>1, ListAssumption
<1> QED  BY <1>2, <1>3, <1>4 DEF ListTypeOK, ListInv, Links, Storable

LEMMA LinedAgrees == ListInv => ChainsAgree
<1> SUFFICES ASSUME ListInv PROVE ChainsAgree
  OBVIOUS
<1>1. PICK c : ListLined(c)
  BY DEF ListInv
<1>2. listSize \in Nat /\ first = c[1] /\ last = c[listSize]
  BY <1>1 DEF ListLined, Lined
<1>3. ASSUME NEW k \in Nat PROVE Follow(first, "next", k) = c[k + 1]
  <2>1. Walk(nodes, c[1], "next", k) = c[1 + k]
    BY <1>1, NextIs DEF ListLined
  <2>2. 1 + k = k + 1
    OBVIOUS
  <2> QED  BY <1>2, <2>1, <2>2, FollowIsWalk
<1>4. ASSUME NEW k \in Nat PROVE Follow(last, "previous", k) = c[listSize - k]
  <2>1. Walk(nodes, c[listSize], "previous", k) = c[listSize - k]
    BY <1>1, <1>2, PreviousIs DEF ListLined
  <2> QED  BY <1>2, <2>1, FollowIsWalk
<1>5. {Follow(first, "next", j) : j \in 0..(listSize - 1)} = DOMAIN nodes
  <2>1. ASSUME NEW j \in 0..(listSize - 1) PROVE Follow(first, "next", j) \in DOMAIN nodes
    <3>1. j \in Nat /\ j + 1 \in 1..listSize
      BY <1>2
    <3>2. c[j + 1] \in DOMAIN nodes
      BY <1>1, <3>1, LinedIs DEF ListLined
    <3> QED  BY <1>3, <3>1, <3>2
  <2>2. ASSUME NEW a \in DOMAIN nodes
        PROVE  \E j \in 0..(listSize - 1) : Follow(first, "next", j) = a
    <3>1. PICK i \in 1..listSize : c[i] = a
      BY <1>1 DEF ListLined, Lined
    <3>2. i - 1 \in Nat /\ (i - 1) + 1 = i /\ i - 1 \in 0..(listSize - 1)
      BY <1>2
    <3>3. Follow(first, "next", i - 1) = c[i]
      BY <1>3, <3>2
    <3> QED  BY <3>1, <3>2, <3>3
  <2> QED  BY <2>1, <2>2
<1>6. Cardinality(DOMAIN nodes) = listSize
  BY <1>1, SizeIsNodes DEF ListLined
<1>7. Follow(first, "next", listSize) = Null /\ Follow(last, "previous", listSize) = Null
  <2>1. listSize + 1 \notin 1..listSize /\ listSize - listSize \notin 1..listSize
        /\ listSize + 1 \in Int /\ listSize - listSize \in Int
    BY <1>2
  <2>2. c[listSize + 1] = Null /\ c[listSize - listSize] = Null
    BY <1>1, <2>1, LinedIs DEF ListLined
  <2> QED  BY <1>2, <1>3, <1>4, <2>2
<1>8. ASSUME NEW j \in 0..(listSize - 1)
      PROVE  Follow(last, "previous", j) = Follow(first, "next", listSize - 1 - j)
  <2>1. PICK k \in Nat : k = listSize - 1 - j /\ k + 1 = listSize - j /\ j \in Nat
    BY <1>2
  <2>2. Follow(first, "next", k) = c[k + 1] /\ Follow(last, "previous", j) = c[listSize - j]
    BY <1>3, <1>4, <2>1
  <2> QED  BY <2>1, <2>2
<1> QED  BY <1>5, <1>6, <1>7, <1>8 DEF ChainsAgree

(***************************************************************************)
(* The elements                                                            *)
(***************************************************************************)

LEMMA LineHolds ==
  ASSUME NEW N, NEW f, NEW l, NEW n, NEW c, Lined(N, f, l, n, c),
         NEW s, s = [j \in 1..n |-> N[Walk(N, f, "next", j - 1)].value]
  PROVE  /\ s \in Seq(Storable) /\ Len(s) = n
         /\ \A k \in 1..n : s[k] = N[c[k]].value /\ s[k] \in Storable
<1>1. n \in Nat /\ f = c[1]
  BY DEF Lined
<1>2. ASSUME NEW k \in 1..n PROVE s[k] = N[c[k]].value /\ s[k] \in Storable
  <2>1. PICK i \in Nat : i = k - 1 /\ 1 + i = k
    BY <1>1
  <2>2. Walk(N, c[1], "next", i) = c[k]
    BY <2>1, NextIs
  <2>3. s[k] = N[c[k]].value
    BY <1>1, <2>1, <2>2
  <2>4. N[c[k]] \in Node
    BY LinedIs DEF Lined
  <2> QED  BY <2>3, <2>4 DEF Node
<1>3. s \in Seq(Storable) /\ Len(s) = n
  <2>1. s \in [1..n -> Storable]
    BY <1>2
  <2> QED  BY <1>1, <2>1
<1> QED  BY <1>2, <1>3

LEMMA ListHolds ==
  ASSUME NEW c, ListLined(c)
  PROVE  /\ listSize \in Nat /\ ListItems \in Seq(Storable) /\ Len(ListItems) = listSize
         /\ \A k \in 1..listSize : ListItems[k] = nodes[c[k]].value /\ ListItems[k] \in Storable
<1>1. listSize \in Nat
  BY LinedIs DEF ListLined
<1>2. ListItems = [j \in 1..listSize |-> nodes[Walk(nodes, first, "next", j - 1)].value]
  BY <1>1, FollowIsWalk DEF ListItems
<1> QED  BY <1>1, <1>2, LineHolds DEF ListLined

LEMMA ListWillHold ==
  ASSUME NEW c, Lined(nodes', first', last', listSize', c)
  PROVE  /\ listSize' \in Nat /\ ListItems' \in Seq(Storable) /\ Len(ListItems') = listSize'
         /\ \A k \in 1..listSize' : ListItems'[k] = nodes'[c[k]].value
<1>1. listSize' \in Nat
  BY LinedIs
<1>2. PICK t : t = ListItems'
  OBVIOUS
<1>3. t = [j \in 1..listSize' |-> nodes'[Walk(nodes', first', "next", j - 1)].value]
  BY <1>2 DEF ListItems, Follow, Walk
<1>4. PICK N, f, l, n : N = nodes' /\ f = first' /\ l = last' /\ n = listSize'
  OBVIOUS
<1>5. Lined(N, f, l, n, c) /\ t = [j \in 1..n |-> N[Walk(N, f, "next", j - 1)].value]
  BY <1>3, <1>4
<1>6. /\ t \in Seq(Storable) /\ Len(t) = n
      /\ \A k \in 1..n : t[k] = N[c[k]].value
  BY <1>5, LineHolds
<1> QED  BY <1>1, <1>2, <1>4, <1>6

(***************************************************************************)
(* New nodes                                                               *)
(***************************************************************************)

LEMMA SplicePuts ==
  ASSUME NEW c, ListLined(c), NEW p \in 0..listSize, NEW s \in Seq(Storable), s # <<>>,
         Splice(c[p], c[p + 1], s)
  PROVE  /\ \E e : Lined(nodes', first', last', listSize', e)
         /\ Replaces(ListItems, p, p, s, ListItems')
<1> DEFINE n       == listSize
           k       == Len(s)
           address == [j \in 1..k |-> Fresh(j)]
           before  == c[p]
           after   == c[p + 1]
           N       == nodes'
           Position(a) == CHOOSE j \in 1..k : address[j] = a
<1>1. n \in Nat /\ k \in Nat \ {0} /\ n = listSize /\ k = Len(s) /\ p <= n /\ p \in Nat
  <2>1. Len(s) \in Nat /\ Len(s) # 0
    BY EmptySeq, LenProperties
  <2>2. listSize \in Nat
    BY LinedIs DEF ListLined
  <2> QED  BY <2>1, <2>2
<1>2. \A j \in 1..k : address[j] = Fresh(j)
  OBVIOUS
<1>3. before = c[p] /\ after = c[p + 1] /\ N = nodes'
  OBVIOUS
<1>4. /\ k <= Cardinality(FreeAddresses)
      /\ N = [a \in DOMAIN nodes \cup {address[j] : j \in 1..k} |->
                    IF a \in DOMAIN nodes
                    THEN [nodes[a] EXCEPT !.next = IF a = before THEN address[1] ELSE @,
                                          !.previous = IF a = after THEN address[k] ELSE @]
                    ELSE [previous |-> IF Position(a) = 1 THEN before ELSE address[Position(a) - 1],
                          next     |-> IF Position(a) = k THEN after ELSE address[Position(a) + 1],
                          value    |-> s[Position(a)]]]
      /\ first' = IF before = Null THEN address[1] ELSE first
      /\ last' = IF after = Null THEN address[k] ELSE last
      /\ listSize' = n + k
  BY Zenon DEF Splice
<1> HIDE DEF n, k, address, before, after, N, Position
<1>5. /\ \A j \in 1..k : address[j] \in FreeAddresses
      /\ \A i, j \in 1..k : address[i] = address[j] => i = j
  <2>2. k \in Nat /\ k <= Cardinality(FreeAddresses)
    BY <1>1, <1>4
  <2>3. /\ \A j \in 1..k : Fresh(j) \in FreeAddresses
        /\ \A i, j \in 1..k : Fresh(i) = Fresh(j) => i = j
    BY <2>2, FreshIs
  <2> QED  BY <1>2, <2>3
<1>6. ASSUME NEW j \in 1..k
      PROVE  address[j] \in Addresses /\ address[j] \notin DOMAIN nodes /\ address[j] \in Links
  BY <1>5 DEF FreeAddresses, Links
<1>7. /\ nodes \in [DOMAIN nodes -> Node] /\ DOMAIN nodes \subseteq Addresses
      /\ \A j \in Int : c[j] \in Links
      /\ \A j \in Int : c[j] = Null <=> j \notin 1..n
      /\ \A j \in 1..n : c[j] \in DOMAIN nodes /\ c[j] # Null
      /\ \A i, j \in 1..n : c[i] = c[j] => i = j
  <2>1. Lined(nodes, first, last, n, c)
    BY <1>1 DEF ListLined
  <2>2. /\ nodes \in [DOMAIN nodes -> Node] /\ DOMAIN nodes \subseteq Addresses
        /\ \A i, j \in 1..n : c[i] = c[j] => i = j
    BY <2>1 DEF Lined
  <2>3. /\ \A j \in Int : c[j] \in Links
        /\ \A j \in Int : c[j] = Null <=> j \notin 1..n
        /\ \A j \in 1..n : c[j] \in DOMAIN nodes /\ c[j] # Null
    BY <2>1, LinedIs
  <2> QED  BY <2>2, <2>3
<1>8. /\ DOMAIN N = DOMAIN nodes \cup {address[j] : j \in 1..k}
      /\ N \in [DOMAIN N -> Node]
      /\ \A a \in DOMAIN nodes : /\ N[a].next = IF a = before THEN address[1] ELSE nodes[a].next
                                 /\ N[a].previous = IF a = after THEN address[k] ELSE nodes[a].previous
                                 /\ N[a].value = nodes[a].value
      /\ \A j \in 1..k : /\ N[address[j]].next = IF j = k THEN after ELSE address[j + 1]
                         /\ N[address[j]].previous = IF j = 1 THEN before ELSE address[j - 1]
                         /\ N[address[j]].value = s[j]
  <2>1. DOMAIN N = DOMAIN nodes \cup {address[j] : j \in 1..k}
    BY <1>4
  <2>2. 1 \in 1..k /\ k \in 1..k
    BY <1>1
  <2>3. ASSUME NEW a \in DOMAIN nodes
        PROVE  /\ N[a].next = IF a = before THEN address[1] ELSE nodes[a].next
               /\ N[a].previous = IF a = after THEN address[k] ELSE nodes[a].previous
               /\ N[a].value = nodes[a].value
               /\ N[a] \in Node
    <3>1. PICK x, y : x = address[1] /\ y = address[k] /\ x \in Links /\ y \in Links
      BY <1>6, <2>2
    <3>2. PICK m \in Node : m = nodes[a]
      BY <1>7
    <3>3. N[a] = [m EXCEPT !.next = IF a = before THEN x ELSE @,
                           !.previous = IF a = after THEN y ELSE @]
      BY <1>4, <3>1, <3>2
    <3> QED  BY <3>1, <3>2, <3>3 DEF Node
  <2>4. ASSUME NEW j \in 1..k
        PROVE  /\ N[address[j]].next = IF j = k THEN after ELSE address[j + 1]
               /\ N[address[j]].previous = IF j = 1 THEN before ELSE address[j - 1]
               /\ N[address[j]].value = s[j]
               /\ N[address[j]] \in Node
    <3>1. address[j] \notin DOMAIN nodes /\ address[j] \in DOMAIN N
      BY <1>6, <2>1
    <3>2. Position(address[j]) = j
      BY <1>5 DEF Position
    <3>3. PICK x, y, v : /\ x = IF j = 1 THEN before ELSE address[j - 1]
                         /\ y = IF j = k THEN after ELSE address[j + 1]
                         /\ v = s[j]
      OBVIOUS
    <3>4. N[address[j]] = [previous |-> x, next |-> y, value |-> v]
      <4>1. PICK b : b = address[j]
        OBVIOUS
      <4>2. b \in DOMAIN nodes \cup {address[i] : i \in 1..k} /\ b \notin DOMAIN nodes
        BY <3>1, <4>1
      <4>3. Position(b) = j
        BY <3>2, <4>1
      <4>4. N[b] = [previous |-> IF Position(b) = 1 THEN before ELSE address[Position(b) - 1],
                    next     |-> IF Position(b) = k THEN after ELSE address[Position(b) + 1],
                    value    |-> s[Position(b)]]
        BY <1>4, <4>2
      <4>5. N[b] = [previous |-> IF j = 1 THEN before ELSE address[j - 1],
                    next     |-> IF j = k THEN after ELSE address[j + 1],
                    value    |-> s[j]]
        BY <4>3, <4>4, Zenon
      <4>6. N[b] = [previous |-> x, next |-> y, value |-> v]
        BY <3>3, <4>5, Zenon
      <4> QED  BY <4>1, <4>6, Zenon
    <3>5. x \in Links
      <4>1. before \in Links
        BY <1>3, <1>7
      <4>2. j # 1 => j - 1 \in 1..k
        BY <1>1
      <4> QED  BY <1>6, <3>3, <4>1, <4>2
    <3>6. y \in Links
      <4>1. after \in Links
        <5>1. p + 1 \in Int
          BY <1>1
        <5> QED  BY <1>3, <1>7, <5>1
      <4>2. j # k => j + 1 \in 1..k
        BY <1>1
      <4> QED  BY <1>6, <3>3, <4>1, <4>2
    <3>7. v \in Storable
      <4>1. j \in 1..Len(s)
        BY <1>1
      <4> QED  BY <3>3, <4>1, ElementOfSeq
    <3> QED  BY <3>3, <3>4, <3>5, <3>6, <3>7 DEF Node
  <2>5. ASSUME NEW a \in DOMAIN N PROVE N[a] \in Node
    BY <2>1, <2>3, <2>4
  <2>6. N \in [DOMAIN N -> Node]
    BY <1>4, <2>1, <2>5
  <2> QED  BY <2>1, <2>3, <2>4, <2>6
<1>9. PICK e : e = [j \in Int |-> IF j <= p THEN c[j] ELSE IF j <= p + k THEN address[j - p] ELSE c[j - k]]
  OBVIOUS
<1>10. /\ \A j \in Int : j <= p => e[j] = c[j]
       /\ \A j \in 1..k : e[p + j] = address[j]
       /\ \A j \in Int : j > p => e[j + k] = c[j]
  <2>1. ASSUME NEW j \in Int PROVE j <= p => e[j] = c[j]
    BY <1>9
  <2>2. ASSUME NEW j \in 1..k PROVE e[p + j] = address[j]
    <3>1. PICK i \in Int : i = p + j /\ ~(i <= p) /\ i <= p + k /\ i - p = j
      BY <1>1
    <3> QED  BY <1>9, <3>1
  <2>3. ASSUME NEW j \in Int, j > p PROVE e[j + k] = c[j]
    <3>1. PICK i \in Int : i = j + k /\ ~(i <= p) /\ ~(i <= p + k) /\ i - k = j
      BY <1>1, <2>3
    <3> QED  BY <1>9, <3>1
  <2> QED  BY <2>1, <2>2, <2>3
\* Where a position of the new line comes from.
<1>11. ASSUME NEW i \in Int
       PROVE  \/ i <= p
              \/ \E j \in 1..k : i = p + j
              \/ \E j \in Int : j > p /\ i = j + k
  <2>1. CASE i > p /\ i <= p + k
    <3>1. i - p \in 1..k /\ i = p + (i - p)
      BY <1>1, <2>1
    <3> QED  BY <3>1
  <2>2. CASE i > p + k
    <3>1. i - k \in Int /\ i - k > p /\ i = (i - k) + k
      BY <1>1, <2>2
    <3> QED  BY <3>1
  <2> QED  BY <1>1, <2>1, <2>2
<1>12. ASSUME NEW i \in Int
       PROVE  IF i \in 1..(n + k) THEN e[i] \in DOMAIN N ELSE e[i] = Null
  <2>1. CASE i <= p
    <3>1. e[i] = c[i] /\ (i \in 1..(n + k) <=> i \in 1..n)
      BY <1>1, <1>10, <2>1
    <3> QED  BY <1>7, <1>8, <3>1
  <2>2. ASSUME NEW j \in 1..k, i = p + j
        PROVE  IF i \in 1..(n + k) THEN e[i] \in DOMAIN N ELSE e[i] = Null
    <3>1. e[i] = address[j] /\ i \in 1..(n + k)
      BY <1>1, <1>10, <2>2
    <3> QED  BY <1>8, <3>1
  <2>3. ASSUME NEW j \in Int, j > p, i = j + k
        PROVE  IF i \in 1..(n + k) THEN e[i] \in DOMAIN N ELSE e[i] = Null
    <3>1. e[i] = c[j] /\ (i \in 1..(n + k) <=> j \in 1..n)
      <4>1. e[j + k] = c[j]
        BY <1>10, <2>3
      <4>2. i \in 1..(n + k) <=> j \in 1..n
        BY <1>1, <2>3
      <4> QED  BY <2>3, <4>1, <4>2
    <3>2. (j \in 1..n => c[j] \in DOMAIN N) /\ (j \notin 1..n => c[j] = Null)
      BY <1>7, <1>8
    <3> QED  BY <3>1, <3>2, Zenon
  <2>4. i \in Int
    BY <1>1
  <2> QED
    <3>1. CASE \E j \in 1..k : i = p + j
      BY <2>2, <3>1
    <3>2. CASE \E j \in Int : j > p /\ i = j + k
      BY <2>3, <3>2
    <3> QED  BY <1>11, <2>1, <2>4, <3>1, <3>2
\* The links.
<1>13. ASSUME NEW i \in 1..(n + k)
       PROVE  N[e[i]].next = e[i + 1] /\ N[e[i]].previous = e[i - 1]
  <2>1. CASE i <= p
    <3>1. i \in 1..n /\ i \in Int /\ i - 1 \in Int /\ i - 1 <= p /\ p \in Int /\ p + 1 \in Int
      BY <1>1, <2>1
    <3>2. e[i] = c[i] /\ e[i - 1] = c[i - 1] /\ c[i] \in DOMAIN nodes
      BY <1>7, <1>10, <2>1, <3>1
    <3>3. nodes[c[i]].next = c[i + 1] /\ nodes[c[i]].previous = c[i - 1]
      BY <1>1, <3>1 DEF ListLined, Lined
    <3>4. c[i] # after
      <4>1. CASE p + 1 \in 1..n
        <5>1. i # p + 1
          BY <1>1, <2>1
        <5> QED  BY <1>3, <1>7, <3>1, <4>1, <5>1
      <4>2. CASE p + 1 \notin 1..n
        <5>1. after = Null
          BY <1>3, <1>7, <3>1, <4>2
        <5> QED  BY <1>7, <3>1, <5>1
      <4> QED  BY <4>1, <4>2
    <3>5. CASE i = p
      <4>1. e[i + 1] = address[1] /\ c[i] = before
        <5>1. 1 \in 1..k
          BY <1>1
        <5> QED  BY <1>3, <1>10, <3>5, <5>1
      <4> QED  BY <1>8, <3>2, <3>3, <3>4, <4>1
    <3>6. CASE i # p
      <4>1. p \in 1..n /\ i + 1 <= p /\ i + 1 \in Int
        BY <1>1, <2>1, <3>1, <3>6
      <4>2. e[i + 1] = c[i + 1] /\ c[i] # before
        BY <1>3, <1>7, <1>10, <3>1, <3>6, <4>1
      <4> QED  BY <1>8, <3>2, <3>3, <3>4, <4>2
    <3> QED  BY <3>5, <3>6
  <2>2. ASSUME NEW j \in 1..k, i = p + j
        PROVE  N[e[i]].next = e[i + 1] /\ N[e[i]].previous = e[i - 1]
    <3>1. e[i] = address[j]
      BY <1>10, <2>2
    <3>2. e[i + 1] = IF j = k THEN after ELSE address[j + 1]
      <4>1. CASE j = k
        <5>1. PICK q \in Int : q = p + 1 /\ q > p /\ i + 1 = q + k
          BY <1>1, <2>2, <4>1
        <5>2. e[q + k] = c[q] /\ c[q] = after
          BY <1>3, <1>10, <5>1
        <5> QED  BY <4>1, <5>1, <5>2
      <4>2. CASE j # k
        <5>1. j + 1 \in 1..k /\ i + 1 = p + (j + 1)
          BY <1>1, <2>2, <4>2
        <5> QED  BY <1>10, <4>2, <5>1
      <4> QED  BY <4>1, <4>2
    <3>3. e[i - 1] = IF j = 1 THEN before ELSE address[j - 1]
      <4>1. CASE j = 1
        <5>1. i - 1 = p /\ p \in Int /\ p <= p
          BY <1>1, <2>2, <4>1
        <5> QED  BY <1>3, <1>10, <4>1, <5>1
      <4>2. CASE j # 1
        <5>1. j - 1 \in 1..k /\ i - 1 = p + (j - 1)
          BY <1>1, <2>2, <4>2
        <5> QED  BY <1>10, <4>2, <5>1
      <4> QED  BY <4>1, <4>2
    <3> QED  BY <1>8, <3>1, <3>2, <3>3
  <2>3. ASSUME NEW j \in Int, j > p, i = j + k
        PROVE  N[e[i]].next = e[i + 1] /\ N[e[i]].previous = e[i - 1]
    <3>1. j \in 1..n /\ j + 1 \in Int /\ j + 1 > p /\ i + 1 = (j + 1) + k /\ p \in Int
      BY <1>1, <2>3
    <3>2. e[i] = c[j] /\ e[i + 1] = c[j + 1] /\ c[j] \in DOMAIN nodes
      BY <1>7, <1>10, <2>3, <3>1
    <3>3. nodes[c[j]].next = c[j + 1] /\ nodes[c[j]].previous = c[j - 1]
      BY <1>1, <3>1 DEF ListLined, Lined
    <3>4. c[j] # before
      <4>1. CASE p \in 1..n
        <5>1. j # p
          BY <1>1, <2>3
        <5> QED  BY <1>3, <1>7, <3>1, <4>1, <5>1
      <4>2. CASE p \notin 1..n
        <5>1. before = Null
          BY <1>3, <1>7, <3>1, <4>2
        <5> QED  BY <1>7, <3>1, <5>1
      <4> QED  BY <4>1, <4>2
    <3>5. CASE j = p + 1
      <4>1. e[i - 1] = address[k] /\ c[j] = after
        <5>1. k \in 1..k /\ i - 1 = p + k
          BY <1>1, <2>3, <3>5
        <5> QED  BY <1>3, <1>10, <3>5, <5>1
      <4> QED  BY <1>8, <3>2, <3>3, <3>4, <4>1
    <3>6. CASE j # p + 1
      <4>1. PICK q \in Int : q = j - 1 /\ q > p /\ i - 1 = q + k /\ p + 1 \in 1..n
        BY <1>1, <2>3, <3>1, <3>6
      <4>2. e[i - 1] = c[j - 1]
        BY <1>10, <4>1
      <4>3. c[j] # after
        BY <1>3, <1>7, <3>1, <3>6, <4>1
      <4> QED  BY <1>8, <3>2, <3>3, <3>4, <4>2, <4>3
    <3> QED  BY <3>5, <3>6
  <2>4. i \in Int
    BY <1>1
  <2> QED
    <3>1. CASE \E j \in 1..k : i = p + j
      BY <2>2, <3>1
    <3>2. CASE \E j \in Int : j > p /\ i = j + k
      BY <2>3, <3>2
    <3> QED  BY <1>11, <2>1, <2>4, <3>1, <3>2
<1>14. ASSUME NEW i \in 1..(n + k), NEW j \in 1..(n + k), e[i] = e[j] PROVE i = j
  <2> DEFINE Old(q) == IF q <= p THEN q ELSE q - k
  <2>1. ASSUME NEW q \in 1..(n + k)
        PROVE  \/ e[q] \in DOMAIN nodes /\ Old(q) \in 1..n /\ e[q] = c[Old(q)] /\ (q <= p \/ q > p + k)
               \/ \E r \in 1..k : e[q] = address[r] /\ q = p + r /\ e[q] \notin DOMAIN nodes
    <3>1. CASE q <= p
      <4>1. q \in 1..n /\ q \in Int
        BY <1>1, <3>1
      <4> QED  BY <1>7, <1>10, <3>1, <4>1
    <3>2. ASSUME NEW r \in 1..k, q = p + r
          PROVE  e[q] = address[r] /\ e[q] \notin DOMAIN nodes
      BY <1>6, <1>10, <3>2
    <3>3. ASSUME NEW r \in Int, r > p, q = r + k
          PROVE  e[q] \in DOMAIN nodes /\ Old(q) \in 1..n /\ e[q] = c[Old(q)] /\ q > p + k
      <4>1. r \in 1..n /\ Old(q) = r /\ q > p + k
        BY <1>1, <3>3
      <4> QED  BY <1>7, <1>10, <3>3, <4>1
    <3>4. CASE \E r \in 1..k : q = p + r
      BY <3>2, <3>4
    <3>5. CASE \E r \in Int : r > p /\ q = r + k
      <4> HIDE DEF Old
      <4> QED  BY <3>3, <3>5
    <3>6. q \in Int
      BY <1>1
    <3> HIDE DEF Old
    <3> QED  BY <1>11, <3>1, <3>4, <3>5, <3>6
  <2>2. CASE e[i] \in DOMAIN nodes
    <3>1. /\ Old(i) \in 1..n /\ e[i] = c[Old(i)] /\ (i <= p \/ i > p + k)
          /\ Old(j) \in 1..n /\ e[j] = c[Old(j)] /\ (j <= p \/ j > p + k)
      BY <1>14, <2>1, <2>2
    <3>2. Old(i) = Old(j)
      BY <1>7, <1>14, <3>1
    <3> QED  BY <1>1, <3>1, <3>2
  <2>3. CASE e[i] \notin DOMAIN nodes
    <3>1. PICK q \in 1..k, r \in 1..k : e[i] = address[q] /\ i = p + q /\ e[j] = address[r] /\ j = p + r
      BY <1>14, <2>1, <2>3
    <3>2. q = r
      BY <1>5, <1>14, <3>1
    <3> QED  BY <3>1, <3>2
  <2> QED  BY <2>2, <2>3
<1>15. ASSUME NEW a \in DOMAIN N PROVE \E i \in 1..(n + k) : e[i] = a
  <2>1. CASE a \in DOMAIN nodes
    <3>1. PICK j \in 1..n : c[j] = a
      BY <1>1, <2>1 DEF ListLined, Lined
    <3>2. CASE j <= p
      <4>1. j \in Int /\ j \in 1..(n + k)
        BY <1>1
      <4> QED  BY <1>10, <3>1, <3>2, <4>1
    <3>3. CASE j > p
      <4>1. j \in Int /\ j + k \in 1..(n + k)
        BY <1>1
      <4> QED  BY <1>10, <3>1, <3>3, <4>1
    <3> QED  BY <1>1, <3>2, <3>3
  <2>2. ASSUME NEW j \in 1..k, a = address[j] PROVE \E i \in 1..(n + k) : e[i] = a
    <3>1. p + j \in 1..(n + k)
      BY <1>1
    <3> QED  BY <1>10, <2>2, <3>1
  <2> QED  BY <1>8, <2>1, <2>2
<1>16. first' = e[1] /\ last' = e[n + k]
  <2>1. first = c[1] /\ last = c[n] /\ 1 \in 1..k /\ k \in 1..k /\ p \in Int /\ p + 1 \in Int
    BY <1>1 DEF ListLined, Lined
  <2>2. before = Null <=> p = 0
    <3>1. p \notin 1..n <=> p = 0
      BY <1>1
    <3> QED  BY <1>3, <1>7, <2>1, <3>1
  <2>3. after = Null <=> p = n
    <3>1. p + 1 \notin 1..n <=> p = n
      BY <1>1
    <3> QED  BY <1>3, <1>7, <2>1, <3>1
  <2>4. e[1] = IF p = 0 THEN address[1] ELSE c[1]
    <3>1. CASE p = 0
      <4>1. 1 = p + 1
        BY <3>1
      <4> QED  BY <1>10, <2>1, <3>1, <4>1
    <3>2. CASE p # 0
      <4>1. 1 <= p
        BY <1>1, <3>2
      <4> QED  BY <1>10, <3>2, <4>1
    <3> QED  BY <3>1, <3>2
  <2>5. e[n + k] = IF p = n THEN address[k] ELSE c[n]
    <3>1. CASE p = n
      <4>1. n + k = p + k
        BY <3>1
      <4> QED  BY <1>10, <2>1, <3>1, <4>1
    <3>2. CASE p # n
      <4>1. n > p /\ n \in Int
        BY <1>1, <3>2
      <4> QED  BY <1>10, <3>2, <4>1
    <3> QED  BY <3>1, <3>2
  <2> QED  BY <1>4, <2>1, <2>2, <2>3, <2>4, <2>5
<1>17. Lined(nodes', first', last', listSize', e)
  <2>1. DOMAIN N \subseteq Addresses /\ n + k \in Nat
    BY <1>1, <1>6, <1>7, <1>8
  <2>2. Lined(N, first', last', n + k, e)
    BY <1>8, <1>12, <1>13, <1>14, <1>15, <1>16, <2>1 DEF Lined
  <2> QED  BY <1>3, <1>4, <2>2
<1>18. Replaces(ListItems, p, p, s, ListItems')
  <2>1. Len(ListItems) = n /\ \A i \in 1..n : ListItems[i] = nodes[c[i]].value
    BY <1>1, ListHolds
  <2>2. Len(ListItems') = n + k /\ \A i \in 1..(n + k) : ListItems'[i] = N[e[i]].value
    <3>1. Len(ListItems') = listSize' /\ \A i \in 1..listSize' : ListItems'[i] = nodes'[e[i]].value
      BY <1>17, ListWillHold
    <3> QED  BY <1>3, <1>4, <3>1
  <2>3. ASSUME NEW i \in 1..p PROVE ListItems'[i] = ListItems[i]
    <3>1. i \in 1..n /\ i \in 1..(n + k) /\ i \in Int /\ i <= p
      BY <1>1
    <3>2. e[i] = c[i] /\ N[c[i]].value = nodes[c[i]].value
      BY <1>7, <1>8, <1>10, <3>1
    <3> QED  BY <2>1, <2>2, <3>1, <3>2
  <2>4. ASSUME NEW i \in 1..k PROVE ListItems'[p + i] = s[i]
    <3>1. p + i \in 1..(n + k)
      BY <1>1
    <3>2. e[p + i] = address[i] /\ N[address[i]].value = s[i]
      BY <1>8, <1>10
    <3> QED  BY <2>2, <3>1, <3>2
  <2>5. ASSUME NEW i \in 1..(n - p) PROVE ListItems'[p + k + i] = ListItems[p + i]
    <3>1. PICK j \in 1..n : j = p + i /\ j > p /\ p + k + i = j + k /\ j + k \in 1..(n + k) /\ j \in Int
      BY <1>1
    <3>2. e[j + k] = c[j] /\ N[c[j]].value = nodes[c[j]].value
      BY <1>7, <1>8, <1>10, <3>1
    <3>3. ListItems'[j + k] = ListItems[j]
      BY <2>1, <2>2, <3>1, <3>2
    <3> QED  BY <3>1, <3>3
  <2>6. p <= p /\ p <= n /\ n + k = p + k + (n - p)
    BY <1>1
  <2> QED  BY <1>1, <2>1, <2>2, <2>3, <2>4, <2>5, <2>6 DEF Replaces
<1> QED  BY <1>17, <1>18

(***************************************************************************)
(* Nodes taken out                                                         *)
(***************************************************************************)

\* The node at a, linked past what was between b and x.
Relinked(a, b, x) == [nodes[a] EXCEPT !.next = IF a = b THEN x ELSE @,
                                      !.previous = IF a = x THEN b ELSE @]

\* The addresses behind the first i, up to j.
Between(c, i, j) == {c[q] : q \in (i + 1)..j}

\* What is taken out and what becomes of the rest, in the places of the line.
LEMMA RemovedAre ==
  ASSUME NEW c, ListLined(c), NEW i \in Nat, i < listSize, NEW m \in Nat \ {0},
         ListRemoveElements(i, m),
         NEW j \in Nat, j = IF i + m < listSize THEN i + m ELSE listSize
  PROVE  /\ nodes' = [a \in DOMAIN nodes \ Between(c, i, j) |-> Relinked(a, c[i], c[j + 1])]
         /\ first' = IF c[i] = Null THEN c[j + 1] ELSE first
         /\ last' = IF c[j + 1] = Null THEN c[i] ELSE last
         /\ listSize' = i + (listSize - j)
<1> DEFINE R == {c[q] : q \in (i + 1)..j}
<1>1. PICK n \in Nat : n = listSize /\ i < n /\ j <= n /\ i < j /\ i + 1 \in 1..n
  <2>1. listSize \in Nat
    BY LinedIs DEF ListLined
  <2> QED  BY <2>1
<1> DEFINE node    == NthNode(i)
           before  == nodes[node].previous
           after   == Follow(node, "next", m)
           removed == {Follow(node, "next", q) : q \in 0..(m - 1)} \ {Null}
<1>2. node = NthNode(i)
  OBVIOUS
<1>9. ~(m <= 0 \/ i >= listSize)
  BY <1>1
<1>10. /\ nodes' = [a \in DOMAIN nodes \ removed |-> Relinked(a, before, after)]
       /\ first' = IF before = Null THEN after ELSE first
       /\ last' = IF after = Null THEN before ELSE last
       /\ listSize' = listSize - Cardinality(removed)
  BY <1>9, Zenon DEF ListRemoveElements, Relinked
<1> HIDE DEF node, before, after, removed
<1>3. node = c[i + 1] /\ before = c[i]
  <2>1. node = c[i + 1]
    BY <1>2, NthIs
  <2>2. nodes[c[i + 1]].previous = c[(i + 1) - 1]
    BY <1>1 DEF ListLined, Lined
  <2> QED  BY <2>1, <2>2 DEF before
<1>4. ASSUME NEW q \in Nat PROVE Follow(node, "next", q) = c[i + 1 + q]
  <2>1. PICK r \in Int : r = i + 1 /\ r >= 1
    OBVIOUS
  <2>2. Walk(nodes, c[r], "next", q) = c[r + q]
    BY <2>1, NextIs DEF ListLined
  <2> QED  BY <1>3, <2>1, <2>2, FollowIsWalk
<1>5. /\ \A q \in Int : c[q] = Null <=> q \notin 1..n
      /\ \A q \in 1..n : c[q] \in DOMAIN nodes
  BY <1>1, LinedIs DEF ListLined
<1>6. after = c[j + 1]
  <2>1. after = c[i + 1 + m]
    BY <1>4 DEF after
  <2>2. CASE i + m < n
    <3>1. i + 1 + m = j + 1
      BY <1>1, <2>2
    <3> QED  BY <2>1, <3>1
  <2>3. CASE ~(i + m < n)
    <3>1. i + 1 + m \notin 1..n /\ j + 1 \notin 1..n /\ i + 1 + m \in Int /\ j + 1 \in Int
      BY <1>1, <2>3
    <3> QED  BY <1>5, <2>1, <3>1
  <2> QED  BY <2>2, <2>3
<1>7. removed = R
  <2>1. ASSUME NEW q \in 0..(m - 1), Follow(node, "next", q) # Null
        PROVE  Follow(node, "next", q) \in R
    <3>1. PICK r \in Int : r = i + 1 + q /\ q \in Nat
      OBVIOUS
    <3>2. Follow(node, "next", q) = c[r]
      BY <1>4, <3>1
    <3>3. r \in 1..n
      BY <1>5, <2>1, <3>1, <3>2
    <3>4. r \in (i + 1)..j
      BY <1>1, <3>1, <3>3
    <3> QED  BY <3>2, <3>4
  <2>2. ASSUME NEW r \in (i + 1)..j
        PROVE  c[r] # Null /\ \E q \in 0..(m - 1) : c[r] = Follow(node, "next", q)
    <3>1. PICK q \in Nat : q \in 0..(m - 1) /\ r = i + 1 + q
      <4>1. r - (i + 1) \in Nat /\ r - (i + 1) \in 0..(m - 1) /\ r = i + 1 + (r - (i + 1))
        BY <1>1
      <4> QED  BY <4>1
    <3>2. r \in 1..n /\ r \in Int
      BY <1>1
    <3>3. Follow(node, "next", q) = c[r]
      BY <1>4, <3>1
    <3> QED  BY <1>5, <3>1, <3>2, <3>3
  <2> QED  BY <2>1, <2>2 DEF removed
<1>8. Cardinality(R) = j - i
  <2>1. PICK k \in Nat : k = j - i
    BY <1>1
  <2> DEFINE g == [q \in 1..k |-> c[i + q]]
  <2>2. g \in Bijection(1..k, R)
    <3>1. \A q \in 1..k : i + q \in (i + 1)..j /\ i + q \in 1..n
      BY <1>1, <2>1
    <3>2. g \in [1..k -> R]
      BY <3>1
    <3>3. ASSUME NEW q \in 1..k, NEW r \in 1..k, g[q] = g[r] PROVE q = r
      <4>1. c[i + q] = c[i + r]
        BY <3>3
      <4>2. \A x, y \in 1..n : c[x] = c[y] => x = y
        BY <1>1 DEF ListLined, Lined
      <4>3. i + q = i + r
        BY <3>1, <4>1, <4>2
      <4> QED  BY <4>3
    <3>4. ASSUME NEW a \in R PROVE \E q \in 1..k : g[q] = a
      <4>1. PICK r \in (i + 1)..j : a = c[r]
        OBVIOUS
      <4>2. r - i \in 1..k /\ i + (r - i) = r
        BY <2>1
      <4> QED  BY <4>1, <4>2
    <3> HIDE DEF g
    <3>5. IsInjective(g)
      BY <3>2, <3>3 DEF IsInjective
    <3>6. g \in Injection(1..k, R) /\ g \in Surjection(1..k, R)
      BY <3>2, <3>4, <3>5 DEF Injection, Surjection
    <3> QED  BY <3>2, <3>5, <3>6 DEF Bijection
  <2>3. ExistsBijection(1..k, R)
    BY <2>2 DEF ExistsBijection
  <2>4. IsFiniteSet(1..k) /\ Cardinality(1..k) = k
    <3>1. 1 \in Int /\ k \in Int
      BY <2>1
    <3>2. IsFiniteSet(1..k) /\ Cardinality(1..k) = IF 1 > k THEN 0 ELSE k - 1 + 1
      BY <3>1, FS_Interval, Zenon
    <3>3. (IF 1 > k THEN 0 ELSE k - 1 + 1) = k
      BY <2>1
    <3> QED  BY <3>2, <3>3
  <2>5. Cardinality(R) = k
    BY <2>3, <2>4, FS_Bijection
  <2> QED  BY <2>1, <2>5
<1>11. listSize - (j - i) = i + (listSize - j)
  BY <1>1
<1>12. R = Between(c, i, j)
  BY DEF Between
<1> HIDE DEF R
<1> QED  BY <1>3, <1>6, <1>7, <1>8, <1>10, <1>11, <1>12

LEMMA RemoveTakes ==
  ASSUME NEW c, ListLined(c), NEW i \in Nat, i < listSize, NEW m \in Nat \ {0},
         ListRemoveElements(i, m),
         NEW j \in Nat, j = IF i + m < listSize THEN i + m ELSE listSize
  PROVE  /\ \E e : Lined(nodes', first', last', listSize', e)
         /\ Replaces(ListItems, i, j, <<>>, ListItems')
<1>1. PICK n \in Nat, d \in Nat : n = listSize /\ i < n /\ j <= n /\ i < j /\ d = j - i /\ i + (n - j) = n - d
  <2>1. listSize \in Nat
    BY LinedIs DEF ListLined
  <2>2. j - i \in Nat /\ i < j /\ j <= listSize /\ i + (listSize - j) = listSize - (j - i)
    BY <2>1
  <2> QED  BY <2>1, <2>2
<1>2. /\ nodes' = [a \in DOMAIN nodes \ Between(c, i, j) |-> Relinked(a, c[i], c[j + 1])]
      /\ first' = IF c[i] = Null THEN c[j + 1] ELSE first
      /\ last' = IF c[j + 1] = Null THEN c[i] ELSE last
      /\ listSize' = i + (listSize - j)
  BY RemovedAre
<1> DEFINE R == Between(c, i, j)
<1>3. PICK before, after, N : before = c[i] /\ after = c[j + 1] /\ N = nodes'
  OBVIOUS
<1>4. /\ N = [a \in DOMAIN nodes \ R |-> Relinked(a, before, after)]
      /\ first' = IF before = Null THEN after ELSE first
      /\ last' = IF after = Null THEN before ELSE last
      /\ listSize' = n - d
  BY <1>1, <1>2, <1>3
<1> HIDE DEF R
<1>5. /\ nodes \in [DOMAIN nodes -> Node] /\ DOMAIN nodes \subseteq Addresses
      /\ \A q \in Int : c[q] \in Links
      /\ \A q \in Int : c[q] = Null <=> q \notin 1..n
      /\ \A q \in 1..n : c[q] \in DOMAIN nodes /\ c[q] # Null
      /\ \A q, r \in 1..n : c[q] = c[r] => q = r
  <2>1. Lined(nodes, first, last, n, c)
    BY <1>1 DEF ListLined
  <2>2. /\ nodes \in [DOMAIN nodes -> Node] /\ DOMAIN nodes \subseteq Addresses
        /\ \A q, r \in 1..n : c[q] = c[r] => q = r
    BY <2>1 DEF Lined
  <2>3. /\ \A q \in Int : c[q] \in Links
        /\ \A q \in Int : c[q] = Null <=> q \notin 1..n
        /\ \A q \in 1..n : c[q] \in DOMAIN nodes /\ c[q] # Null
    BY <2>1, LinedIs
  <2> QED  BY <2>2, <2>3
<1>6. \A q \in 1..n : c[q] \in R <=> i < q /\ q <= j
  <2>1. ASSUME NEW q \in 1..n, c[q] \in R PROVE i < q /\ q <= j
    <3>1. PICK r \in (i + 1)..j : c[q] = c[r]
      BY <2>1 DEF R, Between
    <3>2. r \in 1..n
      BY <1>1
    <3>3. q = r
      BY <1>5, <3>1, <3>2
    <3> QED  BY <3>3
  <2>2. ASSUME NEW q \in 1..n, i < q, q <= j PROVE c[q] \in R
    <3>1. q \in (i + 1)..j
      BY <2>2
    <3> QED  BY <3>1 DEF R, Between
  <2> QED  BY <2>1, <2>2
<1>7. before \in Links /\ after \in Links /\ (before = Null <=> i = 0) /\ (after = Null <=> j = n)
  <2>1. i \in Int /\ j + 1 \in Int /\ (i \notin 1..n <=> i = 0) /\ (j + 1 \notin 1..n <=> j = n)
    BY <1>1
  <2> QED  BY <1>3, <1>5, <2>1
<1>8. /\ DOMAIN N = DOMAIN nodes \ R
      /\ N \in [DOMAIN N -> Node]
      /\ \A a \in DOMAIN N : /\ N[a].next = IF a = before THEN after ELSE nodes[a].next
                             /\ N[a].previous = IF a = after THEN before ELSE nodes[a].previous
                             /\ N[a].value = nodes[a].value
  <2>1. DOMAIN N = DOMAIN nodes \ R
    BY <1>4
  <2>2. ASSUME NEW a \in DOMAIN N
        PROVE  /\ N[a].next = IF a = before THEN after ELSE nodes[a].next
               /\ N[a].previous = IF a = after THEN before ELSE nodes[a].previous
               /\ N[a].value = nodes[a].value
               /\ N[a] \in Node
    <3>1. PICK o \in Node : o = nodes[a]
      BY <1>5, <2>1
    <3>2. N[a] = [o EXCEPT !.next = IF a = before THEN after ELSE @,
                           !.previous = IF a = after THEN before ELSE @]
      BY <1>4, <2>1, <3>1 DEF Relinked
    <3> QED  BY <1>7, <3>1, <3>2 DEF Node
  <2>3. N \in [DOMAIN N -> Node]
    BY <1>4, <2>1, <2>2
  <2> QED  BY <2>1, <2>2, <2>3
<1>9. PICK e : e = [q \in Int |-> IF q <= i THEN c[q] ELSE c[q + d]]
  OBVIOUS
<1>10. /\ \A q \in Int : q <= i => e[q] = c[q]
       /\ \A q \in Int : q > i => e[q] = c[q + d]
  BY <1>9
<1>11. ASSUME NEW q \in 1..(n - d)
       PROVE  e[q] \in DOMAIN N
  <2>1. CASE q <= i
    <3>1. q \in 1..n /\ q \in Int /\ ~(i < q)
      BY <1>1, <2>1
    <3> QED  BY <1>5, <1>6, <1>8, <1>10, <2>1, <3>1
  <2>2. CASE q > i
    <3>1. PICK r \in 1..n : r = q + d /\ ~(r <= j)
      BY <1>1, <2>2
    <3>2. e[q] = c[r]
      BY <1>10, <2>2, <3>1
    <3> QED  BY <1>5, <1>6, <1>8, <3>1, <3>2
  <2> QED  BY <1>1, <2>1, <2>2
<1>12. ASSUME NEW q \in Int, q \notin 1..(n - d) PROVE e[q] = Null
  <2>1. CASE q <= i
    <3>1. q \notin 1..n
      BY <1>1, <1>12, <2>1
    <3> QED  BY <1>5, <1>10, <2>1, <3>1
  <2>2. CASE q > i
    <3>1. PICK r \in Int : r = q + d /\ r \notin 1..n
      BY <1>1, <1>12, <2>2
    <3>2. e[q] = c[r]
      BY <1>10, <2>2, <3>1
    <3> QED  BY <1>5, <3>1, <3>2
  <2> QED  BY <1>1, <2>1, <2>2
\* The links.
<1>13. ASSUME NEW q \in 1..(n - d)
       PROVE  N[e[q]].next = e[q + 1] /\ N[e[q]].previous = e[q - 1]
  <2>1. CASE q <= i
    <3>1. q \in 1..n /\ q \in Int /\ q - 1 \in Int /\ q - 1 <= i /\ i \in 1..n /\ i \in Int
      BY <1>1, <2>1
    <3>2. e[q] = c[q] /\ e[q - 1] = c[q - 1] /\ c[q] \in DOMAIN N
      BY <1>10, <1>11, <2>1, <3>1
    <3>3. nodes[c[q]].next = c[q + 1] /\ nodes[c[q]].previous = c[q - 1]
      BY <1>1, <3>1 DEF ListLined, Lined
    <3>4. c[q] # after
      <4>1. CASE j # n
        <5>1. j + 1 \in 1..n /\ q # j + 1
          BY <1>1, <2>1, <4>1
        <5> QED  BY <1>3, <1>5, <3>1, <5>1
      <4>2. CASE j = n
        <5>1. after = Null
          BY <1>7, <4>2
        <5> QED  BY <1>5, <3>1, <5>1
      <4> QED  BY <4>1, <4>2
    <3>5. CASE q = i
      <4>1. e[q + 1] = after
        <5>1. q + 1 \in Int /\ q + 1 > i /\ (q + 1) + d = j + 1
          BY <1>1, <3>5
        <5>2. e[q + 1] = c[(q + 1) + d]
          BY <1>10, <5>1
        <5> QED  BY <1>3, <5>1, <5>2
      <4> QED  BY <1>3, <1>8, <3>2, <3>3, <3>4, <3>5, <4>1
    <3>6. CASE q # i
      <4>1. q + 1 <= i /\ q + 1 \in Int
        BY <1>1, <2>1, <3>6
      <4>2. e[q + 1] = c[q + 1] /\ c[q] # before
        BY <1>3, <1>5, <1>10, <3>1, <3>6, <4>1
      <4> QED  BY <1>8, <3>2, <3>3, <3>4, <4>2
    <3> QED  BY <3>5, <3>6
  <2>2. CASE q > i
    <3>1. PICK r \in 1..n : r = q + d /\ r > j /\ r \in Int /\ r + 1 = (q + 1) + d /\ q + 1 > i
      BY <1>1, <2>2
    <3>2. e[q] = c[r] /\ c[r] \in DOMAIN N
      <4>1. e[q] = c[r]
        BY <1>10, <2>2, <3>1
      <4> QED  BY <1>11, <4>1
    <3>3. e[q + 1] = c[r + 1]
      <4>1. e[q + 1] = c[(q + 1) + d]
        BY <1>10, <3>1
      <4> QED  BY <3>1, <4>1
    <3>4. nodes[c[r]].next = c[r + 1] /\ nodes[c[r]].previous = c[r - 1]
      BY <1>1, <3>1 DEF ListLined, Lined
    <3>5. c[r] # before
      <4>1. CASE i # 0
        <5>1. i \in 1..n /\ r # i
          BY <1>1, <3>1, <4>1
        <5> QED  BY <1>3, <1>5, <3>1, <5>1
      <4>2. CASE i = 0
        <5>1. before = Null
          BY <1>7, <4>2
        <5> QED  BY <1>5, <3>1, <5>1
      <4> QED  BY <4>1, <4>2
    <3>6. CASE r = j + 1
      <4>1. q - 1 = i /\ i \in Int /\ i <= i
        BY <1>1, <3>1, <3>6
      <4>2. e[q - 1] = before /\ c[r] = after
        BY <1>3, <1>10, <3>6, <4>1
      <4> QED  BY <1>8, <3>2, <3>3, <3>4, <3>5, <4>2
    <3>7. CASE r # j + 1
      <4>1. PICK x \in Int : x = q - 1 /\ x > i /\ r - 1 = x + d
        BY <1>1, <3>1, <3>7
      <4>2. e[x] = c[x + d]
        BY <1>10, <4>1
      <4>3. e[q - 1] = c[r - 1]
        BY <4>1, <4>2
      <4>4. c[r] # after
        <5>1. j + 1 \in 1..n
          BY <1>1, <3>1, <3>7
        <5> QED  BY <1>3, <1>5, <3>1, <3>7, <5>1
      <4> QED  BY <1>8, <3>2, <3>3, <3>4, <3>5, <4>3, <4>4
    <3> QED  BY <3>6, <3>7
  <2> QED  BY <1>1, <2>1, <2>2
<1>14. ASSUME NEW q \in 1..(n - d), NEW r \in 1..(n - d), e[q] = e[r] PROVE q = r
  <2>1. ASSUME NEW x \in 1..(n - d)
        PROVE  \E y \in 1..n : e[x] = c[y] /\ ((y = x /\ x <= i) \/ (y = x + d /\ x > i))
    <3>1. CASE x <= i
      <4>1. x \in 1..n /\ x \in Int
        BY <1>1
      <4> QED  BY <1>10, <3>1, <4>1
    <3>2. CASE x > i
      <4>1. PICK y \in 1..n : y = x + d
        BY <1>1
      <4>2. e[x] = c[y]
        <5>1. x \in Int
          OBVIOUS
        <5>2. e[x] = c[x + d]
          BY <1>10, <3>2, <5>1
        <5> QED  BY <4>1, <5>2
      <4> QED  BY <3>2, <4>1, <4>2
    <3> QED  BY <1>1, <3>1, <3>2
  <2>2. PICK x \in 1..n : e[q] = c[x] /\ ((x = q /\ q <= i) \/ (x = q + d /\ q > i))
    BY <2>1
  <2>3. PICK y \in 1..n : e[r] = c[y] /\ ((y = r /\ r <= i) \/ (y = r + d /\ r > i))
    BY <2>1
  <2>4. x = y
    BY <1>5, <1>14, <2>2, <2>3
  <2> QED  BY <1>1, <2>2, <2>3, <2>4
<1>15. ASSUME NEW a \in DOMAIN N PROVE \E q \in 1..(n - d) : e[q] = a
  <2>1. PICK r \in 1..n : c[r] = a
    BY <1>1, <1>8 DEF ListLined, Lined
  <2>2. ~(i < r /\ r <= j)
    BY <1>6, <1>8, <2>1
  <2>3. CASE r <= i
    <3>1. r \in Int /\ r \in 1..(n - d)
      BY <1>1, <2>3
    <3> QED  BY <1>10, <2>1, <2>3, <3>1
  <2>4. CASE r > j
    <3>1. PICK q \in 1..(n - d) : q > i /\ q + d = r
      <4>1. r - d \in 1..(n - d) /\ r - d > i /\ (r - d) + d = r
        BY <1>1, <2>4
      <4> QED  BY <4>1
    <3>2. e[q] = c[q + d]
      BY <1>10, <3>1
    <3> QED  BY <2>1, <3>1, <3>2
  <2> QED  BY <1>1, <2>2, <2>3, <2>4
<1>16. first' = e[1] /\ last' = e[n - d]
  <2>1. first = c[1] /\ last = c[n] /\ i \in Int
    BY <1>1 DEF ListLined, Lined
  <2>2. e[1] = IF i = 0 THEN after ELSE c[1]
    <3>1. CASE i = 0
      <4>1. 1 > i /\ 1 + d = j + 1
        BY <1>1, <3>1
      <4>2. e[1] = c[1 + d]
        BY <1>10, <4>1
      <4> QED  BY <1>3, <3>1, <4>1, <4>2
    <3>2. CASE i # 0
      <4>1. 1 <= i
        BY <1>1, <3>2
      <4> QED  BY <1>10, <3>2, <4>1
    <3> QED  BY <3>1, <3>2
  <2>3. e[n - d] = IF j = n THEN before ELSE c[n]
    <3>1. CASE j = n
      <4>1. n - d = i /\ i <= i
        BY <1>1, <3>1
      <4>2. e[i] = c[i]
        BY <1>10, <2>1, <4>1
      <4> QED  BY <1>3, <3>1, <4>1, <4>2
    <3>2. CASE j # n
      <4>1. PICK q \in Int : q = n - d /\ q > i /\ q + d = n
        BY <1>1, <3>2
      <4>2. e[q] = c[q + d]
        BY <1>10, <4>1
      <4> QED  BY <3>2, <4>1, <4>2
    <3> QED  BY <3>1, <3>2
  <2> QED  BY <1>4, <1>7, <2>1, <2>2, <2>3
<1>17. Lined(nodes', first', last', listSize', e)
  <2>1. DOMAIN N \subseteq Addresses /\ n - d \in Nat
    BY <1>1, <1>5, <1>8
  <2>2. \A q \in Int : IF q \in 1..(n - d) THEN e[q] \in DOMAIN N ELSE e[q] = Null
    BY <1>11, <1>12
  <2>3. Lined(N, first', last', n - d, e)
    BY <1>8, <1>13, <1>14, <1>15, <1>16, <2>1, <2>2 DEF Lined
  <2> QED  BY <1>3, <1>4, <2>3
<1>18. Replaces(ListItems, i, j, <<>>, ListItems')
  <2>1. Len(ListItems) = n /\ \A q \in 1..n : ListItems[q] = nodes[c[q]].value
    BY <1>1, ListHolds
  <2>2. Len(ListItems') = n - d /\ \A q \in 1..(n - d) : ListItems'[q] = N[e[q]].value
    <3>1. Len(ListItems') = listSize' /\ \A q \in 1..listSize' : ListItems'[q] = nodes'[e[q]].value
      BY <1>17, ListWillHold
    <3> QED  BY <1>3, <1>4, <3>1
  <2>3. ASSUME NEW q \in 1..i PROVE ListItems'[q] = ListItems[q]
    <3>1. q \in 1..n /\ q \in 1..(n - d) /\ q \in Int /\ q <= i
      BY <1>1
    <3>2. e[q] = c[q] /\ e[q] \in DOMAIN N
      BY <1>10, <1>11, <3>1
    <3>3. N[c[q]].value = nodes[c[q]].value
      BY <1>8, <3>2
    <3> QED  BY <2>1, <2>2, <3>1, <3>2, <3>3
  <2>4. ASSUME NEW q \in 1..(n - j) PROVE ListItems'[i + 0 + q] = ListItems[j + q]
    <3>1. PICK x \in 1..(n - d), r \in 1..n : x = i + q /\ r = j + q /\ x > i /\ x + d = r /\ i + 0 + q = x
      BY <1>1
    <3>2. e[x] = c[r] /\ e[x] \in DOMAIN N
      <4>1. e[x] = c[x + d]
        BY <1>10, <3>1
      <4> QED  BY <1>11, <3>1, <4>1
    <3>3. N[c[r]].value = nodes[c[r]].value
      BY <1>8, <3>2
    <3>4. ListItems'[x] = ListItems[r]
      BY <2>1, <2>2, <3>2, <3>3
    <3> QED  BY <3>1, <3>4
  <2>5. i <= j /\ j <= n /\ n - d = i + 0 + (n - j) /\ Len(<<>>) = 0
    BY <1>1
  <2> QED  BY <2>1, <2>2, <2>3, <2>4, <2>5 DEF Replaces
<1> QED  BY <1>17, <1>18

\* All nodes are taken out.
LEMMA FreeEmpties ==
  ASSUME NEW c, ListLined(c), FreeList
  PROVE  (\E e : Lined(nodes', first', last', listSize', e)) /\ ListItems' = <<>>
<1>1. listSize \in Nat /\ last = c[listSize]
  BY DEF ListLined, Lined
<1>2. PICK gone : gone = {Follow(last, "previous", j) : j \in 0..listSize}
  OBVIOUS
<1>3. ASSUME NEW a \in DOMAIN nodes PROVE a \in gone
  <2>1. PICK q \in 1..listSize : c[q] = a
    BY DEF ListLined, Lined
  <2>2. PICK j \in Nat : j = listSize - q /\ listSize - j = q /\ j \in 0..listSize
    BY <1>1
  <2>3. Walk(nodes, c[listSize], "previous", j) = c[listSize - j]
    BY <1>1, PreviousIs DEF ListLined
  <2>4. Follow(last, "previous", j) = a
    BY <1>1, <2>1, <2>2, <2>3, FollowIsWalk
  <2> QED  BY <1>2, <2>2, <2>4
<1>4. /\ nodes' = [a \in DOMAIN nodes \ gone |-> nodes[a]]
      /\ first' = Null /\ last' = Null /\ listSize' = 0
  BY <1>2 DEF FreeList
<1>5. DOMAIN nodes \ gone = {}
  BY <1>3
<1>6. PICK N : N = nodes' /\ DOMAIN N = {} /\ N \in [DOMAIN N -> Node]
  <2>1. nodes' = [a \in {} |-> nodes[a]]
    BY <1>4, <1>5
  <2>2. PICK M : M = [a \in {} |-> nodes[a]]
    OBVIOUS
  <2>3. DOMAIN M = {} /\ M \in [{} -> Node]
    BY <2>2
  <2>4. M = nodes' /\ DOMAIN M = {} /\ M \in [DOMAIN M -> Node]
    BY <2>1, <2>2, <2>3
  <2> QED  BY <2>4
<1>7. PICK e : e = [q \in Int |-> Null]
  OBVIOUS
<1>8. Lined(N, Null, Null, 0, e)
  BY <1>6, <1>7 DEF Lined
<1>9. Lined(nodes', first', last', listSize', e)
  BY <1>4, <1>6, <1>8
<1>10. ListItems' \in Seq(Storable) /\ Len(ListItems') = 0
  BY <1>4, <1>9, ListWillHold
<1> QED  BY <1>9, <1>10, EmptySeq

(***************************************************************************)
(* Every call                                                              *)
(***************************************************************************)

LEMMA ListCallIs ==
  ASSUME NEW op, NEW at, NEW n, NEW s, ListCalled(op, at, n, s)
  PROVE  /\ listCall'.op = op /\ listCall'.at = at /\ listCall'.n = n /\ listCall'.s = s
         /\ listCrashed' = listCrashed
BY DEF ListCalled

LEMMA ListCallReturns ==
  ASSUME NEW op, NEW at, NEW n, NEW s, ListCalled(op, at, n, s)
  PROVE  ~listCrashed'
BY DEF ListCalled

LEMMA LinesKeep ==
  ASSUME ListInv, listCrashed' \in BOOLEAN, \E e : Lined(nodes', first', last', listSize', e)
  PROVE  ListInv'
BY DEF ListInv, ListLined, Lined, Node, Links, Storable, Addresses

LEMMA SameLine ==
  ASSUME ListInv, listCrashed' \in BOOLEAN, SameList
  PROVE  ListInv' /\ ListItems' = ListItems
<1>1. PICK c : ListLined(c)
  BY DEF ListInv
<1>2. nodes' = nodes /\ first' = first /\ last' = last /\ listSize' = listSize
  BY DEF SameList
<1>3. Lined(nodes', first', last', listSize', c)
  BY <1>1, <1>2 DEF ListLined
<1>4. ListInv'
  BY <1>3, LinesKeep
<1>5. ListItems' = ListItems
  BY <1>2 DEF ListItems, Follow
<1> QED  BY <1>4, <1>5

LEMMA ListItemsAre ==
  ListInv => /\ listSize \in Nat /\ ListItems \in Seq(Storable) /\ Len(ListItems) = listSize
BY ListHolds DEF ListInv

LEMMA ListItemsWillBe ==
  ASSUME NEW e, Lined(nodes', first', last', listSize', e)
  PROVE  ListItems' \in Seq(Storable) /\ Len(ListItems') = listSize'
BY ListWillHold

\* Elements put in at the end or before a position that is there.
LEMMA InsertPuts ==
  ASSUME ListInv, NEW i \in Int, NEW s \in Seq(Storable), s # <<>>,
         ListInsertElements(i, s), listCrashed' = listCrashed
  PROVE  /\ ListInv' /\ ListItems' \in Seq(Storable)
         /\ IF i \in 0..Len(ListItems) THEN Replaces(ListItems, i, i, s, ListItems')
            ELSE ListItems' = ListItems
<1>1. PICK c : ListLined(c)
  BY DEF ListInv
<1>2. listSize \in Nat /\ ListItems \in Seq(Storable) /\ Len(ListItems) = listSize
      /\ listCrashed' \in BOOLEAN
  BY ListItemsAre DEF ListInv
<1>3. ASSUME NEW p \in 0..listSize, Splice(c[p], c[p + 1], s)
      PROVE  ListInv' /\ ListItems' \in Seq(Storable) /\ Replaces(ListItems, p, p, s, ListItems')
  <2>1. /\ \E e : Lined(nodes', first', last', listSize', e)
        /\ Replaces(ListItems, p, p, s, ListItems')
    BY <1>1, <1>3, SplicePuts
  <2>2. ListInv'
    BY <1>2, <2>1, LinesKeep
  <2>3. ListItems' \in Seq(Storable)
    BY <2>1, ListItemsWillBe
  <2> QED  BY <2>1, <2>2, <2>3
<1>4. CASE i < 0 \/ i > listSize
  <2>1. SameList
    <3>1. i # listSize
      BY <1>2, <1>4
    <3> QED  BY <1>4, <3>1 DEF ListInsertElements
  <2>2. i \notin 0..Len(ListItems)
    BY <1>2, <1>4
  <2> QED  BY <1>2, <2>1, <2>2, SameLine
<1>5. CASE i = listSize
  <2>1. ~(i < 0 \/ i > listSize) /\ i \in 0..listSize
    BY <1>2, <1>5
  <2>2. Splice(last, Null, s)
    BY <1>5, <2>1 DEF ListInsertElements, ListAddElements
  <2>3. last = c[i] /\ c[i + 1] = Null
    <3>1. i + 1 \in Int /\ i + 1 \notin 1..listSize
      BY <1>2, <1>5
    <3>2. last = c[listSize]
      BY <1>1 DEF ListLined, Lined
    <3> QED  BY <1>1, <1>5, <3>1, <3>2, LinedIs DEF ListLined
  <2>4. Splice(c[i], c[i + 1], s)
    BY <2>2, <2>3
  <2> QED  BY <1>2, <1>3, <2>1, <2>4
<1>6. CASE i >= 0 /\ i < listSize
  <2>1. ~(i < 0 \/ i > listSize) /\ i # listSize /\ i \in 0..listSize /\ i + 1 \in 1..listSize
    BY <1>2, <1>6
  <2>2. Splice(nodes[NthNode(i)].previous, NthNode(i), s)
    BY <2>1, Zenon DEF ListInsertElements
  <2>3. NthNode(i) = c[i + 1]
    BY <1>1, NthIs
  <2>4. nodes[NthNode(i)].previous = c[i]
    <3>1. nodes[c[i + 1]].previous = c[(i + 1) - 1]
      BY <1>1, <2>1 DEF ListLined, Lined
    <3> QED  BY <2>3, <3>1
  <2>5. Splice(c[i], c[i + 1], s)
    BY <2>2, <2>3, <2>4
  <2> QED  BY <1>2, <1>3, <2>1, <2>5
<1> QED  BY <1>2, <1>4, <1>5, <1>6

\* A sequence of n values that replaces nothing is put in between.
LEMMA PutBetween ==
  ASSUME NEW u \in Seq(Storable), NEW w \in Seq(Storable), NEW s \in Seq(Storable),
         NEW i \in Int, i \in 0..Len(u), Replaces(u, i, i, s, w)
  PROVE  w = SubSeq(u, 1, i) \o s \o SubSeq(u, i + 1, Len(u))
<1>1. i \in Nat
  BY LenProperties
<1> QED  BY <1>1, Spliced

LEMMA RangePut ==
  ASSUME ListInv, NEW i \in Int, NEW s \in ListRanges,
         ListCalled("insert", i, Len(s), s), ListInsertElements(i, s)
  PROVE  ListInv' /\ Line!Next
<1>1. s \in Seq(Storable) /\ s # <<>>
  <2>1. s \in Seq(ListValues) /\ s # <<>>
    BY ListAssumption
  <2> QED  BY <2>1, SeqMonotonic DEF Storable
<1>2. listCall'.op = "insert" /\ listCall'.at = i /\ listCall'.s = s /\ listCrashed' = listCrashed
  BY ListCallIs
<1>3. /\ ListInv' /\ ListItems' \in Seq(Storable)
      /\ IF i \in 0..Len(ListItems) THEN Replaces(ListItems, i, i, s, ListItems')
         ELSE ListItems' = ListItems
  BY <1>1, <1>2, InsertPuts
<1>4. ListItems \in Seq(Storable)
  BY ListItemsAre
<1>5. CASE i \in 0..Len(ListItems) /\ Replaces(ListItems, i, i, s, ListItems')
  <2>1. ListItems' = SubSeq(ListItems, 1, i) \o s \o SubSeq(ListItems, i + 1, Len(ListItems))
    BY <1>1, <1>3, <1>4, <1>5, PutBetween
  <2> QED  BY <1>2, <1>3, <1>5, <2>1 DEF Line!Next, Line!Insert, Line!Called, Line!Upto, Line!From
<1> QED  BY <1>2, <1>3, <1>5 DEF Line!Next, Line!Insert, Line!Called

LEMMA BlanksAre ==
  ASSUME NEW n \in Nat \ {0}
  PROVE  Blanks(n) \in Seq(Storable) /\ Blanks(n) # <<>> /\ Blanks(n) \in [1..n -> Storable]
         /\ Len(Blanks(n)) = n
<1>1. Blanks(n) \in [1..n -> Storable]
  BY DEF Blanks, Storable
<1>2. PICK b : b = Blanks(n) /\ b \in [1..n -> Storable]
  BY <1>1
<1>3. b \in Seq(Storable) /\ Len(b) = n
  BY <1>2
<1>4. b # <<>>
  BY <1>3, EmptySeq
<1> QED  BY <1>2, <1>3, <1>4

LEMMA ListGrows ==
  ASSUME ListInv, NEW i \in Int, NEW n \in Nat, ListGrow(i, n)
  PROVE  ListInv' /\ Line!Next
<1>1. listCall'.op = "grow" /\ listCall'.at = i /\ listCall'.n = n /\ listCrashed' = listCrashed
      /\ listCrashed' \in BOOLEAN /\ ListItems \in Seq(Storable)
  BY ListCallIs, ListItemsAre DEF ListGrow, ListInv
<1>2. CASE n > 0
  <2>1. n \in Nat \ {0} /\ ListInsertElements(i, Blanks(n))
    BY <1>2 DEF ListGrow
  <2>2. PICK s : s = Blanks(n) /\ s \in Seq(Storable) /\ s # <<>> /\ s \in [1..n -> Storable]
    BY <2>1, BlanksAre
  <2>3. ListInsertElements(i, s)
    BY <2>1, <2>2
  <2>4. /\ ListInv' /\ ListItems' \in Seq(Storable)
        /\ IF i \in 0..Len(ListItems) THEN Replaces(ListItems, i, i, s, ListItems')
           ELSE ListItems' = ListItems
    BY <1>1, <2>2, <2>3, InsertPuts
  <2>5. CASE i \in 0..Len(ListItems) /\ Replaces(ListItems, i, i, s, ListItems')
    <3>1. ListItems' = SubSeq(ListItems, 1, i) \o s \o SubSeq(ListItems, i + 1, Len(ListItems))
      BY <1>1, <2>2, <2>4, <2>5, PutBetween
    <3>2. Line!Grow
      BY <1>1, <1>2, <2>2, <2>5, <3>1 DEF Line!Grow, Line!Called, Line!Upto, Line!From, Line!AnyOf, Storable
    <3> QED  BY <2>4, <3>2 DEF Line!Next
  <2> QED  BY <1>1, <2>4, <2>5 DEF Line!Next, Line!Grow, Line!Called
<1>3. CASE ~(n > 0)
  <2>1. SameList
    BY <1>3 DEF ListGrow
  <2> QED  BY <1>1, <1>3, <2>1, SameLine DEF Line!Next, Line!Grow, Line!Called
<1> QED  BY <1>2, <1>3

\* What is left of the elements when up to n behind the first i are taken out.
LEMMA RemoveCuts ==
  ASSUME ListInv, NEW i \in Nat, i < listSize, NEW n \in Nat \ {0},
         ListRemoveElements(i, n), listCrashed' = listCrashed
  PROVE  /\ ListInv' /\ ListItems' \in Seq(Storable)
         /\ ListItems' = SubSeq(ListItems, 1, i) \o SubSeq(ListItems, i + n + 1, Len(ListItems))
<1>1. PICK c : ListLined(c)
  BY DEF ListInv
<1>2. listSize \in Nat /\ ListItems \in Seq(Storable) /\ Len(ListItems) = listSize
      /\ listCrashed' \in BOOLEAN
  BY ListItemsAre DEF ListInv
<1>3. PICK j \in Nat : j = IF i + n < listSize THEN i + n ELSE listSize
  BY <1>2
<1>4. /\ \E e : Lined(nodes', first', last', listSize', e)
      /\ Replaces(ListItems, i, j, <<>>, ListItems')
  BY <1>1, <1>3, RemoveTakes
<1>5. ListInv'
  BY <1>2, <1>4, LinesKeep
<1>6. ListItems' \in Seq(Storable)
  BY <1>4, ListItemsWillBe
<1>7. ListItems' = SubSeq(ListItems, 1, i) \o SubSeq(ListItems, j + 1, Len(ListItems))
  BY <1>2, <1>4, <1>6, CutOut
<1>8. SubSeq(ListItems, j + 1, listSize) = SubSeq(ListItems, i + n + 1, listSize)
  <2>1. CASE i + n < listSize
    BY <1>3, <2>1
  <2>2. CASE ~(i + n < listSize)
    <3>1. listSize < j + 1 /\ listSize < i + n + 1
          /\ j + 1 \in Int /\ i + n + 1 \in Int /\ listSize \in Int
      BY <1>2, <1>3, <2>2
    <3>2. SubSeq(ListItems, j + 1, listSize) = <<>>
      BY <3>1, SubSeqEmpty
    <3>3. SubSeq(ListItems, i + n + 1, listSize) = <<>>
      BY <3>1, SubSeqEmpty
    <3> QED  BY <3>2, <3>3
  <2> QED  BY <2>1, <2>2
<1> QED  BY <1>2, <1>5, <1>6, <1>7, <1>8

\* What a call does to the sequence, or that it read through a null node.
LineStep == IF listCrashed' THEN RemovesBelowZero ELSE Line!Next

LEMMA ListRemoves ==
  ASSUME ListInv, NEW i \in Nat, NEW n \in Nat,
         ListCalled("remove", i, n, <<>>), ListRemoveElements(i, n)
  PROVE  ListInv' /\ Line!Next
<1>1. listCall'.op = "remove" /\ listCall'.at = i /\ listCall'.n = n /\ listCrashed' = listCrashed
      /\ listCrashed' \in BOOLEAN /\ Len(ListItems) = listSize /\ listSize \in Nat
  BY ListCallIs, ListItemsAre DEF ListInv
<1>2. CASE n > 0 /\ i < listSize
  <2>1. n \in Nat \ {0} /\ ListRemoveElements(i, n)
    BY <1>2
  <2>2. /\ ListInv'
        /\ ListItems' = SubSeq(ListItems, 1, i) \o SubSeq(ListItems, i + n + 1, Len(ListItems))
    BY <1>1, <1>2, <2>1, RemoveCuts
  <2>3. i \in 0..(Len(ListItems) - 1)
    BY <1>1, <1>2
  <2>4. Line!Remove
    BY <1>1, <1>2, <2>2, <2>3 DEF Line!Remove, Line!Called, Line!Upto, Line!From
  <2> QED  BY <2>2, <2>4 DEF Line!Next
<1>3. CASE ~(n > 0 /\ i < listSize)
  <2>1. n <= 0 \/ i >= listSize
    BY <1>1, <1>3
  <2>2. SameList
    BY <2>1, Zenon DEF ListRemoveElements
  <2>3. ~(i \in 0..(Len(ListItems) - 1) /\ n > 0)
    BY <1>1, <1>3
  <2>4. ListInv' /\ ListItems' = ListItems
    BY <1>1, <2>2, SameLine
  <2>5. Line!Remove
    BY <1>1, <2>3, <2>4 DEF Line!Remove, Line!Called
  <2> QED  BY <2>4, <2>5 DEF Line!Next
<1> QED  BY <1>2, <1>3

\* Wherever it is asked to remove, at a negative position too.
LEMMA ListRemovesAnywhere ==
  ASSUME ListInv, NEW i \in Int, NEW n \in Nat, ListRemove(i, n)
  PROVE  ListInv' /\ LineStep
<1>1. CASE /\ i >= 0 \/ n <= 0
           /\ ListCalled("remove", i, n, <<>>) /\ ListRemoveElements(i, n)
  <2>1. ~listCrashed' /\ listCrashed' = listCrashed /\ listCrashed' \in BOOLEAN
    BY <1>1, ListCallReturns, ListCallIs DEF ListInv
  <2>2. CASE i >= 0
    <3>1. i \in Nat
      BY <2>2
    <3> QED  BY <1>1, <2>1, <3>1, ListRemoves DEF LineStep
  <2>3. CASE n <= 0
    <3>1. SameList
      BY <1>1, <2>3, Zenon DEF ListRemoveElements
    <3>2. ListInv' /\ ListItems' = ListItems
      BY <2>1, <3>1, SameLine
    <3>3. listCall'.op = "remove" /\ listCall'.at = i /\ listCall'.n = n
      BY <1>1, ListCallIs
    <3>4. ~(n > 0)
      BY <2>3
    <3>5. Line!Remove
      BY <3>2, <3>3, <3>4 DEF Line!Remove, Line!Called
    <3> QED  BY <2>1, <3>2, <3>5 DEF LineStep, Line!Next
  <2> QED  BY <1>1, <2>2, <2>3
<1>2. CASE /\ i < 0 /\ listCrashed' = TRUE /\ SameList
           /\ listCall' = [op |-> "remove", at |-> i, n |-> n, s |-> <<>>]
  <2>1. RemovesBelowZero
    BY <1>2 DEF RemovesBelowZero
  <2>2. ListInv'
    BY <1>2, SameLine
  <2> QED  BY <1>2, <2>1, <2>2 DEF LineStep
<1> QED  BY <1>1, <1>2 DEF ListRemove

LEMMA ListRemovesLast ==
  ASSUME ListInv, ListRemoveFromEnd
  PROVE  ListInv' /\ LineStep
<1>1. listSize - 1 \in Int /\ 1 \in Nat
  BY ListItemsAre
<1> QED  BY <1>1, ListRemovesAnywhere DEF ListRemoveFromEnd

LEMMA ListResizes ==
  ASSUME ListInv, NEW n \in Nat, ListResize(n)
  PROVE  ListInv' /\ Line!Next
<1>1. listCall'.op = "resize" /\ listCall'.n = n /\ listCrashed' = listCrashed
      /\ listCrashed' \in BOOLEAN
  BY ListCallIs DEF ListResize, ListInv
<1>2. Len(ListItems) = listSize /\ listSize \in Nat /\ ListItems \in Seq(Storable)
  BY ListItemsAre
<1>3. ASSUME ListInv', n <= listSize, ListItems' = SubSeq(ListItems, 1, n)
      PROVE  ListInv' /\ Line!Next
  BY <1>1, <1>2, <1>3 DEF Line!Next, Line!Resize, Line!Called, Line!Upto
<1>4. SubSeq(ListItems, 1, listSize) = ListItems
  BY <1>2, SubSeqFull
<1>5. CASE n = listSize
  <2>1. SameList
    BY <1>5 DEF ListResize
  <2>2. ListInv' /\ ListItems' = ListItems
    BY <1>1, <2>1, SameLine
  <2> QED  BY <1>2, <1>3, <1>4, <1>5, <2>2
<1>6. CASE n > listSize
  <2>1. PICK m \in Nat \ {0} : m = n - listSize
    BY <1>2, <1>6
  <2>2. n # listSize /\ ~(n <= Len(ListItems)) /\ ~(n < listSize /\ n <= 0)
    BY <1>2, <1>6
  <2>3. ListAddElements(Blanks(m))
    BY <1>6, <2>1, <2>2 DEF ListResize
  <2>4. PICK s : s = Blanks(m) /\ s \in Seq(Storable) /\ s # <<>> /\ s \in [1..m -> Storable]
    BY <2>1, BlanksAre
  <2>5. ListInsertElements(listSize, s)
    <3>1. ~(listSize < 0 \/ listSize > listSize)
      BY <1>2
    <3> QED  BY <2>3, <2>4, <3>1, Zenon DEF ListInsertElements
  <2>6. /\ ListInv' /\ ListItems' \in Seq(Storable)
        /\ IF listSize \in 0..Len(ListItems) THEN Replaces(ListItems, listSize, listSize, s, ListItems')
           ELSE ListItems' = ListItems
    BY <1>1, <1>2, <2>4, <2>5, InsertPuts
  <2>7. listSize \in Int /\ listSize \in 0..Len(ListItems)
    BY <1>2
  <2>8. ListItems' = SubSeq(ListItems, 1, listSize) \o s \o SubSeq(ListItems, listSize + 1, Len(ListItems))
    BY <1>2, <2>4, <2>6, <2>7, PutBetween
  <2>9. SubSeq(ListItems, listSize + 1, Len(ListItems)) = <<>>
    <3>1. Len(ListItems) < listSize + 1 /\ listSize + 1 \in Int /\ Len(ListItems) \in Int
      BY <1>2
    <3> QED  BY <3>1, SubSeqEmpty
  <2>10. ListItems' = ListItems \o s
    <3>1. ListItems \o s \in Seq(Storable)
      BY <1>2, <2>4, Joined
    <3>2. (ListItems \o s) \o <<>> = ListItems \o s
      BY <3>1, ConcatEmptySeq
    <3> QED  BY <1>4, <2>8, <2>9, <3>2
  <2>11. Line!Resize
    BY <1>1, <1>2, <2>1, <2>2, <2>4, <2>10 DEF Line!Resize, Line!Called, Line!AnyOf, Storable
  <2> QED  BY <2>6, <2>11 DEF Line!Next
<1>7. CASE n < listSize /\ n <= 0
  <2>1. n # listSize /\ ~(n > listSize)
    BY <1>2, <1>7
  <2>2. FreeList
    BY <1>7, <2>1, Zenon DEF ListResize
  <2>3. PICK c : ListLined(c)
    BY DEF ListInv
  <2>4. (\E e : Lined(nodes', first', last', listSize', e)) /\ ListItems' = <<>>
    BY <2>2, <2>3, FreeEmpties
  <2>5. ListInv'
    BY <1>1, <2>4, LinesKeep
  <2>6. SubSeq(ListItems, 1, n) = <<>>
    <3>1. n < 1 /\ n \in Int /\ 1 \in Int
      BY <1>7
    <3> QED  BY <3>1, SubSeqEmpty
  <2>7. n <= listSize
    BY <1>2, <1>7
  <2> QED  BY <1>3, <2>4, <2>5, <2>6, <2>7
<1>8. CASE n < listSize /\ n > 0
  <2>1. n # listSize /\ ~(n > listSize) /\ ~(n < listSize /\ n <= 0)
    BY <1>2, <1>8
  <2>2. ListRemoveElements(n, listSize - n)
    BY <2>1, Zenon DEF ListResize
  <2>3. PICK m \in Nat \ {0} : m = listSize - n
    BY <1>2, <1>8
  <2>4. ListRemoveElements(n, m)
    BY <2>2, <2>3
  <2>5. /\ ListInv'
        /\ ListItems' = SubSeq(ListItems, 1, n) \o SubSeq(ListItems, n + m + 1, Len(ListItems))
    BY <1>1, <1>8, <2>4, RemoveCuts
  <2>6. SubSeq(ListItems, n + m + 1, Len(ListItems)) = <<>>
    <3>1. Len(ListItems) < n + m + 1 /\ n + m + 1 \in Int /\ Len(ListItems) \in Int
      BY <1>2, <2>3
    <3> QED  BY <3>1, SubSeqEmpty
  <2>7. SubSeq(ListItems, 1, n) \in Seq(Storable)
    <3>1. n <= Len(ListItems)
      BY <1>2, <1>8
    <3> QED  BY <1>2, <3>1, UptoIs
  <2>8. ListItems' = SubSeq(ListItems, 1, n)
    BY <2>5, <2>6, <2>7, ConcatEmptySeq
  <2>9. n <= listSize
    BY <1>2, <1>8
  <2> QED  BY <1>3, <2>5, <2>8, <2>9
<1> QED  BY <1>2, <1>5, <1>6, <1>7, <1>8

LEMMA ListFrees ==
  ASSUME ListInv, ListFree
  PROVE  ListInv' /\ Line!Next
<1>1. listCall'.op = "resize" /\ listCall'.n = 0 /\ listCrashed' = listCrashed
      /\ listCrashed' \in BOOLEAN
  BY ListCallIs DEF ListFree, ListInv
<1>2. Len(ListItems) \in Nat /\ 0 <= Len(ListItems)
  BY ListItemsAre
<1>3. PICK c : ListLined(c)
  BY DEF ListInv
<1>4. (\E e : Lined(nodes', first', last', listSize', e)) /\ ListItems' = <<>>
  BY <1>3, FreeEmpties DEF ListFree
<1>5. ListInv'
  BY <1>1, <1>4, LinesKeep
<1>6. SubSeq(ListItems, 1, 0) = <<>>
  BY SubSeqEmpty
<1> QED  BY <1>1, <1>2, <1>4, <1>5, <1>6 DEF Line!Next, Line!Resize, Line!Called, Line!Upto

\* A store through the pointer that at gives.
LEMMA ListAssigns ==
  ASSUME ListInv, NEW i \in Nat, NEW v \in Storable, ListAssign(i, v)
  PROVE  ListInv' /\ Line!Next
<1>1. PICK c : ListLined(c)
  BY DEF ListInv
<1>2. /\ listCall'.op = "assign" /\ listCall'.at = i /\ listCall'.s = <<v>>
      /\ listCrashed' = listCrashed /\ listCrashed' \in BOOLEAN
      /\ first' = first /\ last' = last /\ listSize' = listSize /\ i < listSize
  BY ListCallIs DEF ListAssign, ListInv
<1>3. PICK n \in Nat : n = listSize /\ i < n /\ i + 1 \in 1..n
  BY <1>2, ListItemsAre
<1>4. PICK x : x = c[i + 1]
  OBVIOUS
<1>5. NthNode(i) = x
  BY <1>1, <1>4, NthIs
<1>6. nodes' = [nodes EXCEPT ![x].value = v]
  BY <1>5 DEF ListAssign
<1>7. /\ nodes \in [DOMAIN nodes -> Node] /\ x \in DOMAIN nodes
      /\ \A q \in 1..n : c[q] \in DOMAIN nodes
      /\ \A q, r \in 1..n : c[q] = c[r] => q = r
  <2>1. Lined(nodes, first, last, n, c)
    BY <1>1, <1>3 DEF ListLined
  <2>2. nodes \in [DOMAIN nodes -> Node] /\ \A q, r \in 1..n : c[q] = c[r] => q = r
    BY <2>1 DEF Lined
  <2>3. \A q \in 1..n : c[q] \in DOMAIN nodes
    BY <2>1, LinedIs
  <2> QED  BY <1>3, <1>4, <2>2, <2>3
<1>8. PICK N : N = nodes'
  OBVIOUS
<1>9. /\ DOMAIN N = DOMAIN nodes /\ N \in [DOMAIN N -> Node]
      /\ \A a \in DOMAIN nodes : /\ N[a].next = nodes[a].next /\ N[a].previous = nodes[a].previous
                                 /\ N[a].value = IF a = x THEN v ELSE nodes[a].value
  <2>1. DOMAIN N = DOMAIN nodes
    BY <1>6, <1>8
  <2>2. ASSUME NEW a \in DOMAIN nodes
        PROVE  /\ N[a].next = nodes[a].next /\ N[a].previous = nodes[a].previous
               /\ N[a].value = IF a = x THEN v ELSE nodes[a].value
               /\ N[a] \in Node
    <3>1. PICK o \in Node : o = nodes[a]
      BY <1>7
    <3>2. N[a] = IF a = x THEN [o EXCEPT !.value = v] ELSE o
      BY <1>6, <1>7, <1>8, <3>1
    <3> QED  BY <3>1, <3>2 DEF Node
  <2>3. N \in [DOMAIN N -> Node]
    BY <1>6, <1>8, <2>1, <2>2
  <2> QED  BY <2>1, <2>2, <2>3
<1>10. Lined(N, first, last, n, c)
  <2>1. Lined(nodes, first, last, n, c)
    BY <1>1, <1>3 DEF ListLined
  <2>2. \A q \in 1..n : N[c[q]].next = c[q + 1] /\ N[c[q]].previous = c[q - 1]
    BY <1>7, <1>9, <2>1 DEF Lined
  <2> QED  BY <1>9, <2>1, <2>2 DEF Lined
<1>11. Lined(nodes', first', last', listSize', c)
  BY <1>2, <1>3, <1>8, <1>10
<1>12. ListInv'
  BY <1>2, <1>11, LinesKeep
<1>13. /\ ListItems \in Seq(Storable) /\ Len(ListItems) = n
       /\ \A k \in 1..n : ListItems[k] = nodes[c[k]].value
  BY <1>1, <1>3, ListHolds
<1>14. /\ ListItems' \in Seq(Storable) /\ Len(ListItems') = n
       /\ \A k \in 1..n : ListItems'[k] = N[c[k]].value
  <2>1. /\ ListItems' \in Seq(Storable) /\ Len(ListItems') = listSize'
        /\ \A k \in 1..listSize' : ListItems'[k] = nodes'[c[k]].value
    BY <1>11, ListWillHold
  <2> QED  BY <1>2, <1>3, <1>8, <2>1
<1>15. ASSUME NEW k \in 1..n PROVE ListItems'[k] = IF k = i + 1 THEN v ELSE ListItems[k]
  <2>1. c[k] = x <=> k = i + 1
    BY <1>3, <1>4, <1>7
  <2> QED  BY <1>7, <1>9, <1>13, <1>14, <2>1
<1>16. PICK u, w, p : u = ListItems /\ w = ListItems' /\ p = i + 1
  OBVIOUS
<1>17. /\ u \in Seq(Storable) /\ Len(u) = n /\ w \in Seq(Storable) /\ Len(w) = n /\ p \in 1..Len(u)
       /\ \A k \in 1..n : w[k] = IF k = p THEN v ELSE u[k]
  BY <1>3, <1>13, <1>14, <1>15, <1>16
<1>18. w = [u EXCEPT ![p] = v]
  <2>1. /\ [u EXCEPT ![p] = v] \in Seq(Storable)
        /\ Len([u EXCEPT ![p] = v]) = Len(u)
        /\ \A k \in 1..Len(u) : [u EXCEPT ![p] = v][k] = IF k = p THEN v ELSE u[k]
    BY <1>17, ExceptSeq
  <2> QED  BY <1>17, <2>1, SeqEqual
<1>19. i \in 0..(Len(ListItems) - 1) /\ <<v>>[1] = v
  BY <1>3, <1>13
<1>20. Line!Assign
  BY <1>2, <1>16, <1>18, <1>19 DEF Line!Assign, Line!Called
<1> QED  BY <1>12, <1>20 DEF Line!Next

LEMMA ListBegins == ListInit => ListInv /\ Line!Init
<1> SUFFICES ASSUME ListInit PROVE ListInv /\ Line!Init
  OBVIOUS
<1>1. nodes = <<>> /\ first = Null /\ last = Null /\ listSize = 0 /\ listCrashed = FALSE
      /\ listCall = [op |-> "init", at |-> 0, n |-> 0, s |-> <<>>]
  BY DEF ListInit
<1>2. PICK e : e = [q \in Int |-> Null]
  OBVIOUS
<1>3. PICK N : N = <<>> /\ DOMAIN N = {} /\ N \in [DOMAIN N -> Node]
  <2>1. PICK M : M = <<>>
    OBVIOUS
  <2>2. DOMAIN M = {} /\ M \in [{} -> Node]
    BY <2>1
  <2> QED  BY <2>1, <2>2
<1>4. Lined(N, Null, Null, 0, e)
  BY <1>2, <1>3 DEF Lined
<1>5. ListLined(e)
  BY <1>1, <1>3, <1>4 DEF ListLined
<1>6. ListInv
  BY <1>1, <1>5 DEF ListInv
<1>7. ListItems \in Seq(Storable) /\ Len(ListItems) = 0
  BY <1>1, <1>6, ListItemsAre
<1>8. ListItems = <<>>
  BY <1>7, EmptySeq
<1> QED  BY <1>1, <1>6, <1>8 DEF Line!Init

LEMMA ListSteps ==
  ASSUME ListInv, [ListNext]_listVars
  PROVE  ListInv' /\ (LineStep \/ UNCHANGED <<ListItems, listCall, listCrashed>>)
<1>1. CASE UNCHANGED listVars
  <2>1. SameList /\ listCall' = listCall /\ listCrashed' = listCrashed /\ listCrashed' \in BOOLEAN
    BY <1>1 DEF listVars, SameList, ListInv
  <2> QED  BY <2>1, SameLine
<1>2. ListCounts \subseteq Nat /\ ListCounts \cup {-1} \subseteq Int
  BY DEF ListCounts
<1>3. ASSUME NEW i \in ListCounts \cup {-1}, NEW n \in ListCounts, ListGrow(i, n)
      PROVE  ListInv' /\ LineStep
  <2>1. ~listCrashed'
    BY <1>3, ListCallReturns DEF ListGrow
  <2> QED  BY <1>2, <1>3, <2>1, ListGrows DEF LineStep
<1>4. ASSUME NEW i \in ListCounts \cup {-1}, NEW s \in ListRanges, ListInsertRange(i, s)
      PROVE  ListInv' /\ LineStep
  <2>1. i \in Int
    BY <1>2
  <2>2. ~listCrashed'
    BY <1>4, ListCallReturns DEF ListInsertRange
  <2> QED  BY <1>4, <2>1, <2>2, RangePut DEF ListInsertRange, LineStep
<1>5. ASSUME NEW s \in ListRanges, ListAddRange(s)
      PROVE  ListInv' /\ LineStep
  <2>1. listSize \in Nat
    BY ListItemsAre
  <2>2. ListInsertElements(listSize, s)
    <3>1. ~(listSize < 0 \/ listSize > listSize)
      BY <2>1
    <3> QED  BY <1>5, <3>1, Zenon DEF ListAddRange, ListInsertElements
  <2>3. ListCalled("insert", listSize, Len(s), s) /\ listSize \in Int
    BY <1>5, <2>1 DEF ListAddRange
  <2>4. ~listCrashed'
    BY <2>3, ListCallReturns
  <2> QED  BY <2>2, <2>3, <2>4, RangePut DEF LineStep
<1>6. ASSUME NEW i \in ListCounts \cup {-1}, NEW n \in ListCounts, ListRemove(i, n)
      PROVE  ListInv' /\ LineStep
  <2>1. i \in Int /\ n \in Nat
    BY <1>2
  <2> QED  BY <1>6, <2>1, ListRemovesAnywhere
<1>7. ASSUME NEW i \in ListCounts, NEW s \in ListRanges, Len(s) = 1, ListAssign(i, s[1])
      PROVE  ListInv' /\ LineStep
  <2>1. s \in Seq(ListValues) /\ 1 \in 1..Len(s)
    BY <1>7, ListAssumption
  <2>2. s[1] \in Storable /\ i \in Nat
    BY <1>2, <2>1, ElementOfSeq DEF Storable
  <2>3. ~listCrashed'
    BY <1>7, ListCallReturns DEF ListAssign
  <2> QED  BY <1>7, <2>2, <2>3, ListAssigns DEF LineStep
<1>8. ASSUME NEW n \in ListCounts, ListResize(n)
      PROVE  ListInv' /\ LineStep
  <2>1. ~listCrashed'
    BY <1>8, ListCallReturns DEF ListResize
  <2> QED  BY <1>2, <1>8, <2>1, ListResizes DEF LineStep
<1>9. ASSUME ListFree PROVE ListInv' /\ LineStep
  <2>1. ~listCrashed'
    BY <1>9, ListCallReturns DEF ListFree
  <2> QED  BY <1>9, <2>1, ListFrees DEF LineStep
<1> QED
  BY <1>1, <1>3, <1>4, <1>5, <1>6, <1>7, <1>8, <1>9, ListRemovesLast DEF ListNext

\* Forward and backward the list is the same nodes, all that are allocated and as many as size
\* says, after any insertion, removal or resize: for every number of nodes.
THEOREM ChainsAlwaysAgree == ListSpec => [](ListTypeOK /\ ChainsAgree)
<1>1. ListInv /\ [ListNext]_listVars => ListInv'
  BY ListSteps
<1> QED  BY <1>1, ListBegins, LinedIsTyped, LinedAgrees, PTL DEF ListSpec

\* Every function of linked_list.hpp changes the elements as the sequence it is promised to be,
\* or it is a removal at a negative position, as remove_from_end of an empty list is: that one
\* reads through a null node.
THEOREM ListImplementsSequence == ListSpec => ListIsSequence
<1>1. ListInv /\ [ListNext]_listVars =>
        ListInv' /\ [IF listCrashed' THEN RemovesBelowZero ELSE Line!Next]_<<Line!vars, listCrashed>>
  BY ListSteps DEF Line!vars, LineStep
<1> QED  BY <1>1, ListBegins, PTL DEF ListSpec, ListIsSequence
=============================================================================
