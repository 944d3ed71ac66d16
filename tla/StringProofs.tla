---------------------------- MODULE StringProofs ----------------------------
(***************************************************************************)
(* Proofs about Strings, for every bound, every set of units and texts,    *)
(* every case mapping of them and every environment: whatever happens to   *)
(* its memory, a string has one, and a Nul behind its last unit; and what  *)
(* each call leaves, in however many rounds, is what Text says.            *)
(***************************************************************************)
EXTENDS Strings, NumberProofs, SequenceTheorems

Held == Contents \cup {Nul}

\* A string with memory, of whatever size.
HasMemory(a) ==
  /\ a \in [data : {"live"}, cells : Seq(Held), size : Nat, reserved : Nat]
  /\ Len(a.cells) = a.reserved

\* A string has room for its units and the Nul, or no memory and no units.
IsString(a) == a = NoArray \/ (HasMemory(a) /\ a.size < a.reserved)

EndsInNul(a) == a.size > 0 => a.cells[a.size + 1] = Nul

LEMMA ASequence ==
  ASSUME NEW S, NEW n \in Nat, NEW f \in [1..n -> S]
  PROVE  f \in Seq(S) /\ Len(f) = n
<1>1. f \in Seq(S)
  BY SeqDef
<1>2. DOMAIN f = 1..n
  OBVIOUS
<1> QED  BY <1>1, <1>2, LenProperties

LEMMA StringIs ==
  ASSUME NEW a, IsString(a)
  PROVE  /\ a.cells \in Seq(Held) /\ a.size \in Nat /\ a.reserved \in Nat
         /\ Len(a.cells) = a.reserved /\ a.size <= a.reserved
         /\ a.reserved > 0 => HasMemory(a) /\ a.size < a.reserved
         /\ a.reserved = 0 => a = NoArray
         /\ a.data = "live" => a.reserved > 0
<1>1. CASE a = NoArray
  <2>1. a.data = "null" /\ a.cells = << >> /\ a.size = 0 /\ a.reserved = 0
    BY <1>1 DEF NoArray
  <2> QED  BY <1>1, <2>1
<1>2. CASE HasMemory(a) /\ a.size < a.reserved
  BY <1>2 DEF HasMemory
<1> QED  BY <1>1, <1>2 DEF IsString

\* b is a with s written behind its first i cells.
IsPut(b, a, i, s) ==
  /\ HasMemory(b) /\ b.size = a.size /\ b.reserved = a.reserved
  /\ \A j \in 1..a.reserved :
       b.cells[j] = IF j \in (i + 1)..(i + Len(s)) THEN s[j - i] ELSE a.cells[j]

LEMMA PutIs ==
  ASSUME NEW a, HasMemory(a), NEW i \in Nat, NEW s \in Seq(Held)
  PROVE  IsPut(Put(a, i, s), a, i, s)
<1>1. PICK n \in Nat : n = a.reserved /\ n = Len(a.cells) /\ DOMAIN a.cells = 1..n
  BY DEF HasMemory
<1>2. PICK c : c = [j \in 1..n |-> IF j \in (i + 1)..(i + Len(s)) THEN s[j - i] ELSE a.cells[j]]
  OBVIOUS
<1>3. \A j \in 1..n : c[j] \in Held
  <2>1. ASSUME NEW j \in 1..n PROVE c[j] \in Held
    <3>1. CASE j \in (i + 1)..(i + Len(s))
      <4>1. j - i \in 1..Len(s)
        BY <3>1
      <4>2. s[j - i] \in Held
        BY <4>1, ElementOfSeq
      <4> QED  BY <1>2, <3>1, <4>2
    <3>2. CASE j \notin (i + 1)..(i + Len(s))
      <4>1. a.cells[j] \in Held
        BY <1>1, ElementOfSeq DEF HasMemory
      <4> QED  BY <1>2, <3>2, <4>1
    <3> QED  BY <3>1, <3>2
  <2> QED  BY <2>1
<1>4. c \in [1..n -> Held]
  BY <1>2, <1>3
<1>5. c \in Seq(Held) /\ Len(c) = n
  BY <1>4, ASequence
<1>6. Put(a, i, s) = [a EXCEPT !.cells = c]
  BY <1>1, <1>2 DEF Put
<1>7. a \in [data : {"live"}, cells : Seq(Held), size : Nat, reserved : Nat]
  BY DEF HasMemory
<1>8. PICK b : b = Put(a, i, s)
  OBVIOUS
<1>9. /\ b \in [data : {"live"}, cells : Seq(Held), size : Nat, reserved : Nat]
      /\ b.cells = c /\ b.size = a.size /\ b.reserved = a.reserved
  BY <1>5, <1>6, <1>7, <1>8
<1>10. HasMemory(b)
  BY <1>1, <1>5, <1>9 DEF HasMemory
<1> QED  BY <1>1, <1>2, <1>8, <1>9, <1>10 DEF IsPut

LEMMA PutKeeps ==
  ASSUME NEW a, HasMemory(a), NEW i \in Nat, NEW s \in Seq(Held)
  PROVE  HasMemory(Put(a, i, s)) /\ Put(a, i, s).size = a.size /\ Put(a, i, s).reserved = a.reserved
BY PutIs DEF IsPut

\* A string that is ended behind its units.
LEMMA EndedIs ==
  ASSUME NEW a, HasMemory(a), a.size < a.reserved
  PROVE  LET b == Ended(a)
         IN  /\ HasMemory(b) /\ IsString(b) /\ EndsInNul(b) /\ b.size = a.size /\ b.reserved = a.reserved
             /\ \A j \in 1..a.size : b.cells[j] = a.cells[j]
<1>1. PICK n \in Nat : n = a.size
  BY DEF HasMemory
<1>2. PICK s : s = <<Nul>>
  OBVIOUS
<1>3. s \in Seq(Held) /\ Len(s) = 1 /\ s[1] = Nul
  BY <1>2 DEF Held
<1>4. PICK b : b = Put(a, n, s)
  OBVIOUS
<1>5. PICK r \in Nat : r = a.reserved /\ n < r
  BY <1>1 DEF HasMemory
<1>6. /\ HasMemory(b) /\ b.size = n /\ b.reserved = r
      /\ \A j \in 1..r : b.cells[j] = IF j \in (n + 1)..(n + Len(s)) THEN s[j - n] ELSE a.cells[j]
  <2>1. n \in Nat /\ s \in Seq(Held)
    BY <1>3
  <2>2. IsPut(b, a, n, s)
    BY <1>4, <2>1, PutIs
  <2> QED  BY <2>2, <1>1, <1>5 DEF IsPut
<1>7. b.cells[n + 1] = Nul
  <2>1. n + 1 \in 1..r /\ n + 1 \in (n + 1)..(n + Len(s)) /\ (n + 1) - n = 1
    BY <1>3, <1>5
  <2> QED  BY <1>3, <1>6, <2>1
<1>8. \A j \in 1..n : b.cells[j] = a.cells[j]
  <2>1. \A j \in 1..n : j \in 1..r /\ j \notin (n + 1)..(n + Len(s))
    BY <1>3, <1>5
  <2> QED  BY <1>6, <2>1
<1>9. b = Ended(a)
  BY <1>1, <1>2, <1>4 DEF Ended
<1>10. IsString(b) /\ EndsInNul(b)
  BY <1>5, <1>6, <1>7 DEF IsString, EndsInNul
<1> QED  BY <1>1, <1>5, <1>6, <1>8, <1>9, <1>10

\* A block of at least as many cells that keeps those there are.
Widened(cells, m, n) == [i \in 1..n |-> IF i <= m THEN cells[i] ELSE ArrayUnset]

LEMMA BlockKeeps ==
  ASSUME NEW m \in Nat, NEW n \in Nat, NEW cells \in Seq(Held), Len(cells) = m, m <= n,
         NEW c, c = Widened(cells, m, n)
  PROVE  c \in Seq(Held) /\ Len(c) = n /\ \A j \in 1..m : c[j] = cells[j]
<1>4. c = [i \in 1..n |-> IF i <= m THEN cells[i] ELSE ArrayUnset]
  BY DEF Widened
<1>1. \A j \in 1..n : c[j] \in Held
  <2>1. ASSUME NEW j \in 1..n PROVE c[j] \in Held
    <3>1. CASE j <= m
      <4>1. j \in 1..Len(cells)
        BY <3>1
      <4>2. cells[j] \in Held
        BY <4>1, ElementOfSeq
      <4> QED  BY <1>4, <3>1, <4>2
    <3>2. CASE ~(j <= m)
      <4>1. ArrayUnset \in Held
        BY DEF Held, Contents
      <4> QED  BY <1>4, <3>2, <4>1
    <3> QED  BY <3>1, <3>2
  <2> QED  BY <2>1
<1>2. c \in [1..n -> Held]
  BY <1>1, <1>4
<1>3. \A j \in 1..m : c[j] = cells[j]
  BY <1>4
<1> QED  BY <1>2, <1>3, ASequence

\* What string_reserve makes of the string.
LEMMA RoomIs ==
  ASSUME IsString(arr), NEW n \in Nat
  PROVE  LET a == WithRoom(n)
         IN  /\ HasMemory(a) /\ IsString(a) /\ a.size = arr.size
             /\ a.reserved >= n + 1 /\ a.reserved >= arr.reserved
             /\ \A j \in 1..arr.reserved : a.cells[j] = arr.cells[j]
<1>1. PICK r \in Nat : r = arr.reserved /\ r = Len(arr.cells) /\ arr.size \in Nat /\ arr.size <= r
                       /\ arr.cells \in Seq(Held)
  BY StringIs
<1>2. CASE r >= n + 1
  <2>1. WithRoom(n) = arr
    BY <1>1, <1>2 DEF WithRoom
  <2>2. HasMemory(arr) /\ arr.size < arr.reserved
    <3>1. arr.reserved > 0
      BY <1>1, <1>2
    <3> QED  BY <3>1, StringIs
  <2>3. PICK a : a = WithRoom(n)
    OBVIOUS
  <2>4. a = arr
    BY <2>1, <2>3
  <2>5. HasMemory(a) /\ a.size = arr.size /\ a.size < a.reserved /\ a.cells = arr.cells
    BY <2>2, <2>4
  <2>6. a.reserved = r /\ arr.reserved = r
    BY <1>1, <2>4
  <2>7. a.reserved >= n + 1 /\ a.reserved >= arr.reserved
    BY <1>2, <2>6
  <2> QED  BY <2>3, <2>5, <2>7 DEF IsString
<1>3. CASE ~(r >= n + 1)
  <2>1. PICK p \in Nat : p = CeilExp2(n + 1) /\ p >= n + 1
    <3>1. PICK m \in Nat \ {0} : m = n + 1
      OBVIOUS
    <3>2. CeilExp2(m) \in m..(2 * m - 1)
      BY CeilIs
    <3> QED  BY <3>1, <3>2
  <2>2. PICK c : c = Block(p)
    OBVIOUS
  <2>3. c \in Seq(Held) /\ Len(c) = p /\ \A j \in 1..r : c[j] = arr.cells[j]
    <3>1. c = Widened(arr.cells, r, p)
      BY <1>1, <2>2 DEF Block, Widened
    <3>2. r <= p
      BY <1>3, <2>1
    <3>3. arr.cells \in Seq(Held) /\ Len(arr.cells) = r
      BY <1>1
    <3> QED  BY <3>1, <3>2, <3>3, BlockKeeps
  <2>4. PICK a : a = WithRoom(n)
    OBVIOUS
  <2>5. a = [data |-> "live", cells |-> c, size |-> arr.size, reserved |-> p]
    <3>1. a = [arr EXCEPT !.data = "live", !.cells = c, !.reserved = p]
      BY <1>1, <1>3, <2>1, <2>2, <2>4 DEF WithRoom
    <3>2. arr = [data |-> arr.data, cells |-> arr.cells, size |-> arr.size, reserved |-> arr.reserved]
      BY DEF IsString, NoArray, HasMemory
    <3> QED  BY <3>1, <3>2
  <2>6. a.size < a.reserved
    <3>1. a.size = arr.size /\ a.reserved = p
      BY <2>5
    <3>2. arr.size < p
      BY <1>1, <1>3, <2>1
    <3> QED  BY <3>1, <3>2
  <2>7. HasMemory(a) /\ a.size = arr.size /\ a.reserved = p /\ a.cells = c
    BY <1>1, <2>3, <2>5 DEF HasMemory
  <2> QED  BY <1>1, <1>3, <2>1, <2>3, <2>4, <2>6, <2>7 DEF IsString
<1> QED  BY <1>2, <1>3

\* b is a after memmove within the block.
IsShifted(b, a, from, to, n) ==
  /\ HasMemory(b) /\ b.size = a.size /\ b.reserved = a.reserved
  /\ \A j \in 1..a.reserved :
       b.cells[j] = IF j \in (to + 1)..(to + n) THEN a.cells[(j - to) + from] ELSE a.cells[j]

LEMMA ShiftedIs ==
  ASSUME NEW a, HasMemory(a), NEW from \in Nat, NEW to \in Nat, NEW n \in Nat, from + n <= a.reserved
  PROVE  IsShifted(Shifted(a, from, to, n), a, from, to, n)
<1>1. PICK r \in Nat : r = a.reserved /\ r = Len(a.cells) /\ a.cells \in Seq(Held)
  BY DEF HasMemory
<1>2. PICK s : s = SubSeq(a.cells, from + 1, from + n)
  OBVIOUS
<1>3. s \in Seq(Held) /\ Len(s) = n /\ \A k \in 1..n : s[k] = a.cells[from + k]
  <2>1. PICK f \in Nat, t \in Nat : f = from + 1 /\ t = from + n /\ f >= 1 /\ t <= r
    BY <1>1
  <2>2. s = SubSeq(a.cells, f, t)
    BY <1>2, <2>1
  <2>3. PICK z \in Seq(Held) : z = a.cells
    BY <1>1
  <2>4. \A i \in f..t : i \in 1..Len(z)
    BY <1>1, <2>1, <2>3
  <2>5. SubSeq(z, f, t) = [i \in 1..((t - f) + 1) |-> z[(i + f) - 1]]
    OBVIOUS
  <2>6. s = [i \in 1..n |-> z[from + i]]
    <3>1. (t - f) + 1 = n
      BY <2>1
    <3>2. \A i \in 1..n : (i + f) - 1 = from + i
      BY <2>1
    <3> QED  BY <2>2, <2>3, <2>5, <3>1, <3>2
  <2>7. \A i \in 1..n : z[from + i] \in Held
    <3>1. \A i \in 1..n : from + i \in 1..Len(z)
      BY <1>1, <2>3
    <3> QED  BY <3>1, ElementOfSeq
  <2>8. s \in [1..n -> Held]
    BY <2>6, <2>7
  <2>9. s \in Seq(Held) /\ Len(s) = n
    BY <2>8, ASequence
  <2> QED  BY <2>3, <2>6, <2>9
<1>4. PICK b : b = Put(a, to, s)
  OBVIOUS
<1>5. /\ HasMemory(b) /\ b.size = a.size /\ b.reserved = a.reserved
      /\ \A j \in 1..r : b.cells[j] = IF j \in (to + 1)..(to + n) THEN s[j - to] ELSE a.cells[j]
  <2>1. IsPut(b, a, to, s)
    BY <1>3, <1>4, PutIs
  <2> QED  BY <1>1, <1>3, <2>1 DEF IsPut
<1>6. \A j \in 1..r : j \in (to + 1)..(to + n) => s[j - to] = a.cells[(j - to) + from]
  <2>1. ASSUME NEW j \in 1..r, j \in (to + 1)..(to + n) PROVE s[j - to] = a.cells[(j - to) + from]
    <3>1. PICK k \in 1..n : k = j - to
      BY <2>1
    <3>2. from + k = k + from
      BY <3>1
    <3> QED  BY <1>3, <3>1, <3>2
  <2> QED  BY <2>1
<1>7. b = Shifted(a, from, to, n)
  BY <1>2, <1>4 DEF Shifted
<1> QED  BY <1>1, <1>5, <1>6, <1>7 DEF IsShifted

LEMMA ShiftedKeeps ==
  ASSUME NEW a, HasMemory(a), NEW from \in Nat, NEW to \in Nat, NEW n \in Nat, from + n <= a.reserved
  PROVE  /\ HasMemory(Shifted(a, from, to, n)) /\ Shifted(a, from, to, n).size = a.size
         /\ Shifted(a, from, to, n).reserved = a.reserved
BY ShiftedIs DEF IsShifted

\* The size of a string with memory set to another.
LEMMA SizedIs ==
  ASSUME NEW a, HasMemory(a), NEW n \in Nat
  PROVE  LET b == [a EXCEPT !.size = n]
         IN  HasMemory(b) /\ b.size = n /\ b.reserved = a.reserved /\ b.cells = a.cells
BY DEF HasMemory

\* What a call has to leave behind.
Keeping(new) == IsString(new) /\ (EndsInNul(arr) => EndsInNul(new))

LEMMA SizedEnded ==
  ASSUME NEW a, HasMemory(a), NEW n \in Nat, n < a.reserved
  PROVE  LET b == Ended([a EXCEPT !.size = n])
         IN  HasMemory(b) /\ IsString(b) /\ EndsInNul(b) /\ b.size = n /\ b.reserved = a.reserved
<1>1. PICK c : c = [a EXCEPT !.size = n]
  OBVIOUS
<1>2. HasMemory(c) /\ c.size = n /\ c.reserved = a.reserved
  BY <1>1, SizedIs
<1>3. HasMemory(Ended(c)) /\ IsString(Ended(c)) /\ EndsInNul(Ended(c)) /\ Ended(c).size = n
      /\ Ended(c).reserved = a.reserved
  BY <1>2, EndedIs
<1> QED  BY <1>1, <1>3

LEMMA PutEnded ==
  ASSUME NEW a, HasMemory(a), NEW n \in Nat, n < a.reserved, NEW i \in Nat, NEW s \in Seq(Held)
  PROVE  LET b == Ended(Put([a EXCEPT !.size = n], i, s))
         IN  IsString(b) /\ EndsInNul(b)
<1>1. PICK c : c = [a EXCEPT !.size = n]
  OBVIOUS
<1>2. HasMemory(c) /\ c.size = n /\ c.reserved = a.reserved
  BY <1>1, SizedIs
<1>3. PICK d : d = Put(c, i, s)
  OBVIOUS
<1>4. HasMemory(d) /\ d.size = n /\ d.reserved = a.reserved
  <2>1. LET e == Put(c, i, s) IN HasMemory(e) /\ e.size = c.size /\ e.reserved = c.reserved
    BY <1>2, PutKeeps
  <2> QED  BY <2>1, <1>2, <1>3
<1>5. IsString(Ended(d)) /\ EndsInNul(Ended(d))
  BY <1>4, EndedIs
<1> QED  BY <1>1, <1>3, <1>5

\* What is written over units of a string leaves its Nul alone.
LEMMA PutInside ==
  ASSUME NEW a, HasMemory(a), a.size < a.reserved, NEW i \in Nat, NEW s \in Seq(Held), i + Len(s) <= a.size
  PROVE  LET b == Put(a, i, s)
         IN  /\ HasMemory(b) /\ IsString(b) /\ b.size = a.size /\ b.reserved = a.reserved
             /\ EndsInNul(a) => EndsInNul(b)
<1>1. PICK b : b = Put(a, i, s)
  OBVIOUS
<1>2. /\ HasMemory(b) /\ b.size = a.size /\ b.reserved = a.reserved
      /\ \A j \in 1..a.reserved :
           b.cells[j] = IF j \in (i + 1)..(i + Len(s)) THEN s[j - i] ELSE a.cells[j]
  BY <1>1, PutIs DEF IsPut
<1>3. PICK n \in Nat, r \in Nat, m \in Nat : n = a.size /\ r = a.reserved /\ m = Len(s) /\ n < r /\ i + m <= n
  BY DEF HasMemory
<1>4. n + 1 \in 1..r /\ n + 1 \notin (i + 1)..(i + m)
  BY <1>3
<1>5. b.cells[n + 1] = a.cells[n + 1]
  BY <1>2, <1>3, <1>4
<1>6. IsString(b)
  BY <1>2 DEF IsString
<1> QED  BY <1>1, <1>2, <1>3, <1>5, <1>6 DEF EndsInNul

\* A block that holds s and the Nul.
LEMMA NewIs ==
  ASSUME NEW s \in Seq(Held), NEW n \in Nat, n = Len(s)
  PROVE  Keeping([data |-> "live", size |-> n, reserved |-> n + 1, cells |-> s \o <<Nul>>])
<1>1. PICK c : c = s \o <<Nul>>
  OBVIOUS
<1>2. c \in Seq(Held) /\ Len(c) = n + 1 /\ c[n + 1] = Nul
  <2>1. <<Nul>> \in Seq(Held) /\ Len(<<Nul>>) = 1 /\ <<Nul>>[1] = Nul
    BY DEF Held
  <2>2. n + 1 \in 1..(n + 1) /\ ~(n + 1 <= n) /\ (n + 1) - n = 1
    OBVIOUS
  <2> QED  BY <1>1, <2>1, <2>2
<1>3. PICK a : a = [data |-> "live", size |-> n, reserved |-> n + 1, cells |-> c]
  OBVIOUS
<1>4. a.data = "live" /\ a.size = n /\ a.reserved = n + 1 /\ a.cells = c
  BY <1>3
<1>5. a \in [data : {"live"}, cells : Seq(Held), size : Nat, reserved : Nat]
  BY <1>2, <1>3
<1>6. HasMemory(a) /\ a.size < a.reserved /\ EndsInNul(a)
  BY <1>2, <1>4, <1>5 DEF HasMemory, EndsInNul
<1> QED  BY <1>1, <1>3, <1>6 DEF Keeping, IsString

\* string_set, and what join puts together.
LEMMA SetIs ==
  ASSUME IsString(arr), NEW s \in Seq(Held)
  PROVE  Keeping(Ended(Put([WithRoom(Len(s)) EXCEPT !.size = Len(s)], 0, s)))
<1>1. PICK n \in Nat : n = Len(s)
  OBVIOUS
<1>2. PICK a : a = WithRoom(n)
  OBVIOUS
<1>3. HasMemory(a) /\ a.reserved >= n + 1
  BY <1>2, RoomIs
<1>4. n < a.reserved
  BY <1>3 DEF HasMemory
<1>5. PICK z \in Nat : z = 0
  OBVIOUS
<1>6. LET b == Ended(Put([a EXCEPT !.size = n], z, s)) IN IsString(b) /\ EndsInNul(b)
  BY <1>3, <1>4, PutEnded
<1> QED  BY <1>1, <1>2, <1>5, <1>6 DEF Keeping

\* The beginning of s.
LEMMA FirstUnits ==
  ASSUME NEW s \in Seq(Held), NEW m \in Nat, m <= Len(s)
  PROVE  SubSeq(s, 1, m) \in Seq(Held) /\ Len(SubSeq(s, 1, m)) = m
<1>1. PICK c : c = SubSeq(s, 1, m)
  OBVIOUS
<1>2. c = [i \in 1..m |-> s[i]]
  <2>1. c = [i \in 1..((m - 1) + 1) |-> s[(i + 1) - 1]]
    BY <1>1
  <2>2. (m - 1) + 1 = m /\ \A i \in 1..m : (i + 1) - 1 = i
    OBVIOUS
  <2> QED  BY <2>1, <2>2
<1>3. \A i \in 1..m : s[i] \in Held
  <2>1. \A i \in 1..m : i \in 1..Len(s)
    OBVIOUS
  <2> QED  BY <2>1, ElementOfSeq
<1>4. c \in [1..m -> Held]
  BY <1>2, <1>3
<1> QED  BY <1>1, <1>4, ASequence

LEMMA CopyIs ==
  ASSUME IsString(arr), NEW s \in Seq(Held), NEW n \in Nat, NEW at \in Nat
  PROVE  Keeping(Copied(s, n, at))
<1>1. PICK m \in Nat : m = Least(n, Len(s)) /\ m <= Len(s)
  BY DEF Least
<1>2. PICK p : p = SubSeq(s, 1, m)
  OBVIOUS
<1>3. p \in Seq(Held) /\ Len(p) = m
  BY <1>1, <1>2, FirstUnits
<1>4. PICK e \in Nat : e = at + m
  OBVIOUS
<1>5. PICK a : a = WithRoom(e)
  OBVIOUS
<1>6. HasMemory(a) /\ a.size = arr.size /\ a.reserved >= e + 1 /\ a.reserved >= arr.reserved
      /\ \A j \in 1..arr.reserved : a.cells[j] = arr.cells[j]
  BY <1>5, RoomIs
<1>7. PICK b : b = Put(a, at, p)
  OBVIOUS
<1>8. HasMemory(b) /\ b.size = a.size /\ b.reserved = a.reserved
  <2>1. LET c == Put(a, at, p) IN HasMemory(c) /\ c.size = a.size /\ c.reserved = a.reserved
    BY <1>3, <1>6, PutKeeps
  <2> QED  BY <1>7, <2>1
<1>9. Copied(s, n, at) = IF m = 0 THEN arr ELSE IF arr.size < e THEN Ended([b EXCEPT !.size = e]) ELSE b
  BY <1>1, <1>2, <1>4, <1>5, <1>7 DEF Copied
<1>10. CASE m = 0
  BY <1>9, <1>10 DEF Keeping
<1>11. CASE m # 0 /\ arr.size < e
  <2>1. e < b.reserved
    BY <1>6, <1>8 DEF HasMemory
  <2>2. LET c == Ended([b EXCEPT !.size = e])
        IN  HasMemory(c) /\ IsString(c) /\ EndsInNul(c) /\ c.size = e /\ c.reserved = b.reserved
    BY <1>8, <2>1, SizedEnded
  <2> QED  BY <1>9, <1>11, <2>2 DEF Keeping
<1>12. CASE m # 0 /\ ~(arr.size < e)
  <2>1. arr.size \in Nat /\ arr.reserved \in Nat
    BY StringIs
  <2>2. at + Len(p) <= a.size /\ arr.size > 0
    BY <1>3, <1>4, <1>6, <1>12, <2>1
  <2>3. HasMemory(arr) /\ arr.size < arr.reserved
    BY <2>2, StringIs
  <2>4. a.size < a.reserved
    BY <1>6, <2>1, <2>3 DEF HasMemory
  <2>5. LET c == Put(a, at, p)
        IN  /\ HasMemory(c) /\ IsString(c) /\ c.size = a.size /\ c.reserved = a.reserved
            /\ EndsInNul(a) => EndsInNul(c)
    BY <1>3, <1>6, <2>2, <2>4, PutInside
  <2>6. EndsInNul(arr) => EndsInNul(a)
    <3>1. arr.size + 1 \in 1..arr.reserved
      BY <2>1, <2>3
    <3> QED  BY <1>6, <3>1 DEF EndsInNul
  <2> QED  BY <1>7, <1>9, <1>12, <2>5, <2>6 DEF Keeping
<1> QED  BY <1>10, <1>11, <1>12

\* What append and prepend ask for is enough for the units and the Nul.
LEMMA ExtraIs ==
  ASSUME IsString(arr), NEW n \in Nat
  PROVE  LET a == WithRoom(Extra(n))
         IN  HasMemory(a) /\ a.size = arr.size /\ a.size + n < a.reserved
<1>1. arr.size \in Nat /\ arr.reserved \in Nat
  BY StringIs
<1>2. PICK e \in Nat : e = Extra(n) /\ (arr.reserved - arr.size < n + 1 => e = arr.size + n + 1)
  BY <1>1 DEF Extra
<1>3. PICK a : a = WithRoom(e)
  OBVIOUS
<1>4. HasMemory(a) /\ a.size = arr.size /\ a.reserved >= e + 1 /\ a.reserved >= arr.reserved
  BY <1>3, RoomIs
<1>5. PICK r \in Nat : r = a.reserved
  BY <1>4 DEF HasMemory
<1>6. arr.size + n < r
  BY <1>1, <1>2, <1>4, <1>5
<1> QED  BY <1>2, <1>3, <1>4, <1>5, <1>6

LEMMA AppendIs ==
  ASSUME IsString(arr), NEW s \in Seq(Held)
  PROVE  Keeping(Ended(Put([WithRoom(Extra(Len(s))) EXCEPT !.size = @ + Len(s)], arr.size, s)))
<1>1. PICK n \in Nat : n = Len(s)
  OBVIOUS
<1>2. PICK a : a = WithRoom(Extra(n))
  OBVIOUS
<1>3. HasMemory(a) /\ a.size = arr.size /\ a.size + n < a.reserved
  BY <1>2, ExtraIs
<1>4. PICK m \in Nat, e \in Nat : m = arr.size /\ e = a.size + n
  BY <1>3 DEF HasMemory
<1>5. LET b == Ended(Put([a EXCEPT !.size = e], m, s)) IN IsString(b) /\ EndsInNul(b)
  BY <1>3, <1>4, PutEnded
<1>6. [a EXCEPT !.size = @ + n] = [a EXCEPT !.size = e]
  BY <1>4
<1> QED  BY <1>1, <1>2, <1>4, <1>5, <1>6 DEF Keeping

LEMMA PrependIs ==
  ASSUME IsString(arr), NEW s \in Seq(Held)
  PROVE  Keeping(Prepended(s))
<1>1. PICK n \in Nat : n = Len(s)
  OBVIOUS
<1>2. PICK a : a = WithRoom(Extra(n))
  OBVIOUS
<1>3. HasMemory(a) /\ a.size = arr.size /\ a.size + n < a.reserved
  BY <1>2, ExtraIs
<1>4. PICK z \in Nat, m \in Nat, e \in Nat : z = 0 /\ m = arr.size /\ e = m + n
  BY <1>3 DEF HasMemory
<1>5. PICK b : b = Shifted(a, z, n, m)
  OBVIOUS
<1>6. z + m <= a.reserved /\ e < a.reserved
  BY <1>3, <1>4 DEF HasMemory
<1>7. HasMemory(b) /\ b.size = m /\ b.reserved = a.reserved
  <2>1. LET c == Shifted(a, z, n, m) IN HasMemory(c) /\ c.size = a.size /\ c.reserved = a.reserved
    BY <1>3, <1>6, ShiftedKeeps
  <2> QED  BY <1>3, <1>4, <1>5, <2>1
<1>8. LET c == Ended(Put([b EXCEPT !.size = e], z, s)) IN IsString(c) /\ EndsInNul(c)
  BY <1>6, <1>7, PutEnded
<1>9. [b EXCEPT !.size = @ + n] = [b EXCEPT !.size = e]
  BY <1>4, <1>7
<1>10. Prepended(s) = Ended(Put([Shifted(a, 0, n, arr.size) EXCEPT !.size = @ + n], 0, s))
  BY <1>1, <1>2 DEF Prepended
<1>11. Prepended(s) = Ended(Put([b EXCEPT !.size = e], z, s))
  BY <1>4, <1>5, <1>9, <1>10
<1> QED  BY <1>8, <1>11 DEF Keeping

\* The units moved to the front, and fewer of them.
LEMMA CutIs ==
  ASSUME NEW a, HasMemory(a), a.size < a.reserved, NEW n \in Nat, NEW to \in Nat, to <= n, n <= a.size
  PROVE  LET b == Ended([Shifted(a, n, to, a.size - n) EXCEPT !.size = (a.size - n) + to])
         IN  IsString(b) /\ EndsInNul(b)
<1>1. PICK m \in Nat, k \in Nat, e \in Nat : m = a.size /\ k = m - n /\ e = k + to
  BY DEF HasMemory
<1>2. n + k <= a.reserved /\ e < a.reserved
  BY <1>1 DEF HasMemory
<1>3. PICK b : b = Shifted(a, n, to, k)
  OBVIOUS
<1>4. HasMemory(b) /\ b.reserved = a.reserved
  <2>1. LET c == Shifted(a, n, to, k) IN HasMemory(c) /\ c.size = a.size /\ c.reserved = a.reserved
    BY <1>2, ShiftedKeeps
  <2> QED  BY <1>3, <2>1
<1>5. LET c == Ended([b EXCEPT !.size = e])
      IN  HasMemory(c) /\ IsString(c) /\ EndsInNul(c) /\ c.size = e /\ c.reserved = b.reserved
  BY <1>2, <1>4, SizedEnded
<1> QED  BY <1>1, <1>3, <1>5

\* A string that is not changed but in its units stays as it was.
Trimmed(a, b) == IsString(b) /\ (EndsInNul(a) => EndsInNul(b))

LEMMA LeftIs ==
  ASSUME NEW a, IsString(a)
  PROVE  Trimmed(a, LeftTrimmed(a))
<1>1. PICK m \in Nat : m = a.size
  BY StringIs
<1> DEFINE Stops(i) == (\A j \in 1..i : Trims(a, j)) /\ ~Trims(a, i + 1)
           Ends == {i \in 0..m : ~Trims(a, i + 1)}
<1>2. \E i \in 0..m : Stops(i)
  <2>1. m \in Ends
    <3>1. ~(m + 1 <= a.size)
      BY <1>1
    <3> QED  BY <3>1 DEF Trims
  <2>2. \A i \in Ends : i \in Nat
    OBVIOUS
  <2> HIDE DEF Ends
  <2>3. PICK i \in Ends : \A k \in Ends : i <= k
    BY <2>1, <2>2, LeastExists
  <2>4. i \in 0..m /\ ~Trims(a, i + 1)
    BY DEF Ends
  <2>5. ASSUME NEW j \in 1..i PROVE Trims(a, j)
    <3>1. PICK k \in 0..m : k = j - 1 /\ k < i /\ k + 1 = j
      BY <2>4
    <3>2. k \notin Ends
      BY <2>3, <2>4, <3>1
    <3> QED  BY <3>1, <3>2 DEF Ends
  <2> QED  BY <2>4, <2>5
<1>3. PICK n : n = CHOOSE i \in 0..m : Stops(i)
  OBVIOUS
<1>4. n \in 0..m
  BY <1>2, <1>3
<1>5. LeftTrimmed(a) = IF n = 0 THEN a ELSE Ended([Shifted(a, n, 0, m - n) EXCEPT !.size = m - n])
  BY <1>1, <1>3 DEF LeftTrimmed
<1>6. CASE n = 0
  BY <1>5, <1>6 DEF Trimmed
<1>7. CASE n # 0
  <2>1. a.reserved > 0
    <3>1. a.size > 0 /\ a.size <= a.reserved /\ a.size \in Nat /\ a.reserved \in Nat
      BY <1>1, <1>4, <1>7, StringIs
    <3> QED  BY <3>1
  <2>2. HasMemory(a) /\ a.size < a.reserved
    BY <2>1, StringIs
  <2>3. PICK z \in Nat : z = 0
    OBVIOUS
  <2>4. n \in Nat /\ z <= n /\ n <= a.size
    BY <1>1, <1>4, <2>3
  <2>5. LET b == Ended([Shifted(a, n, z, a.size - n) EXCEPT !.size = (a.size - n) + z])
        IN  IsString(b) /\ EndsInNul(b)
    BY <2>2, <2>4, CutIs
  <2>6. (a.size - n) + z = m - n /\ a.size - n = m - n
    BY <1>1, <1>4, <2>3
  <2>7. LeftTrimmed(a) = Ended([Shifted(a, n, z, m - n) EXCEPT !.size = m - n])
    BY <1>5, <1>7, <2>3
  <2>8. IsString(LeftTrimmed(a)) /\ EndsInNul(LeftTrimmed(a))
    BY <2>5, <2>6, <2>7
  <2> QED  BY <2>8 DEF Trimmed
<1> QED  BY <1>6, <1>7

LEMMA RightIs ==
  ASSUME NEW a, IsString(a)
  PROVE  /\ RightTrimmed(a).data = "live" => HasMemory(a)
         /\ HasMemory(a) => IsString(RightTrimmed(a)) /\ EndsInNul(RightTrimmed(a))
<1>1. PICK m \in Nat : m = a.size
  BY StringIs
<1> DEFINE Stops(i) == (\A j \in (i + 1)..m : Trims(a, j)) /\ (i = 0 \/ ~Trims(a, i))
           Ends == {k \in 0..m : k = m \/ ~Trims(a, m - k)}
<1>2. \E i \in 0..m : Stops(i)
  <2>1. m \in Ends
    OBVIOUS
  <2>2. \A i \in Ends : i \in Nat
    OBVIOUS
  <2> HIDE DEF Ends
  <2>3. PICK k \in Ends : \A i \in Ends : k <= i
    BY <2>1, <2>2, LeastExists
  <2>4. k \in 0..m /\ (k = m \/ ~Trims(a, m - k))
    BY DEF Ends
  <2>5. PICK i \in 0..m : i = m - k /\ m - i = k
    BY <2>4
  <2>6. ASSUME NEW j \in (i + 1)..m PROVE Trims(a, j)
    <3>1. PICK l \in 0..m : l = m - j /\ l < k /\ m - l = j
      BY <2>4, <2>5
    <3>2. l \notin Ends
      BY <2>3, <2>4, <3>1
    <3> QED  BY <3>1, <3>2 DEF Ends
  <2>7. i = 0 \/ ~Trims(a, i)
    BY <2>4, <2>5
  <2> QED  BY <2>6, <2>7
<1>3. PICK n : n = CHOOSE i \in 0..m : Stops(i)
  OBVIOUS
<1>4. n \in 0..m
  BY <1>2, <1>3
<1>5. RightTrimmed(a) = Ended([a EXCEPT !.size = n])
  BY <1>1, <1>3 DEF RightTrimmed
<1>6. ASSUME HasMemory(a) PROVE IsString(RightTrimmed(a)) /\ EndsInNul(RightTrimmed(a))
  <2>1. a.size < a.reserved /\ a.reserved \in Nat
    BY <1>6 DEF IsString, NoArray, HasMemory
  <2>2. n \in Nat /\ n < a.reserved
    BY <1>1, <1>4, <2>1
  <2>3. LET b == Ended([a EXCEPT !.size = n])
        IN  HasMemory(b) /\ IsString(b) /\ EndsInNul(b) /\ b.size = n /\ b.reserved = a.reserved
    BY <1>6, <2>2, SizedEnded
  <2> QED  BY <1>5, <2>3
<1>7. ASSUME RightTrimmed(a).data = "live" PROVE HasMemory(a)
  <2>1. ASSUME a = NoArray PROVE FALSE
    <3>1. PICK b : b = [a EXCEPT !.size = n]
      OBVIOUS
    <3>2. b.data = "null"
      BY <2>1, <3>1 DEF NoArray
    <3>3. b = [data |-> b.data, cells |-> b.cells, size |-> b.size, reserved |-> b.reserved]
      BY <2>1, <3>1 DEF NoArray
    <3>4. Ended(b).data = b.data
      BY <3>3 DEF Ended, Put
    <3> QED  BY <1>5, <1>7, <3>1, <3>2, <3>4
  <2> QED  BY <2>1 DEF IsString
<1> QED  BY <1>6, <1>7

LEMMA TrimmedRight == IsString(arr) /\ RightTrimmed(arr).data = "live" => Keeping(RightTrimmed(arr))
BY RightIs DEF Keeping

LEMMA TrimmedBoth ==
  ASSUME IsString(arr), RightTrimmed(LeftTrimmed(arr)).data = "live"
  PROVE  Keeping(RightTrimmed(LeftTrimmed(arr)))
<1>1. PICK a : a = LeftTrimmed(arr)
  OBVIOUS
<1>2. IsString(a)
  BY <1>1, LeftIs DEF Trimmed
<1>3. IsString(RightTrimmed(a)) /\ EndsInNul(RightTrimmed(a))
  BY <1>1, <1>2, RightIs
<1> QED  BY <1>1, <1>3 DEF Keeping

\* utf_to_upper and utf_to_lower change units, never the Nul behind them.
LEMMA RecasedIs ==
  ASSUME IsString(arr), NEW to, \A u \in Held : to[u] \in Held
  PROVE  Keeping(Recased(to))
<1>1. PICK n \in Nat, r \in Nat : n = arr.size /\ r = arr.reserved /\ r = Len(arr.cells)
                                  /\ arr.cells \in Seq(Held) /\ DOMAIN arr.cells = 1..r
  BY StringIs
<1>2. PICK c : c = [j \in 1..r |-> IF j <= n THEN to[arr.cells[j]] ELSE arr.cells[j]]
  OBVIOUS
<1>3. \A j \in 1..r : c[j] \in Held
  <2>1. ASSUME NEW j \in 1..r PROVE c[j] \in Held
    <3>1. arr.cells[j] \in Held
      BY <1>1, ElementOfSeq
    <3>2. to[arr.cells[j]] \in Held
      BY <3>1
    <3> QED  BY <1>2, <3>1, <3>2
  <2> QED  BY <2>1
<1>4. c \in [1..r -> Held]
  BY <1>2, <1>3
<1>5. c \in Seq(Held) /\ Len(c) = r
  BY <1>4, ASequence
<1>6. Recased(to) = [arr EXCEPT !.cells = c]
  BY <1>1, <1>2 DEF Recased
<1>7. CASE arr = NoArray
  <2>1. r = 0
    BY <1>1, <1>7 DEF NoArray
  <2>2. c = << >>
    BY <1>5, <2>1, EmptySeq
  <2>3. Recased(to) = NoArray
    BY <1>6, <1>7, <2>2 DEF NoArray
  <2> QED  BY <1>7, <2>3 DEF Keeping, IsString
<1>8. CASE HasMemory(arr) /\ arr.size < arr.reserved
  <2>1. PICK a : a = Recased(to)
    OBVIOUS
  <2>2. arr \in [data : {"live"}, cells : Seq(Held), size : Nat, reserved : Nat]
    BY <1>8 DEF HasMemory
  <2>3. a \in [data : {"live"}, cells : Seq(Held), size : Nat, reserved : Nat]
        /\ a.cells = c /\ a.size = n /\ a.reserved = r
    BY <1>1, <1>5, <1>6, <2>1, <2>2
  <2>4. HasMemory(a) /\ a.size < a.reserved
    BY <1>1, <1>5, <1>8, <2>3 DEF HasMemory
  <2>5. n + 1 \in 1..r /\ ~(n + 1 <= n)
    BY <1>1, <1>8
  <2>6. a.cells[n + 1] = arr.cells[n + 1]
    BY <1>2, <2>3, <2>5
  <2> QED  BY <1>1, <2>1, <2>3, <2>4, <2>6 DEF Keeping, IsString, EndsInNul
<1> QED  BY <1>7, <1>8 DEF IsString

\* Part of s.
LEMMA PartOf ==
  ASSUME NEW s \in Seq(Held), NEW f \in Nat, NEW m \in Nat, f + m <= Len(s)
  PROVE  SubSeq(s, f + 1, f + m) \in Seq(Held) /\ Len(SubSeq(s, f + 1, f + m)) = m
<1>1. PICK c : c = SubSeq(s, f + 1, f + m)
  OBVIOUS
<1>2. c = [i \in 1..m |-> s[f + i]]
  <2>1. PICK g \in Nat, t \in Nat : g = f + 1 /\ t = f + m
    OBVIOUS
  <2>2. c = [i \in 1..((t - g) + 1) |-> s[(i + g) - 1]]
    BY <1>1, <2>1
  <2>3. (t - g) + 1 = m /\ \A i \in 1..m : (i + g) - 1 = f + i
    BY <2>1
  <2> QED  BY <2>2, <2>3
<1>3. \A i \in 1..m : s[f + i] \in Held
  <2>1. \A i \in 1..m : f + i \in 1..Len(s)
    OBVIOUS
  <2> QED  BY <2>1, ElementOfSeq
<1>4. c \in [1..m -> Held]
  BY <1>2, <1>3
<1> QED  BY <1>1, <1>4, ASequence

\* A slice that does not claim more than there is.
LEMMA SliceIs ==
  ASSUME NEW s \in Seq(Held), NEW start \in Nat, NEW n \in Nat, SliceInside(s, start, n)
  PROVE  Slice(s, start, n) \in Seq(Held)
<1>1. PICK k \in Nat : k = Len(s)
  OBVIOUS
<1>2. PICK f \in Nat : f = Least(start, k)
  BY DEF Least
<1>3. PICK m \in Nat : m = SliceSize(s, start, n)
  <2>1. SliceSize(s, start, n) = IF start >= k THEN 0 ELSE IF n > k + start THEN k - start ELSE n
    BY <1>1 DEF SliceSize
  <2>2. (IF start >= k THEN 0 ELSE IF n > k + start THEN k - start ELSE n) \in Nat
    OBVIOUS
  <2> QED  BY <2>1, <2>2
<1>4. f + m <= k
  BY <1>1, <1>2, <1>3 DEF SliceInside
<1>5. SubSeq(s, f + 1, f + m) \in Seq(Held)
  BY <1>1, <1>4, PartOf
<1> QED  BY <1>1, <1>2, <1>3, <1>5 DEF Slice

\* substring into the string: beyond its end, and within it.
LEMMA SubstringEnds ==
  ASSUME IsString(arr), NEW p \in Seq(Held), NEW at \in Nat, NEW e \in Nat, e = at + Len(p), e >= arr.size
  PROVE  LET new == Put(WithRoom(e), at, p)
         IN  Keeping(Ended([new EXCEPT !.size = IF @ < e THEN e ELSE @]))
<1>1. PICK a : a = WithRoom(e)
  OBVIOUS
<1>2. HasMemory(a) /\ a.size = arr.size /\ a.reserved >= e + 1
  BY <1>1, RoomIs
<1>3. PICK b : b = Put(a, at, p)
  OBVIOUS
<1>4. HasMemory(b) /\ b.size = a.size /\ b.reserved = a.reserved
  <2>1. LET c == Put(a, at, p) IN HasMemory(c) /\ c.size = a.size /\ c.reserved = a.reserved
    BY <1>2, PutKeeps
  <2> QED  BY <1>3, <2>1
<1>5. (IF b.size < e THEN e ELSE b.size) = e /\ e < b.reserved
  BY <1>2, <1>4 DEF HasMemory
<1>6. LET c == Ended([b EXCEPT !.size = e])
      IN  HasMemory(c) /\ IsString(c) /\ EndsInNul(c) /\ c.size = e /\ c.reserved = b.reserved
  BY <1>4, <1>5, SizedEnded
<1>7. [b EXCEPT !.size = IF @ < e THEN e ELSE @] = [b EXCEPT !.size = e]
  BY <1>5
<1> QED  BY <1>1, <1>3, <1>6, <1>7 DEF Keeping

LEMMA SubstringInside ==
  ASSUME IsString(arr), NEW p \in Seq(Held), NEW at \in Nat, NEW e \in Nat, e = at + Len(p), e < arr.size
  PROVE  LET new == Put(arr, at, p)
         IN  Keeping([new EXCEPT !.size = IF @ < e THEN e ELSE @])
<1>1. arr.size \in Nat /\ arr.reserved \in Nat /\ arr.size <= arr.reserved
  BY StringIs
<1>2. arr.reserved > 0
  BY <1>1
<1>3. HasMemory(arr) /\ arr.size < arr.reserved
  BY <1>2, StringIs
<1>4. at + Len(p) <= arr.size
  BY <1>1
<1>5. PICK b : b = Put(arr, at, p)
  OBVIOUS
<1>6. HasMemory(b) /\ IsString(b) /\ b.size = arr.size /\ (EndsInNul(arr) => EndsInNul(b))
  <2>1. LET c == Put(arr, at, p)
        IN  HasMemory(c) /\ IsString(c) /\ c.size = arr.size /\ (EndsInNul(arr) => EndsInNul(c))
    BY <1>3, <1>4, PutInside
  <2> QED  BY <1>5, <2>1
<1>7. (IF b.size < e THEN e ELSE b.size) = b.size
  BY <1>1, <1>6
<1>8. b \in [data : {"live"}, cells : Seq(Held), size : Nat, reserved : Nat]
  BY <1>6 DEF HasMemory
<1>9. [b EXCEPT !.size = IF @ < e THEN e ELSE @] = b
  BY <1>7, <1>8
<1> QED  BY <1>5, <1>6, <1>9 DEF Keeping

\* The needle at i gives way to new.
LEMMA SplicedIs ==
  ASSUME IsString(arr), NEW needle \in Seq(Held), NEW new \in Seq(Held), NEW i \in Nat,
         i + Len(needle) <= arr.size, Len(needle) > 0
  PROVE  Keeping(Spliced(i, needle, new))
<1>1. PICK m \in Nat, r \in Nat : m = arr.size /\ r = arr.reserved /\ m <= r
  BY StringIs
<1>2. PICK x \in Nat, y \in Nat : x = Len(needle) /\ y = Len(new)
  OBVIOUS
<1>3. r > 0
  BY <1>1, <1>2
<1>4. HasMemory(arr) /\ m < r
  BY <1>1, <1>3, StringIs
<1>5. PICK e \in Nat : e = (m + y) - x
  BY <1>1, <1>2
<1>6. CASE x = y
  <2>1. i + Len(new) <= arr.size /\ arr.size < arr.reserved
    BY <1>1, <1>2, <1>4, <1>6
  <2>2. LET c == Put(arr, i, new)
        IN  HasMemory(c) /\ IsString(c) /\ c.size = arr.size /\ (EndsInNul(arr) => EndsInNul(c))
    BY <1>4, <2>1, PutInside
  <2>3. Spliced(i, needle, new) = Put(arr, i, new)
    BY <1>2, <1>6 DEF Spliced
  <2> QED  BY <2>2, <2>3 DEF Keeping
<1>7. CASE x # y
  <2>1. PICK a : a = IF x < y THEN WithRoom(e) ELSE arr
    OBVIOUS
  <2>2. HasMemory(a) /\ a.size = m /\ e < a.reserved /\ m <= a.reserved /\ a.reserved \in Nat
    <3>1. CASE x < y
      <4>1. PICK b : b = WithRoom(e)
        OBVIOUS
      <4>2. HasMemory(b) /\ b.size = m /\ b.reserved >= e + 1 /\ b.reserved >= r
        BY <1>1, <4>1, RoomIs
      <4>3. b.reserved \in Nat
        BY <4>2 DEF HasMemory
      <4>4. a = b
        BY <2>1, <3>1, <4>1
      <4> QED  BY <1>1, <4>2, <4>3, <4>4
    <3>2. CASE ~(x < y)
      <4>1. a = arr
        BY <2>1, <3>2
      <4>2. e < r
        BY <1>4, <1>5, <1>2, <3>2
      <4> QED  BY <1>1, <1>4, <4>1, <4>2
    <3> QED  BY <3>1, <3>2
  <2>3. PICK f \in Nat, t \in Nat, k \in Nat : f = i + x /\ t = i + y /\ k = (m - i) - x
    BY <1>1, <1>2
  <2>4. PICK b : b = Shifted(a, f, t, k)
    OBVIOUS
  <2>5. HasMemory(b) /\ b.reserved = a.reserved
    <3>1. f + k <= a.reserved
      BY <2>2, <2>3, <1>1
    <3>2. HasMemory(a)
      BY <2>2
    <3>3. LET c == Shifted(a, f, t, k) IN HasMemory(c) /\ c.size = a.size /\ c.reserved = a.reserved
      BY <3>1, <3>2, ShiftedKeeps
    <3> QED  BY <2>4, <3>3
  <2>6. PICK c : c = Ended([b EXCEPT !.size = e])
    OBVIOUS
  <2>7. HasMemory(c) /\ EndsInNul(c) /\ c.size = e /\ c.reserved = b.reserved
    <3>1. e < b.reserved
      BY <2>2, <2>5
    <3>2. LET d == Ended([b EXCEPT !.size = e])
          IN  HasMemory(d) /\ IsString(d) /\ EndsInNul(d) /\ d.size = e /\ d.reserved = b.reserved
      BY <2>5, <3>1, SizedEnded
    <3> QED  BY <2>6, <3>2
  <2>8. LET d == Put(c, i, new)
        IN  HasMemory(d) /\ IsString(d) /\ d.size = c.size /\ (EndsInNul(c) => EndsInNul(d))
    <3>1. c.size < c.reserved
      BY <2>2, <2>5, <2>7
    <3>2. i + Len(new) <= c.size
      BY <1>1, <1>2, <1>5, <2>7
    <3> QED  BY <2>7, <3>1, <3>2, PutInside
  <2>9. Spliced(i, needle, new) = Put(c, i, new)
    <3>1. Len(needle) # Len(new)
      BY <1>2, <1>7
    <3>2. Spliced(i, needle, new) =
            Put(Ended([Shifted(IF Len(needle) < Len(new) THEN WithRoom(arr.size + Len(new) - Len(needle)) ELSE arr,
                               i + Len(needle), i + Len(new), arr.size - i - Len(needle))
                         EXCEPT !.size = arr.size + Len(new) - Len(needle)]), i, new)
      BY <3>1 DEF Spliced
    <3>3. e = arr.size + Len(new) - Len(needle)
      <4>1. arr.size = m /\ Len(new) = y /\ Len(needle) = x
        BY <1>1, <1>2
      <4>2. e = m + y - x
        BY <1>5
      <4> QED  BY <4>1, <4>2
    <3>4. f = i + Len(needle) /\ t = i + Len(new)
      BY <1>2, <2>3
    <3>5. k = arr.size - i - Len(needle)
      BY <1>1, <1>2, <2>3
    <3>6. a = IF Len(needle) < Len(new) THEN WithRoom(arr.size + Len(new) - Len(needle)) ELSE arr
      BY <1>2, <2>1, <3>3
    <3>7. Spliced(i, needle, new) = Put(Ended([Shifted(a, f, t, k) EXCEPT !.size = e]), i, new)
      BY <3>2, <3>6, <3>3, <3>4, <3>5
    <3> QED  BY <2>4, <2>6, <3>7
  <2> QED  BY <2>7, <2>8, <2>9 DEF Keeping
<1> QED  BY <1>6, <1>7

\* What a search finds lies within the string.
LEMMA FoundIs ==
  ASSUME NEW s \in Seq(Held), NEW needle \in Seq(Held), NEW at \in Nat, needle # << >>,
         IndexOf(s, needle, at) >= 0
  PROVE  IndexOf(s, needle, at) \in Nat /\ IndexOf(s, needle, at) + Len(needle) <= Len(s)
<1>1. PICK n \in Nat, m \in Nat : n = Len(s) /\ m = Len(needle)
  OBVIOUS
<1>2. PICK P : P = Matches(s, needle)
  OBVIOUS
<1>3. IndexOf(s, needle, at) = FirstFrom(at, n - 1, P)
  <2>1. ~(at < 0) /\ ~(-1 >= 0)
    OBVIOUS
  <2> QED  BY <1>1, <1>2, <2>1 DEF IndexOf
<1>4. PICK S : S = {i \in at..(n - 1) : P[i]}
  OBVIOUS
<1>5. FirstFrom(at, n - 1, P) = IF S = {} THEN -1 ELSE CHOOSE i \in S : \A j \in S : i <= j
  BY <1>4 DEF FirstFrom
<1>6. S # {}
  BY <1>3, <1>5
<1>7. S \in SUBSET Nat
  BY <1>1, <1>4
<1>8. \E i \in S : \A j \in S : i <= j
  BY <1>6, <1>7, LeastExists
<1>9. PICK i \in S : i = IndexOf(s, needle, at)
  BY <1>3, <1>5, <1>6, <1>8
<1>10. i \in 0..n /\ P[i]
  BY <1>1, <1>4, <1>9
<1>11. i + m <= n
  BY <1>1, <1>2, <1>10 DEF Matches
<1> QED  BY <1>1, <1>9, <1>10, <1>11

LEMMA UnitsAre ==
  ASSUME IsString(arr)
  PROVE  /\ Now \in Seq(Held) /\ Len(Now) = arr.size
         /\ \A i \in 1..arr.size : Now[i] = arr.cells[i]
<1>1. PICK n \in Nat, r \in Nat : n = arr.size /\ r = arr.reserved /\ n <= r /\ r = Len(arr.cells)
                                  /\ arr.cells \in Seq(Held)
  BY StringIs
<1>2. PICK c : c = [i \in 1..n |-> IF arr.data = "live" THEN arr.cells[i] ELSE ArrayUnset]
  OBVIOUS
<1>3. \A i \in 1..n : arr.cells[i] \in Held /\ arr.data = "live"
  <2>1. ASSUME NEW i \in 1..n PROVE arr.cells[i] \in Held /\ arr.data = "live"
    <3>1. i \in 1..Len(arr.cells)
      BY <1>1
    <3>2. r > 0
      BY <1>1
    <3>3. HasMemory(arr)
      BY <1>1, <3>2, StringIs
    <3> QED  BY <1>1, <3>1, <3>3, ElementOfSeq DEF HasMemory
  <2> QED  BY <2>1
<1>4. c \in [1..n -> Held] /\ \A i \in 1..n : c[i] = arr.cells[i]
  BY <1>2, <1>3
<1>5. c \in Seq(Held) /\ Len(c) = n
  BY <1>4, ASequence
<1>6. Now = c
  BY <1>1, <1>2 DEF Now, ArrayItems
<1> QED  BY <1>1, <1>4, <1>5, <1>6

\* A found needle that is replaced.
LEMMA ReplacedIs ==
  ASSUME IsString(arr), NEW needle \in Seq(Held), NEW new \in Seq(Held), NEW at \in Nat,
         NEW i, i = Found(needle, at), ~(i < 0)
  PROVE  i \in Nat /\ Keeping(Spliced(i, needle, new))
<1>1. needle # << >> /\ i = IndexOf(Now, needle, at)
  <2>1. -1 < 0
    OBVIOUS
  <2> QED  BY <2>1 DEF Found
<1>2. Now \in Seq(Held) /\ Len(Now) = arr.size
  BY UnitsAre
<1>3. PICK s \in Seq(Held) : s = Now
  BY <1>2
<1>4. IndexOf(s, needle, at) \in Int
  <2>1. Len(s) \in Nat
    OBVIOUS
  <2>2. \A P : FirstFrom(at, Len(s) - 1, P) \in Int
    <3>1. ASSUME NEW P PROVE FirstFrom(at, Len(s) - 1, P) \in Int
      <4>1. PICK S : S = {k \in at..(Len(s) - 1) : P[k]}
        OBVIOUS
      <4>2. FirstFrom(at, Len(s) - 1, P) = IF S = {} THEN -1 ELSE CHOOSE k \in S : \A j \in S : k <= j
        BY <4>1 DEF FirstFrom
      <4>3. S \in SUBSET Nat
        BY <2>1, <4>1
      <4>4. S # {} => \E k \in S : \A j \in S : k <= j
        BY <4>3, LeastExists
      <4>5. S # {} => (CHOOSE k \in S : \A j \in S : k <= j) \in Nat
        BY <4>3, <4>4
      <4> QED  BY <4>2, <4>5
    <3> QED  BY <3>1
  <2> QED  BY <2>2 DEF IndexOf
<1>5. IndexOf(s, needle, at) >= 0
  BY <1>1, <1>3, <1>4
<1>6. i \in Nat /\ i + Len(needle) <= Len(s)
  BY <1>1, <1>3, <1>5, FoundIs
<1>7. Len(needle) > 0
  BY <1>1, EmptySeq
<1>8. i + Len(needle) <= arr.size
  BY <1>2, <1>3, <1>6
<1> QED  BY <1>6, <1>7, <1>8, SplicedIs

\* Of what one and two are the members.
LEMMA PairIs ==
  ASSUME NEW r, \A x \in r : x = 1 \/ x = 2, r # {}
  PROVE  /\ Max(r) = IF 2 \in r THEN 2 ELSE 1
         /\ 2 \notin r => r \ {1} = {}
         /\ 2 \in r /\ 1 \in r => r \ {2} = {1}
         /\ 1 \notin r => r \ {2} = {}
<1>1. \A x \in r : x = 1 \/ x = 2
  OBVIOUS
<1>2. 2 \in r => Max(r) = 2
  <2>1. 2 \in r => 2 \in r /\ (\A y \in r : 2 >= y) /\ \A x \in r : (\A y \in r : x >= y) => x = 2
    BY <1>1
  <2> QED  BY <2>1, Zenon DEF Max
<1>3. PICK x \in r : TRUE
  BY <1>1
<1>4. 2 \notin r => 1 \in r /\ \A y \in r : y = 1
  BY <1>1, <1>3
<1>5. 2 \notin r => Max(r) = 1
  <2>1. 2 \notin r => 1 \in r /\ (\A y \in r : 1 >= y) /\ \A y \in r : y = 1
    BY <1>4
  <2> QED  BY <2>1, Zenon DEF Max
<1>6. 2 \notin r => r \ {1} = {}
  BY <1>4
<1>7. 2 \in r /\ 1 \in r => r \ {2} = {1}
  BY <1>1
<1>8. 1 \notin r => r \ {2} = {}
  BY <1>1
<1> QED  BY <1>2, <1>5, <1>6, <1>7, <1>8

\* Joining two strings puts the delimiter between them.
LEMMA JoinedTwo ==
  ASSUME NEW S, NEW s \in Seq(S), NEW t \in Seq(S), NEW d \in Seq(S)
  PROVE  JoinPieces(<<s, t>>, d) = s \o d \o t
<1> DEFINE P == <<s, t>>
           op(a, i) == a \o (IF i = 1 THEN <<>> ELSE d) \o P[i]
           q == [i \in 1..Len(P) |-> i]
           Step(f) == [r \in SUBSET (DOMAIN q) |->
                         IF r = {} THEN <<>> ELSE op(f[r \ {Max(r)}], q[Max(r)])]
           iter == CHOOSE f : f = Step(f)
<1>1. JoinPieces(P, d) = FoldLeft(op, <<>>, q)
  BY DEF JoinPieces
<1>2. FoldLeft(op, <<>>, q) = iter[DOMAIN q]
  BY Zenon DEF FoldLeft, MapThenFoldSet
<1>3. q = [i \in {1, 2} |-> i] /\ DOMAIN q = {1, 2}
  OBVIOUS
<1>4. ASSUME NEW r \in SUBSET {1, 2}
      PROVE  (\A x \in r : x = 1 \/ x = 2) /\ (r # {} => Max(r) = IF 2 \in r THEN 2 ELSE 1)
  <2>1. \A x \in r : x = 1 \/ x = 2
    OBVIOUS
  <2> QED  BY <2>1, PairIs
<1> HIDE DEF op, q
<1> DEFINE a1 == op(<<>>, 1)
           g == [r \in SUBSET {1, 2} |->
                   IF r = {} THEN <<>> ELSE IF 2 \notin r THEN a1
                   ELSE IF 1 \in r THEN op(a1, 2) ELSE op(<<>>, 2)]
<1>5. g = Step(g)
  <2>1. ASSUME NEW r \in SUBSET {1, 2}
        PROVE  g[r] = IF r = {} THEN <<>> ELSE op(g[r \ {Max(r)}], q[Max(r)])
    <3>1. CASE r = {}
      BY <3>1
    <3>2. CASE r # {} /\ 2 \notin r
      <4>1. Max(r) = 1 /\ r \ {1} = {}
        BY <1>4, <3>2, PairIs
      <4>2. q[1] = 1
        BY <1>3
      <4>3. g[{}] = <<>> /\ g[r] = a1
        BY <3>2
      <4> QED  BY <3>2, <4>1, <4>2, <4>3
    <3>3. CASE 2 \in r
      <4>1. Max(r) = 2
        BY <1>4, <3>3
      <4>2. q[2] = 2
        BY <1>3
      <4>3. CASE 1 \in r
        <5>1. r \ {2} = {1}
          BY <1>4, <3>3, <4>3, PairIs
        <5>2. g[{1}] = a1
          OBVIOUS
        <5> QED  BY <3>3, <4>1, <4>2, <4>3, <5>1, <5>2
      <4>4. CASE 1 \notin r
        <5>1. r \ {2} = {}
          BY <1>4, <3>3, <4>4, PairIs
        <5>2. g[{}] = <<>>
          OBVIOUS
        <5> QED  BY <3>3, <4>1, <4>2, <4>4, <5>1, <5>2
      <4> QED  BY <4>3, <4>4
    <3> QED  BY <3>1, <3>2, <3>3
  <2> QED  BY <1>3, <2>1
<1>6. iter = Step(iter)
  BY <1>5
<1> HIDE DEF iter, g
<1>7. \A r \in SUBSET {1, 2} : iter[r] = IF r = {} THEN <<>> ELSE op(iter[r \ {Max(r)}], q[Max(r)])
  BY <1>3, <1>6
<1>8. iter[{}] = <<>>
  BY <1>7
<1>9. iter[{1}] = op(<<>>, 1)
  <2>1. Max({1}) = 1 /\ {1} \ {1} = {} /\ q[1] = 1
    BY <1>3, <1>4
  <2>2. iter[{1}] = op(iter[{1} \ {Max({1})}], q[Max({1})])
    BY <1>7
  <2> QED  BY <1>8, <2>1, <2>2
<1>10. iter[{1, 2}] = op(op(<<>>, 1), 2)
  <2>1. Max({1, 2}) = 2 /\ {1, 2} \ {2} = {1} /\ q[2] = 2
    BY <1>3, <1>4
  <2>2. iter[{1, 2}] = op(iter[{1, 2} \ {Max({1, 2})}], q[Max({1, 2})])
    BY <1>7
  <2> QED  BY <1>9, <2>1, <2>2
<1>11. op(<<>>, 1) = s /\ op(s, 2) = s \o d \o t
  <2>1. P[1] = s /\ P[2] = t
    OBVIOUS
  <2>2. op(<<>>, 1) = << >> \o << >> \o s
    BY <2>1 DEF op
  <2>3. << >> \o << >> = << >> /\ << >> \o s = s
    BY ConcatEmptySeq
  <2>4. op(s, 2) = s \o d \o t
    BY <2>1 DEF op
  <2> QED  BY <2>2, <2>3, <2>4
<1> QED  BY <1>1, <1>2, <1>3, <1>10, <1>11

LEMMA ValueIs ==
  ASSUME NEW name
  PROVE  EnvironmentValue(name) \in Seq(Held)
<1>1. Environ \in Seq([name : Seq(Held), value : Seq(Held)])
  BY StringAssumption DEF Held
<1> DEFINE fits == {i \in 1..Len(Environ) :
                 /\ Len(Environ[i].name) = Len(name)
                 /\ Compare(SubSeq(Environ[i].name, 1, Len(name) - 1),
                            SubSeq(name, 1, Len(name) - 1), Len(name) - 1) = 0}
<1>2. fits \subseteq 1..Len(Environ)
  OBVIOUS
<1>3. EnvironmentValue(name) = IF name = <<>> \/ fits = {} THEN <<>>
                               ELSE Environ[CHOOSE i \in fits : \A j \in fits : i <= j].value
  BY Zenon DEF EnvironmentValue
<1> HIDE DEF fits
<1>4. CASE name = <<>> \/ fits = {}
  BY <1>3, <1>4
<1>5. CASE name # <<>> /\ fits # {}
  <2>1. fits \subseteq 1..Len(Environ) /\ Len(Environ) \in Nat
    BY <1>1, <1>2
  <2>2. fits \in SUBSET Nat /\ fits # {}
    BY <1>5, <2>1
  <2>3. PICK k \in fits : k = CHOOSE i \in fits : \A j \in fits : i <= j
    BY <2>2, LeastExists
  <2>4. Environ[k] \in [name : Seq(Held), value : Seq(Held)]
    BY <1>1, <2>1, <2>3, ElementOfSeq
  <2> QED  BY <1>3, <1>5, <2>3, <2>4
<1> QED  BY <1>4, <1>5

\* A value in the place of the variable whose reference ends at end: it stays a
\* string, and keeps its Nul if the value is no longer than the reference.
LEMMA ResolvedIs ==
  ASSUME IsString(arr), NEW i \in Nat, NEW end \in Nat, i < end, end <= arr.size, NEW value \in Seq(Held)
  PROVE  /\ IsString(Resolved(i, end, value))
         /\ Len(value) <= end - i /\ EndsInNul(arr) => EndsInNul(Resolved(i, end, value))
<1>1. PICK m \in Nat, r \in Nat : m = arr.size /\ r = arr.reserved /\ m <= r
  BY StringIs
<1>2. HasMemory(arr) /\ m < r
  <2>1. arr.reserved > 0
    BY <1>1
  <2> QED  BY <1>1, <2>1, StringIs
<1>3. PICK by \in Int : by = Len(value) - (end - i)
  <2>1. PICK v \in Nat : v = Len(value)
    OBVIOUS
  <2>2. v - (end - i) \in Int
    OBVIOUS
  <2> QED  BY <2>1, <2>2
<1>4. PICK e \in Nat, t \in Nat, k \in Nat : e = m + by /\ t = end + by /\ k = m - end
  BY <1>1, <1>3
<1>5. PICK a : a = IF by > 0 THEN WithRoom(e) ELSE arr
  OBVIOUS
<1>6. /\ HasMemory(a) /\ a.size = m /\ e < a.reserved /\ m < a.reserved
      /\ by <= 0 => a = arr
  <2>1. CASE by > 0
    <3>1. PICK b : b = WithRoom(e)
      OBVIOUS
    <3>2. HasMemory(b) /\ b.size = m /\ b.reserved >= e + 1 /\ b.reserved >= r
      BY <1>1, <3>1, RoomIs
    <3>3. b.reserved \in Nat
      BY <3>2 DEF HasMemory
    <3>4. a = b /\ ~(by <= 0)
      BY <1>5, <2>1, <3>1
    <3> QED  BY <1>1, <1>2, <3>2, <3>3, <3>4
  <2>2. CASE ~(by > 0)
    <3>1. a = arr
      BY <1>5, <2>2
    <3>2. e <= m
      BY <1>4, <2>2
    <3> QED  BY <1>1, <1>2, <3>1, <3>2
  <2> QED  BY <2>1, <2>2
<1>7. PICK b : b = Shifted(a, end, t, k)
  OBVIOUS
<1>8. /\ HasMemory(b) /\ b.size = m /\ b.reserved = a.reserved
      /\ \A j \in 1..a.reserved :
           b.cells[j] = IF j \in (t + 1)..(t + k) THEN a.cells[(j - t) + end] ELSE a.cells[j]
  <2>1. a.reserved \in Nat
    BY <1>6 DEF HasMemory
  <2>2. end + k <= a.reserved
    <3>1. m < a.reserved
      BY <1>6
    <3> QED  BY <1>1, <1>4, <2>1, <3>1
  <2>3. HasMemory(a)
    BY <1>6
  <2>4. IsShifted(b, a, end, t, k)
    BY <1>7, <2>2, <2>3, ShiftedIs
  <2> QED  BY <1>6, <2>4 DEF IsShifted
<1>9. PICK zeros : zeros = [j \in 1..(-by) |-> Nul]
  OBVIOUS
<1>10. PICK c : c = IF by >= 0 THEN b ELSE Put(b, e, zeros)
  OBVIOUS
<1>11. /\ HasMemory(c) /\ c.reserved = a.reserved
       /\ by < 0 => c.cells[e + 1] = Nul
       /\ by >= 0 => c = b
  <2>1. CASE by >= 0
    BY <1>8, <1>10, <2>1
  <2>2. CASE by < 0
    <3>1. PICK n \in Nat : n = -by /\ n > 0
      BY <2>2
    <3>2. zeros \in [1..n -> Held]
      BY <1>9, <3>1 DEF Held
    <3>3. zeros \in Seq(Held) /\ Len(zeros) = n
      BY <3>2, ASequence
    <3>5. c = Put(b, e, zeros)
      BY <1>10, <2>2
    <3>4. /\ HasMemory(c) /\ c.size = b.size /\ c.reserved = b.reserved
          /\ \A j \in 1..b.reserved :
               c.cells[j] = IF j \in (e + 1)..(e + Len(zeros)) THEN zeros[j - e] ELSE b.cells[j]
      <4>1. HasMemory(b)
        BY <1>8
      <4>2. IsPut(c, b, e, zeros)
        BY <3>3, <3>5, <4>1, PutIs
      <4> QED  BY <4>2 DEF IsPut
    <3>6. b.reserved \in Nat
      BY <1>8 DEF HasMemory
    <3>7. e + 1 \in 1..b.reserved /\ e + 1 \in (e + 1)..(e + Len(zeros)) /\ (e + 1) - e = 1
      BY <1>6, <1>8, <3>1, <3>3, <3>6
    <3>8. zeros[1] = Nul
      BY <1>9, <3>1
    <3>9. c.cells[e + 1] = Nul
      BY <3>4, <3>7, <3>8
    <3> QED  BY <1>8, <2>2, <3>4, <3>9
  <2> QED  BY <2>1, <2>2
<1>12. PICK d : d = [c EXCEPT !.size = e]
  OBVIOUS
<1>13. HasMemory(d) /\ d.size = e /\ d.reserved = a.reserved /\ d.cells = c.cells
  BY <1>11, <1>12, SizedIs
<1>14. Resolved(i, end, value) = Put(d, i, value)
  <2>1. by = Len(value) - (end - i)
    BY <1>3
  <2>2. e = arr.size + by
    BY <1>1, <1>4
  <2>3. t = end + by
    BY <1>4
  <2>4. k = arr.size - end
    BY <1>1, <1>4
  <2>5. Resolved(i, end, value) =
          Put([(IF by >= 0 THEN Shifted(IF by > 0 THEN WithRoom(arr.size + by) ELSE arr, end, end + by, arr.size - end)
                ELSE Put(Shifted(IF by > 0 THEN WithRoom(arr.size + by) ELSE arr, end, end + by, arr.size - end),
                         arr.size + by, [j \in 1..(-by) |-> Nul])) EXCEPT !.size = arr.size + by], i, value)
    BY <2>1 DEF Resolved
  <2>6. Resolved(i, end, value) =
          Put([(IF by >= 0 THEN Shifted(a, end, t, k) ELSE Put(Shifted(a, end, t, k), e, zeros))
                 EXCEPT !.size = e], i, value)
    BY <1>5, <1>9, <2>2, <2>3, <2>4, <2>5
  <2> QED  BY <1>7, <1>10, <1>12, <2>6
<1>15. LET f == Put(d, i, value)
       IN  IsString(f) /\ (EndsInNul(d) => EndsInNul(f))
  <2>1. d.size < d.reserved
    BY <1>6, <1>13
  <2>2. i + Len(value) <= d.size
    <3>1. i + Len(value) <= e
      BY <1>1, <1>3, <1>4
    <3>2. d.size = e
      BY <1>13
    <3> QED  BY <3>1, <3>2
  <2>3. HasMemory(d)
    BY <1>13
  <2> QED  BY <2>1, <2>2, <2>3, PutInside
<1>16. ASSUME by <= 0, EndsInNul(arr) PROVE EndsInNul(d)
  <2>1. CASE by < 0
    BY <1>11, <1>13, <2>1 DEF EndsInNul
  <2>2. CASE by = 0
    <3>1. e = m /\ t = end /\ t + k = m
      BY <1>1, <1>4, <2>2
    <3>2. c = b /\ a = arr
      BY <1>6, <1>11, <2>2
    <3>3. m + 1 \in 1..r /\ ~(m + 1 \in (t + 1)..(t + k))
      BY <1>2, <3>1
    <3>4. b.cells[m + 1] = arr.cells[m + 1]
      BY <1>1, <1>8, <3>2, <3>3
    <3> QED  BY <1>1, <1>13, <1>16, <3>1, <3>2, <3>4 DEF EndsInNul
  <2> QED  BY <1>16, <2>1, <2>2
<1>17. Len(value) <= end - i => by <= 0
  BY <1>3
<1> QED  BY <1>14, <1>15, <1>16, <1>17

\* The record of the operation that is under way.
ScanIs ==
  /\ scan \in [op : {"none", "replace_all", "resolve"}, at : Nat, s : {scan.s}, from : {scan.from},
               orig : {scan.orig}, long : BOOLEAN]
  /\ scan.op = "replace_all" => scan.s[1] \in Seq(Held) /\ scan.s[2] \in Seq(Held)

\* The string is one at every moment, also while a loop is at work on it, and has its
\* Nul unless a value was ever longer than its reference.
StringInv == IsString(arr) /\ (~scan.long => EndsInNul(arr)) /\ ScanIs

LEMMA StringBegins == StringInit => StringInv
<1> SUFFICES ASSUME StringInit PROVE StringInv
  OBVIOUS
<1>1. arr = NoArray /\ scan = NoScan
  BY DEF StringInit, ArrayInit
<1>2. IsString(arr) /\ EndsInNul(arr)
  BY <1>1 DEF IsString, EndsInNul, NoArray
<1>3. ScanIs
  BY <1>1 DEF ScanIs, NoScan
<1> QED  BY <1>2, <1>3 DEF StringInv

LEMMA SameScan == UNCHANGED scan /\ ScanIs => ScanIs'
BY DEF ScanIs

\* A call that leaves new, or the string as it was.
LEMMA LeavesKeep ==
  ASSUME StringInv, NEW new, UNCHANGED scan, Keeps(new), Keeping(new)
  PROVE  StringInv'
<1>1. arr' = new
  BY DEF Keeps
<1>2. IsString(arr') /\ (EndsInNul(arr) => EndsInNul(arr'))
  BY <1>1 DEF Keeping
<1> QED  BY <1>2, SameScan DEF StringInv, IsString, EndsInNul

LEMMA SameKeeps == IsString(arr) => Keeping(arr)
BY DEF Keeping

LEMMA FaultsKeep == StringInv /\ Faults /\ UNCHANGED scan => StringInv'
BY SameScan DEF StringInv, Faults, IsString, EndsInNul

LEMMA CallsKeep ==
  ASSUME StringInv, NEW op, NEW at, NEW n, NEW s, NEW room, NEW new, Calls(op, at, n, s, room, new),
         new.data = "live" => Keeping(new)
  PROVE  StringInv'
<1>1. UNCHANGED scan
  BY DEF Calls
<1>2. (new.data = "live" /\ Keeps(new)) \/ Faults
  BY DEF Calls
<1> QED  BY <1>1, <1>2, LeavesKeep, FaultsKeep

\* A loop begins, ends, or goes on with what a round of it left.
LEMMA BeginsKeep ==
  ASSUME StringInv, NEW op \in {"replace_all", "resolve"}, NEW from \in Nat, NEW s, Begins(op, from, s),
         op = "replace_all" => s[1] \in Seq(Held) /\ s[2] \in Seq(Held)
  PROVE  StringInv'
<1>1. scan' = [op |-> op, at |-> from, s |-> s, from |-> from, orig |-> Now, long |-> scan.long]
      /\ UNCHANGED arr
  BY DEF Begins
<1>2. scan.long \in BOOLEAN
  BY DEF StringInv, ScanIs
<1>3. scan'.long = scan.long /\ ScanIs'
  BY <1>1, <1>2 DEF ScanIs
<1> QED  BY <1>1, <1>3 DEF StringInv, IsString, EndsInNul

LEMMA FinishesKeep ==
  ASSUME StringInv, NEW op, Finishes(op)
  PROVE  StringInv'
<1>1. scan' = [NoScan EXCEPT !.long = scan.long] /\ UNCHANGED arr
  BY DEF Finishes
<1>2. scan.long \in BOOLEAN
  BY DEF StringInv, ScanIs
<1>3. scan'.long = scan.long /\ ScanIs'
  BY <1>1, <1>2 DEF ScanIs, NoScan
<1> QED  BY <1>1, <1>3 DEF StringInv, IsString, EndsInNul

LEMMA ProceedsKeep ==
  ASSUME StringInv, NEW at \in Nat, NEW room \in Nat, NEW new, Proceeds(at, room, new), IsString(new),
         ~(scan.op = "resolve" /\ room > 0) /\ EndsInNul(arr) => EndsInNul(new)
  PROVE  StringInv'
<1>1. CASE Faults /\ UNCHANGED scan
  BY <1>1, FaultsKeep
<1>2. CASE Keeps(new)
           /\ scan' = [scan EXCEPT !.at = at, !.long = @ \/ (scan.op = "resolve" /\ room > 0)]
  <2>1. arr' = new
    BY <1>2 DEF Keeps
  <2>2. PICK l \in BOOLEAN : l = (scan.op = "resolve" /\ room > 0)
    OBVIOUS
  <2>3. PICK o \in BOOLEAN : o = scan.long
    BY DEF StringInv, ScanIs
  <2>4. scan' = [op |-> scan.op, at |-> at, s |-> scan.s, from |-> scan.from, orig |-> scan.orig,
                 long |-> o \/ l]
    BY <1>2, <2>2, <2>3 DEF StringInv, ScanIs
  <2>5. scan'.long = (o \/ l) /\ scan'.s = scan.s /\ scan'.op = scan.op /\ scan'.at = at
        /\ scan'.from = scan.from /\ scan'.orig = scan.orig
    BY <2>4
  <2>6. ScanIs'
    BY <2>4, <2>5 DEF StringInv, ScanIs
  <2>7. ~scan'.long => EndsInNul(new)
    BY <2>2, <2>3, <2>5 DEF StringInv
  <2> QED  BY <2>1, <2>6, <2>7 DEF StringInv, IsString, EndsInNul
<1> QED  BY <1>1, <1>2 DEF Proceeds

LEMMA NoMemoryKeeps == Keeping(NoArray)
BY DEF Keeping, IsString, EndsInNul, NoArray

LEMMA SizedKeeps ==
  ASSUME StringInv, NEW n \in Nat, StringInitSized(n) \/ StringReserve(n)
  PROVE  StringInv'
<1>1. CASE StringInitSized(n)
  <2>1. PICK s : s = [i \in 1..n |-> ArrayUnset]
    OBVIOUS
  <2>2. s \in [1..n -> Held]
    BY <2>1 DEF Held, Contents
  <2>3. s \in Seq(Held) /\ Len(s) = n
    BY <2>2, ASequence
  <2>4. PICK new : new = [data |-> "live", size |-> n, reserved |-> n + 1, cells |-> s \o <<Nul>>]
    OBVIOUS
  <2>5. Keeping(new)
    BY <2>3, <2>4, NewIs
  <2>6. Calls("sized", 0, n, <<>>, n, new)
    BY <1>1, <2>1, <2>4 DEF StringInitSized
  <2> QED  BY <2>5, <2>6, CallsKeep
<1>2. CASE StringReserve(n)
  <2>1. PICK a : a = WithRoom(n)
    OBVIOUS
  <2>2. IsString(arr)
    BY DEF StringInv
  <2>3. Keeping(a)
    <3>1. HasMemory(a) /\ IsString(a) /\ a.size = arr.size
          /\ \A j \in 1..arr.reserved : a.cells[j] = arr.cells[j]
      BY <2>1, <2>2, RoomIs
    <3>2. arr.size > 0 => arr.size + 1 \in 1..arr.reserved
      <4>1. arr.size \in Nat /\ arr.reserved \in Nat /\ arr.size <= arr.reserved
        BY <2>2, StringIs
      <4>2. arr.reserved > 0 => arr.size < arr.reserved
        BY <2>2, StringIs
      <4> QED  BY <4>1, <4>2
    <3> QED  BY <3>1, <3>2 DEF Keeping, EndsInNul
  <2>4. UNCHANGED scan /\ (Keeps(a) \/ Keeps(arr))
    BY <1>2, <2>1 DEF StringReserve
  <2> QED  BY <2>2, <2>3, <2>4, LeavesKeep, SameKeeps
<1> QED  BY <1>1, <1>2

\* The calls that are given one string.
LEMMA GivenKeeps ==
  ASSUME StringInv, NEW s \in Seq(Held),
         StringInitFrom(s) \/ StringSet(s) \/ StringAppend(s) \/ StringPrepend(s)
  PROVE  StringInv'
<1>1. IsString(arr)
  BY DEF StringInv
<1>2. CASE StringInitFrom(s)
  <2>1. PICK n \in Nat : n = Len(s)
    OBVIOUS
  <2>2. PICK new : new = [data |-> "live", size |-> n, reserved |-> n + 1, cells |-> s \o <<Nul>>]
    OBVIOUS
  <2>3. Keeping(new)
    BY <2>1, <2>2, NewIs
  <2>4. Calls("set", 0, 0, s, n, new)
    BY <1>2, <2>1, <2>2 DEF StringInitFrom
  <2> QED  BY <2>3, <2>4, CallsKeep
<1>3. CASE StringSet(s)
  <2>1. PICK new : new = Ended(Put([WithRoom(Len(s)) EXCEPT !.size = Len(s)], 0, s))
    OBVIOUS
  <2>2. Keeping(new)
    BY <1>1, <2>1, SetIs
  <2>3. Calls("set", 0, 0, s, Len(s), new)
    BY <1>3, <2>1 DEF StringSet
  <2> QED  BY <2>2, <2>3, CallsKeep
<1>4. CASE StringAppend(s)
  <2>1. PICK new : new = Ended(Put([WithRoom(Extra(Len(s))) EXCEPT !.size = @ + Len(s)], arr.size, s))
    OBVIOUS
  <2>2. Keeping(new)
    BY <1>1, <2>1, AppendIs
  <2>3. (UNCHANGED scan /\ Keeps(arr)) \/ Calls("append", 0, 0, s, Extra(Len(s)), new)
    BY <1>4, <2>1 DEF StringAppend
  <2> QED  BY <1>1, <2>2, <2>3, CallsKeep, LeavesKeep, SameKeeps
<1>5. CASE StringPrepend(s)
  <2>1. Keeping(Prepended(s))
    BY <1>1, PrependIs
  <2>2. (UNCHANGED scan /\ Keeps(arr)) \/ Calls("prepend", 0, 0, s, Extra(Len(s)), Prepended(s))
    BY <1>5 DEF StringPrepend
  <2> QED  BY <1>1, <2>1, <2>2, CallsKeep, LeavesKeep, SameKeeps
<1> QED  BY <1>2, <1>3, <1>4, <1>5

LEMMA CopyKeeps ==
  ASSUME StringInv, NEW s \in Seq(Held), NEW n \in Nat, NEW at \in Nat, StringCopy(s, n, at)
  PROVE  StringInv'
<1>1. IsString(arr)
  BY DEF StringInv
<1>2. Keeping(Copied(s, n, at))
  BY <1>1, CopyIs
<1>3. (UNCHANGED scan /\ Keeps(arr)) \/ Calls("copy", at, n, s, at + Least(n, Len(s)), Copied(s, n, at))
  BY DEF StringCopy
<1> QED  BY <1>1, <1>2, <1>3, CallsKeep, LeavesKeep, SameKeeps

LEMMA SubstringKeeps ==
  ASSUME StringInv, NEW s \in Seq(Held), NEW start \in Nat, NEW n \in Nat, NEW at \in Nat,
         StringSubstring(s, start, n, at)
  PROVE  StringInv'
<1>1. IsString(arr)
  BY DEF StringInv
<1>2. CASE ~SliceInside(s, start, n)
  BY <1>2, FaultsKeep DEF StringSubstring
<1>3. CASE SliceInside(s, start, n)
  <2>1. PICK p \in Seq(Held) : p = Slice(s, start, n)
    BY <1>3, SliceIs
  <2>2. PICK e \in Nat : e = at + Len(p)
    OBVIOUS
  <2>3. arr.size \in Nat
    BY <1>1, StringIs
  <2>4. CASE e >= arr.size
    <3>1. PICK new : new = LET b == Put(WithRoom(e), at, p)
                           IN  Ended([b EXCEPT !.size = IF @ < e THEN e ELSE @])
      OBVIOUS
    <3>2. Keeping(new)
      BY <1>1, <2>2, <2>4, <3>1, SubstringEnds
    <3>3. Calls("copy", at, Len(p), p, e, new)
      BY <1>3, <2>1, <2>2, <2>4, <3>1 DEF StringSubstring
    <3> QED  BY <3>2, <3>3, CallsKeep
  <2>5. CASE ~(e >= arr.size)
    <3>1. PICK new : new = LET b == Put(arr, at, p)
                           IN  [b EXCEPT !.size = IF @ < e THEN e ELSE @]
      OBVIOUS
    <3>2. e < arr.size
      BY <2>3, <2>5
    <3>3. Keeping(new)
      BY <1>1, <2>2, <3>1, <3>2, SubstringInside
    <3>4. Calls("copy", at, Len(p), p, 0, new)
      BY <1>3, <2>1, <2>2, <2>5, <3>1 DEF StringSubstring
    <3> QED  BY <3>3, <3>4, CallsKeep
  <2> QED  BY <2>4, <2>5
<1> QED  BY <1>2, <1>3

LEMMA JoinKeeps ==
  ASSUME StringInv, NEW s \in Seq(Held), NEW t \in Seq(Held), NEW d \in Seq(Held),
         StringJoin(<<s, t>>, d) \/ StringJoin(<<>>, d)
  PROVE  StringInv'
<1>1. IsString(arr)
  BY DEF StringInv
<1>2. CASE StringJoin(<<s, t>>, d)
  <2>1. PICK all : all = JoinPieces(<<s, t>>, d)
    OBVIOUS
  <2>2. all \in Seq(Held)
    <3>1. all = s \o d \o t
      BY <2>1, JoinedTwo
    <3> QED  BY <3>1
  <2>3. PICK new : new = Ended(Put([WithRoom(Len(all)) EXCEPT !.size = Len(all)], 0, all))
    OBVIOUS
  <2>4. Keeping(new)
    BY <1>1, <2>2, <2>3, SetIs
  <2>5. PICK pieces : pieces = <<s, t>>
    OBVIOUS
  <2>6. (UNCHANGED scan /\ Keeps(arr)) \/ Calls("join", 0, 0, <<pieces, d>>, Len(all), new)
    BY <1>2, <2>1, <2>3, <2>5 DEF StringJoin
  <2> QED  BY <1>1, <2>4, <2>6, CallsKeep, LeavesKeep, SameKeeps
<1>3. CASE StringJoin(<<>>, d)
  <2>1. UNCHANGED scan /\ Keeps(arr)
    BY <1>3 DEF StringJoin
  <2> QED  BY <1>1, <2>1, LeavesKeep, SameKeeps
<1> QED  BY <1>2, <1>3

LEMMA ReplaceKeeps ==
  ASSUME StringInv, NEW s \in Seq(Held), NEW t \in Seq(Held), NEW at \in Nat,
         StringReplace(s, t, at) \/ ReplaceAllBegin(s, t, at)
  PROVE  StringInv'
<1>1. IsString(arr)
  BY DEF StringInv
<1>2. CASE StringReplace(s, t, at)
  <2>1. PICK i : i = Found(s, at)
    OBVIOUS
  <2>2. CASE i < 0
    <3>1. UNCHANGED scan /\ Keeps(arr)
      BY <1>2, <2>1, <2>2 DEF StringReplace
    <3> QED  BY <1>1, <3>1, LeavesKeep, SameKeeps
  <2>3. CASE ~(i < 0)
    <3>1. Keeping(Spliced(i, s, t))
      BY <1>1, <2>1, <2>3, ReplacedIs
    <3>2. Calls("replace", at, 0, <<s, t>>, SpliceRoom(s, t), Spliced(i, s, t))
      BY <1>2, <2>1, <2>3 DEF StringReplace
    <3> QED  BY <3>1, <3>2, CallsKeep
  <2> QED  BY <2>2, <2>3
<1>3. CASE ReplaceAllBegin(s, t, at)
  <2>1. PICK pair : pair = <<s, t>>
    OBVIOUS
  <2>2. pair[1] = s /\ pair[2] = t
    BY <2>1
  <2>3. Begins("replace_all", at, pair)
    BY <1>3, <2>1 DEF ReplaceAllBegin
  <2> QED  BY <2>2, <2>3, BeginsKeep
<1> QED  BY <1>2, <1>3

\* One round of replace_all.
LEMMA ReplaceRoundKeeps ==
  ASSUME StringInv, ReplaceAllRound
  PROVE  StringInv'
<1>1. IsString(arr) /\ scan.op = "replace_all" /\ scan.at \in Nat
  BY DEF StringInv, ScanIs, ReplaceAllRound
<1>2. PICK needle \in Seq(Held), new \in Seq(Held) : needle = scan.s[1] /\ new = scan.s[2]
  BY <1>1 DEF StringInv, ScanIs
<1>3. PICK i : i = Found(needle, scan.at)
  OBVIOUS
<1>4. CASE i < 0
  <2>1. Finishes("replace_all")
    BY <1>2, <1>3, <1>4 DEF ReplaceAllRound
  <2> QED  BY <2>1, FinishesKeep
<1>5. CASE ~(i < 0)
  <2>1. i \in Nat /\ Keeping(Spliced(i, needle, new))
    BY <1>1, <1>3, <1>5, ReplacedIs
  <2>2. PICK at \in Nat : at = i + 1
    BY <2>1
  <2>3. PICK room \in Nat : room = SpliceRoom(needle, new)
    <3>1. arr.size \in Nat
      BY <1>1, StringIs
    <3>2. PICK x \in Nat, y \in Nat : x = Len(needle) /\ y = Len(new)
      OBVIOUS
    <3>3. SpliceRoom(needle, new) = IF x < y THEN arr.size + y - x ELSE 0
      BY <3>2 DEF SpliceRoom
    <3>4. (IF x < y THEN arr.size + y - x ELSE 0) \in Nat
      BY <3>1
    <3> QED  BY <3>3, <3>4
  <2>4. Proceeds(at, room, Spliced(i, needle, new))
    BY <1>2, <1>3, <1>5, <2>2, <2>3 DEF ReplaceAllRound, ReplaceAllNext
  <2> QED  BY <2>1, <2>4, ProceedsKeep DEF Keeping
<1> QED  BY <1>4, <1>5

\* Where the name of the variable whose reference begins at i ends.
NameEnds(i, j) ==
  /\ \A k \in (i + 2)..j : Now[k] \in NameUnits
  /\ j = arr.size \/ Now[j + 1] \notin NameUnits

LEMMA NamesEnd ==
  ASSUME NEW i \in Nat, NEW n \in Nat, n = arr.size, i < n
  PROVE  /\ (CHOOSE j \in (i + 1)..n : NameEnds(i, j)) \in (i + 1)..n
         /\ NameEnds(i, CHOOSE j \in (i + 1)..n : NameEnds(i, j))
<1> DEFINE Ends == {j \in (i + 1)..n : j = n \/ Now[j + 1] \notin NameUnits}
<1>1. n \in Ends
  OBVIOUS
<1>2. \A j \in Ends : j \in Nat
  OBVIOUS
<1> HIDE DEF Ends
<1>3. PICK j \in Ends : \A k \in Ends : j <= k
  BY <1>1, <1>2, LeastExists
<1>4. j \in (i + 1)..n /\ (j = n \/ Now[j + 1] \notin NameUnits)
  BY DEF Ends
<1>5. ASSUME NEW k \in (i + 2)..j PROVE Now[k] \in NameUnits
  <2>1. PICK l \in (i + 1)..n : l = k - 1 /\ l < j /\ l + 1 = k
    BY <1>4
  <2>2. l \notin Ends
    BY <1>3, <1>4, <2>1
  <2> QED  BY <2>1, <2>2 DEF Ends
<1>6. NameEnds(i, j)
  BY <1>4, <1>5 DEF NameEnds
<1> QED  BY <1>4, <1>6

\* One round of resolve_environment_variables.
LEMMA ResolveRoundKeeps ==
  ASSUME StringInv, ResolveRound
  PROVE  StringInv'
<1>1. IsString(arr) /\ scan.op = "resolve" /\ scan.at \in Nat
  BY DEF StringInv, ScanIs, ResolveRound
<1>2. PICK i \in Nat, n \in Nat : i = scan.at /\ n = arr.size
  BY <1>1, StringIs
<1>3. PICK end : end = CHOOSE j \in (i + 1)..n : NameEnds(i, j)
  OBVIOUS
<1>4. PICK value \in Seq(Held) : value = EnvironmentValue(SubSeq(Now, i + 2, end))
  BY ValueIs
<1> DEFINE escaped == i + 1 < n /\ Now[i + 1] = Backslash /\ Now[i + 2] = Dollar
           shorter == Ended([Shifted(arr, i + 1, i, n - i) EXCEPT !.size = @ - 1])
           room == IF Len(value) > end - i THEN n + Len(value) - (end - i) ELSE 0
<1>5. \/ i >= n /\ Finishes("resolve")
      \/ i < n /\ escaped /\ Proceeds(i + 1, 0, shorter)
      \/ i < n /\ Proceeds(i + 1, 0, arr)
      \/ i < n /\ Proceeds(i + Len(value), room, Resolved(i, end, value))
  <2>1. end = CHOOSE j \in (scan.at + 1)..arr.size :
                  /\ \A k \in (scan.at + 2)..j : Now[k] \in NameUnits
                  /\ j = arr.size \/ Now[j + 1] \notin NameUnits
    BY <1>2, <1>3 DEF NameEnds
  <2>2. i >= n \/ i < n
    OBVIOUS
  <2> QED  BY <1>2, <1>4, <2>1, <2>2 DEF ResolveRound
<1> HIDE DEF escaped, shorter, room
<1>6. PICK next \in Nat, none \in Nat : next = i + 1 /\ none = 0 /\ ~(none > 0)
  OBVIOUS
<1>7. CASE i >= n /\ Finishes("resolve")
  BY <1>7, FinishesKeep
<1>8. CASE i < n /\ Proceeds(i + 1, 0, arr)
  BY <1>1, <1>6, <1>8, ProceedsKeep
<1>9. ASSUME i < n PROVE HasMemory(arr) /\ n < arr.reserved
  <2>1. arr.size <= arr.reserved /\ arr.reserved \in Nat
    BY <1>1, StringIs
  <2>2. arr.reserved > 0
    BY <1>2, <1>9, <2>1
  <2> QED  BY <1>1, <1>2, <2>2, StringIs
<1>10. CASE i < n /\ Proceeds(i + 1, 0, shorter)
  <2>1. PICK k \in Nat, e \in Nat : k = n - i /\ e = n - 1
    BY <1>10
  <2>2. PICK b : b = Shifted(arr, next, i, k)
    OBVIOUS
  <2>3. HasMemory(b) /\ b.size = n /\ b.reserved = arr.reserved
    <3>1. arr.reserved \in Nat
      BY <1>9, <1>10 DEF HasMemory
    <3>2. next + k <= arr.reserved
      BY <1>6, <1>9, <1>10, <2>1, <3>1
    <3>3. LET c == Shifted(arr, next, i, k)
          IN  HasMemory(c) /\ c.size = arr.size /\ c.reserved = arr.reserved
      BY <1>9, <1>10, <3>2, ShiftedKeeps
    <3> QED  BY <1>2, <2>2, <3>3
  <2>4. LET c == Ended([b EXCEPT !.size = e])
        IN  HasMemory(c) /\ IsString(c) /\ EndsInNul(c) /\ c.size = e /\ c.reserved = b.reserved
    <3>1. e < b.reserved
      BY <1>9, <1>10, <2>1, <2>3 DEF HasMemory
    <3> QED  BY <2>3, <3>1, SizedEnded
  <2>5. shorter = Ended([b EXCEPT !.size = e])
    BY <1>6, <2>1, <2>2, <2>3 DEF shorter
  <2>6. Proceeds(next, none, shorter)
    BY <1>6, <1>10
  <2> QED  BY <2>4, <2>5, <2>6, ProceedsKeep
<1>11. CASE i < n /\ Proceeds(i + Len(value), room, Resolved(i, end, value))
  <2>1. end \in (i + 1)..n
    BY <1>2, <1>3, <1>11, NamesEnd
  <2>2. PICK v \in Nat, at \in Nat : v = Len(value) /\ at = i + v
    OBVIOUS
  <2>3. end \in Nat /\ i < end /\ end <= arr.size
    BY <1>2, <2>1
  <2>4. /\ IsString(Resolved(i, end, value))
        /\ v <= end - i /\ EndsInNul(arr) => EndsInNul(Resolved(i, end, value))
    BY <1>1, <2>2, <2>3, ResolvedIs
  <2>5. room \in Nat /\ (~(room > 0) => v <= end - i)
    <3>1. room = IF v > end - i THEN n + v - (end - i) ELSE 0
      BY <2>2 DEF room
    <3> QED  BY <2>1, <3>1
  <2>6. Proceeds(at, room, Resolved(i, end, value))
    BY <1>11, <2>2
  <2> QED  BY <1>1, <2>4, <2>5, <2>6, ProceedsKeep
<1> QED  BY <1>5, <1>7, <1>8, <1>10, <1>11

\* Recasing leaves the string recased, or ends the behaviour.
LEMMA Recases ==
  ASSUME NEW op, NEW to, StringRecase(op, to)
  PROVE  /\ Idle /\ UNCHANGED scan
         /\ (ArrayCalled(op, 0, 0, <<>>) /\ Keeps(Recased(to))) \/ Faults
BY DEF StringRecase

LEMMA RecaseKeeps ==
  ASSUME StringInv, NEW op, NEW to, StringRecase(op, to), Keeping(Recased(to))
  PROVE  StringInv'
<1>1. Idle /\ UNCHANGED scan
  BY Recases
<1>2. CASE Faults
  BY <1>1, <1>2, FaultsKeep
<1>3. CASE ArrayCalled(op, 0, 0, <<>>) /\ Keeps(Recased(to))
  BY <1>1, <1>3, LeavesKeep
<1> QED  BY <1>2, <1>3, Recases

\* The calls that are given nothing.
LEMMA PlainKeeps ==
  ASSUME StringInv,
         \/ StringFree \/ StringClear \/ StringTrimLeft \/ StringTrimRight \/ StringTrim
         \/ StringUpper \/ StringLower
  PROVE  StringInv'
<1>1. IsString(arr)
  BY DEF StringInv
<1>2. CASE StringFree
  BY <1>2, NoMemoryKeeps, LeavesKeep DEF StringFree
<1>3. CASE StringClear
  <2>1. PICK a : a = Ended([arr EXCEPT !.size = 0])
    OBVIOUS
  <2>2. Keeping(a)
    <3>1. CASE arr = NoArray
      <4>1. [arr EXCEPT !.size = 0] = NoArray
        BY <3>1 DEF NoArray
      <4>2. a = [NoArray EXCEPT !.cells = [j \in DOMAIN NoArray.cells |->
                   IF j \in (NoArray.size + 1)..(NoArray.size + Len(<<Nul>>)) THEN <<Nul>>[j - NoArray.size]
                   ELSE NoArray.cells[j]]]
        <5>1. a = Ended(NoArray)
          BY <2>1, <4>1
        <5>2. a = Put(NoArray, NoArray.size, <<Nul>>)
          BY <5>1 DEF Ended
        <5> QED  BY <5>2, Zenon DEF Put
      <4>3. PICK c : c = [j \in DOMAIN NoArray.cells |->
                   IF j \in (NoArray.size + 1)..(NoArray.size + Len(<<Nul>>)) THEN <<Nul>>[j - NoArray.size]
                   ELSE NoArray.cells[j]]
        OBVIOUS
      <4>4. c = << >>
        <5>1. DOMAIN NoArray.cells = 1..0
          BY DEF NoArray
        <5>2. PICK z \in Nat : z = 0
          OBVIOUS
        <5>3. c \in [1..z -> Held]
          BY <4>3, <5>1, <5>2
        <5>4. c \in Seq(Held) /\ Len(c) = z
          BY <5>3, ASequence
        <5> QED  BY <5>2, <5>4, EmptySeq
      <4>5. a = NoArray
        BY <4>2, <4>3, <4>4 DEF NoArray
      <4> QED  BY <4>5, NoMemoryKeeps
    <3>2. CASE HasMemory(arr) /\ arr.size < arr.reserved
      <4>1. PICK z \in Nat : z = 0
        OBVIOUS
      <4>2. z < arr.reserved
        BY <3>2, <4>1 DEF HasMemory
      <4>3. LET b == Ended([arr EXCEPT !.size = z])
            IN  HasMemory(b) /\ IsString(b) /\ EndsInNul(b) /\ b.size = z /\ b.reserved = arr.reserved
        BY <3>2, <4>2, SizedEnded
      <4> QED  BY <2>1, <4>1, <4>3 DEF Keeping
    <3> QED  BY <1>1, <3>1, <3>2 DEF IsString
  <2>3. UNCHANGED scan /\ Keeps(a)
    BY <1>3, <2>1 DEF StringClear
  <2> QED  BY <2>2, <2>3, LeavesKeep
<1>4. CASE StringTrimLeft
  <2>1. Keeping(LeftTrimmed(arr))
    BY <1>1, LeftIs DEF Trimmed, Keeping
  <2> QED  BY <1>4, <2>1, LeavesKeep DEF StringTrimLeft
<1>5. CASE StringTrimRight
  <2>1. Calls("trim_right", 0, 0, <<>>, 0, RightTrimmed(arr))
    BY <1>5 DEF StringTrimRight
  <2> QED  BY <1>1, <2>1, TrimmedRight, CallsKeep
<1>6. CASE StringTrim
  <2>1. Calls("trim", 0, 0, <<>>, 0, RightTrimmed(LeftTrimmed(arr)))
    BY <1>6 DEF StringTrim
  <2> QED  BY <1>1, <2>1, TrimmedBoth, CallsKeep
<1>7. \A u \in Held : UpperOf[u] \in Held /\ LowerOf[u] \in Held
  BY StringAssumption DEF Held
<1>8. CASE StringUpper
  <2>1. Keeping(Recased(UpperOf))
    BY <1>1, <1>7, RecasedIs
  <2>2. StringRecase("upper", UpperOf)
    BY <1>8 DEF StringUpper
  <2> QED  BY <2>1, <2>2, RecaseKeeps
<1>9. CASE StringLower
  <2>1. Keeping(Recased(LowerOf))
    BY <1>1, <1>7, RecasedIs
  <2>2. StringRecase("lower", LowerOf)
    BY <1>9 DEF StringLower
  <2> QED  BY <2>1, <2>2, RecaseKeeps
<1> QED  BY <1>2, <1>3, <1>4, <1>5, <1>6, <1>8, <1>9

LEMMA StringStep == StringInv /\ [StringNext]_stringVars => StringInv'
<1> SUFFICES ASSUME StringInv, [StringNext]_stringVars PROVE StringInv'
  OBVIOUS
<1>1. \A n \in Places : n \in Nat
  BY StringAssumption DEF Places
<1>2. \A s \in Texts : s \in Seq(Held)
  BY StringAssumption DEF Held
<1>3. << >> \in Seq(Held)
  OBVIOUS
<1>4. CASE UNCHANGED stringVars
  BY <1>4 DEF stringVars, StringInv, IsString, EndsInNul, ScanIs
<1>5. ASSUME NEW n \in Places, StringInitSized(n) \/ StringReserve(n) PROVE StringInv'
  BY <1>1, <1>5, SizedKeeps
<1>6. ASSUME NEW s \in Texts, StringInitFrom(s) \/ StringSet(s) \/ StringAppend(s) \/ StringPrepend(s)
      PROVE  StringInv'
  BY <1>2, <1>6, GivenKeeps
<1>7. ASSUME NEW s \in Texts, NEW n \in 0..2,
             \/ \E at \in Places : StringCopy(s, n, at)
             \/ StringCopyNew(s, n)
             \/ \E start \in 0..2, at \in Places : n > 0 /\ StringSubstring(s, start, n, at)
      PROVE  StringInv'
  <2>1. s \in Seq(Held) /\ n \in Nat
    BY <1>2
  <2>2. ASSUME NEW at \in Places, StringCopy(s, n, at) PROVE StringInv'
    BY <1>1, <2>1, <2>2, CopyKeeps
  <2>3. ASSUME StringCopyNew(s, n) PROVE StringInv'
    <3>1. PICK z \in Nat : z = 0
      OBVIOUS
    <3>2. StringCopy(s, n, z)
      BY <2>3, <3>1 DEF StringCopyNew
    <3> QED  BY <2>1, <3>2, CopyKeeps
  <2>4. ASSUME NEW start \in 0..2, NEW at \in Places, StringSubstring(s, start, n, at) PROVE StringInv'
    <3>1. start \in Nat /\ at \in Nat
      BY <1>1
    <3> QED  BY <2>1, <2>4, <3>1, SubstringKeeps
  <2> QED  BY <1>7, <2>2, <2>3, <2>4
<1>8. ASSUME NEW s \in Texts, NEW t \in Texts,
             \/ StringJoin(<<s, t>>, <<>>) \/ StringJoin(<<>>, s) \/ StringJoin(<<s, s>>, t)
             \/ \E at \in 0..1 : StringReplace(s, t, at) \/ ReplaceAllBegin(s, t, at)
      PROVE  StringInv'
  <2>1. s \in Seq(Held) /\ t \in Seq(Held)
    BY <1>2
  <2>2. PICK none \in Seq(Held) : none = << >>
    BY <1>3
  <2>3. CASE StringJoin(<<s, t>>, none) \/ StringJoin(<<>>, s) \/ StringJoin(<<s, s>>, t)
    BY <2>1, <2>2, <2>3, JoinKeeps
  <2>4. ASSUME NEW at \in 0..1, StringReplace(s, t, at) \/ ReplaceAllBegin(s, t, at) PROVE StringInv'
    <3>1. at \in Nat
      OBVIOUS
    <3> QED  BY <2>1, <2>4, <3>1, ReplaceKeeps
  <2> QED  BY <1>8, <2>2, <2>3, <2>4
<1>9. CASE \/ StringFree \/ StringClear \/ StringTrimLeft \/ StringTrimRight \/ StringTrim
           \/ StringUpper \/ StringLower
  BY <1>9, PlainKeeps
<1>10. CASE ReplaceAllRound
  BY <1>10, ReplaceRoundKeeps
<1>11. CASE ResolveBegin
  <2>1. PICK z \in Nat : z = 0
    OBVIOUS
  <2>2. Begins("resolve", z, <<>>) /\ "resolve" # "replace_all"
    BY <1>11, <2>1 DEF ResolveBegin
  <2> QED  BY <2>2, BeginsKeep
<1>12. CASE ResolveRound
  BY <1>12, ResolveRoundKeeps
<1>13. CASE StringNext
  BY <1>5, <1>6, <1>7, <1>8, <1>9, <1>10, <1>11, <1>12, <1>13 DEF StringNext, StringSteps
<1> QED  BY <1>4, <1>13

LEMMA StringAlways == StringSpec => []StringInv
<1> QED  BY StringBegins, StringStep, PTL DEF StringSpec

\* A string that is not empty has its Nul behind its last unit and within its block,
\* after whatever calls of string.cpp, each of which may have moved its memory or got
\* none, as long as resolve_environment_variables put no value into it that is longer
\* than its reference, and utf_to_upper and utf_to_lower were given Recasable code points
\* only (with others the behaviour ends: the code may write over the Nul).
THEOREM StringsAreTerminated == StringSpec => []Terminated
<1>1. StringInv => Terminated
  <2> SUFFICES ASSUME StringInv, ~scan.long, arr.size > 0
               PROVE  arr.size < Len(arr.cells) /\ arr.cells[arr.size + 1] = Nul
    BY DEF Terminated, NullTerminated
  <2>1. IsString(arr) /\ EndsInNul(arr)
    BY DEF StringInv
  <2>2. arr # NoArray
    BY DEF NoArray
  <2>3. HasMemory(arr) /\ arr.size < arr.reserved
    BY <2>1, <2>2 DEF IsString
  <2> QED  BY <2>1, <2>3 DEF HasMemory, EndsInNul
<1> QED  BY <1>1, StringAlways, PTL

(***************************************************************************)
(* What a string holds.                                                    *)
(***************************************************************************)

\* The units of a string that is named, to speak of one a call leaves.
UnitsOf(a) == [i \in 1..a.size |-> IF a.data = "live" THEN a.cells[i] ELSE ArrayUnset]

LEMMA UnitsOfIs ==
  ASSUME NEW a, IsString(a)
  PROVE  /\ UnitsOf(a) \in Seq(Held) /\ Len(UnitsOf(a)) = a.size
         /\ \A i \in 1..a.size : UnitsOf(a)[i] = a.cells[i]
<1>1. PICK n \in Nat, r \in Nat : n = a.size /\ r = a.reserved /\ n <= r /\ r = Len(a.cells)
                                  /\ a.cells \in Seq(Held)
  BY StringIs
<1>2. PICK c : c = [i \in 1..n |-> IF a.data = "live" THEN a.cells[i] ELSE ArrayUnset]
  OBVIOUS
<1>3. \A i \in 1..n : a.cells[i] \in Held /\ a.data = "live"
  <2>1. ASSUME NEW i \in 1..n PROVE a.cells[i] \in Held /\ a.data = "live"
    <3>1. i \in 1..Len(a.cells)
      BY <1>1
    <3>2. r > 0
      BY <1>1
    <3>3. HasMemory(a)
      BY <1>1, <3>2, StringIs
    <3> QED  BY <1>1, <3>1, <3>3, ElementOfSeq DEF HasMemory
  <2> QED  BY <2>1
<1>4. c \in [1..n -> Held] /\ \A i \in 1..n : c[i] = a.cells[i]
  BY <1>2, <1>3
<1>5. c \in Seq(Held) /\ Len(c) = n
  BY <1>4, ASequence
<1>6. UnitsOf(a) = c
  BY <1>1, <1>2 DEF UnitsOf
<1> QED  BY <1>1, <1>4, <1>5, <1>6

LEMMA NowIs == Now = UnitsOf(arr)
BY DEF Now, ArrayItems, UnitsOf

\* t is b with p behind it.
IsBehind(t, b, p) ==
  /\ t \in Seq(Held) /\ Len(t) = Len(b) + Len(p)
  /\ \A j \in 1..Len(b) : t[j] = b[j]
  /\ \A j \in 1..Len(p) : t[Len(b) + j] = p[j]

LEMMA BehindIs ==
  ASSUME NEW b \in Seq(Held), NEW p \in Seq(Held)
  PROVE  IsBehind(b \o p, b, p)
<1>1. PICK t : t = b \o p
  OBVIOUS
<1>6. PICK m \in Nat, k \in Nat : m = Len(b) /\ k = Len(p)
  OBVIOUS
<1>2. /\ b \o p \in Seq(Held) /\ Len(b \o p) = Len(b) + Len(p)
      /\ \A j \in 1..(Len(b) + Len(p)) : (b \o p)[j] = IF j <= Len(b) THEN b[j] ELSE p[j - Len(b)]
  BY ConcatProperties, Zenon
<1>3. t \in Seq(Held) /\ Len(t) = m + k /\ \A j \in 1..(m + k) : t[j] = IF j <= m THEN b[j] ELSE p[j - m]
  BY <1>1, <1>2, <1>6
<1>4. ASSUME NEW j \in 1..m PROVE t[j] = b[j]
  <2>1. j \in 1..(m + k) /\ j <= m
    OBVIOUS
  <2> QED  BY <1>3, <2>1
<1>5. ASSUME NEW j \in 1..k PROVE t[m + j] = p[j]
  <2>1. PICK x \in Nat : x = m + j
    OBVIOUS
  <2>2. x \in 1..(m + k) /\ ~(x <= m) /\ x - m = j
    BY <2>1
  <2> QED  BY <1>3, <2>1, <2>2
<1> QED  BY <1>1, <1>3, <1>4, <1>5, <1>6 DEF IsBehind

\* The part of s from behind its first f units up to its first l.
LEMMA WithinIs ==
  ASSUME NEW s \in Seq(Held), NEW f \in Nat, NEW l \in Nat, f <= l, l <= Len(s),
         NEW c, c = SubSeq(s, f + 1, l), NEW k \in Nat, k = l - f
  PROVE  c \in Seq(Held) /\ Len(c) = k /\ \A j \in 1..k : c[j] = s[f + j]
<1>1. PICK g \in Nat : g = f + 1
  OBVIOUS
<1>2. c = [j \in 1..((l - g) + 1) |-> s[(j + g) - 1]]
  BY <1>1
<1>3. (l - g) + 1 = k /\ \A j \in 1..k : (j + g) - 1 = f + j
  BY <1>1
<1>4. c = [j \in 1..k |-> s[f + j]]
  BY <1>2, <1>3
<1>5. \A j \in 1..k : s[f + j] \in Held
  <2>1. \A j \in 1..k : f + j \in 1..Len(s)
    OBVIOUS
  <2> QED  BY <2>1, ElementOfSeq
<1>6. \A j \in 1..k : c[j] \in Held
  BY <1>4, <1>5
<1>7. c \in [1..k -> Held]
  BY <1>4, <1>6
<1>8. c \in Seq(Held) /\ Len(c) = k
  BY <1>7, ASequence
<1> QED  BY <1>4, <1>8

\* Strings with the same units are the same.
LEMMA SameUnits ==
  ASSUME NEW s \in Seq(Held), NEW t \in Seq(Held), NEW n \in Nat, Len(s) = n, Len(t) = n,
         \A j \in 1..n : s[j] = t[j]
  PROVE  s = t
BY SeqEqual

\* t is s with p in the place of what is behind its first i and before its last
\* units from e on.
IsEdit(t, s, i, e, p) ==
  /\ t \in Seq(Held) /\ Len(t) = i + Len(p) + (Len(s) - e)
  /\ \A j \in 1..i : t[j] = s[j]
  /\ \A j \in 1..Len(p) : t[i + j] = p[j]
  /\ \A j \in 1..(Len(s) - e) : t[i + Len(p) + j] = s[e + j]

Edited(s, i, e, p) == SubSeq(s, 1, i) \o p \o SubSeq(s, e + 1, Len(s))

LEMMA EditedIs ==
  ASSUME NEW s \in Seq(Held), NEW i \in Nat, i <= Len(s), NEW e \in Nat, e <= Len(s), NEW p \in Seq(Held)
  PROVE  IsEdit(Edited(s, i, e, p), s, i, e, p)
<1>1. PICK n \in Nat, m \in Nat, k \in Nat : n = Len(s) /\ m = Len(p) /\ k = n - e
  OBVIOUS
<1>2. PICK z \in Nat : z = 0 /\ z + 1 = 1 /\ i - z = i /\ z <= i
  OBVIOUS
<1>3. PICK b : b = SubSeq(s, z + 1, i)
  OBVIOUS
<1>4. b \in Seq(Held) /\ Len(b) = i /\ \A j \in 1..i : b[j] = s[z + j]
  BY <1>2, <1>3, WithinIs
<1>5. \A j \in 1..i : b[j] = s[j]
  <2>1. \A j \in 1..i : z + j = j
    BY <1>2
  <2> QED  BY <1>4, <2>1
<1>6. PICK c : c = SubSeq(s, e + 1, n)
  OBVIOUS
<1>7. c \in Seq(Held) /\ Len(c) = k /\ \A j \in 1..k : c[j] = s[e + j]
  BY <1>1, <1>6, WithinIs
<1>8. PICK d : d = b \o p
  OBVIOUS
<1>9. /\ d \in Seq(Held) /\ Len(d) = i + m
      /\ \A j \in 1..i : d[j] = b[j]
      /\ \A j \in 1..m : d[i + j] = p[j]
  <2>1. IsBehind(d, b, p)
    BY <1>4, <1>8, BehindIs
  <2> QED  BY <1>1, <1>4, <2>1 DEF IsBehind
<1>10. PICK t : t = d \o c
  OBVIOUS
<1>11. PICK h \in Nat : h = i + m
  OBVIOUS
<1>12. /\ t \in Seq(Held) /\ Len(t) = h + k
       /\ \A j \in 1..h : t[j] = d[j]
       /\ \A j \in 1..k : t[h + j] = c[j]
  <2>1. IsBehind(t, d, c)
    BY <1>7, <1>9, <1>10, BehindIs
  <2> QED  BY <1>7, <1>9, <1>11, <2>1 DEF IsBehind
<1>13. ASSUME NEW j \in 1..i PROVE t[j] = s[j]
  <2>1. j \in 1..h
    BY <1>11
  <2> QED  BY <1>5, <1>9, <1>12, <2>1
<1>14. ASSUME NEW j \in 1..m PROVE t[i + j] = p[j]
  <2>1. i + j \in 1..h
    BY <1>11
  <2> QED  BY <1>9, <1>12, <2>1
<1>15. ASSUME NEW j \in 1..k PROVE t[i + m + j] = s[e + j]
  BY <1>7, <1>11, <1>12
<1>16. IsEdit(t, s, i, e, p)
  BY <1>1, <1>11, <1>12, <1>13, <1>14, <1>15 DEF IsEdit
<1>17. t = Edited(s, i, e, p)
  BY <1>1, <1>2, <1>3, <1>6, <1>8, <1>10 DEF Edited
<1> QED  BY <1>16, <1>17

\* A string is an edited one when its units are.
LEMMA EditedWhen ==
  ASSUME NEW s \in Seq(Held), NEW i \in Nat, i <= Len(s), NEW e \in Nat, e <= Len(s), NEW p \in Seq(Held),
         NEW t, IsEdit(t, s, i, e, p)
  PROVE  t = Edited(s, i, e, p)
<1>1. PICK n \in Nat, m \in Nat, k \in Nat : n = Len(s) /\ m = Len(p) /\ k = n - e
  OBVIOUS
<1>2. PICK u : u = Edited(s, i, e, p)
  OBVIOUS
<1>3. IsEdit(u, s, i, e, p)
  BY <1>2, EditedIs
<1>4. /\ u \in Seq(Held) /\ Len(u) = i + m + k
      /\ \A j \in 1..i : u[j] = s[j]
      /\ \A j \in 1..m : u[i + j] = p[j]
      /\ \A j \in 1..k : u[i + m + j] = s[e + j]
  BY <1>1, <1>3 DEF IsEdit
<1>5. /\ t \in Seq(Held) /\ Len(t) = i + m + k
      /\ \A j \in 1..i : t[j] = s[j]
      /\ \A j \in 1..m : t[i + j] = p[j]
      /\ \A j \in 1..k : t[i + m + j] = s[e + j]
  BY <1>1 DEF IsEdit
<1>6. PICK l \in Nat : l = i + m + k
  OBVIOUS
<1>7. ASSUME NEW x \in 1..l PROVE t[x] = u[x]
  <2>1. CASE x <= i
    <3>1. x \in 1..i
      BY <2>1
    <3> QED  BY <1>4, <1>5, <3>1
  <2>2. CASE x > i /\ x <= i + m
    <3>1. PICK j \in 1..m : x = i + j
      <4>1. x - i \in 1..m /\ x = i + (x - i)
        BY <2>2
      <4> QED  BY <4>1
    <3> QED  BY <1>4, <1>5, <3>1
  <2>3. CASE x > i + m
    <3>1. PICK j \in 1..k : x = i + m + j
      <4>1. x - (i + m) \in 1..k /\ x = i + m + (x - (i + m))
        BY <1>6, <2>3
      <4> QED  BY <4>1
    <3> QED  BY <1>4, <1>5, <3>1
  <2> QED  BY <2>1, <2>2, <2>3
<1>8. Len(t) = l /\ Len(u) = l
  BY <1>4, <1>5, <1>6
<1>9. t = u
  BY <1>4, <1>5, <1>7, <1>8, SameUnits
<1> QED  BY <1>2, <1>9

(***************************************************************************)
(* What the memory of a string holds while a call is at work on it.        *)
(***************************************************************************)

\* The first cells hold s.
Begin(b, s) == \A j \in 1..Len(s) : b.cells[j] = s[j]

\* b is a string that holds s.
Shows(b, s) == IsString(b) /\ s \in Seq(Held) /\ b.size = Len(s) /\ Begin(b, s)

\* The cells hold the first i units of s, room for m, and the units of s from e on.
Gapped(b, s, i, e, m) ==
  /\ \A j \in 1..i : b.cells[j] = s[j]
  /\ \A j \in 1..(Len(s) - e) : b.cells[i + m + j] = s[e + j]

LEMMA ShowsUnits ==
  ASSUME NEW b, NEW s, Shows(b, s)
  PROVE  UnitsOf(b) = s
<1>1. IsString(b) /\ s \in Seq(Held) /\ b.size = Len(s) /\ \A j \in 1..Len(s) : b.cells[j] = s[j]
  BY DEF Shows, Begin
<1>2. PICK u : u = UnitsOf(b)
  OBVIOUS
<1>3. PICK n \in Nat : n = Len(s)
  BY <1>1
<1>4. u \in Seq(Held) /\ Len(u) = n /\ \A j \in 1..n : u[j] = b.cells[j]
  BY <1>1, <1>2, <1>3, UnitsOfIs
<1>5. u = s
  BY <1>1, <1>3, <1>4, SameUnits
<1> QED  BY <1>2, <1>5

LEMMA UnitsShown ==
  ASSUME NEW b, IsString(b)
  PROVE  Shows(b, UnitsOf(b))
BY UnitsOfIs DEF Shows, Begin

\* Units that are written where there is room for them.
LEMMA FillsGap ==
  ASSUME NEW b, HasMemory(b), NEW s \in Seq(Held), NEW i \in Nat, i <= Len(s), NEW e \in Nat, e <= Len(s),
         NEW p \in Seq(Held), Gapped(b, s, i, e, Len(p)), i + Len(p) + (Len(s) - e) <= b.reserved
  PROVE  Begin(Put(b, i, p), Edited(s, i, e, p))
<1>1. PICK n \in Nat, m \in Nat, k \in Nat : n = Len(s) /\ m = Len(p) /\ k = n - e
  OBVIOUS
<1>2. PICK r \in Nat, l \in Nat : r = b.reserved /\ l = i + m + k /\ l <= r
  <2>1. PICK r \in Nat : r = b.reserved
    BY DEF HasMemory
  <2>2. i + m + k \in Nat /\ i + m + k <= r
    BY <1>1, <2>1
  <2> QED  BY <2>1, <2>2
<1>3. PICK c : c = Put(b, i, p)
  OBVIOUS
<1>4. \A j \in 1..r : c.cells[j] = IF j \in (i + 1)..(i + m) THEN p[j - i] ELSE b.cells[j]
  <2>1. IsPut(c, b, i, p)
    BY <1>3, PutIs
  <2> QED  BY <1>1, <1>2, <2>1 DEF IsPut
<1>5. (\A j \in 1..i : b.cells[j] = s[j]) /\ \A j \in 1..k : b.cells[i + m + j] = s[e + j]
  BY <1>1 DEF Gapped
<1>6. PICK t : t = Edited(s, i, e, p)
  OBVIOUS
<1>7. /\ t \in Seq(Held) /\ Len(t) = l
      /\ \A j \in 1..i : t[j] = s[j]
      /\ \A j \in 1..m : t[i + j] = p[j]
      /\ \A j \in 1..k : t[i + m + j] = s[e + j]
  <2>1. IsEdit(t, s, i, e, p)
    BY <1>6, EditedIs
  <2> QED  BY <1>1, <1>2, <2>1 DEF IsEdit
<1>8. ASSUME NEW x \in 1..l PROVE c.cells[x] = t[x]
  <2>1. x \in 1..r
    BY <1>2
  <2>2. CASE x <= i
    <3>1. x \in 1..i /\ ~(x \in (i + 1)..(i + m))
      BY <2>2
    <3> QED  BY <1>4, <1>5, <1>7, <2>1, <3>1
  <2>3. CASE x > i /\ x <= i + m
    <3>1. PICK j \in 1..m : j = x - i /\ x = i + j /\ x \in (i + 1)..(i + m)
      BY <2>3
    <3> QED  BY <1>4, <1>7, <2>1, <3>1
  <2>4. CASE x > i + m
    <3>1. PICK j \in 1..k : j = x - (i + m) /\ x = i + m + j /\ ~(x \in (i + 1)..(i + m))
      BY <1>2, <2>4
    <3> QED  BY <1>4, <1>5, <1>7, <2>1, <3>1
  <2> QED  BY <2>2, <2>3, <2>4
<1> QED  BY <1>3, <1>6, <1>7, <1>8 DEF Begin

\* The units from e on moved to make room, or to close it.
LEMMA MakesGap ==
  ASSUME NEW a, HasMemory(a), NEW s \in Seq(Held), Begin(a, s), NEW i \in Nat, NEW e \in Nat, NEW m \in Nat,
         NEW k \in Nat, i <= Len(s), e <= Len(s), Len(s) <= e + k, e + k <= a.reserved,
         i + m + (Len(s) - e) <= a.reserved
  PROVE  Gapped(Shifted(a, e, i + m, k), s, i, e, m)
<1>1. PICK n \in Nat, l \in Nat : n = Len(s) /\ l = n - e /\ l <= k
  OBVIOUS
<1>2. PICK r \in Nat, to \in Nat : r = a.reserved /\ to = i + m /\ to + l <= r /\ n <= r
  BY <1>1 DEF HasMemory
<1>3. PICK b : b = Shifted(a, e, to, k)
  OBVIOUS
<1>4. \A j \in 1..r : b.cells[j] = IF j \in (to + 1)..(to + k) THEN a.cells[(j - to) + e] ELSE a.cells[j]
  <2>1. IsShifted(b, a, e, to, k)
    BY <1>3, ShiftedIs
  <2> QED  BY <1>2, <2>1 DEF IsShifted
<1>5. \A j \in 1..n : a.cells[j] = s[j]
  BY <1>1 DEF Begin
<1>6. ASSUME NEW j \in 1..i PROVE b.cells[j] = s[j]
  <2>1. j \in 1..r /\ j \in 1..n /\ ~(j \in (to + 1)..(to + k))
    BY <1>1, <1>2
  <2> QED  BY <1>4, <1>5, <2>1
<1>7. ASSUME NEW j \in 1..l PROVE b.cells[to + j] = s[e + j]
  <2>1. PICK x \in Nat : x = to + j
    OBVIOUS
  <2>2. x \in 1..r /\ x \in (to + 1)..(to + k) /\ (x - to) + e = e + j /\ e + j \in 1..n
    BY <1>1, <1>2, <2>1
  <2> QED  BY <1>4, <1>5, <2>1, <2>2
<1> QED  BY <1>1, <1>2, <1>3, <1>6, <1>7 DEF Gapped

\* What is written behind the units leaves them alone.
LEMMA BehindGap ==
  ASSUME NEW a, HasMemory(a), NEW s \in Seq(Held), NEW i \in Nat, NEW e \in Nat, NEW m \in Nat,
         i <= Len(s), e <= Len(s), Gapped(a, s, i, e, m), NEW q \in Seq(Held), NEW x \in Nat,
         i + m + (Len(s) - e) <= x, x <= a.reserved
  PROVE  Gapped(Put(a, x, q), s, i, e, m)
<1>1. PICK n \in Nat, l \in Nat, r \in Nat : n = Len(s) /\ l = n - e /\ r = a.reserved
  <2>1. PICK n \in Nat, l \in Nat : n = Len(s) /\ l = n - e
    OBVIOUS
  <2>2. a.reserved \in Nat
    BY DEF HasMemory
  <2> QED  BY <2>1, <2>2
<1>2. PICK b : b = Put(a, x, q)
  OBVIOUS
<1>3. \A j \in 1..r : j <= x => b.cells[j] = a.cells[j]
  <2>1. IsPut(b, a, x, q)
    BY <1>2, PutIs
  <2> QED  BY <1>1, <2>1 DEF IsPut
<1>4. (\A j \in 1..i : a.cells[j] = s[j]) /\ \A j \in 1..l : a.cells[i + m + j] = s[e + j]
  BY <1>1 DEF Gapped
<1>5. ASSUME NEW j \in 1..i PROVE b.cells[j] = s[j]
  <2>1. j \in 1..r /\ j <= x
    BY <1>1
  <2> QED  BY <1>3, <1>4, <2>1
<1>6. ASSUME NEW j \in 1..l PROVE b.cells[i + m + j] = s[e + j]
  <2>1. i + m + j \in 1..r /\ i + m + j <= x
    BY <1>1
  <2> QED  BY <1>3, <1>4, <2>1
<1> QED  BY <1>1, <1>2, <1>5, <1>6 DEF Gapped

LEMMA BehindBegin ==
  ASSUME NEW a, HasMemory(a), NEW s \in Seq(Held), Begin(a, s), NEW q \in Seq(Held), NEW x \in Nat,
         Len(s) <= x, x <= a.reserved
  PROVE  Begin(Put(a, x, q), s)
<1>1. PICK n \in Nat, r \in Nat : n = Len(s) /\ r = a.reserved /\ n <= x /\ x <= r
  BY DEF HasMemory
<1>2. PICK b : b = Put(a, x, q)
  OBVIOUS
<1>3. \A j \in 1..r : j <= x => b.cells[j] = a.cells[j]
  <2>1. IsPut(b, a, x, q)
    BY <1>2, PutIs
  <2> QED  BY <1>1, <2>1 DEF IsPut
<1>4. \A j \in 1..n : a.cells[j] = s[j]
  BY <1>1 DEF Begin
<1>5. ASSUME NEW j \in 1..n PROVE b.cells[j] = s[j]
  <2>1. j \in 1..r /\ j <= x
    BY <1>1
  <2> QED  BY <1>3, <1>4, <2>1
<1> QED  BY <1>1, <1>2, <1>5 DEF Begin

\* s written over the first cells.
LEMMA WritesAll ==
  ASSUME NEW a, HasMemory(a), NEW s \in Seq(Held), Len(s) <= a.reserved
  PROVE  Begin(Put(a, 0, s), s)
<1>1. PICK n \in Nat, r \in Nat, z \in Nat : n = Len(s) /\ r = a.reserved /\ n <= r /\ z = 0
  BY DEF HasMemory
<1>2. PICK b : b = Put(a, z, s)
  OBVIOUS
<1>3. \A j \in 1..r : b.cells[j] = IF j \in (z + 1)..(z + n) THEN s[j - z] ELSE a.cells[j]
  <2>1. IsPut(b, a, z, s)
    BY <1>2, PutIs
  <2> QED  BY <1>1, <2>1 DEF IsPut
<1>4. ASSUME NEW j \in 1..n PROVE b.cells[j] = s[j]
  <2>1. j \in 1..r /\ j \in (z + 1)..(z + n) /\ j - z = j
    BY <1>1
  <2> QED  BY <1>3, <2>1
<1> QED  BY <1>1, <1>2, <1>4 DEF Begin

\* The Nul behind s.
LEMMA EndedShows ==
  ASSUME NEW a, HasMemory(a), NEW s \in Seq(Held), a.size = Len(s), a.size < a.reserved, Begin(a, s)
  PROVE  Shows(Ended(a), s)
<1>1. PICK n \in Nat : n = Len(s) /\ a.size = n /\ n <= a.reserved
  <2>1. PICK n \in Nat, r \in Nat : n = a.size /\ r = a.reserved
    BY DEF HasMemory
  <2>2. n <= r
    BY <2>1
  <2> QED  BY <2>1, <2>2
<1>2. PICK q \in Seq(Held) : q = <<Nul>>
  <2>1. PICK q : q = <<Nul>>
    OBVIOUS
  <2>2. q \in Seq(Held)
    BY <2>1 DEF Held
  <2> QED  BY <2>1, <2>2
<1>3. Ended(a) = Put(a, n, q)
  BY <1>1, <1>2 DEF Ended
<1>4. Begin(Put(a, n, q), s)
  BY <1>1, BehindBegin
<1>5. IsString(Ended(a)) /\ Ended(a).size = a.size
  BY EndedIs
<1> QED  BY <1>1, <1>3, <1>4, <1>5 DEF Shows

\* The memory that string_reserve leaves still holds the string.
LEMMA RoomBegins ==
  ASSUME IsString(arr), NEW s, s = Now, NEW n \in Nat
  PROVE  /\ HasMemory(WithRoom(n)) /\ WithRoom(n).size = Len(s) /\ WithRoom(n).reserved >= n + 1
         /\ WithRoom(n).reserved >= Len(s) /\ Begin(WithRoom(n), s)
<1>1. PICK m \in Nat, r \in Nat : m = arr.size /\ r = arr.reserved /\ m <= r
  BY StringIs
<1>2. Len(s) = m /\ \A i \in 1..m : s[i] = arr.cells[i]
  BY <1>1, UnitsAre
<1>3. PICK a : a = WithRoom(n)
  OBVIOUS
<1>4. HasMemory(a) /\ a.size = m /\ a.reserved >= n + 1 /\ a.reserved >= r
      /\ \A j \in 1..r : a.cells[j] = arr.cells[j]
  BY <1>1, <1>3, RoomIs
<1>5. a.reserved \in Nat
  BY <1>4 DEF HasMemory
<1>6. \A j \in 1..m : a.cells[j] = s[j]
  <2>1. \A j \in 1..m : j \in 1..r
    BY <1>1
  <2> QED  BY <1>2, <1>4, <2>1
<1> QED  BY <1>1, <1>2, <1>3, <1>4, <1>5, <1>6 DEF Begin

\* Another size, and the cells as they were.
LEMMA ResizedBegins ==
  ASSUME NEW a, HasMemory(a), NEW n \in Nat, NEW b, b = [a EXCEPT !.size = n]
  PROVE  /\ HasMemory(b) /\ b.size = n /\ b.reserved = a.reserved
         /\ \A s : Begin(a, s) => Begin(b, s)
         /\ \A s, i, e, m : Gapped(a, s, i, e, m) => Gapped(b, s, i, e, m)
<1>1. HasMemory(b) /\ b.size = n /\ b.reserved = a.reserved /\ b.cells = a.cells
  BY SizedIs
<1> QED  BY <1>1 DEF Begin, Gapped

LEMMA EditedEnd ==
  ASSUME NEW s \in Seq(Held), NEW p \in Seq(Held)
  PROVE  Edited(s, Len(s), Len(s), p) = s \o p
<1>1. PICK n \in Nat, m \in Nat, z \in Nat : n = Len(s) /\ m = Len(p) /\ z = 0 /\ n - n = z
  OBVIOUS
<1>2. PICK t : t = s \o p
  OBVIOUS
<1>3. /\ t \in Seq(Held) /\ Len(t) = n + m
      /\ \A j \in 1..n : t[j] = s[j]
      /\ \A j \in 1..m : t[n + j] = p[j]
  <2>1. IsBehind(t, s, p)
    BY <1>2, BehindIs
  <2> QED  BY <1>1, <2>1 DEF IsBehind
<1>4. IsEdit(t, s, n, n, p)
  <2>1. n + Len(p) + (Len(s) - n) = n + m /\ 1..(Len(s) - n) = {}
    BY <1>1
  <2> QED  BY <1>1, <1>3, <2>1 DEF IsEdit
<1>5. t = Edited(s, n, n, p)
  BY <1>1, <1>4, EditedWhen
<1> QED  BY <1>1, <1>2, <1>5

LEMMA EditedFront ==
  ASSUME NEW s \in Seq(Held), NEW p \in Seq(Held)
  PROVE  Edited(s, 0, 0, p) = p \o s
<1>1. PICK n \in Nat, m \in Nat, z \in Nat : n = Len(s) /\ m = Len(p) /\ z = 0 /\ z <= n
  OBVIOUS
<1>2. PICK t : t = p \o s
  OBVIOUS
<1>3. /\ t \in Seq(Held) /\ Len(t) = m + n
      /\ \A j \in 1..m : t[j] = p[j]
      /\ \A j \in 1..n : t[m + j] = s[j]
  <2>1. IsBehind(t, p, s)
    BY <1>2, BehindIs
  <2> QED  BY <1>1, <2>1 DEF IsBehind
<1>4. IsEdit(t, s, z, z, p)
  <2>1. z + Len(p) + (Len(s) - z) = m + n /\ Len(s) - z = n /\ 1..z = {}
    BY <1>1
  <2>2. \A j \in 1..m : z + j = j
    BY <1>1
  <2>3. \A j \in 1..n : z + Len(p) + j = m + j /\ z + j = j
    BY <1>1
  <2> QED  BY <1>1, <1>3, <2>1, <2>2, <2>3 DEF IsEdit
<1>5. t = Edited(s, z, z, p)
  BY <1>1, <1>4, EditedWhen
<1> QED  BY <1>1, <1>2, <1>5

\* Nothing has to move where the units end, or where as many are written as go.
LEMMA GapAtEnd ==
  ASSUME NEW b, NEW s \in Seq(Held), Begin(b, s), NEW i \in Nat, i <= Len(s), NEW m \in Nat
  PROVE  Gapped(b, s, i, Len(s), m)
<1>1. PICK n \in Nat : n = Len(s)
  OBVIOUS
<1>2. 1..(Len(s) - n) = {} /\ \A j \in 1..i : j \in 1..n
  BY <1>1
<1> QED  BY <1>1, <1>2 DEF Begin, Gapped

LEMMA GapAsWide ==
  ASSUME NEW b, NEW s \in Seq(Held), Begin(b, s), NEW i \in Nat, NEW m \in Nat, i + m <= Len(s)
  PROVE  Gapped(b, s, i, i + m, m)
<1>1. PICK n \in Nat : n = Len(s) /\ i + m <= n
  OBVIOUS
<1>2. \A j \in 1..i : j \in 1..n
  BY <1>1
<1>3. \A j \in 1..(n - (i + m)) : i + m + j \in 1..n
  BY <1>1
<1> QED  BY <1>1, <1>2, <1>3 DEF Begin, Gapped

(***************************************************************************)
(* What each call makes of the units.                                      *)
(***************************************************************************)

LEMMA SetShows ==
  ASSUME IsString(arr), NEW s \in Seq(Held)
  PROVE  Shows(Ended(Put([WithRoom(Len(s)) EXCEPT !.size = Len(s)], 0, s)), s)
<1>1. PICK n \in Nat, z \in Nat : n = Len(s) /\ z = 0
  OBVIOUS
<1>2. PICK a : a = WithRoom(n)
  OBVIOUS
<1>3. HasMemory(a) /\ n < a.reserved /\ n <= a.reserved
  <2>1. HasMemory(a) /\ a.reserved >= n + 1
    BY <1>2, RoomIs
  <2>2. a.reserved \in Nat
    BY <2>1 DEF HasMemory
  <2> QED  BY <2>1, <2>2
<1>4. PICK c : c = [a EXCEPT !.size = n]
  OBVIOUS
<1>5. HasMemory(c) /\ c.size = n /\ c.reserved = a.reserved
  BY <1>3, <1>4, ResizedBegins
<1>6. PICK d : d = Put(c, z, s)
  OBVIOUS
<1>7. HasMemory(d) /\ d.size = n /\ d.reserved = a.reserved
  BY <1>5, <1>6, PutKeeps
<1>8. Begin(d, s)
  BY <1>1, <1>3, <1>5, <1>6, WritesAll
<1>9. Shows(Ended(d), s)
  BY <1>1, <1>3, <1>7, <1>8, EndedShows
<1> QED  BY <1>1, <1>2, <1>4, <1>6, <1>9

\* A block that holds s and the Nul.
LEMMA NewShows ==
  ASSUME NEW s \in Seq(Held), NEW n \in Nat, n = Len(s)
  PROVE  Shows([data |-> "live", size |-> n, reserved |-> n + 1, cells |-> s \o <<Nul>>], s)
<1>1. PICK b : b = [data |-> "live", size |-> n, reserved |-> n + 1, cells |-> s \o <<Nul>>]
  OBVIOUS
<1>2. IsString(b)
  BY <1>1, NewIs DEF Keeping
<1>3. PICK q : q = <<Nul>>
  OBVIOUS
<1>4. q \in Seq(Held)
  BY <1>3 DEF Held
<1>5. IsBehind(s \o q, s, q)
  BY <1>4, BehindIs
<1>6. b.cells = s \o q /\ b.size = n
  BY <1>1, <1>3
<1> QED  BY <1>1, <1>2, <1>5, <1>6 DEF Shows, Begin, IsBehind

LEMMA AppendShows ==
  ASSUME IsString(arr), NEW s \in Seq(Held), NEW old, old = Now
  PROVE  Shows(Ended(Put([WithRoom(Extra(Len(s))) EXCEPT !.size = @ + Len(s)], arr.size, s)), old \o s)
<1>1. PICK m \in Nat : m = Len(s)
  OBVIOUS
<1>2. PICK n \in Nat : n = arr.size
  BY StringIs
<1>3. old \in Seq(Held) /\ Len(old) = n
  BY <1>2, UnitsAre
<1>4. PICK x \in Nat : x = Extra(m)
  BY <1>2, StringIs DEF Extra
<1>5. PICK a : a = WithRoom(x)
  OBVIOUS
<1>6. HasMemory(a) /\ a.size = n /\ Begin(a, old)
  BY <1>2, <1>3, <1>5, RoomBegins
<1>7. n + m < a.reserved /\ a.reserved \in Nat
  <2>1. a.size + m < a.reserved
    BY <1>4, <1>5, ExtraIs
  <2>2. a.reserved \in Nat
    BY <1>6 DEF HasMemory
  <2> QED  BY <1>6, <2>1, <2>2
<1>8. PICK e \in Nat : e = n + m
  OBVIOUS
<1>9. PICK c : c = [a EXCEPT !.size = e]
  OBVIOUS
<1>10. HasMemory(c) /\ c.size = e /\ c.reserved = a.reserved /\ Begin(c, old)
  BY <1>6, <1>9, ResizedBegins
<1>11. PICK d : d = Put(c, n, s)
  OBVIOUS
<1>12. HasMemory(d) /\ d.size = e /\ d.reserved = a.reserved
  BY <1>10, <1>11, PutKeeps
<1>13. Gapped(c, old, n, n, Len(s))
  BY <1>3, <1>10, GapAtEnd
<1>14. n + Len(s) + (Len(old) - n) <= c.reserved
  BY <1>1, <1>3, <1>7, <1>10
<1>15. Begin(d, Edited(old, n, n, s))
  <2>1. n <= Len(old) /\ HasMemory(c) /\ old \in Seq(Held)
    BY <1>3, <1>10
  <2>2. Begin(Put(c, n, s), Edited(old, n, n, s))
    BY <1>13, <1>14, <2>1, FillsGap
  <2> QED  BY <1>11, <2>2
<1>16. PICK t : t = old \o s
  OBVIOUS
<1>17. Edited(old, n, n, s) = t
  BY <1>3, <1>16, EditedEnd
<1>18. t \in Seq(Held) /\ Len(t) = e
  <2>1. IsBehind(t, old, s)
    BY <1>3, <1>16, BehindIs
  <2> QED  BY <1>1, <1>3, <1>8, <2>1 DEF IsBehind
<1>19. Shows(Ended(d), t)
  <2>1. d.size < d.reserved
    BY <1>7, <1>8, <1>12
  <2> QED  BY <1>12, <1>15, <1>17, <1>18, <2>1, EndedShows
<1>20. [a EXCEPT !.size = @ + Len(s)] = c
  BY <1>1, <1>6, <1>8, <1>9
<1>21. Ended(d) = Ended(Put([WithRoom(Extra(Len(s))) EXCEPT !.size = @ + Len(s)], arr.size, s))
  BY <1>1, <1>2, <1>4, <1>5, <1>11, <1>20
<1> QED  BY <1>16, <1>19, <1>21

LEMMA PrependShows ==
  ASSUME IsString(arr), NEW s \in Seq(Held), NEW old, old = Now
  PROVE  Shows(Prepended(s), s \o old)
<1>1. PICK m \in Nat, z \in Nat : m = Len(s) /\ z = 0
  OBVIOUS
<1>2. PICK n \in Nat : n = arr.size
  BY StringIs
<1>3. old \in Seq(Held) /\ Len(old) = n
  BY <1>2, UnitsAre
<1>4. PICK x \in Nat : x = Extra(m)
  BY <1>2, StringIs DEF Extra
<1>5. PICK a : a = WithRoom(x)
  OBVIOUS
<1>6. HasMemory(a) /\ a.size = n /\ Begin(a, old)
  BY <1>2, <1>3, <1>5, RoomBegins
<1>7. n + m < a.reserved /\ a.reserved \in Nat
  <2>1. a.size + m < a.reserved
    BY <1>4, <1>5, ExtraIs
  <2>2. a.reserved \in Nat
    BY <1>6 DEF HasMemory
  <2> QED  BY <1>6, <2>1, <2>2
<1>8. PICK e \in Nat : e = n + m
  OBVIOUS
<1>9. PICK to \in Nat : to = z + m /\ to = m
  BY <1>1
<1>10. PICK b : b = Shifted(a, z, to, n)
  OBVIOUS
<1>11. HasMemory(b) /\ b.size = n /\ b.reserved = a.reserved
  <2>1. z + n <= a.reserved
    BY <1>1, <1>7
  <2> QED  BY <1>6, <1>10, <2>1, ShiftedKeeps
<1>12. Gapped(b, old, z, z, m)
  <2>1. z <= Len(old) /\ Len(old) <= z + n /\ z + n <= a.reserved
    BY <1>1, <1>3, <1>7
  <2>2. z + m + (Len(old) - z) <= a.reserved
    BY <1>1, <1>3, <1>7
  <2>3. Gapped(Shifted(a, z, z + m, n), old, z, z, m)
    BY <1>3, <1>6, <2>1, <2>2, MakesGap
  <2> QED  BY <1>9, <1>10, <2>3
<1>13. PICK c : c = [b EXCEPT !.size = e]
  OBVIOUS
<1>14. HasMemory(c) /\ c.size = e /\ c.reserved = a.reserved /\ Gapped(c, old, z, z, m)
  BY <1>11, <1>12, <1>13, ResizedBegins
<1>15. PICK d : d = Put(c, z, s)
  OBVIOUS
<1>16. HasMemory(d) /\ d.size = e /\ d.reserved = a.reserved
  BY <1>14, <1>15, PutKeeps
<1>17. Begin(d, Edited(old, z, z, s))
  <2>1. z <= Len(old) /\ HasMemory(c) /\ old \in Seq(Held) /\ Gapped(c, old, z, z, Len(s))
    BY <1>1, <1>3, <1>14
  <2>2. z + Len(s) + (Len(old) - z) <= c.reserved
    BY <1>1, <1>3, <1>7, <1>14
  <2>3. Begin(Put(c, z, s), Edited(old, z, z, s))
    BY <2>1, <2>2, FillsGap
  <2> QED  BY <1>15, <2>3
<1>18. PICK t : t = s \o old
  OBVIOUS
<1>19. Edited(old, z, z, s) = t
  BY <1>1, <1>3, <1>18, EditedFront
<1>20. t \in Seq(Held) /\ Len(t) = e
  <2>1. IsBehind(t, s, old)
    BY <1>3, <1>18, BehindIs
  <2> QED  BY <1>1, <1>3, <1>8, <2>1 DEF IsBehind
<1>21. Shows(Ended(d), t)
  <2>1. d.size < d.reserved
    BY <1>7, <1>8, <1>16
  <2> QED  BY <1>16, <1>17, <1>19, <1>20, <2>1, EndedShows
<1>22. [b EXCEPT !.size = @ + m] = c
  BY <1>8, <1>11, <1>13
<1>23. Prepended(s) = Ended(d)
  <2>1. Prepended(s) = Ended(Put([Shifted(a, 0, m, n) EXCEPT !.size = @ + m], 0, s))
    BY <1>1, <1>2, <1>4, <1>5 DEF Prepended
  <2> QED  BY <1>1, <1>9, <1>10, <1>15, <1>22, <2>1
<1> QED  BY <1>18, <1>21, <1>23

\* t is s with p over it from at on, and whatever there was between the two.
IsOver(t, s, at, p) ==
  /\ t \in Seq(Held) /\ Len(t) = IF Len(s) < at + Len(p) THEN at + Len(p) ELSE Len(s)
  /\ \A j \in 1..Len(s) : j \notin (at + 1)..(at + Len(p)) => t[j] = s[j]
  /\ \A j \in 1..Len(p) : t[at + j] = p[j]

\* b holds the cells that Put leaves.
HoldsPut(b, a, at, p) ==
  /\ IsString(b) /\ b.size = IF a.size < at + Len(p) THEN at + Len(p) ELSE a.size
  /\ \A j \in 1..b.size : b.cells[j] = Put(a, at, p).cells[j]

LEMMA OverShows ==
  ASSUME NEW a, HasMemory(a), NEW s \in Seq(Held), Begin(a, s), a.size = Len(s),
         NEW at \in Nat, NEW p \in Seq(Held), Len(s) <= a.reserved, at + Len(p) <= a.reserved,
         NEW b, HoldsPut(b, a, at, p)
  PROVE  IsOver(UnitsOf(b), s, at, p)
<1>1. PICK n \in Nat, m \in Nat : n = Len(s) /\ m = Len(p)
  OBVIOUS
<1>2. PICK r \in Nat, e \in Nat : r = a.reserved /\ e = IF n < at + m THEN at + m ELSE n
  BY DEF HasMemory
<1>3. e <= r /\ n <= e /\ at + m <= e
  BY <1>1, <1>2
<1>4. PICK c : c = Put(a, at, p)
  OBVIOUS
<1>5. \A j \in 1..r : c.cells[j] = IF j \in (at + 1)..(at + m) THEN p[j - at] ELSE a.cells[j]
  <2>1. IsPut(c, a, at, p)
    BY <1>4, PutIs
  <2> QED  BY <1>1, <1>2, <2>1 DEF IsPut
<1>6. IsString(b) /\ b.size = e /\ \A j \in 1..e : b.cells[j] = c.cells[j]
  BY <1>1, <1>2, <1>4 DEF HoldsPut
<1>7. PICK t : t = UnitsOf(b)
  OBVIOUS
<1>8. t \in Seq(Held) /\ Len(t) = e /\ \A j \in 1..e : t[j] = b.cells[j]
  BY <1>6, <1>7, UnitsOfIs
<1>9. \A j \in 1..n : a.cells[j] = s[j]
  BY <1>1 DEF Begin
<1>10. ASSUME NEW j \in 1..n, j \notin (at + 1)..(at + m) PROVE t[j] = s[j]
  <2>1. j \in 1..r /\ j \in 1..e
    BY <1>3
  <2> QED  BY <1>5, <1>6, <1>8, <1>9, <1>10, <2>1
<1>11. ASSUME NEW j \in 1..m PROVE t[at + j] = p[j]
  <2>1. PICK x \in Nat : x = at + j
    OBVIOUS
  <2>2. x \in 1..r /\ x \in 1..e /\ x \in (at + 1)..(at + m) /\ x - at = j
    BY <1>3, <2>1
  <2> QED  BY <1>5, <1>6, <1>8, <2>1, <2>2
<1>12. IsOver(t, s, at, p)
  BY <1>1, <1>2, <1>8, <1>10, <1>11 DEF IsOver
<1> QED  BY <1>7, <1>12

LEMMA CopyShows ==
  ASSUME IsString(arr), NEW s \in Seq(Held), NEW n \in Nat, NEW at \in Nat, Least(n, Len(s)) # 0,
         NEW old, old = Now
  PROVE  IsOver(UnitsOf(Copied(s, n, at)), old, at, SubSeq(s, 1, Least(n, Len(s))))
<1>1. PICK m \in Nat : m = Least(n, Len(s)) /\ m <= Len(s) /\ m # 0
  BY DEF Least
<1>2. PICK p : p = SubSeq(s, 1, m)
  OBVIOUS
<1>3. p \in Seq(Held) /\ Len(p) = m
  BY <1>1, <1>2, FirstUnits
<1>4. PICK e \in Nat, k \in Nat : e = at + m /\ k = arr.size
  <2>1. PICK k \in Nat : k = arr.size
    BY StringIs
  <2>2. at + m \in Nat
    OBVIOUS
  <2> QED  BY <2>1, <2>2
<1>5. old \in Seq(Held) /\ Len(old) = k
  BY <1>4, UnitsAre
<1>6. PICK a : a = WithRoom(e)
  OBVIOUS
<1>7. HasMemory(a) /\ a.size = k /\ Begin(a, old) /\ a.reserved >= e + 1 /\ a.reserved >= k
  BY <1>5, <1>6, RoomBegins
<1>8. e < a.reserved /\ e <= a.reserved /\ k <= a.reserved
  BY <1>7 DEF HasMemory
<1>9. PICK b : b = Put(a, at, p)
  OBVIOUS
<1>10. HasMemory(b) /\ b.size = k /\ b.reserved = a.reserved
  BY <1>3, <1>7, <1>9, PutKeeps
<1>11. PICK new : new = Copied(s, n, at)
  OBVIOUS
<1>12. new = IF k < e THEN Ended([b EXCEPT !.size = e]) ELSE b
  BY <1>1, <1>2, <1>4, <1>6, <1>9, <1>11 DEF Copied
<1>13. IsString(new)
  BY <1>11, CopyIs DEF Keeping
<1>14. HoldsPut(new, a, at, p)
  <2>1. CASE k < e
    <3>1. PICK c : c = [b EXCEPT !.size = e]
      OBVIOUS
    <3>2. HasMemory(c) /\ c.size = e /\ c.reserved = b.reserved /\ c.cells = b.cells
      BY <1>10, <3>1, SizedIs
    <3>3. new = Ended(c)
      BY <1>12, <2>1, <3>1
    <3>4. new.size = e /\ \A j \in 1..e : new.cells[j] = c.cells[j]
      BY <1>8, <1>10, <3>2, <3>3, EndedIs
    <3> QED  BY <1>3, <1>4, <1>7, <1>9, <1>13, <2>1, <3>2, <3>4 DEF HoldsPut
  <2>2. CASE ~(k < e)
    <3>1. new = b
      BY <1>12, <2>2
    <3> QED  BY <1>3, <1>4, <1>7, <1>9, <1>10, <1>13, <2>2, <3>1 DEF HoldsPut
  <2> QED  BY <2>1, <2>2
<1>15. IsOver(UnitsOf(new), old, at, p)
  <2>1. a.size = Len(old) /\ Len(old) <= a.reserved /\ at + Len(p) <= a.reserved
    BY <1>3, <1>4, <1>5, <1>7, <1>8
  <2> QED  BY <1>3, <1>5, <1>7, <1>14, <2>1, OverShows
<1> QED  BY <1>1, <1>2, <1>11, <1>15

LEMMA SubstringEndsShows ==
  ASSUME IsString(arr), NEW p \in Seq(Held), NEW at \in Nat, NEW e \in Nat, e = at + Len(p), e >= arr.size,
         NEW old, old = Now, NEW new,
         new = LET b == Put(WithRoom(e), at, p) IN Ended([b EXCEPT !.size = IF @ < e THEN e ELSE @])
  PROVE  IsOver(UnitsOf(new), old, at, p)
<1>1. PICK k \in Nat : k = arr.size
  BY StringIs
<1>2. old \in Seq(Held) /\ Len(old) = k
  BY <1>1, UnitsAre
<1>3. PICK a : a = WithRoom(e)
  OBVIOUS
<1>4. HasMemory(a) /\ a.size = k /\ Begin(a, old) /\ a.reserved >= e + 1 /\ a.reserved >= k
  BY <1>2, <1>3, RoomBegins
<1>5. e < a.reserved /\ e <= a.reserved /\ k <= a.reserved
  BY <1>4 DEF HasMemory
<1>6. PICK b : b = Put(a, at, p)
  OBVIOUS
<1>7. HasMemory(b) /\ b.size = k /\ b.reserved = a.reserved
  BY <1>4, <1>6, PutKeeps
<1>8. PICK c : c = [b EXCEPT !.size = e]
  OBVIOUS
<1>9. HasMemory(c) /\ c.size = e /\ c.reserved = b.reserved /\ c.cells = b.cells
  BY <1>7, <1>8, SizedIs
<1>10. new = Ended(c)
  <2>1. new = Ended([b EXCEPT !.size = IF @ < e THEN e ELSE @])
    BY <1>3, <1>6
  <2>2. (IF k < e THEN e ELSE k) = e
    BY <1>1
  <2> QED  BY <1>7, <1>8, <2>1, <2>2
<1>11. IsString(new) /\ new.size = e /\ \A j \in 1..e : new.cells[j] = c.cells[j]
  <2>1. HasMemory(c) /\ c.size < c.reserved
    BY <1>5, <1>7, <1>9
  <2>2. LET d == Ended(c)
        IN  IsString(d) /\ d.size = c.size /\ \A j \in 1..c.size : d.cells[j] = c.cells[j]
    BY <2>1, EndedIs
  <2> QED  BY <1>9, <1>10, <2>2
<1>12. HoldsPut(new, a, at, p)
  <2>1. e = IF a.size < at + Len(p) THEN at + Len(p) ELSE a.size
    BY <1>1, <1>4
  <2> QED  BY <1>6, <1>9, <1>11, <2>1 DEF HoldsPut
<1> QED
  <2>1. a.size = Len(old) /\ Len(old) <= a.reserved /\ at + Len(p) <= a.reserved
    BY <1>2, <1>4, <1>5
  <2> QED  BY <1>2, <1>4, <1>12, <2>1, OverShows

LEMMA SubstringInsideShows ==
  ASSUME IsString(arr), NEW p \in Seq(Held), NEW at \in Nat, NEW e \in Nat, e = at + Len(p), e < arr.size,
         NEW old, old = Now, NEW new,
         new = LET b == Put(arr, at, p) IN [b EXCEPT !.size = IF @ < e THEN e ELSE @]
  PROVE  IsOver(UnitsOf(new), old, at, p)
<1>1. PICK k \in Nat, r \in Nat : k = arr.size /\ r = arr.reserved /\ k <= r
  BY StringIs
<1>2. HasMemory(arr)
  <2>1. arr.reserved > 0
    BY <1>1
  <2> QED  BY <2>1, StringIs
<1>3. old \in Seq(Held) /\ Len(old) = k /\ \A i \in 1..k : old[i] = arr.cells[i]
  BY <1>1, UnitsAre
<1>4. Begin(arr, old)
  BY <1>3 DEF Begin
<1>5. PICK b : b = Put(arr, at, p)
  OBVIOUS
<1>6. HasMemory(b) /\ b.size = k /\ b.reserved = r
  BY <1>1, <1>2, <1>5, PutKeeps
<1>7. new = b
  <2>1. new = [b EXCEPT !.size = IF @ < e THEN e ELSE @]
    BY <1>5
  <2>2. (IF k < e THEN e ELSE k) = k
    BY <1>1
  <2>3. [b EXCEPT !.size = k] = b
    BY <1>6 DEF HasMemory
  <2> QED  BY <1>6, <2>1, <2>2, <2>3
<1>8. IsString(new)
  BY SubstringInside DEF Keeping
<1>9. HoldsPut(new, arr, at, p)
  <2>1. k = IF arr.size < at + Len(p) THEN at + Len(p) ELSE arr.size
    BY <1>1
  <2> QED  BY <1>5, <1>6, <1>7, <1>8, <2>1 DEF HoldsPut
<1> QED
  <2>1. arr.size = Len(old) /\ Len(old) <= arr.reserved /\ at + Len(p) <= arr.reserved
    BY <1>1, <1>3
  <2> QED  BY <1>2, <1>3, <1>4, <1>9, <2>1, OverShows

\* The units that trimming removes.
Bare == Blanks \cup {Nul}

LEMMA TrimsIs ==
  ASSUME NEW a, IsString(a), NEW s, s = UnitsOf(a), NEW i \in 1..a.size
  PROVE  Trims(a, i) <=> s[i] \in Bare
<1>1. PICK n \in Nat, r \in Nat : n = a.size /\ r = a.reserved /\ n <= r /\ r = Len(a.cells)
                                  /\ a.cells \in Seq(Held)
  BY StringIs
<1>2. i \in 1..r /\ i <= n /\ DOMAIN a.cells = 1..r
  BY <1>1
<1>3. s[i] = a.cells[i]
  BY UnitsOfIs
<1> QED  BY <1>1, <1>2, <1>3 DEF Trims, Bare

\* t is s without the blanks it begins with, and without those it ends in.
IsLeftCut(t, s, i) ==
  /\ t = SubSeq(s, i + 1, Len(s)) /\ \A k \in 1..i : s[k] \in Bare
  /\ t = <<>> \/ s[i + 1] \notin Bare

IsRightCut(t, s, j) ==
  /\ t = SubSeq(s, 1, j) /\ \A k \in (j + 1)..Len(s) : s[k] \in Bare
  /\ t = <<>> \/ s[j] \notin Bare

LEMMA LeftStops ==
  ASSUME NEW a, NEW m \in Nat, m = a.size
  PROVE  LET n == CHOOSE i \in 0..m : (\A j \in 1..i : Trims(a, j)) /\ ~Trims(a, i + 1)
         IN  n \in 0..m /\ (\A j \in 1..n : Trims(a, j)) /\ ~Trims(a, n + 1)
<1> DEFINE Stops(i) == (\A j \in 1..i : Trims(a, j)) /\ ~Trims(a, i + 1)
           Ends == {i \in 0..m : ~Trims(a, i + 1)}
<1>1. m \in Ends
  <2>1. ~(m + 1 <= a.size)
    OBVIOUS
  <2> QED  BY <2>1 DEF Trims
<1>2. \A i \in Ends : i \in Nat
  OBVIOUS
<1> HIDE DEF Ends
<1>3. PICK i \in Ends : \A k \in Ends : i <= k
  BY <1>1, <1>2, LeastExists
<1>4. i \in 0..m /\ ~Trims(a, i + 1)
  BY DEF Ends
<1>5. ASSUME NEW j \in 1..i PROVE Trims(a, j)
  <2>1. PICK k \in 0..m : k = j - 1 /\ k < i /\ k + 1 = j
    BY <1>4
  <2>2. k \notin Ends
    BY <1>3, <1>4, <2>1
  <2> QED  BY <2>1, <2>2 DEF Ends
<1>6. \E k \in 0..m : Stops(k)
  BY <1>4, <1>5
<1>7. PICK n : n = CHOOSE k \in 0..m : Stops(k)
  OBVIOUS
<1>8. n \in 0..m /\ Stops(n)
  BY <1>6, <1>7
<1> QED  BY <1>7, <1>8

LEMMA RightStops ==
  ASSUME NEW a, NEW m \in Nat
  PROVE  LET n == CHOOSE i \in 0..m : (\A j \in (i + 1)..m : Trims(a, j)) /\ (i = 0 \/ ~Trims(a, i))
         IN  n \in 0..m /\ (\A j \in (n + 1)..m : Trims(a, j)) /\ (n = 0 \/ ~Trims(a, n))
<1> DEFINE Stops(i) == (\A j \in (i + 1)..m : Trims(a, j)) /\ (i = 0 \/ ~Trims(a, i))
           Ends == {k \in 0..m : k = m \/ ~Trims(a, m - k)}
<1>1. m \in Ends
  OBVIOUS
<1>2. \A i \in Ends : i \in Nat
  OBVIOUS
<1> HIDE DEF Ends
<1>3. PICK k \in Ends : \A i \in Ends : k <= i
  BY <1>1, <1>2, LeastExists
<1>4. k \in 0..m /\ (k = m \/ ~Trims(a, m - k))
  BY DEF Ends
<1>5. PICK i \in 0..m : i = m - k /\ m - i = k
  BY <1>4
<1>6. ASSUME NEW j \in (i + 1)..m PROVE Trims(a, j)
  <2>1. PICK l \in 0..m : l = m - j /\ l < k /\ m - l = j
    BY <1>4, <1>5
  <2>2. l \notin Ends
    BY <1>3, <1>4, <2>1
  <2> QED  BY <2>1, <2>2 DEF Ends
<1>7. i = 0 \/ ~Trims(a, i)
  BY <1>4, <1>5
<1>8. \E l \in 0..m : Stops(l)
  BY <1>5, <1>6, <1>7
<1>9. PICK n : n = CHOOSE l \in 0..m : Stops(l)
  OBVIOUS
<1>10. n \in 0..m /\ Stops(n)
  BY <1>8, <1>9
<1> QED  BY <1>9, <1>10

\* The units from the first that is not blank on.
LEMMA LeftShows ==
  ASSUME NEW a, IsString(a), NEW s, s = UnitsOf(a)
  PROVE  \E i \in 0..Len(s) : IsLeftCut(UnitsOf(LeftTrimmed(a)), s, i)
<1>1. PICK m \in Nat : m = a.size
  BY StringIs
<1>2. s \in Seq(Held) /\ Len(s) = m /\ \A j \in 1..m : s[j] = a.cells[j]
  BY <1>1, UnitsOfIs
<1>3. PICK n : n = CHOOSE i \in 0..m : (\A j \in 1..i : Trims(a, j)) /\ ~Trims(a, i + 1)
  OBVIOUS
<1>4. n \in 0..m /\ (\A j \in 1..n : Trims(a, j)) /\ ~Trims(a, n + 1)
  BY <1>1, <1>3, LeftStops
<1>5. PICK t : t = SubSeq(s, n + 1, m)
  OBVIOUS
<1>6. PICK k \in Nat : k = m - n
  BY <1>4
<1>7. t \in Seq(Held) /\ Len(t) = k /\ \A j \in 1..k : t[j] = s[n + j]
  BY <1>2, <1>4, <1>5, <1>6, WithinIs
<1>8. IsLeftCut(t, s, n)
  <2>1. ASSUME NEW j \in 1..n PROVE s[j] \in Bare
    <3>1. j \in 1..a.size
      BY <1>1, <1>4
    <3> QED  BY <1>4, <3>1, TrimsIs
  <2>2. ASSUME s[n + 1] \in Bare PROVE t = <<>>
    <3>1. ~(n + 1 \in 1..a.size)
      BY <1>4, <2>2, TrimsIs
    <3>2. k = 0
      BY <1>1, <1>4, <1>6, <3>1
    <3> QED  BY <1>7, <3>2, EmptySeq
  <2> QED  BY <1>2, <1>5, <2>1, <2>2 DEF IsLeftCut
<1>9. UnitsOf(LeftTrimmed(a)) = t
  <2>1. LeftTrimmed(a) = IF n = 0 THEN a ELSE Ended([Shifted(a, n, 0, m - n) EXCEPT !.size = m - n])
    BY <1>1, <1>3 DEF LeftTrimmed
  <2>2. CASE n = 0
    <3>1. k = m /\ \A j \in 1..m : n + j = j
      BY <1>6, <2>2
    <3>2. \A j \in 1..m : t[j] = s[j]
      BY <1>7, <3>1
    <3>3. t = s
      BY <1>2, <1>7, <3>1, <3>2, SameUnits
    <3> QED  BY <2>1, <2>2, <3>3
  <2>3. CASE n # 0
    <3>1. HasMemory(a) /\ m < a.reserved
      <4>1. a.reserved > 0
        <5>1. a.size > 0 /\ a.size <= a.reserved /\ a.size \in Nat /\ a.reserved \in Nat
          BY <1>1, <1>4, <2>3, StringIs
        <5> QED  BY <5>1
      <4> QED  BY <1>1, <4>1, StringIs
    <3>2. PICK r \in Nat, z \in Nat : r = a.reserved /\ z = 0
      BY <3>1 DEF HasMemory
    <3>3. PICK b : b = Shifted(a, n, z, k)
      OBVIOUS
    <3>4. HasMemory(b) /\ b.size = m /\ b.reserved = r
          /\ \A j \in 1..r : b.cells[j] = IF j \in (z + 1)..(z + k) THEN a.cells[(j - z) + n] ELSE a.cells[j]
      <4>1. n \in Nat /\ n + k <= a.reserved
        BY <1>4, <1>6, <3>1, <3>2
      <4>2. IsShifted(b, a, n, z, k)
        BY <3>1, <3>3, <4>1, ShiftedIs
      <4> QED  BY <1>1, <3>2, <4>2 DEF IsShifted
    <3>5. PICK c : c = [b EXCEPT !.size = k]
      OBVIOUS
    <3>6. HasMemory(c) /\ c.size = k /\ c.reserved = r /\ c.cells = b.cells
      BY <3>4, <3>5, SizedIs
    <3>7. ASSUME NEW j \in 1..k PROVE c.cells[j] = t[j]
      <4>1. j \in 1..r /\ j \in (z + 1)..(z + k) /\ (j - z) + n = n + j /\ n + j \in 1..m
        BY <1>4, <1>6, <3>1, <3>2
      <4> QED  BY <1>2, <1>7, <3>4, <3>6, <4>1
    <3>8. Begin(c, t)
      BY <1>7, <3>7 DEF Begin
    <3>9. Shows(Ended(c), t)
      <4>1. c.size < c.reserved /\ c.size = Len(t)
        BY <1>4, <1>6, <1>7, <3>1, <3>2, <3>6
      <4> QED  BY <1>7, <3>6, <3>8, <4>1, EndedShows
    <3>10. LeftTrimmed(a) = Ended(c)
      BY <1>6, <2>1, <2>3, <3>2, <3>3, <3>5
    <3> QED  BY <3>9, <3>10, ShowsUnits
  <2> QED  BY <2>2, <2>3
<1> QED  BY <1>2, <1>4, <1>8, <1>9

\* The units up to the last that is not blank.
LEMMA RightShows ==
  ASSUME NEW a, IsString(a), HasMemory(a), NEW s, s = UnitsOf(a)
  PROVE  \E j \in 0..Len(s) : IsRightCut(UnitsOf(RightTrimmed(a)), s, j)
<1>1. PICK m \in Nat, r \in Nat : m = a.size /\ r = a.reserved /\ m < r
  <2>1. a.data = "live"
    BY DEF HasMemory
  <2>2. a.reserved > 0 /\ a.size \in Nat /\ a.reserved \in Nat
    BY <2>1, StringIs
  <2>3. a.size < a.reserved
    BY <2>2, StringIs
  <2> QED  BY <2>2, <2>3
<1>2. s \in Seq(Held) /\ Len(s) = m /\ \A j \in 1..m : s[j] = a.cells[j]
  BY <1>1, UnitsOfIs
<1>3. PICK n : n = CHOOSE i \in 0..m : (\A j \in (i + 1)..m : Trims(a, j)) /\ (i = 0 \/ ~Trims(a, i))
  OBVIOUS
<1>4. n \in 0..m /\ (\A j \in (n + 1)..m : Trims(a, j)) /\ (n = 0 \/ ~Trims(a, n))
  BY <1>3, RightStops
<1>5. PICK t : t = SubSeq(s, 1, n)
  OBVIOUS
<1>6. t \in Seq(Held) /\ Len(t) = n /\ \A j \in 1..n : t[j] = s[j]
  <2>1. n \in Nat /\ n <= Len(s)
    BY <1>2, <1>4
  <2>2. /\ SubSeq(s, 1, n) \in Seq(Held) /\ Len(SubSeq(s, 1, n)) = n
    BY <1>2, <2>1, FirstUnits
  <2>3. PICK z \in Nat : z = 0 /\ z <= n /\ z + 1 = 1 /\ n - z = n /\ \A j \in 1..n : z + j = j
    BY <2>1
  <2>4. t = SubSeq(s, z + 1, n)
    BY <1>5, <2>3
  <2>5. t \in Seq(Held) /\ Len(t) = n /\ \A j \in 1..n : t[j] = s[z + j]
    BY <1>2, <2>1, <2>3, <2>4, WithinIs
  <2> QED  BY <2>3, <2>5
<1>7. IsRightCut(t, s, n)
  <2>1. ASSUME NEW j \in (n + 1)..m PROVE s[j] \in Bare
    <3>1. j \in 1..a.size
      BY <1>1, <1>4
    <3> QED  BY <1>4, <3>1, TrimsIs
  <2>2. ASSUME s[n] \in Bare PROVE t = <<>>
    <3>1. ~(n \in 1..a.size) \/ n = 0
      BY <1>4, <2>2, TrimsIs
    <3>2. n = 0
      BY <1>1, <1>4, <3>1
    <3> QED  BY <1>6, <3>2, EmptySeq
  <2> QED  BY <1>2, <1>5, <2>1, <2>2 DEF IsRightCut
<1>8. UnitsOf(RightTrimmed(a)) = t
  <2>1. PICK c : c = [a EXCEPT !.size = n]
    OBVIOUS
  <2>2. RightTrimmed(a) = Ended(c)
    BY <1>1, <1>3, <2>1 DEF RightTrimmed
  <2>3. HasMemory(c) /\ c.size = n /\ c.reserved = r /\ c.cells = a.cells
    <3>1. n \in Nat
      BY <1>4
    <3> QED  BY <1>1, <2>1, <3>1, SizedIs
  <2>4. Begin(c, t)
    <3>1. \A j \in 1..n : j \in 1..m
      BY <1>4
    <3> QED  BY <1>2, <1>6, <2>3, <3>1 DEF Begin
  <2>5. Shows(Ended(c), t)
    <3>1. c.size < c.reserved /\ c.size = Len(t)
      BY <1>1, <1>4, <1>6, <2>3
    <3> QED  BY <1>6, <2>3, <2>4, <3>1, EndedShows
  <2> QED  BY <2>2, <2>5, ShowsUnits
<1> QED  BY <1>2, <1>4, <1>7, <1>8

LEMMA RecasedShows ==
  ASSUME IsString(arr), NEW to, \A u \in Held : to[u] \in Held, NEW s, s = Now
  PROVE  UnitsOf(Recased(to)) = [i \in 1..Len(s) |-> to[s[i]]]
<1>1. PICK n \in Nat, r \in Nat : n = arr.size /\ r = arr.reserved /\ r = Len(arr.cells) /\ n <= r
                                  /\ arr.cells \in Seq(Held) /\ DOMAIN arr.cells = 1..r
  BY StringIs
<1>2. s \in Seq(Held) /\ Len(s) = n /\ \A i \in 1..n : s[i] = arr.cells[i]
  BY <1>1, UnitsAre
<1>3. PICK b : b = Recased(to)
  OBVIOUS
<1>4. IsString(b)
  BY <1>3, RecasedIs DEF Keeping
<1>5. arr = [data |-> arr.data, cells |-> arr.cells, size |-> arr.size, reserved |-> arr.reserved]
  BY DEF IsString, NoArray, HasMemory
<1>6. PICK c : c = [j \in 1..r |-> IF j <= n THEN to[arr.cells[j]] ELSE arr.cells[j]]
  OBVIOUS
<1>7. b = [arr EXCEPT !.cells = c]
  BY <1>1, <1>3, <1>6 DEF Recased
<1>8. b.size = n /\ b.cells = c
  BY <1>1, <1>5, <1>7
<1>9. PICK t : t = [i \in 1..n |-> to[s[i]]]
  OBVIOUS
<1>10. \A i \in 1..n : t[i] \in Held
  <2>1. \A i \in 1..n : s[i] \in Held
    BY <1>2, ElementOfSeq
  <2> QED  BY <1>9, <2>1
<1>11. t \in [1..n -> Held]
  BY <1>9, <1>10
<1>12. t \in Seq(Held) /\ Len(t) = n
  BY <1>11, ASequence
<1>13. \A i \in 1..n : b.cells[i] = t[i]
  <2>1. \A i \in 1..n : i \in 1..r /\ i <= n
    BY <1>1
  <2> QED  BY <1>2, <1>6, <1>8, <1>9, <2>1
<1>14. Shows(b, t)
  BY <1>4, <1>8, <1>12, <1>13 DEF Shows, Begin
<1>15. UnitsOf(b) = t
  BY <1>14, ShowsUnits
<1> QED  BY <1>2, <1>3, <1>9, <1>15

\* What is left behind the needle, and behind a reference.
LEMMA LeftBehind ==
  ASSUME NEW m \in Nat, NEW i \in Nat, NEW x \in Nat, NEW f \in Nat, NEW k \in Nat, f = i + x, k = m - f
  PROVE  k = (m - i) - x /\ f + k = m
OBVIOUS

LEMMA GrownBehind ==
  ASSUME NEW m \in Nat, NEW i \in Nat, NEW end \in Nat, NEW v \in Nat, NEW k \in Nat, k = m - end,
         NEW by \in Int, by = v - (end - i)
  PROVE  i + v = end + by /\ i + v + k = m + by
OBVIOUS

LEMMA LeftBefore ==
  ASSUME NEW n \in Nat, NEW i \in Nat, i < n, NEW f \in Nat, f = i + 1
  PROVE  \E k \in Nat, e \in Nat, l \in Nat :
           k = n - i /\ e = n - 1 /\ l = n - f /\ f <= n /\ f + k = n + 1 /\ e = i + l
<1>1. n - i \in Nat /\ n - 1 \in Nat /\ n - f \in Nat
  OBVIOUS
<1> QED  BY <1>1

\* The needle at i gives way to new.
LEMMA SplicedShows ==
  ASSUME IsString(arr), NEW needle \in Seq(Held), NEW new \in Seq(Held), NEW i \in Nat,
         i + Len(needle) <= arr.size, Len(needle) > 0, NEW s, s = Now
  PROVE  UnitsOf(Spliced(i, needle, new)) = Edited(s, i, i + Len(needle), new)
<1>1. PICK m \in Nat, r \in Nat : m = arr.size /\ r = arr.reserved /\ m <= r
  BY StringIs
<1>2. PICK x \in Nat, y \in Nat : x = Len(needle) /\ y = Len(new)
  OBVIOUS
<1>3. r > 0
  BY <1>1, <1>2
<1>4. HasMemory(arr) /\ m < r
  BY <1>1, <1>3, StringIs
<1>5. PICK e \in Nat, f \in Nat, g \in Nat : e = (m + y) - x /\ f = i + x /\ f <= m /\ g = i + y
  BY <1>1, <1>2
<1>6. s \in Seq(Held) /\ Len(s) = m /\ Begin(arr, s)
  BY <1>1, UnitsAre DEF Begin
<1>7. PICK t : t = Edited(s, i, f, new)
  OBVIOUS
<1>8. t \in Seq(Held) /\ Len(t) = e
  <2>1. i <= Len(s) /\ f <= Len(s)
    BY <1>5, <1>6
  <2>2. IsEdit(t, s, i, f, new)
    BY <1>6, <1>7, <2>1, EditedIs
  <2>3. i + Len(new) + (Len(s) - f) = e
    BY <1>2, <1>5, <1>6
  <2> QED  BY <2>2, <2>3 DEF IsEdit
<1>9. PICK b : b = Spliced(i, needle, new)
  OBVIOUS
<1>10. IsString(b)
  BY <1>9, SplicedIs DEF Keeping
<1>11. i <= Len(s) /\ f <= Len(s)
  BY <1>5, <1>6
<1>12. b.size = e /\ Begin(b, t)
  <2>1. CASE x = y
    <3>1. b = Put(arr, i, new)
      BY <1>2, <1>9, <2>1 DEF Spliced
    <3>2. HasMemory(b) /\ b.size = m
      BY <1>1, <1>4, <3>1, PutKeeps
    <3>3. Gapped(arr, s, i, f, y)
      <4>1. i + y <= Len(s)
        BY <1>5, <1>6, <2>1
      <4>2. Gapped(arr, s, i, i + y, y)
        BY <1>6, <4>1, GapAsWide
      <4> QED  BY <1>5, <2>1, <4>2
    <3>4. i + Len(new) + (Len(s) - f) <= arr.reserved
      BY <1>1, <1>2, <1>5, <1>6, <2>1
    <3>5. Gapped(arr, s, i, f, Len(new))
      BY <1>2, <3>3
    <3>6. Begin(Put(arr, i, new), Edited(s, i, f, new))
      BY <1>4, <1>6, <1>11, <3>4, <3>5, FillsGap
    <3> QED  BY <1>5, <1>7, <2>1, <3>1, <3>2, <3>6
  <2>2. CASE x # y
    <3>1. PICK a : a = IF x < y THEN WithRoom(e) ELSE arr
      OBVIOUS
    <3>2. HasMemory(a) /\ a.size = m /\ e < a.reserved /\ m <= a.reserved /\ a.reserved \in Nat /\ Begin(a, s)
      <4>1. CASE x < y
        <5>1. PICK c : c = WithRoom(e)
          OBVIOUS
        <5>2. HasMemory(c) /\ c.size = m /\ c.reserved >= e + 1 /\ c.reserved >= m /\ Begin(c, s)
          BY <1>6, <5>1, RoomBegins
        <5>3. c.reserved \in Nat
          BY <5>2 DEF HasMemory
        <5>4. a = c
          BY <3>1, <4>1, <5>1
        <5>5. e < c.reserved /\ m <= c.reserved
          BY <5>2, <5>3
        <5> QED  BY <5>2, <5>3, <5>4, <5>5
      <4>2. CASE ~(x < y)
        <5>1. a = arr
          BY <3>1, <4>2
        <5>2. e < r
          BY <1>2, <1>4, <1>5, <4>2
        <5> QED  BY <1>1, <1>4, <1>6, <5>1, <5>2
      <4> QED  BY <4>1, <4>2
    <3>3. PICK k \in Nat : k = (m - i) - x /\ f + k = m
      <4>1. PICK k \in Nat : k = m - f
        BY <1>1, <1>5
      <4>2. k = (m - i) - x /\ f + k = m
        <5>1. f = i + x
          BY <1>5
        <5> QED  BY <4>1, <5>1, LeftBehind
      <4> QED  BY <4>2
    <3>4. PICK c : c = Shifted(a, f, g, k)
      OBVIOUS
    <3>5. HasMemory(c) /\ c.size = m /\ c.reserved = a.reserved
      <4>1. f + k <= a.reserved /\ HasMemory(a)
        BY <3>2, <3>3
      <4>2. /\ HasMemory(Shifted(a, f, g, k)) /\ Shifted(a, f, g, k).size = a.size
            /\ Shifted(a, f, g, k).reserved = a.reserved
        BY <4>1, ShiftedKeeps
      <4> QED  BY <3>2, <3>4, <4>2
    <3>6. Gapped(c, s, i, f, y)
      <4>1. Len(s) <= f + k /\ f + k <= a.reserved
        BY <1>6, <3>2, <3>3
      <4>2. i + y + (Len(s) - f) <= a.reserved
        BY <1>2, <1>5, <1>6, <3>2
      <4>3. HasMemory(a) /\ Begin(a, s) /\ s \in Seq(Held)
        BY <1>6, <3>2
      <4>4. Gapped(Shifted(a, f, i + y, k), s, i, f, y)
        BY <1>11, <4>1, <4>2, <4>3, MakesGap
      <4> QED  BY <1>5, <3>4, <4>4
    <3>7. PICK d : d = [c EXCEPT !.size = e]
      OBVIOUS
    <3>8. HasMemory(d) /\ d.size = e /\ d.reserved = a.reserved /\ Gapped(d, s, i, f, y)
      BY <3>5, <3>6, <3>7, ResizedBegins
    <3>9. PICK q : q = <<Nul>>
      OBVIOUS
    <3>10. q \in Seq(Held)
      BY <3>9 DEF Held
    <3>11. PICK h : h = Put(d, e, q)
      OBVIOUS
    <3>12. h = Ended(d)
      BY <3>8, <3>9, <3>11 DEF Ended
    <3>13. HasMemory(h) /\ h.size = e /\ h.reserved = a.reserved
      BY <3>8, <3>10, <3>11, PutKeeps
    <3>14. Gapped(h, s, i, f, Len(new))
      <4>1. i + y + (Len(s) - f) <= e /\ e <= d.reserved
        BY <1>2, <1>5, <1>6, <3>2, <3>8
      <4>2. Gapped(Put(d, e, q), s, i, f, y)
        BY <1>6, <1>11, <3>8, <3>10, <4>1, BehindGap
      <4> QED  BY <1>2, <3>11, <4>2
    <3>15. Begin(Put(h, i, new), Edited(s, i, f, new))
      <4>1. i + Len(new) + (Len(s) - f) <= h.reserved
        BY <1>2, <1>5, <1>6, <3>2, <3>13
      <4>2. HasMemory(h) /\ s \in Seq(Held)
        BY <1>6, <3>13
      <4> QED  BY <1>11, <3>14, <4>1, <4>2, FillsGap
    <3>16. b = Put(h, i, new)
      <4>1. Len(needle) # Len(new)
        BY <1>2, <2>2
      <4>2. Spliced(i, needle, new) =
              Put(Ended([Shifted(IF Len(needle) < Len(new) THEN WithRoom(arr.size + Len(new) - Len(needle)) ELSE arr,
                                 i + Len(needle), i + Len(new), arr.size - i - Len(needle))
                           EXCEPT !.size = arr.size + Len(new) - Len(needle)]), i, new)
        BY <4>1 DEF Spliced
      <4>3. e = arr.size + Len(new) - Len(needle)
        <5>1. arr.size = m /\ Len(new) = y /\ Len(needle) = x
          BY <1>1, <1>2
        <5>2. e = (m + y) - x
          BY <1>5
        <5> QED  BY <5>1, <5>2
      <4>4. f = i + Len(needle) /\ g = i + Len(new)
        BY <1>2, <1>5
      <4>5. k = arr.size - i - Len(needle)
        BY <1>1, <1>2, <3>3
      <4>6. a = IF Len(needle) < Len(new) THEN WithRoom(arr.size + Len(new) - Len(needle)) ELSE arr
        BY <1>2, <3>1, <4>3
      <4>7. Spliced(i, needle, new) = Put(Ended([Shifted(a, f, g, k) EXCEPT !.size = e]), i, new)
        BY <4>2, <4>6, <4>3, <4>4, <4>5
      <4> QED  BY <1>9, <3>4, <3>7, <3>12, <4>7
    <3>17. b.size = e
      BY <3>13, <3>16, PutKeeps
    <3> QED  BY <1>7, <3>15, <3>16, <3>17
  <2> QED  BY <2>1, <2>2
<1>13. Shows(b, t)
  BY <1>8, <1>10, <1>12 DEF Shows
<1>14. UnitsOf(b) = t
  BY <1>13, ShowsUnits
<1> QED  BY <1>2, <1>5, <1>7, <1>9, <1>14

\* A value in the place of the variable whose reference ends at end.
LEMMA ResolvedShows ==
  ASSUME IsString(arr), NEW i \in Nat, NEW end \in Nat, i < end, end <= arr.size, NEW value \in Seq(Held),
         NEW s, s = Now
  PROVE  UnitsOf(Resolved(i, end, value)) = Edited(s, i, end, value)
<1>1. PICK m \in Nat, r \in Nat : m = arr.size /\ r = arr.reserved /\ m <= r
  BY StringIs
<1>2. HasMemory(arr) /\ m < r
  <2>1. arr.reserved > 0
    BY <1>1
  <2> QED  BY <1>1, <2>1, StringIs
<1>3. PICK v \in Nat : v = Len(value)
  OBVIOUS
<1>4. PICK by \in Int : by = v - (end - i) /\ by = Len(value) - (end - i)
  <2>1. v - (end - i) \in Int
    OBVIOUS
  <2> QED  BY <1>3, <2>1
<1>5. PICK e \in Nat, t \in Nat, k \in Nat : e = m + by /\ t = end + by /\ k = m - end
  <2>1. end <= m
    BY <1>1
  <2>2. PICK k \in Nat : k = m - end
    BY <2>1
  <2>3. PICK t \in Nat : t = i + v
    OBVIOUS
  <2>4. PICK e \in Nat : e = i + v + k
    OBVIOUS
  <2>5. t = end + by /\ e = m + by
    <3>1. by = v - (end - i)
      BY <1>4
    <3> QED  BY <2>2, <2>3, <2>4, <3>1, GrownBehind
  <2> QED  BY <2>2, <2>5
<1>6. t = i + v /\ e = i + v + k /\ end + k = m
  <2>1. by = v - (end - i)
    BY <1>4
  <2>2. k = m - end /\ e = m + by /\ t = end + by
    BY <1>5
  <2>3. i + v = end + by /\ i + v + k = m + by
    BY <2>1, <2>2, GrownBehind
  <2> QED  BY <2>2, <2>3
<1>7. s \in Seq(Held) /\ Len(s) = m /\ Begin(arr, s)
  BY <1>1, UnitsAre DEF Begin
<1>8. i <= Len(s) /\ end <= Len(s) /\ Len(s) - end = k
  BY <1>1, <1>5, <1>7
<1>9. PICK text : text = Edited(s, i, end, value)
  OBVIOUS
<1>10. text \in Seq(Held) /\ Len(text) = e
  <2>1. IsEdit(text, s, i, end, value)
    BY <1>7, <1>8, <1>9, EditedIs
  <2> QED  BY <1>3, <1>6, <1>8, <2>1 DEF IsEdit
<1>11. PICK a : a = IF by > 0 THEN WithRoom(e) ELSE arr
  OBVIOUS
<1>12. HasMemory(a) /\ a.size = m /\ e < a.reserved /\ m < a.reserved /\ a.reserved \in Nat /\ Begin(a, s)
  <2>1. CASE by > 0
    <3>1. PICK b : b = WithRoom(e)
      OBVIOUS
    <3>2. HasMemory(b) /\ b.size = m /\ b.reserved >= e + 1 /\ Begin(b, s)
      BY <1>7, <3>1, RoomBegins
    <3>3. b.reserved \in Nat
      BY <3>2 DEF HasMemory
    <3>4. e < b.reserved /\ m < b.reserved
      BY <1>5, <2>1, <3>2, <3>3
    <3>5. a = b
      BY <1>11, <2>1, <3>1
    <3> QED  BY <3>2, <3>3, <3>4, <3>5
  <2>2. CASE ~(by > 0)
    <3>1. a = arr
      BY <1>11, <2>2
    <3>2. e < r
      BY <1>2, <1>5, <2>2
    <3> QED  BY <1>1, <1>2, <1>7, <3>1, <3>2
  <2> QED  BY <2>1, <2>2
<1>13. PICK b : b = Shifted(a, end, t, k)
  OBVIOUS
<1>14. HasMemory(b) /\ b.size = m /\ b.reserved = a.reserved
  <2>1. end + k <= a.reserved /\ HasMemory(a)
    BY <1>6, <1>12
  <2>2. /\ HasMemory(Shifted(a, end, t, k)) /\ Shifted(a, end, t, k).size = a.size
        /\ Shifted(a, end, t, k).reserved = a.reserved
    BY <2>1, ShiftedKeeps
  <2> QED  BY <1>12, <1>13, <2>2
<1>15. Gapped(b, s, i, end, v)
  <2>1. Len(s) <= end + k /\ end + k <= a.reserved
    BY <1>6, <1>7, <1>12
  <2>2. i + v + (Len(s) - end) <= a.reserved
    BY <1>6, <1>8, <1>12
  <2>3. HasMemory(a) /\ Begin(a, s) /\ s \in Seq(Held)
    BY <1>7, <1>12
  <2>4. Gapped(Shifted(a, end, i + v, k), s, i, end, v)
    BY <1>8, <2>1, <2>2, <2>3, MakesGap
  <2> QED  BY <1>6, <1>13, <2>4
<1>16. PICK zeros : zeros = [j \in 1..(-by) |-> Nul]
  OBVIOUS
<1>17. PICK c : c = IF by >= 0 THEN b ELSE Put(b, e, zeros)
  OBVIOUS
<1>18. HasMemory(c) /\ c.reserved = a.reserved /\ Gapped(c, s, i, end, v)
  <2>1. CASE by >= 0
    BY <1>14, <1>15, <1>17, <2>1
  <2>2. CASE by < 0
    <3>1. PICK n \in Nat : n = -by /\ n > 0
      BY <2>2
    <3>2. zeros \in [1..n -> Held]
      BY <1>16, <3>1 DEF Held
    <3>3. zeros \in Seq(Held) /\ Len(zeros) = n
      BY <3>2, ASequence
    <3>4. c = Put(b, e, zeros)
      BY <1>17, <2>2
    <3>5. HasMemory(c) /\ c.reserved = a.reserved
      BY <1>14, <3>3, <3>4, PutKeeps
    <3>6. i + v + (Len(s) - end) <= e /\ e <= b.reserved
      BY <1>6, <1>8, <1>12, <1>14
    <3>7. Gapped(Put(b, e, zeros), s, i, end, v)
      BY <1>7, <1>8, <1>14, <1>15, <3>3, <3>6, BehindGap
    <3> QED  BY <3>4, <3>5, <3>7
  <2> QED  BY <2>1, <2>2
<1>19. PICK d : d = [c EXCEPT !.size = e]
  OBVIOUS
<1>20. HasMemory(d) /\ d.size = e /\ d.reserved = a.reserved /\ Gapped(d, s, i, end, v)
  BY <1>18, <1>19, ResizedBegins
<1>21. PICK new : new = Put(d, i, value)
  OBVIOUS
<1>22. Resolved(i, end, value) = new
  <2>1. e = arr.size + by
    BY <1>1, <1>5
  <2>2. t = end + by
    BY <1>5
  <2>3. k = arr.size - end
    BY <1>1, <1>5
  <2>4. Resolved(i, end, value) =
          Put([(IF by >= 0 THEN Shifted(IF by > 0 THEN WithRoom(arr.size + by) ELSE arr, end, end + by, arr.size - end)
                ELSE Put(Shifted(IF by > 0 THEN WithRoom(arr.size + by) ELSE arr, end, end + by, arr.size - end),
                         arr.size + by, [j \in 1..(-by) |-> Nul])) EXCEPT !.size = arr.size + by], i, value)
    BY <1>4 DEF Resolved
  <2>5. Resolved(i, end, value) =
          Put([(IF by >= 0 THEN Shifted(a, end, t, k) ELSE Put(Shifted(a, end, t, k), e, zeros))
                 EXCEPT !.size = e], i, value)
    BY <1>11, <1>16, <2>1, <2>2, <2>3, <2>4
  <2> QED  BY <1>13, <1>17, <1>19, <1>21, <2>5
<1>23. new.size = e /\ HasMemory(new)
  BY <1>20, <1>21, PutKeeps
<1>24. Begin(new, text)
  <2>1. i + Len(value) + (Len(s) - end) <= d.reserved
    BY <1>3, <1>6, <1>8, <1>12, <1>20
  <2>2. HasMemory(d) /\ s \in Seq(Held) /\ Gapped(d, s, i, end, Len(value))
    BY <1>3, <1>7, <1>20
  <2>3. Begin(Put(d, i, value), Edited(s, i, end, value))
    BY <1>8, <2>1, <2>2, FillsGap
  <2> QED  BY <1>9, <1>21, <2>3
<1>25. Shows(new, text)
  <2>1. IsString(new)
    BY <1>22, ResolvedIs
  <2> QED  BY <1>10, <1>23, <1>24, <2>1 DEF Shows
<1>26. UnitsOf(new) = text
  BY <1>25, ShowsUnits
<1> QED  BY <1>9, <1>22, <1>26

\* The backslash before a dollar goes.
LEMMA EscapedShows ==
  ASSUME IsString(arr), NEW i \in Nat, NEW n \in Nat, n = arr.size, i < n, NEW s, s = Now
  PROVE  UnitsOf(Ended([Shifted(arr, i + 1, i, n - i) EXCEPT !.size = @ - 1])) = Edited(s, i, i + 1, <<>>)
<1>1. PICK r \in Nat : r = arr.reserved /\ n < r
  <2>1. arr.reserved \in Nat /\ arr.size <= arr.reserved
    BY StringIs
  <2>2. arr.reserved > 0
    BY <2>1
  <2> QED  BY <2>1, <2>2, StringIs
<1>2. HasMemory(arr)
  <2>1. arr.reserved > 0
    BY <1>1
  <2> QED  BY <2>1, StringIs
<1>3. s \in Seq(Held) /\ Len(s) = n /\ Begin(arr, s)
  BY UnitsAre DEF Begin
<1>4. PICK f \in Nat : f = i + 1
  OBVIOUS
<1>18. PICK k \in Nat, e \in Nat, l \in Nat :
         k = n - i /\ e = n - 1 /\ l = n - f /\ f <= n /\ f + k = n + 1 /\ e = i + l
  BY <1>4, LeftBefore
<1>19. PICK z \in Nat : z = 0 /\ i + z = i
  OBVIOUS
<1>5. PICK p : p = <<>>
  OBVIOUS
<1>20. p \in Seq(Held) /\ Len(p) = z
  <2>1. p \in Seq(Held) /\ Len(p) = 0
    BY <1>5, EmptySeq
  <2>2. z = 0
    BY <1>19
  <2> QED  BY <2>1, <2>2
<1>6. i <= Len(s) /\ f <= Len(s) /\ Len(s) - f = l
  BY <1>3, <1>18
<1>7. PICK t : t = Edited(s, i, f, p)
  OBVIOUS
<1>8. t \in Seq(Held) /\ Len(t) = e
  <2>1. IsEdit(t, s, i, f, p)
    BY <1>3, <1>6, <1>7, <1>20, EditedIs
  <2>2. i + Len(p) + (Len(s) - f) = e
    <3>1. Len(s) - f = l /\ Len(p) = z /\ i + z = i /\ e = i + l
      BY <1>6, <1>18, <1>19, <1>20
    <3> QED  BY <3>1
  <2> QED  BY <2>1, <2>2 DEF IsEdit
<1>9. PICK b : b = Shifted(arr, f, i, k)
  OBVIOUS
<1>10. HasMemory(b) /\ b.size = n /\ b.reserved = r
  <2>1. f + k <= arr.reserved
    <3>1. f + k = n + 1 /\ r = arr.reserved /\ n < r
      BY <1>1, <1>18
    <3> QED  BY <3>1
  <2>2. /\ HasMemory(Shifted(arr, f, i, k)) /\ Shifted(arr, f, i, k).size = arr.size
        /\ Shifted(arr, f, i, k).reserved = arr.reserved
    BY <1>2, <2>1, ShiftedKeeps
  <2>3. HasMemory(b) /\ b.size = arr.size /\ b.reserved = arr.reserved
    BY <1>9, <2>2
  <2>4. r = arr.reserved /\ n = arr.size
    BY <1>1
  <2> QED  BY <2>3, <2>4, Zenon
<1>11. Gapped(b, s, i, f, z)
  <2>1. Len(s) <= f + k /\ f + k <= arr.reserved
    <3>1. f + k = n + 1 /\ Len(s) = n
      BY <1>3, <1>18
    <3>2. f + k <= r
      BY <1>1, <3>1
    <3>3. n <= f + k
      BY <3>1
    <3> QED  BY <1>1, <3>1, <3>2, <3>3
  <2>2. i + z + (Len(s) - f) <= arr.reserved
    <3>1. Len(s) - f = l /\ i + z = i /\ e = i + l /\ e <= n /\ n < arr.reserved
      BY <1>1, <1>6, <1>18, <1>19
    <3> QED  BY <1>1, <3>1
  <2>3. Gapped(Shifted(arr, f, i + z, k), s, i, f, z)
    BY <1>2, <1>3, <1>6, <2>1, <2>2, MakesGap
  <2> QED  BY <1>9, <1>19, <2>3
<1>12. PICK c : c = [b EXCEPT !.size = e]
  OBVIOUS
<1>13. HasMemory(c) /\ c.size = e /\ c.reserved = r /\ Gapped(c, s, i, f, z)
  <2>1. HasMemory(b) /\ e \in Nat
    BY <1>10
  <2>2. /\ HasMemory(c) /\ c.size = e /\ c.reserved = b.reserved
        /\ \A u, v, w, h : Gapped(b, u, v, w, h) => Gapped(c, u, v, w, h)
    BY <1>12, <2>1, ResizedBegins
  <2> QED  BY <1>10, <1>11, <2>2
<1>14. Begin(c, t)
  <2>1. Len(s) - f = l /\ e = i + l
    BY <1>6, <1>18
  <2>2. (\A j \in 1..i : c.cells[j] = s[j]) /\ \A j \in 1..l : c.cells[i + z + j] = s[f + j]
    BY <1>13, <2>1 DEF Gapped
  <2>3. IsEdit(t, s, i, f, p)
    BY <1>3, <1>6, <1>7, <1>20, EditedIs
  <2>4. (\A j \in 1..i : t[j] = s[j]) /\ \A j \in 1..l : t[i + z + j] = s[f + j]
    BY <1>20, <2>1, <2>3 DEF IsEdit
  <2>5. ASSUME NEW x \in 1..e PROVE c.cells[x] = t[x]
    <3>1. CASE x <= i
      <4>1. x \in 1..i
        BY <3>1
      <4> QED  BY <2>2, <2>4, <4>1
    <3>2. CASE x > i
      <4>1. PICK j \in 1..l : j = x - i /\ i + z + j = x
        <5>1. x - i \in 1..l /\ i + z + (x - i) = x
          BY <1>19, <2>1, <3>2
        <5> QED  BY <5>1
      <4> QED  BY <2>2, <2>4, <4>1
    <3> QED  BY <3>1, <3>2
  <2>6. Len(t) = e
    BY <1>8
  <2> QED  BY <2>5, <2>6 DEF Begin
<1>15. Shows(Ended(c), t)
  <2>1. c.size < c.reserved /\ c.size = Len(t)
    <3>1. e <= n
      BY <1>18
    <3>2. c.size = e /\ c.reserved = r /\ n < r /\ Len(t) = e
      BY <1>1, <1>8, <1>13
    <3> QED  BY <3>1, <3>2
  <2> QED  BY <1>8, <1>13, <1>14, <2>1, EndedShows
<1>16. Ended([Shifted(arr, i + 1, i, n - i) EXCEPT !.size = @ - 1]) = Ended(c)
  <2>1. Shifted(arr, i + 1, i, n - i) = b
    BY <1>4, <1>9, <1>18
  <2>2. [b EXCEPT !.size = @ - 1] = c
    <3>1. b.size - 1 = e
      BY <1>10, <1>18
    <3> QED  BY <1>12, <3>1
  <2> QED  BY <2>1, <2>2
<1>17. UnitsOf(Ended(c)) = t
  BY <1>15, ShowsUnits
<1> QED  BY <1>4, <1>5, <1>7, <1>16, <1>17

(***************************************************************************)
(* A string of which one part after the other is rewritten.                *)
(***************************************************************************)

LEMMA Difference ==
  ASSUME NEW a \in Nat, NEW b \in Nat, a <= b
  PROVE  \E d \in Nat : d = b - a /\ b = a + d
<1>1. b - a \in Nat
  OBVIOUS
<1> QED  BY <1>1

LEMMA Beyond ==
  ASSUME NEW m \in Nat, NEW d \in Nat, NEW j \in 1..(m + d), j > m
  PROVE  \E i \in 1..d : j = m + i
<1>1. j - m \in 1..d /\ j = m + (j - m)
  OBVIOUS
<1> QED  BY <1>1

IsKept(s, a, k, l, p, c) == Edited(s, a, k, p) = Edited(s, a, l, p \o c)

LEMMA Regroups ==
  ASSUME NEW a \in Nat, NEW m \in Nat, NEW i \in Nat
  PROVE  (a + m) + i = a + (m + i)
OBVIOUS

LEMMA Reassociates ==
  ASSUME NEW a \in Nat, NEW m \in Nat, NEW d \in Nat, NEW z \in Nat
  PROVE  a + m + (d + z) = a + (m + d) + z
OBVIOUS

\* Units that stay as they were.
LEMMA KeepsOn ==
  ASSUME NEW s \in Seq(Held), NEW a \in Nat, a <= Len(s), NEW k \in Nat, NEW l \in Nat, k <= l, l <= Len(s),
         NEW p \in Seq(Held), NEW c, c = SubSeq(s, k + 1, l)
  PROVE  c \in Seq(Held) /\ IsKept(s, a, k, l, p, c)
<1>1. PICK n \in Nat, m \in Nat : n = Len(s) /\ m = Len(p)
  OBVIOUS
<1>13. PICK d \in Nat : d = l - k /\ l = k + d
  BY Difference
<1>14. l <= n
  BY <1>1
<1>15. PICK z \in Nat : z = n - l /\ n = l + z
  BY <1>14, Difference
<1>2. d = l - k /\ z = n - l
  BY <1>13, <1>15
<1>3. n - k = d + z /\ l = k + d
  BY <1>13, <1>15
<1>4. c \in Seq(Held) /\ Len(c) = d /\ \A j \in 1..d : c[j] = s[k + j]
  BY <1>2, WithinIs
<1>5. PICK q : q = p \o c
  OBVIOUS
<1>6. /\ q \in Seq(Held) /\ Len(q) = m + d
      /\ \A j \in 1..m : q[j] = p[j]
      /\ \A j \in 1..d : q[m + j] = c[j]
  <2>1. IsBehind(q, p, c)
    BY <1>4, <1>5, BehindIs
  <2> QED  BY <1>1, <1>4, <2>1 DEF IsBehind
<1>7. PICK t : t = Edited(s, a, k, p)
  OBVIOUS
<1>8. /\ t \in Seq(Held) /\ Len(t) = a + m + (d + z)
      /\ \A j \in 1..a : t[j] = s[j]
      /\ \A j \in 1..m : t[a + j] = p[j]
      /\ \A j \in 1..(d + z) : t[a + m + j] = s[k + j]
  <2>1. k <= Len(s)
    BY <1>1
  <2>2. IsEdit(t, s, a, k, p)
    BY <1>7, <2>1, EditedIs
  <2>3. Len(s) - k = d + z
    BY <1>1, <1>3
  <2> QED  BY <1>1, <2>2, <2>3 DEF IsEdit
<1>9. ASSUME NEW j \in 1..(m + d) PROVE t[a + j] = q[j]
  <2>1. CASE j <= m
    <3>1. j \in 1..m
      BY <2>1
    <3> QED  BY <1>6, <1>8, <3>1
  <2>2. CASE j > m
    <3>1. PICK i \in 1..d : j = m + i
      BY <2>2, Beyond
    <3>2. i \in 1..(d + z) /\ a + m + i = a + j
      BY <3>1
    <3>3. t[a + m + i] = s[k + i] /\ q[m + i] = s[k + i]
      BY <1>4, <1>6, <1>8, <3>2
    <3> QED  BY <3>1, <3>2, <3>3
  <2> QED  BY <2>1, <2>2
<1>10. ASSUME NEW j \in 1..z PROVE t[a + (m + d) + j] = s[l + j]
  <2>1. PICK i \in 1..(d + z) : i = d + j
    <3>1. d + j \in 1..(d + z)
      OBVIOUS
    <3> QED  BY <3>1
  <2>2. a + m + i = a + (m + d) + j
    BY <2>1
  <2>3. k + i = l + j
    BY <1>3, <2>1
  <2>4. t[a + m + i] = s[k + i]
    BY <1>8
  <2> QED  BY <2>2, <2>3, <2>4
<1>11. IsEdit(t, s, a, l, q)
  <2>1. Len(t) = a + (m + d) + z
    <3>1. Len(t) = a + m + (d + z)
      BY <1>8
    <3> QED  BY <3>1, Reassociates
  <2>2. Len(s) - l = z /\ Len(q) = m + d
    BY <1>1, <1>2, <1>6
  <2> QED  BY <1>8, <1>9, <1>10, <2>1, <2>2 DEF IsEdit
<1>12. t = Edited(s, a, l, q)
  BY <1>6, <1>11, EditedWhen
<1> QED  BY <1>4, <1>5, <1>7, <1>12 DEF IsKept

\* The units behind the rewritten ones give way to r.
LEMMA PutsOn ==
  ASSUME NEW s \in Seq(Held), NEW a \in Nat, a <= Len(s), NEW k \in Nat, NEW l \in Nat, k <= l, l <= Len(s),
         NEW p \in Seq(Held), NEW r \in Seq(Held), NEW t, t = Edited(s, a, k, p),
         NEW e \in Nat, e = a + Len(p), NEW g \in Nat, g = e + (l - k)
  PROVE  Edited(t, e, g, r) = Edited(s, a, l, p \o r)
<1>1. PICK n \in Nat, m \in Nat, y \in Nat : n = Len(s) /\ m = Len(p) /\ y = Len(r)
  OBVIOUS
<1>15. PICK d \in Nat : d = l - k /\ l = k + d
  BY Difference
<1>16. l <= n
  BY <1>1
<1>17. PICK z \in Nat : z = n - l /\ n = l + z
  BY <1>16, Difference
<1>18. e = a + m /\ g = e + d
  BY <1>1, <1>15
<1>2. d = l - k /\ z = n - l
  BY <1>15, <1>17
<1>3. n - k = d + z /\ l = k + d /\ e = a + m /\ g = e + d
  BY <1>15, <1>17, <1>18
<1>4. PICK q : q = p \o r
  OBVIOUS
<1>5. /\ q \in Seq(Held) /\ Len(q) = m + y
      /\ \A j \in 1..m : q[j] = p[j]
      /\ \A j \in 1..y : q[m + j] = r[j]
  <2>1. IsBehind(q, p, r)
    BY <1>4, BehindIs
  <2> QED  BY <1>1, <2>1 DEF IsBehind
<1>6. /\ t \in Seq(Held) /\ Len(t) = a + m + (d + z)
      /\ \A j \in 1..a : t[j] = s[j]
      /\ \A j \in 1..m : t[a + j] = p[j]
      /\ \A j \in 1..(d + z) : t[a + m + j] = s[k + j]
  <2>1. k <= Len(s)
    BY <1>1
  <2>2. IsEdit(t, s, a, k, p)
    BY <2>1, EditedIs
  <2>3. Len(s) - k = d + z
    BY <1>1, <1>3
  <2> QED  BY <1>1, <2>2, <2>3 DEF IsEdit
<1>7. e <= Len(t) /\ g <= Len(t) /\ Len(t) - g = z
  <2>1. a + m + (d + z) = g + z
    <3>1. g = (a + m) + d
      BY <1>18
    <3>2. a + m \in Nat
      OBVIOUS
    <3>3. ((a + m) + d) + z = (a + m) + (d + z)
      BY <3>2, Regroups
    <3> QED  BY <3>1, <3>3
  <2>2. Len(t) = g + z
    BY <1>6, <2>1
  <2>3. e <= g
    BY <1>18
  <2> QED  BY <2>2, <2>3
<1>8. PICK u : u = Edited(t, e, g, r)
  OBVIOUS
<1>9. /\ u \in Seq(Held) /\ Len(u) = e + y + z
      /\ \A j \in 1..e : u[j] = t[j]
      /\ \A j \in 1..y : u[e + j] = r[j]
      /\ \A j \in 1..z : u[e + y + j] = t[g + j]
  <2>1. t \in Seq(Held)
    BY <1>6
  <2>2. IsEdit(u, t, e, g, r)
    BY <1>7, <1>8, <2>1, EditedIs
  <2> QED  BY <1>1, <1>7, <2>2 DEF IsEdit
<1>10. ASSUME NEW j \in 1..a PROVE u[j] = s[j]
  <2>1. j \in 1..e
    BY <1>3
  <2> QED  BY <1>6, <1>9, <2>1
<1>11. ASSUME NEW j \in 1..(m + y) PROVE u[a + j] = q[j]
  <2>1. CASE j <= m
    <3>1. j \in 1..m
      BY <2>1
    <3>2. a + j \in 1..e
      BY <1>18, <3>1
    <3>3. u[a + j] = t[a + j]
      BY <1>9, <3>2
    <3> QED  BY <1>5, <1>6, <3>1, <3>3
  <2>2. CASE j > m
    <3>1. PICK i \in 1..y : j = m + i
      BY <2>2, Beyond
    <3>2. e + i = a + j
      <4>1. i \in Nat
        OBVIOUS
      <4>2. e = a + m
        BY <1>18
      <4>3. (a + m) + i = a + (m + i)
        BY <4>1, Regroups
      <4>4. e + i = (a + m) + i
        BY <4>2
      <4>5. a + j = a + (m + i)
        BY <3>1
      <4> QED  BY <4>3, <4>4, <4>5
    <3>3. u[e + i] = r[i] /\ q[m + i] = r[i]
      BY <1>5, <1>9
    <3> QED  BY <3>1, <3>2, <3>3
  <2> QED  BY <2>1, <2>2
<1>12. ASSUME NEW j \in 1..z PROVE u[a + (m + y) + j] = s[l + j]
  <2>1. PICK i \in 1..(d + z) : i = d + j
    <3>1. d + j \in 1..(d + z)
      OBVIOUS
    <3> QED  BY <3>1
  <2>2. a + (m + y) + j = e + y + j
    <3>1. e = a + m
      BY <1>18
    <3>2. a + (m + y) = (a + m) + y
      BY Regroups
    <3> QED  BY <3>1, <3>2
  <2>3. a + m + i = g + j
    BY <1>18, <2>1
  <2>4. k + i = l + j
    BY <1>15, <2>1
  <2>5. t[a + m + i] = s[k + i]
    BY <1>6
  <2>6. u[e + y + j] = t[g + j]
    BY <1>9
  <2> QED  BY <2>2, <2>3, <2>4, <2>5, <2>6
<1>13. IsEdit(u, s, a, l, q)
  <2>1. Len(u) = a + (m + y) + z /\ Len(s) - l = z /\ Len(q) = m + y
    BY <1>1, <1>2, <1>3, <1>5, <1>9
  <2> QED  BY <1>9, <1>10, <1>11, <1>12, <2>1 DEF IsEdit
<1>14. u = Edited(s, a, l, q)
  BY <1>5, <1>13, EditedWhen
<1> QED  BY <1>4, <1>8, <1>14

\* What follows at i is a part and what follows at a later place.
Follows(f, q, g, n, m) ==
  f = [i \in 0..m |-> IF i >= n THEN <<>> ELSE q[i] \o f[g[i]]]

IsChain(q, g, n, m) ==
  /\ n <= m
  /\ \A i \in 0..(n - 1) : q[i] \in Seq(Held) /\ g[i] \in (i + 1)..m

LEMMA ChainExists ==
  ASSUME NEW n \in Nat, NEW m \in Nat, NEW q, NEW g, IsChain(q, g, n, m)
  PROVE  \E f : Follows(f, q, g, n, m)
<1> DEFINE Rule(f, i) == IF i >= n THEN <<>> ELSE q[i] \o f[g[i]]
           Upto(f, j) == f = [i \in 0..m |-> f[i]] /\ \A i \in 0..m : i + j >= n => f[i] = Rule(f, i)
           Without == {j \in Nat : ~\E f : Upto(f, j)}
<1>1. ASSUME Without # {} PROVE FALSE
  <2>1. \A j \in Without : j \in Nat
    OBVIOUS
  <2>2. PICK j \in Without : \A i \in Without : j <= i
    <3> HIDE DEF Without
    <3> QED  BY <1>1, <2>1, LeastExists
  <2>3. j \in Nat /\ ~\E f : Upto(f, j)
    OBVIOUS
  <2>4. j # 0
    <3> SUFFICES ASSUME j = 0 PROVE FALSE
      OBVIOUS
    <3>1. PICK f : f = [i \in 0..m |-> <<>>]
      OBVIOUS
    <3>2. \A i \in 0..m : i + j >= n => i >= n /\ f[i] = <<>>
      BY <3>1
    <3>3. Upto(f, j)
      BY <3>1, <3>2
    <3> QED  BY <2>3, <3>3
  <2>5. PICK c \in Nat : c = j - 1 /\ c < j
    BY <2>3, <2>4
  <2>6. c \notin Without
    BY <2>2, <2>3, <2>5
  <2>7. PICK h : Upto(h, c)
    BY <2>6
  <2> HIDE DEF Without
  <2>8. CASE j > n
    <3>1. \A i \in 0..m : i + c >= n
      BY <2>3, <2>5, <2>8
    <3>2. Upto(h, j)
      BY <2>7, <3>1
    <3> QED  BY <2>3, <3>2
  <2>9. CASE j <= n
    <3>1. PICK b \in Nat : b = n - j /\ b \in 0..m /\ b \in 0..(n - 1) /\ b < n
      <4>1. n - j \in Nat /\ n - j \in 0..m /\ n - j \in 0..(n - 1) /\ n - j < n
        BY <2>3, <2>4, <2>9 DEF IsChain
      <4> QED  BY <4>1
    <3>2. PICK f : f = [i \in 0..m |-> IF i = b THEN Rule(h, i) ELSE h[i]]
      OBVIOUS
    <3>3. ASSUME NEW i \in 0..m, i + j >= n PROVE f[i] = Rule(f, i)
      <4>1. i >= b
        BY <2>3, <3>1, <3>3
      <4>2. Rule(f, i) = Rule(h, i)
        <5>1. CASE i >= n
          BY <5>1
        <5>2. CASE ~(i >= n)
          <6>1. i \in 0..(n - 1)
            BY <5>2
          <6>2. g[i] \in (i + 1)..m
            BY <6>1 DEF IsChain
          <6>3. g[i] \in 0..m /\ g[i] # b
            BY <4>1, <6>2
          <6>4. f[g[i]] = h[g[i]]
            BY <3>2, <6>3
          <6> QED  BY <6>4
        <5> QED  BY <5>1, <5>2
      <4>3. CASE i = b
        <5>1. f[i] = Rule(h, i)
          BY <3>2, <4>3
        <5> QED  BY <4>2, <5>1
      <4>4. CASE i # b
        <5>1. i + c >= n
          BY <2>3, <2>5, <3>1, <4>1, <4>4
        <5>2. h[i] = Rule(h, i)
          BY <2>7, <5>1
        <5>3. f[i] = h[i]
          BY <3>2, <4>4
        <5> QED  BY <4>2, <5>2, <5>3
      <4> QED  BY <4>3, <4>4
    <3>4. Upto(f, j)
      BY <3>2, <3>3
    <3> QED  BY <2>3, <3>4
  <2> QED  BY <2>3, <2>8, <2>9
<1>2. n \notin Without
  BY <1>1
<1>3. PICK f : Upto(f, n)
  BY <1>2
<1>4. \A i \in 0..m : i + n >= n
  OBVIOUS
<1>5. \A i \in 0..m : f[i] = Rule(f, i)
  BY <1>3, <1>4
<1>6. f = [i \in 0..m |-> f[i]]
  BY <1>3
<1>7. f = [i \in 0..m |-> Rule(f, i)]
  BY <1>5, <1>6
<1> QED  BY <1>7 DEF Follows

LEMMA ChainValues ==
  ASSUME NEW n \in Nat, NEW m \in Nat, NEW q, NEW g, IsChain(q, g, n, m), NEW f, Follows(f, q, g, n, m)
  PROVE  \A i \in 0..m : f[i] \in Seq(Held) /\ f[i] = IF i >= n THEN <<>> ELSE q[i] \o f[g[i]]
<1>1. \A i \in 0..m : f[i] = IF i >= n THEN <<>> ELSE q[i] \o f[g[i]]
  <2>1. PICK h : h = [i \in 0..m |-> IF i >= n THEN <<>> ELSE q[i] \o f[g[i]]]
    OBVIOUS
  <2>2. f = h
    BY <2>1 DEF Follows
  <2>3. \A i \in 0..m : h[i] = IF i >= n THEN <<>> ELSE q[i] \o f[g[i]]
    BY <2>1
  <2> QED  BY <2>2, <2>3
<1> DEFINE Bad == {j \in 0..m : f[m - j] \notin Seq(Held)}
<1>2. ASSUME Bad # {} PROVE FALSE
  <2>1. \A j \in Bad : j \in Nat
    OBVIOUS
  <2>2. PICK j \in Bad : \A i \in Bad : j <= i
    <3> HIDE DEF Bad
    <3> QED  BY <1>2, <2>1, LeastExists
  <2>3. j \in 0..m /\ f[m - j] \notin Seq(Held)
    OBVIOUS
  <2>4. PICK b \in 0..m : b = m - j
    <3>1. m - j \in 0..m
      BY <2>3
    <3> QED  BY <3>1
  <2>5. f[b] \notin Seq(Held)
    BY <2>3, <2>4
  <2>6. CASE b >= n
    <3>1. f[b] = <<>>
      BY <1>1, <2>6
    <3>2. <<>> \in Seq(Held)
      OBVIOUS
    <3> QED  BY <2>5, <3>1, <3>2
  <2>7. CASE ~(b >= n)
    <3>1. b \in 0..(n - 1)
      BY <2>4, <2>7
    <3>2. q[b] \in Seq(Held) /\ g[b] \in (b + 1)..m
      BY <3>1 DEF IsChain
    <3>3. PICK c \in Nat : c = m - g[b] /\ c \in 0..m /\ c < j /\ m - c = g[b]
      <4>1. m - g[b] \in 0..m /\ m - g[b] < j /\ m - (m - g[b]) = g[b]
        BY <2>3, <2>4, <3>2
      <4> QED  BY <4>1
    <3>4. c \notin Bad
      BY <2>2, <2>3, <3>3
    <3>5. f[g[b]] \in Seq(Held)
      BY <3>3, <3>4
    <3>6. PICK u \in Seq(Held), v \in Seq(Held) : u = q[b] /\ v = f[g[b]]
      BY <3>2, <3>5
    <3>7. u \o v \in Seq(Held)
      BY BehindIs DEF IsBehind
    <3>8. f[b] = u \o v
      BY <1>1, <2>7, <3>6
    <3> QED  BY <2>5, <3>7, <3>8
  <2> QED  BY <2>6, <2>7
<1>3. ASSUME NEW i \in 0..m PROVE f[i] \in Seq(Held)
  <2>1. PICK j \in 0..m : j = m - i /\ m - j = i
    <3>1. m - i \in 0..m /\ m - (m - i) = i
      OBVIOUS
    <3> QED  BY <3>1
  <2>2. j \notin Bad
    BY <1>2
  <2> QED  BY <2>1, <2>2
<1> QED  BY <1>1, <1>3

Occurs(s, needle, i) == i + Len(needle) <= Len(s) /\ SubSeq(s, i + 1, i + Len(needle)) = needle

\* What becomes of s from each place on when new takes the place of every needle.
EveryFrom(s, needle, new) ==
  CHOOSE f : f = [i \in 0..(Len(s) + Len(needle)) |->
    IF i >= Len(s) THEN <<>>
    ELSE IF Occurs(s, needle, i) THEN new \o f[i + Len(needle)]
    ELSE <<s[i + 1]>> \o f[i + 1]]

IsEvery(f, s, needle, new) ==
  /\ \A i \in 0..(Len(s) + Len(needle)) : f[i] \in Seq(Held) /\ (i >= Len(s) => f[i] = <<>>)
  /\ \A i \in 0..(Len(s) - 1) :
       /\ Occurs(s, needle, i) => f[i] = new \o f[i + Len(needle)]
       /\ ~Occurs(s, needle, i) => f[i] = <<s[i + 1]>> \o f[i + 1]

LEMMA OneUnit ==
  ASSUME NEW s \in Seq(Held), NEW i \in 1..Len(s)
  PROVE  <<s[i]>> \in Seq(Held) /\ Len(<<s[i]>>) = 1
<1>1. PICK u : u = s[i]
  OBVIOUS
<1>2. u \in Held
  BY <1>1, ElementOfSeq
<1>3. <<u>> \in Seq(Held) /\ Len(<<u>>) = 1
  BY <1>2
<1> QED  BY <1>1, <1>3

LEMMA EveryIs ==
  ASSUME NEW s \in Seq(Held), NEW needle \in Seq(Held), NEW new \in Seq(Held), needle # <<>>
  PROVE  IsEvery(EveryFrom(s, needle, new), s, needle, new)
<1>1. PICK n \in Nat, x \in Nat : n = Len(s) /\ x = Len(needle)
  OBVIOUS
<1>2. x > 0
  BY <1>1, EmptySeq
<1>3. PICK m \in Nat : m = n + x
  OBVIOUS
<1>4. PICK q : q = [i \in 0..(n - 1) |-> IF Occurs(s, needle, i) THEN new ELSE <<s[i + 1]>>]
  OBVIOUS
<1>5. PICK g : g = [i \in 0..(n - 1) |-> IF Occurs(s, needle, i) THEN i + x ELSE i + 1]
  OBVIOUS
<1>6. ASSUME NEW i \in 0..(n - 1) PROVE q[i] \in Seq(Held) /\ g[i] \in (i + 1)..m
  <2>1. i + x \in (i + 1)..m /\ i + 1 \in (i + 1)..m
    BY <1>2, <1>3
  <2>2. i + 1 \in 1..Len(s)
    BY <1>1
  <2>3. <<s[i + 1]>> \in Seq(Held)
    BY <2>2, OneUnit
  <2>4. q[i] = (IF Occurs(s, needle, i) THEN new ELSE <<s[i + 1]>>)
        /\ g[i] = (IF Occurs(s, needle, i) THEN i + x ELSE i + 1)
    BY <1>4, <1>5
  <2> QED  BY <2>1, <2>3, <2>4
<1>7. IsChain(q, g, n, m)
  <2>1. n <= m
    BY <1>3
  <2> QED  BY <1>6, <2>1 DEF IsChain
<1> DEFINE Rule(f, i) == IF i >= n THEN <<>>
                         ELSE IF Occurs(s, needle, i) THEN new \o f[i + x]
                         ELSE <<s[i + 1]>> \o f[i + 1]
<1>8. ASSUME NEW f, NEW i \in 0..m PROVE Rule(f, i) = IF i >= n THEN <<>> ELSE q[i] \o f[g[i]]
  <2>1. CASE i >= n
    BY <2>1
  <2>2. CASE ~(i >= n)
    <3>1. i \in 0..(n - 1)
      BY <2>2
    <3>2. q[i] = (IF Occurs(s, needle, i) THEN new ELSE <<s[i + 1]>>)
          /\ g[i] = (IF Occurs(s, needle, i) THEN i + x ELSE i + 1)
      BY <1>4, <1>5, <3>1
    <3> QED  BY <2>2, <3>2
  <2> QED  BY <2>1, <2>2
<1>9. PICK f : f = EveryFrom(s, needle, new)
  OBVIOUS
<1>10. f = CHOOSE h : h = [i \in 0..m |-> Rule(h, i)]
  BY <1>1, <1>3, <1>9 DEF EveryFrom
<1> HIDE DEF Rule
<1>11. \A h : [i \in 0..m |-> Rule(h, i)] = [i \in 0..m |-> IF i >= n THEN <<>> ELSE q[i] \o h[g[i]]]
  BY <1>8
<1>12. PICK h : h = [i \in 0..m |-> Rule(h, i)]
  <2>1. PICK h : Follows(h, q, g, n, m)
    BY <1>7, ChainExists
  <2>2. h = [i \in 0..m |-> IF i >= n THEN <<>> ELSE q[i] \o h[g[i]]]
    BY <2>1 DEF Follows
  <2>3. PICK r : r = [i \in 0..m |-> Rule(h, i)]
    OBVIOUS
  <2>4. r = [i \in 0..m |-> IF i >= n THEN <<>> ELSE q[i] \o h[g[i]]]
    BY <1>11, <2>3
  <2>5. h = r
    BY <2>2, <2>4
  <2>6. h = [i \in 0..m |-> Rule(h, i)]
    BY <2>3, <2>5
  <2> QED  BY <2>6
<1>13. f = [i \in 0..m |-> Rule(f, i)]
  BY <1>10, <1>12
<1>14. Follows(f, q, g, n, m)
  BY <1>11, <1>13 DEF Follows
<1>15. \A i \in 0..m : f[i] \in Seq(Held)
  BY <1>7, <1>14, ChainValues
<1>16. \A i \in 0..m : f[i] = Rule(f, i)
  <2>1. PICK r : r = [i \in 0..m |-> Rule(f, i)]
    OBVIOUS
  <2>2. f = r
    BY <1>13, <2>1
  <2>3. \A i \in 0..m : r[i] = Rule(f, i)
    BY <2>1
  <2> QED  BY <2>2, <2>3
<1>17. \A i \in 0..m : i >= n => f[i] = <<>>
  BY <1>16 DEF Rule
<1>18. ASSUME NEW i \in 0..(n - 1)
       PROVE  /\ Occurs(s, needle, i) => f[i] = new \o f[i + x]
              /\ ~Occurs(s, needle, i) => f[i] = <<s[i + 1]>> \o f[i + 1]
  <2>1. i \in 0..m /\ ~(i >= n)
    BY <1>3
  <2>2. f[i] = Rule(f, i)
    BY <1>16, <2>1
  <2> QED  BY <2>1, <2>2 DEF Rule
<1>19. IsEvery(f, s, needle, new)
  BY <1>1, <1>3, <1>15, <1>17, <1>18 DEF IsEvery
<1> QED  BY <1>9, <1>19

GoesOn(s, k, i, j) == SubSeq(s, k + 1, j) = SubSeq(s, k + 1, i) \o <<s[j]>>

LEMMA PartAndUnit ==
  ASSUME NEW s \in Seq(Held), NEW k \in Nat, NEW i \in Nat, NEW j \in Nat, k <= i, j = i + 1, j <= Len(s)
  PROVE  GoesOn(s, k, i, j)
<1>1. PICK c : c = SubSeq(s, k + 1, i)
  OBVIOUS
<1>2. PICK d : d = SubSeq(s, k + 1, j)
  OBVIOUS
<1>3. PICK m \in Nat : m = i - k /\ i = k + m
  BY Difference
<1>4. i <= Len(s) /\ k <= j /\ m + 1 = j - k
  BY <1>3
<1>5. c \in Seq(Held) /\ Len(c) = m /\ \A b \in 1..m : c[b] = s[k + b]
  BY <1>1, <1>3, <1>4, WithinIs
<1>6. PICK h \in Nat : h = m + 1
  OBVIOUS
<1>7. h = j - k
  BY <1>4, <1>6
<1>8. d \in Seq(Held) /\ Len(d) = h /\ \A b \in 1..h : d[b] = s[k + b]
  BY <1>2, <1>4, <1>7, WithinIs
<1>9. PICK u : u = <<s[j]>>
  OBVIOUS
<1>10. u \in Seq(Held) /\ Len(u) = 1 /\ u[1] = s[j]
  <2>1. j \in 1..Len(s)
    OBVIOUS
  <2> QED  BY <1>9, <2>1, OneUnit
<1>11. PICK t : t = c \o u
  OBVIOUS
<1>12. IsBehind(t, c, u)
  BY <1>5, <1>10, <1>11, BehindIs
<1>13. t \in Seq(Held) /\ Len(t) = h /\ (\A b \in 1..m : t[b] = c[b]) /\ t[m + 1] = u[1]
  BY <1>5, <1>6, <1>10, <1>12 DEF IsBehind
<1>14. ASSUME NEW b \in 1..h PROVE d[b] = t[b]
  <2>1. CASE b <= m
    <3>1. b \in 1..m
      BY <2>1
    <3> QED  BY <1>5, <1>8, <1>13, <3>1
  <2>2. CASE b = m + 1
    <3>1. k + b = j
      BY <1>3, <2>2
    <3>2. d[b] = s[j]
      BY <1>8, <3>1
    <3> QED  BY <1>10, <1>13, <2>2, <3>2
  <2> QED  BY <1>6, <2>1, <2>2
<1>15. d = t
  BY <1>8, <1>13, <1>14, SameUnits
<1> QED  BY <1>1, <1>2, <1>9, <1>11, <1>15 DEF GoesOn

LEMMA NoPart ==
  ASSUME NEW s \in Seq(Held), NEW k \in Nat, k <= Len(s)
  PROVE  SubSeq(s, k + 1, k) = <<>>
<1>1. PICK c : c = SubSeq(s, k + 1, k)
  OBVIOUS
<1>2. PICK z \in Nat : z = 0 /\ z = k - k
  OBVIOUS
<1>3. c \in Seq(Held) /\ Len(c) = z
  BY <1>1, <1>2, WithinIs
<1> QED  BY <1>1, <1>2, <1>3, EmptySeq

LEMMA Before ==
  ASSUME NEW k \in Nat, NEW l \in Nat, NEW j \in k..l, j # k
  PROVE  \E i \in Nat : j = i + 1 /\ i < j /\ i \in k..l /\ i \in k..(l - 1)
<1>1. j - 1 \in Nat /\ j = (j - 1) + 1 /\ j - 1 < j /\ j - 1 \in k..l /\ j - 1 \in k..(l - 1)
  OBVIOUS
<1> QED  BY <1>1

LEMMA Associates ==
  ASSUME NEW p \in Seq(Held), NEW q \in Seq(Held), NEW r \in Seq(Held)
  PROVE  (p \o q) \o r = p \o (q \o r)
BY ConcatAssociative

\* What becomes of s behind k units is the units up to the l-th and what becomes of
\* it behind those.
IsSkip(s, f, k, l) == f[l] \in Seq(Held) /\ f[k] = SubSeq(s, k + 1, l) \o f[l]

NoneIn(s, needle, k, l) == \A i \in k..(l - 1) : ~Occurs(s, needle, i)

\* Where there is no needle the units stay as they are.
LEMMA Skips ==
  ASSUME NEW s \in Seq(Held), NEW needle \in Seq(Held), NEW new \in Seq(Held), NEW f, IsEvery(f, s, needle, new),
         NEW k \in Nat, NEW l \in Nat, k <= l, l <= Len(s), NoneIn(s, needle, k, l)
  PROVE  IsSkip(s, f, k, l)
<1> DEFINE Same(j) == f[k] = SubSeq(s, k + 1, j) \o f[j]
           Bad == {j \in k..l : ~Same(j)}
<1>1. PICK n \in Nat, m \in Nat : n = Len(s) /\ m = n + Len(needle)
  OBVIOUS
<1>2. \A i \in 0..m : f[i] \in Seq(Held)
  BY <1>1 DEF IsEvery
<1>3. ASSUME NEW j \in k..l PROVE f[j] \in Seq(Held) /\ SubSeq(s, k + 1, j) \in Seq(Held)
  <2>1. j \in 0..m /\ j \in Nat /\ k <= j /\ j <= Len(s)
    BY <1>1
  <2>2. PICK d \in Nat : d = j - k
    BY <2>1, Difference
  <2> QED  BY <1>2, <2>1, <2>2, WithinIs
<1>4. ASSUME Bad # {} PROVE FALSE
  <2>1. \A j \in Bad : j \in Nat
    OBVIOUS
  <2>2. PICK j \in Bad : \A i \in Bad : j <= i
    <3> HIDE DEF Bad
    <3> QED  BY <1>4, <2>1, LeastExists
  <2>3. j \in k..l /\ ~Same(j)
    OBVIOUS
  <2>4. CASE j = k
    <3>1. SubSeq(s, k + 1, j) = <<>>
      BY <2>4, NoPart
    <3>2. PICK u \in Seq(Held) : u = f[j]
      BY <1>3, <2>3
    <3>3. <<>> \o u = u
      BY ConcatEmptySeq
    <3>4. f[k] = SubSeq(s, k + 1, j) \o f[j]
      BY <2>4, <3>1, <3>2, <3>3
    <3> QED  BY <2>3, <3>4
  <2>5. CASE j # k
    <3>1. PICK i \in Nat : j = i + 1 /\ i < j /\ i \in k..l /\ i \in k..(l - 1)
      BY <2>3, <2>5, Before
    <3>11. i \in 0..(n - 1)
      <4>1. l <= n
        BY <1>1
      <4> QED  BY <3>1, <4>1
    <3>12. j \in Nat /\ j \in 1..Len(s)
      <4>1. j <= l /\ l <= n /\ n = Len(s)
        BY <1>1, <2>3
      <4>2. j = i + 1 /\ j <= n
        BY <3>1, <4>1
      <4>3. j \in 1..n
        BY <4>2
      <4> QED  BY <4>1, <4>3
    <3>2. i \notin Bad
      <4> HIDE DEF Bad
      <4>1. ~(j <= i)
        BY <3>1, <3>12
      <4> QED  BY <2>2, <4>1
    <3>3. f[k] = SubSeq(s, k + 1, i) \o f[i]
      BY <3>1, <3>2
    <3> HIDE DEF Bad, Same
    <3>4. f[i] = <<s[j]>> \o f[j]
      <4>1. ~Occurs(s, needle, i)
        BY <3>1 DEF NoneIn
      <4>2. f[i] = <<s[i + 1]>> \o f[i + 1]
        BY <1>1, <3>11, <4>1 DEF IsEvery
      <4> QED  BY <3>1, <4>2
    <3>5. PICK c \in Seq(Held), h \in Seq(Held) : c = SubSeq(s, k + 1, i) /\ h = f[j]
      BY <1>3, <2>3, <3>1
    <3>6. PICK u \in Seq(Held) : u = <<s[j]>>
      <4>1. <<s[j]>> \in Seq(Held)
        BY <3>12, OneUnit
      <4> QED  BY <4>1
    <3>7. (c \o u) \o h = c \o (u \o h)
      BY Associates
    <3>8. c \o u = SubSeq(s, k + 1, j)
      <4>1. k <= i
        BY <3>1
      <4>2. j = i + 1
        BY <3>1
      <4>3. j \in Nat /\ j <= Len(s)
        BY <3>12
      <4>4. PICK x \in Nat : x = j
        BY <4>3
      <4>5. x = i + 1
        BY <4>2, <4>4
      <4>6. x <= Len(s)
        BY <4>3, <4>4
      <4>7. GoesOn(s, k, i, x)
        BY <4>1, <4>5, <4>6, PartAndUnit
      <4> QED  BY <3>5, <3>6, <4>4, <4>7 DEF GoesOn
    <3>9. f[k] = c \o (u \o h)
      BY <3>3, <3>4, <3>5, <3>6
    <3>10. f[k] = SubSeq(s, k + 1, j) \o f[j]
      BY <3>5, <3>7, <3>8, <3>9
    <3> QED  BY <2>3, <3>10 DEF Same
  <2> QED  BY <2>4, <2>5
<1>5. l \notin Bad
  BY <1>4
<1>6. l \in k..l
  OBVIOUS
<1>7. Same(l)
  BY <1>5, <1>6
<1> QED  BY <1>3, <1>6, <1>7 DEF IsSkip

(***************************************************************************)
(* A text of which the references to variables are resolved.               *)
(***************************************************************************)

\* Where the name ends that begins behind i units.
NameEndOf(s, i) ==
  LET ends == {j \in i..Len(s) : j = Len(s) \/ s[j + 1] \notin NameUnits}
  IN  CHOOSE j \in ends : \A k \in ends : j <= k

ValueIn(env, name) == IF name \in DOMAIN env THEN env[name] ELSE <<>>

IsEnvironment(env) == \A name : ValueIn(env, name) \in Seq(Held)

\* The last of the units of a name that begins behind i units is the j-th.
IsNameEnd(s, i, j) ==
  /\ j \in i..Len(s) /\ j = NameEndOf(s, i)
  /\ \A k \in (i + 1)..j : s[k] \in NameUnits
  /\ j = Len(s) \/ s[j + 1] \notin NameUnits

LEMMA NameEndIs ==
  ASSUME NEW s \in Seq(Held), NEW i \in Nat, i <= Len(s)
  PROVE  IsNameEnd(s, i, NameEndOf(s, i))
<1>1. PICK n \in Nat : n = Len(s)
  OBVIOUS
<1> DEFINE Ends == {j \in i..n : j = n \/ s[j + 1] \notin NameUnits}
<1>2. n \in Ends
  BY <1>1
<1>3. \A j \in Ends : j \in Nat
  OBVIOUS
<1>4. NameEndOf(s, i) = CHOOSE j \in Ends : \A k \in Ends : j <= k
  BY <1>1 DEF NameEndOf
<1>5. PICK j \in Ends : j = NameEndOf(s, i) /\ \A k \in Ends : j <= k
  <2> HIDE DEF Ends
  <2>1. \E j \in Ends : \A k \in Ends : j <= k
    BY <1>2, <1>3, LeastExists
  <2> QED  BY <1>4, <2>1
<1>6. j \in i..n /\ (j = n \/ s[j + 1] \notin NameUnits)
  OBVIOUS
<1>7. ASSUME NEW k \in (i + 1)..j PROVE s[k] \in NameUnits
  <2>1. PICK l \in i..n : l = k - 1 /\ l < j /\ l + 1 = k
    <3>1. k - 1 \in i..n /\ k - 1 < j /\ (k - 1) + 1 = k
      BY <1>6
    <3> QED  BY <3>1
  <2>2. l \notin Ends
    <3> HIDE DEF Ends
    <3>1. ~(j <= l)
      BY <1>6, <2>1
    <3> QED  BY <1>5, <3>1
  <2> QED  BY <2>1, <2>2
<1> QED  BY <1>1, <1>5, <1>6, <1>7 DEF IsNameEnd

\* There is no other place like it.
LEMMA OneNameEnd ==
  ASSUME NEW s \in Seq(Held), NEW i \in Nat, NEW n \in Nat, n = Len(s), NEW j \in i..n, NEW k \in i..n,
         \A l \in (i + 1)..j : s[l] \in NameUnits, j = n \/ s[j + 1] \notin NameUnits,
         \A l \in (i + 1)..k : s[l] \in NameUnits, k = n \/ s[k + 1] \notin NameUnits
  PROVE  j = k
<1>1. ASSUME j < k PROVE FALSE
  <2>1. j + 1 \in (i + 1)..k /\ j # n
    BY <1>1
  <2> QED  BY <2>1
<1>2. ASSUME k < j PROVE FALSE
  <2>1. k + 1 \in (i + 1)..j /\ k # n
    BY <1>2
  <2> QED  BY <2>1
<1> QED  BY <1>1, <1>2

IsEscape(s, i) == i + 1 < Len(s) /\ s[i + 1] = Backslash /\ s[i + 2] = Dollar

\* What becomes of s from each place on when its references are resolved.
ResolvedFrom(env, s) ==
  CHOOSE f : f = [i \in 0..Len(s) |->
    IF i = Len(s) THEN <<>>
    ELSE IF IsEscape(s, i) THEN <<Dollar>> \o f[i + 2]
    ELSE IF s[i + 1] = Dollar
         THEN ValueIn(env, SubSeq(s, i + 2, NameEndOf(s, i + 1))) \o f[NameEndOf(s, i + 1)]
    ELSE <<s[i + 1]>> \o f[i + 1]]

IsResolving(f, env, s) ==
  /\ f[Len(s)] = <<>> /\ \A i \in 0..Len(s) : f[i] \in Seq(Held)
  /\ \A i \in 0..(Len(s) - 1) :
       /\ IsEscape(s, i) => f[i] = <<Dollar>> \o f[i + 2]
       /\ ~IsEscape(s, i) /\ s[i + 1] = Dollar =>
            f[i] = ValueIn(env, SubSeq(s, i + 2, NameEndOf(s, i + 1))) \o f[NameEndOf(s, i + 1)]
       /\ ~IsEscape(s, i) /\ s[i + 1] # Dollar => f[i] = <<s[i + 1]>> \o f[i + 1]

LEMMA ResolvingIs ==
  ASSUME NEW s \in Seq(Held), NEW env, IsEnvironment(env)
  PROVE  IsResolving(ResolvedFrom(env, s), env, s)
<1>1. PICK n \in Nat : n = Len(s)
  OBVIOUS
<1> DEFINE Part(i) == IF IsEscape(s, i) THEN <<Dollar>>
                      ELSE IF s[i + 1] = Dollar THEN ValueIn(env, SubSeq(s, i + 2, NameEndOf(s, i + 1)))
                      ELSE <<s[i + 1]>>
           Goes(i) == IF IsEscape(s, i) THEN i + 2
                      ELSE IF s[i + 1] = Dollar THEN NameEndOf(s, i + 1) ELSE i + 1
           Rule(f, i) == IF i = n THEN <<>>
                         ELSE IF IsEscape(s, i) THEN <<Dollar>> \o f[i + 2]
                         ELSE IF s[i + 1] = Dollar
                              THEN ValueIn(env, SubSeq(s, i + 2, NameEndOf(s, i + 1)))
                                     \o f[NameEndOf(s, i + 1)]
                         ELSE <<s[i + 1]>> \o f[i + 1]
<1>4. PICK q : q = [i \in 0..(n - 1) |-> Part(i)]
  OBVIOUS
<1>5. PICK g : g = [i \in 0..(n - 1) |-> Goes(i)]
  OBVIOUS
<1>20. \A i \in 0..(n - 1) : q[i] = Part(i) /\ g[i] = Goes(i)
  <2> HIDE DEF Part, Goes
  <2> QED  BY <1>4, <1>5
<1>6. ASSUME NEW i \in 0..(n - 1) PROVE q[i] \in Seq(Held) /\ g[i] \in (i + 1)..n
  <2>1. IsEscape(s, i) => i + 2 \in (i + 1)..n /\ i + 2 \in 1..n /\ s[i + 2] = Dollar
    <3>1. IsEscape(s, i) => i + 1 < n /\ s[i + 2] = Dollar
      BY <1>1 DEF IsEscape
    <3> QED  BY <3>1
  <2>2. i + 1 \in 1..n /\ i + 1 \in Nat /\ i + 1 \in (i + 1)..n
    OBVIOUS
  <2>3. <<s[i + 1]>> \in Seq(Held)
    BY <1>1, <2>2, OneUnit
  <2>4. IsEscape(s, i) => <<Dollar>> \in Seq(Held)
    BY <1>1, <2>1, OneUnit
  <2>5. NameEndOf(s, i + 1) \in (i + 1)..n
    <3>1. IsNameEnd(s, i + 1, NameEndOf(s, i + 1))
      BY <1>1, <2>2, NameEndIs
    <3> QED  BY <1>1, <3>1 DEF IsNameEnd
  <2>6. ValueIn(env, SubSeq(s, i + 2, NameEndOf(s, i + 1))) \in Seq(Held)
    BY DEF IsEnvironment
  <2>7. Part(i) \in Seq(Held)
    BY <2>3, <2>4, <2>6, Zenon
  <2>8. Goes(i) \in (i + 1)..n
    BY <2>1, <2>2, <2>5, Zenon
  <2> HIDE DEF Part, Goes
  <2> QED  BY <1>20, <2>7, <2>8
<1>7. IsChain(q, g, n, n)
  BY <1>6 DEF IsChain
<1>8. ASSUME NEW f, NEW i \in 0..n PROVE Rule(f, i) = IF i >= n THEN <<>> ELSE q[i] \o f[g[i]]
  <2>1. CASE i = n
    BY <2>1
  <2>2. CASE i # n
    <3>1. i \in 0..(n - 1) /\ ~(i >= n)
      BY <2>2
    <3>2. q[i] = Part(i) /\ g[i] = Goes(i)
      BY <1>20, <3>1
    <3>3. Rule(f, i) = Part(i) \o f[Goes(i)]
      BY <2>2, Zenon
    <3> HIDE DEF Rule, Part, Goes
    <3> QED  BY <3>1, <3>2, <3>3
  <2> QED  BY <2>1, <2>2
<1>9. PICK f : f = ResolvedFrom(env, s)
  OBVIOUS
<1>10. f = CHOOSE h : h = [i \in 0..n |-> Rule(h, i)]
  BY <1>1, <1>9 DEF ResolvedFrom
<1> HIDE DEF Rule, Part, Goes
<1>11. \A h : [i \in 0..n |-> Rule(h, i)] = [i \in 0..n |-> IF i >= n THEN <<>> ELSE q[i] \o h[g[i]]]
  BY <1>8
<1>12. PICK h : h = [i \in 0..n |-> Rule(h, i)]
  <2>1. PICK h : Follows(h, q, g, n, n)
    BY <1>7, ChainExists
  <2>2. h = [i \in 0..n |-> IF i >= n THEN <<>> ELSE q[i] \o h[g[i]]]
    BY <2>1 DEF Follows
  <2>3. PICK r : r = [i \in 0..n |-> Rule(h, i)]
    OBVIOUS
  <2>4. r = [i \in 0..n |-> IF i >= n THEN <<>> ELSE q[i] \o h[g[i]]]
    BY <1>11, <2>3
  <2>5. h = r
    BY <2>2, <2>4
  <2>6. h = [i \in 0..n |-> Rule(h, i)]
    BY <2>3, <2>5
  <2> QED  BY <2>6
<1>13. f = [i \in 0..n |-> Rule(f, i)]
  BY <1>10, <1>12
<1>14. Follows(f, q, g, n, n)
  BY <1>11, <1>13 DEF Follows
<1>15. \A i \in 0..n : f[i] \in Seq(Held)
  BY <1>7, <1>14, ChainValues
<1>16. \A i \in 0..n : f[i] = Rule(f, i)
  <2>1. PICK r : r = [i \in 0..n |-> Rule(f, i)]
    OBVIOUS
  <2>2. f = r
    BY <1>13, <2>1
  <2>3. \A i \in 0..n : r[i] = Rule(f, i)
    BY <2>1
  <2> QED  BY <2>2, <2>3
<1>17. f[n] = <<>>
  <2>1. f[n] = Rule(f, n)
    BY <1>16
  <2> QED  BY <2>1 DEF Rule
<1>18. ASSUME NEW i \in 0..(n - 1)
       PROVE  /\ IsEscape(s, i) => f[i] = <<Dollar>> \o f[i + 2]
              /\ ~IsEscape(s, i) /\ s[i + 1] = Dollar =>
                   f[i] = ValueIn(env, SubSeq(s, i + 2, NameEndOf(s, i + 1))) \o f[NameEndOf(s, i + 1)]
              /\ ~IsEscape(s, i) /\ s[i + 1] # Dollar => f[i] = <<s[i + 1]>> \o f[i + 1]
  <2>1. i \in 0..n /\ i # n
    OBVIOUS
  <2>2. f[i] = Rule(f, i)
    BY <1>16, <2>1
  <2> QED  BY <2>1, <2>2, Zenon DEF Rule
<1>19. IsResolving(f, env, s)
  BY <1>1, <1>15, <1>17, <1>18 DEF IsResolving
<1> QED  BY <1>9, <1>19

(***************************************************************************)
(* What the calls leave, as Text says it.                                  *)
(***************************************************************************)

LEMMA EmptyPart ==
  ASSUME NEW s, NEW f \in Nat, NEW l \in Nat, l <= f
  PROVE  SubSeq(s, f + 1, l) = <<>>
<1>1. PICK g \in Nat : g = f + 1
  OBVIOUS
<1>2. PICK c : c = [j \in 1..((l - g) + 1) |-> s[(j + g) - 1]]
  OBVIOUS
<1>3. PICK z \in Nat : z = 0
  OBVIOUS
<1>4. 1..((l - g) + 1) = 1..z
  BY <1>1, <1>3
<1>5. c = [j \in 1..z |-> s[(j + g) - 1]]
  BY <1>2, <1>4
<1>6. c \in [1..z -> Held]
  BY <1>3, <1>5
<1>7. c = <<>>
  BY <1>3, <1>6, ASequence, EmptySeq
<1>8. SubSeq(s, g, l) = c
  BY <1>2
<1> QED  BY <1>1, <1>7, <1>8

LEMMA AllPart ==
  ASSUME NEW s \in Seq(Held), NEW n \in Nat, n = Len(s)
  PROVE  SubSeq(s, 1, n) = s
<1>1. PICK z \in Nat : z = 0 /\ z + 1 = 1 /\ n - z = n /\ z <= n
  OBVIOUS
<1>2. PICK b : b = SubSeq(s, z + 1, n)
  OBVIOUS
<1>3. b \in Seq(Held) /\ Len(b) = n /\ \A j \in 1..n : b[j] = s[z + j]
  BY <1>1, <1>2, WithinIs
<1>4. \A j \in 1..n : b[j] = s[j]
  <2>1. \A j \in 1..n : z + j = j
    BY <1>1
  <2> QED  BY <1>3, <2>1
<1>5. b = s
  BY <1>3, <1>4, SameUnits
<1> QED  BY <1>1, <1>2, <1>5

\* The first occurrence of a needle from at on, or -1.
IsFirst(x, s, needle, at) ==
  \/ x = -1 /\ \A i \in Nat : i >= at => ~Occurs(s, needle, i)
  \/ /\ x \in Nat /\ x >= at /\ x + Len(needle) <= Len(s) /\ Occurs(s, needle, x)
     /\ \A i \in at..(x - 1) : ~Occurs(s, needle, i)

LEMMA FirstIs ==
  ASSUME NEW s \in Seq(Held), NEW needle \in Seq(Held), NEW at \in Nat, needle # <<>>
  PROVE  IsFirst(IndexOf(s, needle, at), s, needle, at)
<1>1. PICK n \in Nat, m \in Nat : n = Len(s) /\ m = Len(needle)
  OBVIOUS
<1>2. m > 0
  BY <1>1, EmptySeq
<1>3. \A i \in Nat : Occurs(s, needle, i) => i + m <= n
  BY <1>1 DEF Occurs
<1>4. PICK P : P = Matches(s, needle)
  OBVIOUS
<1>5. \A i \in 0..n : P[i] = Occurs(s, needle, i)
  BY <1>1, <1>4, Zenon DEF Matches, Occurs
<1>6. PICK x : x = IndexOf(s, needle, at)
  OBVIOUS
<1>7. CASE at >= n \/ m > n
  <2>1. ~(at < 0)
    OBVIOUS
  <2>2. x = -1
    BY <1>1, <1>6, <1>7, <2>1 DEF IndexOf
  <2>3. \A i \in Nat : i >= at => ~Occurs(s, needle, i)
    <3>1. \A i \in Nat : i >= at => ~(i + m <= n)
      BY <1>2, <1>7
    <3> QED  BY <1>3, <3>1
  <2> QED  BY <1>6, <2>2, <2>3 DEF IsFirst
<1>8. CASE ~(at >= n \/ m > n)
  <2>1. PICK S : S = {i \in at..(n - 1) : P[i]}
    OBVIOUS
  <2>2. x = IF S = {} THEN -1 ELSE CHOOSE i \in S : \A j \in S : i <= j
    <3>1. ~(at < 0)
      OBVIOUS
    <3>2. x = FirstFrom(at, n - 1, P)
      BY <1>1, <1>4, <1>6, <1>8, <3>1 DEF IndexOf
    <3> QED  BY <2>1, <3>2 DEF FirstFrom
  <2>3. \A i \in Nat : i >= at /\ Occurs(s, needle, i) => i \in S
    <3>1. \A i \in Nat : i >= at /\ i + m <= n => i \in at..(n - 1) /\ i \in 0..n
      BY <1>2
    <3> QED  BY <1>3, <1>5, <2>1, <3>1
  <2>4. \A i \in S : i \in Nat /\ i >= at /\ Occurs(s, needle, i)
    <3>1. \A i \in at..(n - 1) : i \in Nat /\ i >= at /\ i \in 0..n
      OBVIOUS
    <3> QED  BY <1>5, <2>1, <3>1
  <2>5. CASE S = {}
    BY <1>6, <2>2, <2>3, <2>5 DEF IsFirst
  <2>6. CASE S # {}
    <3>1. S \in SUBSET Nat
      BY <2>4
    <3>2. \E i \in S : \A j \in S : i <= j
      BY <2>6, <3>1, LeastExists
    <3>3. x \in S /\ \A j \in S : x <= j
      BY <2>2, <2>6, <3>2
    <3>4. x \in Nat /\ x >= at /\ Occurs(s, needle, x)
      BY <2>4, <3>3
    <3>5. x + Len(needle) <= Len(s)
      BY <3>4 DEF Occurs
    <3>6. ASSUME NEW i \in at..(x - 1) PROVE ~Occurs(s, needle, i)
      <4>1. i \in Nat /\ i >= at /\ ~(x <= i)
        BY <3>4
      <4> QED  BY <2>3, <3>3, <4>1
    <3> QED  BY <1>6, <3>4, <3>5, <3>6 DEF IsFirst
  <2> QED  BY <2>5, <2>6
<1> QED  BY <1>7, <1>8

\* What is left of s when i units at its start and those behind the j-th are trimmed.
IsCut(op, t, s, i, j) ==
  /\ i <= j /\ t = SubSeq(s, i + 1, j)
  /\ \A k \in (1..i) \cup ((j + 1)..Len(s)) : s[k] \in Bare
  /\ IF op = "trim_right" THEN i = 0 ELSE t = <<>> \/ s[i + 1] \notin Bare
  /\ IF op = "trim_left" THEN j = Len(s) ELSE t = <<>> \/ s[j] \notin Bare

\* Trimmed first on the left and then on the right.
LEMMA CutsBoth ==
  ASSUME NEW s \in Seq(Held), NEW n \in Nat, n = Len(s), NEW i \in 0..n, NEW t, IsLeftCut(t, s, i),
         NEW j \in 0..Len(t), NEW u, IsRightCut(u, t, j)
  PROVE  \E l \in 0..n : IsCut("trim", u, s, i, l)
<1>11. i \in Nat /\ i <= n
  OBVIOUS
<1>1. PICK m \in Nat : m = n - i /\ n = i + m
  BY <1>11, Difference
<1>2. t \in Seq(Held) /\ Len(t) = m /\ \A b \in 1..m : t[b] = s[i + b]
  <2>1. t = SubSeq(s, i + 1, n) /\ i <= n /\ n <= Len(s) /\ i \in Nat
    BY DEF IsLeftCut
  <2> QED  BY <1>1, <2>1, WithinIs
<1>3. PICK l \in Nat : l = i + j
  OBVIOUS
<1>4. j \in Nat /\ j <= m /\ i <= l /\ l <= n /\ j = l - i /\ j - 0 = j /\ i \in Nat
  BY <1>1, <1>2, <1>3
<1>5. PICK c : c = SubSeq(s, i + 1, l)
  OBVIOUS
<1>6. c \in Seq(Held) /\ Len(c) = j /\ \A b \in 1..j : c[b] = s[i + b]
  BY <1>4, <1>5, WithinIs
<1>7. u \in Seq(Held) /\ Len(u) = j /\ \A b \in 1..j : u[b] = t[b]
  <2>1. PICK z \in Nat : z = 0 /\ z + 1 = 1 /\ j - z = j /\ z <= j
    BY <1>4
  <2>2. u = SubSeq(t, z + 1, j)
    BY <2>1 DEF IsRightCut
  <2>3. u \in Seq(Held) /\ Len(u) = j /\ \A b \in 1..j : u[b] = t[z + b]
    BY <1>2, <1>4, <2>1, <2>2, WithinIs
  <2>4. \A b \in 1..j : z + b = b
    BY <2>1
  <2> QED  BY <2>3, <2>4
<1>8. u = c
  <2>1. \A b \in 1..j : u[b] = c[b]
    <3>1. \A b \in 1..j : b \in 1..m
      BY <1>4
    <3> QED  BY <1>2, <1>6, <1>7, <3>1
  <2> QED  BY <1>4, <1>6, <1>7, <2>1, SameUnits
<1>9. ASSUME NEW k \in (1..i) \cup ((l + 1)..n) PROVE s[k] \in Bare
  <2>1. CASE k \in 1..i
    BY <2>1 DEF IsLeftCut
  <2>2. CASE k \in (l + 1)..n
    <3>1. PICK b \in (j + 1)..m : k = i + b
      <4>1. k - i \in (j + 1)..m /\ k = i + (k - i)
        BY <1>1, <1>3, <2>2
      <4> QED  BY <4>1
    <3>2. t[b] \in Bare
      BY <1>2 DEF IsRightCut
    <3>3. b \in 1..m
      BY <1>4
    <3> QED  BY <1>2, <3>1, <3>2, <3>3
  <2> QED  BY <2>1, <2>2
<1>10. ASSUME u # <<>> PROVE s[i + 1] \notin Bare /\ s[l] \notin Bare
  <2>1. j > 0
    BY <1>4, <1>7, <1>10, EmptySeq
  <2>2. t # <<>>
    BY <1>2, <1>4, <2>1
  <2>3. s[i + 1] \notin Bare
    BY <2>2 DEF IsLeftCut
  <2>4. j \in 1..m
    BY <1>4, <2>1
  <2>5. t[j] = s[l]
    BY <1>2, <1>3, <2>4
  <2> QED  BY <1>10, <2>3, <2>5 DEF IsRightCut
<1>12. IsCut("trim", u, s, i, l)
  BY <1>4, <1>5, <1>8, <1>9, <1>10 DEF IsCut
<1> QED  BY <1>4, <1>12

\* Units written over others, as the parts before, among and behind them.
IsParted(t, s, at, p, k, e) ==
  /\ SubSeq(t, 1, k) = SubSeq(s, 1, k)
  /\ SubSeq(t, at + 1, e) = p
  /\ SubSeq(t, e + 1, Len(t)) = SubSeq(s, e + 1, Len(s))

LEMMA OverIs ==
  ASSUME NEW s \in Seq(Held), NEW at \in Nat, NEW p \in Seq(Held), NEW t, IsOver(t, s, at, p),
         NEW k \in Nat, k = IF at < Len(s) THEN at ELSE Len(s), NEW e \in Nat, e = at + Len(p)
  PROVE  IsParted(t, s, at, p, k, e)
<1>1. PICK n \in Nat, m \in Nat : n = Len(s) /\ m = Len(p)
  OBVIOUS
<1>2. PICK h \in Nat : h = Len(t) /\ t \in Seq(Held) /\ h = IF n < e THEN e ELSE n
  BY <1>1 DEF IsOver
<1>3. \A j \in 1..n : j \notin (at + 1)..e => t[j] = s[j]
  BY <1>1 DEF IsOver
<1>4. \A j \in 1..m : t[at + j] = p[j]
  BY <1>1 DEF IsOver
<1>5. e = at + m /\ m = e - at /\ at <= e /\ e <= h /\ k <= n /\ k <= h /\ k <= at /\ n <= h
  BY <1>1, <1>2
<1>9. t \in Seq(Held) /\ k <= Len(t) /\ k <= Len(s) /\ e <= Len(t)
  BY <1>1, <1>2, <1>5
<1>6. SubSeq(t, 1, k) = SubSeq(s, 1, k)
  <2>1. PICK z \in Nat : z = 0 /\ z + 1 = 1 /\ k - z = k /\ z <= k
    OBVIOUS
  <2>2. PICK b : b = SubSeq(s, z + 1, k)
    OBVIOUS
  <2>3. b \in Seq(Held) /\ Len(b) = k /\ \A j \in 1..k : b[j] = s[z + j]
    BY <1>9, <2>1, <2>2, WithinIs
  <2>4. PICK c : c = SubSeq(t, z + 1, k)
    OBVIOUS
  <2>5. c \in Seq(Held) /\ Len(c) = k /\ \A j \in 1..k : c[j] = t[z + j]
    BY <1>9, <2>1, <2>4, WithinIs
  <2>6. ASSUME NEW j \in 1..k PROVE b[j] = c[j]
    <3>1. j \in 1..n /\ j \notin (at + 1)..e /\ z + j = j
      BY <1>5, <2>1
    <3>2. t[j] = s[j]
      BY <1>3, <3>1
    <3> QED  BY <2>3, <2>5, <3>1, <3>2
  <2>7. b = c
    BY <2>3, <2>5, <2>6, SameUnits
  <2> QED  BY <2>1, <2>2, <2>4, <2>7
<1>7. SubSeq(t, at + 1, e) = p
  <2>1. PICK c : c = SubSeq(t, at + 1, e)
    OBVIOUS
  <2>2. c \in Seq(Held) /\ Len(c) = m /\ \A j \in 1..m : c[j] = t[at + j]
    <3>1. at <= e /\ m = e - at
      BY <1>5
    <3> QED  BY <1>9, <2>1, <3>1, WithinIs
  <2>3. \A j \in 1..m : c[j] = p[j]
    BY <1>4, <2>2
  <2>4. c = p
    BY <1>1, <2>2, <2>3, SameUnits
  <2> QED  BY <2>1, <2>4
<1>8. SubSeq(t, e + 1, h) = SubSeq(s, e + 1, n)
  <2>1. CASE n <= e
    <3>1. h <= e
      BY <1>2, <2>1
    <3> QED  BY <2>1, <3>1, EmptyPart
  <2>2. CASE ~(n <= e)
    <3>1. h = n /\ e <= n
      BY <1>2, <2>2
    <3>2. PICK d \in Nat : d = n - e /\ n = e + d
      BY <3>1, Difference
    <3>9. e <= n /\ n <= Len(s) /\ n <= Len(t)
      BY <1>1, <1>2, <3>1
    <3>3. PICK b : b = SubSeq(s, e + 1, n)
      OBVIOUS
    <3>4. b \in Seq(Held) /\ Len(b) = d /\ \A j \in 1..d : b[j] = s[e + j]
      BY <3>2, <3>3, <3>9, WithinIs
    <3>5. PICK c : c = SubSeq(t, e + 1, n)
      OBVIOUS
    <3>6. c \in Seq(Held) /\ Len(c) = d /\ \A j \in 1..d : c[j] = t[e + j]
      <4>1. t \in Seq(Held)
        BY <1>9
      <4>2. d = n - e
        BY <3>2
      <4> QED  BY <3>5, <3>9, <4>1, <4>2, WithinIs
    <3>7. ASSUME NEW j \in 1..d PROVE b[j] = c[j]
      <4>1. e + j \in 1..n /\ e + j \notin (at + 1)..e
        BY <3>2
      <4>2. t[e + j] = s[e + j]
        BY <1>3, <4>1
      <4> QED  BY <3>4, <3>6, <4>2
    <3>8. b = c
      BY <3>4, <3>6, <3>7, SameUnits
    <3> QED  BY <3>1, <3>3, <3>5, <3>8
  <2> QED  BY <2>1, <2>2
<1> QED  BY <1>1, <1>2, <1>6, <1>7, <1>8 DEF IsParted

LEMMA NoUnits ==
  ASSUME NEW a, a.size = 0
  PROVE  UnitsOf(a) = <<>>
<1>1. PICK z \in Nat : z = 0
  OBVIOUS
<1>2. PICK c : c = [i \in 1..z |-> IF a.data = "live" THEN a.cells[i] ELSE ArrayUnset]
  OBVIOUS
<1>3. c \in [1..z -> Held]
  BY <1>1, <1>2
<1>4. c = <<>>
  BY <1>1, <1>3, ASequence, EmptySeq
<1> QED  BY <1>1, <1>2, <1>4 DEF UnitsOf

Shown == IF Idle THEN Now ELSE scan.orig

EveryValue == [name \in Seq(Held) |-> EnvironmentValue(name)]

CodeText ==
  INSTANCE Text WITH
    Units <- Contents \cup {Nul}, Environment <- EveryValue, text <- Shown, call <- arrayCall

\* A call that changed no more than a fault, or did what Text says.
Told == CodeText!Next \/ UNCHANGED <<Shown, arrayCall>>

LEMMA ShownLeft ==
  ASSUME Idle, UNCHANGED scan, NEW new, Keeps(new)
  PROVE  Shown = Now /\ Shown' = UnitsOf(new)
<1>1. arr' = new
  BY DEF Keeps
<1>2. Idle'
  BY DEF Idle
<1>3. Now' = UnitsOf(new)
  BY <1>1 DEF Now, ArrayItems, UnitsOf
<1> QED  BY <1>2, <1>3 DEF Shown

LEMMA ShownFault ==
  ASSUME Faults, UNCHANGED scan
  PROVE  Told
<1>1. UNCHANGED <<arr, arrayCall>>
  BY DEF Faults
<1>2. Idle' = Idle /\ Now' = Now /\ scan'.orig = scan.orig
  BY <1>1 DEF Idle, Now, ArrayItems
<1>3. Shown' = Shown
  BY <1>2 DEF Shown
<1> QED  BY <1>1, <1>3 DEF Told

\* What a call that is made records, and what it leaves.
IsMade(c, new) ==
  Idle /\ UNCHANGED scan /\ arrayCall' = c /\ Shown = Now /\ Shown' = UnitsOf(new)

LEMMA CallsMake ==
  ASSUME NEW op, NEW at, NEW n, NEW s, NEW room, NEW new, Calls(op, at, n, s, room, new)
  PROVE  \/ Told
         \/ new.data = "live" /\ IsMade([op |-> op, at |-> at, n |-> n, s |-> s], new)
<1>1. Idle /\ UNCHANGED scan
  BY DEF Calls
<1>2. CASE Faults
  BY <1>1, <1>2, ShownFault
<1>3. CASE new.data = "live" /\ ArrayCalled(op, at, n, s) /\ Keeps(new)
  <2>1. arrayCall' = [op |-> op, at |-> at, n |-> n, s |-> s]
    BY <1>3 DEF ArrayCalled
  <2>2. Shown = Now /\ Shown' = UnitsOf(new)
    BY <1>1, <1>3, ShownLeft
  <2> QED  BY <1>1, <1>3, <2>1, <2>2 DEF IsMade
<1> QED  BY <1>2, <1>3 DEF Calls

LEMMA LeavesMake ==
  ASSUME Idle, UNCHANGED scan, NEW op, NEW at, NEW n, NEW s, ArrayCalled(op, at, n, s), NEW new, Keeps(new)
  PROVE  IsMade([op |-> op, at |-> at, n |-> n, s |-> s], new)
<1>1. arrayCall' = [op |-> op, at |-> at, n |-> n, s |-> s]
  BY DEF ArrayCalled
<1> QED  BY <1>1, ShownLeft DEF IsMade

(***************************************************************************)
(* Each call of Text, from what the call leaves.                           *)
(***************************************************************************)

LEMMA TellsSized ==
  ASSUME NEW n \in Nat, NEW s, NEW new, IsMade([op |-> "sized", at |-> 0, n |-> n, s |-> s], new),
         NEW t \in Seq(Held), t = UnitsOf(new), Len(t) = n
  PROVE  Told
<1>1. \A i \in 1..n : t[i] \in Contents \cup {Nul}
  <2>1. \A i \in 1..n : t[i] \in Held
    BY ElementOfSeq
  <2> QED  BY <2>1 DEF Held
<1>2. Shown' = t /\ arrayCall'.op = "sized" /\ arrayCall'.n = n
  BY DEF IsMade
<1>3. CodeText!Sized
  BY <1>1, <1>2 DEF CodeText!Sized, CodeText!Called
<1> QED  BY <1>3 DEF Told, CodeText!Next

LEMMA TellsSet ==
  ASSUME NEW s, NEW new, IsMade([op |-> "set", at |-> 0, n |-> 0, s |-> s], new), UnitsOf(new) = s
  PROVE  Told
<1>1. Shown' = s /\ arrayCall'.op = "set" /\ arrayCall'.s = s
  BY DEF IsMade
<1>2. CodeText!SetTo
  BY <1>1 DEF CodeText!SetTo, CodeText!Called
<1> QED  BY <1>2 DEF Told, CodeText!Next

LEMMA TellsClear ==
  ASSUME NEW new, IsMade([op |-> "clear", at |-> 0, n |-> 0, s |-> <<>>], new), new.size = 0
  PROVE  Told
<1>1. Shown' = <<>> /\ arrayCall'.op = "clear"
  BY NoUnits DEF IsMade
<1>2. CodeText!Clear
  BY <1>1 DEF CodeText!Clear, CodeText!Called
<1> QED  BY <1>2 DEF Told, CodeText!Next

LEMMA TellsKeep ==
  ASSUME NEW new, IsMade([op |-> "keep", at |-> 0, n |-> 0, s |-> <<>>], new), UnitsOf(new) = Now
  PROVE  Told
<1>1. Shown' = Shown /\ arrayCall'.op = "keep"
  BY DEF IsMade
<1>2. CodeText!Keep
  BY <1>1 DEF CodeText!Keep, CodeText!Called
<1> QED  BY <1>2 DEF Told, CodeText!Next

LEMMA TellsExtend ==
  ASSUME NEW s, NEW new, IsMade([op |-> "append", at |-> 0, n |-> 0, s |-> s], new), UnitsOf(new) = Now \o s
  PROVE  Told
<1>1. Shown' = Shown \o s /\ arrayCall'.op = "append" /\ arrayCall'.s = s
  BY DEF IsMade
<1>2. CodeText!Extend
  BY <1>1 DEF CodeText!Extend, CodeText!Called
<1> QED  BY <1>2 DEF Told, CodeText!Next

LEMMA TellsPrepend ==
  ASSUME NEW s, NEW new, IsMade([op |-> "prepend", at |-> 0, n |-> 0, s |-> s], new), UnitsOf(new) = s \o Now
  PROVE  Told
<1>1. Shown' = s \o Shown /\ arrayCall'.op = "prepend" /\ arrayCall'.s = s
  BY DEF IsMade
<1>2. CodeText!Prepend
  BY <1>1 DEF CodeText!Prepend, CodeText!Called
<1> QED  BY <1>2 DEF Told, CodeText!Next

LEMMA TellsNoCopy ==
  ASSUME NEW s, NEW n \in Nat, NEW at, IsMade([op |-> "copy", at |-> at, n |-> n, s |-> s], arr), IsString(arr),
         SubSeq(s, 1, IF n < Len(s) THEN n ELSE Len(s)) = <<>>
  PROVE  Told
<1>1. Shown' = Shown
  BY NowIs DEF IsMade
<1>2. arrayCall' = [op |-> "copy", at |-> at, n |-> n, s |-> s]
  BY DEF IsMade
<1>3. arrayCall'.op = "copy" /\ arrayCall'.s = s /\ arrayCall'.n = n
  BY <1>2
<1>4. CodeText!CopyInto
  BY <1>1, <1>3 DEF CodeText!CopyInto, CodeText!Called, CodeText!Start, CodeText!Rest
<1> QED  BY <1>4 DEF Told, CodeText!Next

LEMMA TellsCopy ==
  ASSUME NEW s, NEW n \in Nat, NEW at \in Nat, NEW new, IsMade([op |-> "copy", at |-> at, n |-> n, s |-> s], new),
         IsString(arr), NEW p \in Seq(Held), p = SubSeq(s, 1, IF n < Len(s) THEN n ELSE Len(s)),
         NEW old, old = Now, IsOver(UnitsOf(new), old, at, p), p # <<>> \/ at <= Len(old)
  PROVE  Told
<1>1. PICK t : t = UnitsOf(new)
  OBVIOUS
<1>2. old \in Seq(Held)
  BY NowIs, UnitsOfIs
<1>3. PICK k \in Nat, e \in Nat : k = (IF at < Len(old) THEN at ELSE Len(old)) /\ e = at + Len(p)
  BY <1>2
<1>4. /\ SubSeq(t, 1, k) = SubSeq(old, 1, k)
      /\ SubSeq(t, at + 1, e) = p
      /\ SubSeq(t, e + 1, Len(t)) = SubSeq(old, e + 1, Len(old))
  <2>1. IsOver(t, old, at, p)
    BY <1>1
  <2>2. k = (IF at < Len(old) THEN at ELSE Len(old)) /\ e = at + Len(p)
    BY <1>3
  <2>3. IsParted(t, old, at, p, k, e)
    BY <1>2, <2>1, <2>2, OverIs
  <2> QED  BY <2>3 DEF IsParted
<1>5. arrayCall' = [op |-> "copy", at |-> at, n |-> n, s |-> s]
  BY DEF IsMade
<1>6. arrayCall'.op = "copy" /\ arrayCall'.s = s /\ arrayCall'.n = n /\ arrayCall'.at = at
  BY <1>5
<1>7. Shown = old /\ Shown' = t
  BY <1>1 DEF IsMade
<1>8. p = <<>> => t = old
  <2> SUFFICES ASSUME p = <<>> PROVE t = old
    OBVIOUS
  <2>1. PICK m \in Nat : m = Len(old)
    BY <1>2
  <2>2. at <= m /\ Len(p) = 0
    BY <2>1
  <2>3. IsOver(t, old, at, p)
    BY <1>1
  <2>4. t \in Seq(Held) /\ Len(t) = IF m < at + 0 THEN at + 0 ELSE m
    BY <2>1, <2>2, <2>3 DEF IsOver
  <2>5. \A j \in 1..m : j \notin (at + 1)..(at + 0) => t[j] = old[j]
    BY <2>1, <2>2, <2>3 DEF IsOver
  <2>6. Len(t) = m
    BY <2>2, <2>4
  <2>7. \A j \in 1..m : t[j] = old[j]
    <3>1. \A j \in 1..m : j \notin (at + 1)..(at + 0)
      OBVIOUS
    <3> QED  BY <2>5, <3>1
  <2> QED  BY <1>2, <2>1, <2>4, <2>6, <2>7, SameUnits
<1>9. CodeText!CopyInto
  BY <1>3, <1>4, <1>6, <1>7, <1>8 DEF CodeText!CopyInto, CodeText!Called, CodeText!Start, CodeText!Rest
<1> QED  BY <1>9 DEF Told, CodeText!Next

LEMMA JoinsOne ==
  ASSUME NEW s, NEW u, NEW d, NEW h, h = <<s, u>>
  PROVE  CodeText!FoldLeft(LAMBDA x, y : x \o d \o y, Head(h), Tail(h)) = s \o d \o u
<1> DEFINE q == Tail(h)
           Step(f) == [r \in SUBSET (DOMAIN q) |->
                         IF r = {} THEN Head(h) ELSE f[r \ {CodeText!Max(r)}] \o d \o q[CodeText!Max(r)]]
           iter == CHOOSE f : f = Step(f)
<1>1. CodeText!FoldLeft(LAMBDA x, y : x \o d \o y, Head(h), Tail(h)) = iter[DOMAIN q]
  BY Zenon DEF CodeText!FoldLeft, CodeText!MapThenFoldSet
<1>2. PICK p : p = q
  OBVIOUS
<1>3. Head(h) = s /\ q = <<u>> /\ DOMAIN q = {1} /\ q[1] = u
  OBVIOUS
<1>4. CodeText!Max({1}) = 1
  <2>1. 1 \in {1} /\ \A y \in {1} : 1 >= y
    OBVIOUS
  <2>2. \A x \in {1} : x = 1
    OBVIOUS
  <2> QED  BY <2>1, <2>2 DEF CodeText!Max
<1> HIDE DEF q
<1> DEFINE g == [r \in SUBSET {1} |-> IF r = {} THEN s ELSE s \o d \o u]
<1>5. g = Step(g)
  <2>1. ASSUME NEW r \in SUBSET {1}
        PROVE  g[r] = IF r = {} THEN Head(h) ELSE g[r \ {CodeText!Max(r)}] \o d \o q[CodeText!Max(r)]
    <3>1. CASE r = {}
      BY <1>3, <3>1
    <3>2. CASE r = {1}
      <4>1. r \ {CodeText!Max(r)} = {} /\ q[CodeText!Max(r)] = u
        BY <1>3, <1>4, <3>2
      <4>2. g[{}] = s /\ g[r] = s \o d \o u
        BY <3>2
      <4> QED  BY <3>2, <4>1, <4>2
    <3> QED  BY <3>1, <3>2
  <2> QED  BY <1>3, <2>1
<1>6. iter = Step(iter)
  BY <1>5
<1> HIDE DEF iter, g
<1>7. \A r \in SUBSET {1} : iter[r] = IF r = {} THEN s ELSE iter[r \ {CodeText!Max(r)}] \o d \o q[CodeText!Max(r)]
  BY <1>3, <1>6
<1>8. iter[{}] = s
  BY <1>7
<1>9. {1} \ {CodeText!Max({1})} = {} /\ q[CodeText!Max({1})] = u
  BY <1>3, <1>4
<1>10. iter[{1}] = iter[{1} \ {CodeText!Max({1})}] \o d \o q[CodeText!Max({1})]
  BY <1>7
<1> QED  BY <1>1, <1>3, <1>8, <1>9, <1>10

LEMMA TellsJoin ==
  ASSUME NEW s, NEW u, NEW d, NEW h, h = <<s, u>>, NEW g, g = <<h, d>>, NEW new,
         IsMade([op |-> "join", at |-> 0, n |-> 0, s |-> g], new), UnitsOf(new) = s \o d \o u
  PROVE  Told
<1>1. h # <<>> /\ g[1] = h /\ g[2] = d
  OBVIOUS
<1>2. Shown' = s \o d \o u /\ arrayCall'.op = "join" /\ arrayCall'.s[1] = h /\ arrayCall'.s[2] = d
  BY <1>1 DEF IsMade
<1>3. CodeText!FoldLeft(LAMBDA x, y : x \o d \o y, Head(h), Tail(h)) = s \o d \o u
  BY JoinsOne
<1>4. CodeText!Join
  BY <1>1, <1>2, <1>3, ZenonT(40) DEF CodeText!Join, CodeText!Called, CodeText!FoldLeft, CodeText!MapThenFoldSet
<1> QED  BY <1>4 DEF Told, CodeText!Next

LEMMA TellsNoJoin ==
  ASSUME NEW d, NEW g, g = <<<<>>, d>>, IsMade([op |-> "join", at |-> 0, n |-> 0, s |-> g], arr)
  PROVE  Told
<1>1. g[1] = <<>> /\ Shown' = Shown
  BY NowIs DEF IsMade
<1>2. arrayCall'.op = "join" /\ arrayCall'.s[1] = <<>>
  BY <1>1 DEF IsMade
<1>3. CodeText!Join
  BY <1>1, <1>2 DEF CodeText!Join, CodeText!Called
<1> QED  BY <1>3 DEF Told, CodeText!Next

LEMMA TellsTrim ==
  ASSUME NEW op \in {"trim_left", "trim_right", "trim"}, NEW new,
         IsMade([op |-> op, at |-> 0, n |-> 0, s |-> <<>>], new),
         NEW s, s = Now, NEW t, t = UnitsOf(new), NEW i \in 0..Len(s), NEW j \in 0..Len(s), IsCut(op, t, s, i, j)
  PROVE  Told
<1>1. Shown = s /\ Shown' = t /\ arrayCall'.op = op
  BY DEF IsMade
<1>2. CodeText!Trim
  BY <1>1 DEF CodeText!Trim, CodeText!Trimmable, CodeText!Called, IsCut, Bare
<1> QED  BY <1>2 DEF Told, CodeText!Next

LEMMA TellsUpper ==
  ASSUME NEW new, IsMade([op |-> "upper", at |-> 0, n |-> 0, s |-> <<>>], new),
         NEW s, s = Now, UnitsOf(new) = [i \in 1..Len(s) |-> UpperOf[s[i]]]
  PROVE  Told
<1>1. Shown = s /\ Shown' = [i \in 1..Len(s) |-> UpperOf[s[i]]] /\ arrayCall'.op = "upper"
  BY DEF IsMade
<1>2. CodeText!ToUpper
  BY <1>1 DEF CodeText!ToUpper, CodeText!Called
<1> QED  BY <1>2 DEF Told, CodeText!Next

LEMMA TellsLower ==
  ASSUME NEW new, IsMade([op |-> "lower", at |-> 0, n |-> 0, s |-> <<>>], new),
         NEW s, s = Now, UnitsOf(new) = [i \in 1..Len(s) |-> LowerOf[s[i]]]
  PROVE  Told
<1>1. Shown = s /\ Shown' = [i \in 1..Len(s) |-> LowerOf[s[i]]] /\ arrayCall'.op = "lower"
  BY DEF IsMade
<1>2. CodeText!ToLower
  BY <1>1 DEF CodeText!ToLower, CodeText!Called
<1> QED  BY <1>2 DEF Told, CodeText!Next

LEMMA TellsNoReplace ==
  ASSUME NEW needle, NEW r, NEW g, g = <<needle, r>>, NEW at \in Nat,
         IsMade([op |-> "replace", at |-> at, n |-> 0, s |-> g], arr), NEW s, s = Now,
         needle = <<>> \/ \A i \in Nat : i >= at => ~Occurs(s, needle, i)
  PROVE  Told
<1>1. Shown = s /\ Shown' = s
  BY NowIs DEF IsMade
<1>2. PICK c : c = arrayCall'
  OBVIOUS
<1>3. c.op = "replace" /\ c.at = at /\ c.s[1] = needle /\ c.s[2] = r
  BY <1>2 DEF IsMade
<1>4. PICK found : found = {i \in at..Len(s) : needle # <<>> /\ Occurs(s, needle, i)}
  OBVIOUS
<1>5. found = {}
  <2>1. \A i \in at..Len(s) : i \in Nat /\ i >= at
    OBVIOUS
  <2> QED  BY <1>4, <2>1
<1>6. CodeText!Replace
  BY <1>1, <1>2, <1>3, <1>4, <1>5 DEF CodeText!Replace, CodeText!Called, CodeText!Occurs, Occurs
<1> QED  BY <1>6 DEF Told, CodeText!Next

LEMMA TellsReplace ==
  ASSUME NEW needle \in Seq(Held), needle # <<>>, NEW r, NEW g, g = <<needle, r>>, NEW at \in Nat, NEW new,
         IsMade([op |-> "replace", at |-> at, n |-> 0, s |-> g], new), NEW s \in Seq(Held), s = Now,
         NEW x \in Nat, IsFirst(x, s, needle, at), UnitsOf(new) = Edited(s, x, x + Len(needle), r)
  PROVE  Told
<1>1. Shown = s /\ Shown' = Edited(s, x, x + Len(needle), r)
  BY DEF IsMade
<1>2. PICK c : c = arrayCall'
  OBVIOUS
<1>3. c.op = "replace" /\ c.at = at /\ c.s[1] = needle /\ c.s[2] = r
  BY <1>2 DEF IsMade
<1>4. PICK found : found = {i \in at..Len(s) : needle # <<>> /\ Occurs(s, needle, i)}
  OBVIOUS
<1>5. x # -1
  OBVIOUS
<1>6. x >= at /\ x + Len(needle) <= Len(s) /\ Occurs(s, needle, x) /\ \A i \in at..(x - 1) : ~Occurs(s, needle, i)
  BY <1>5 DEF IsFirst
<1>7. x \in found
  <2>1. PICK n \in Nat, m \in Nat : n = Len(s) /\ m = Len(needle)
    OBVIOUS
  <2>2. x \in at..n
    BY <1>6, <2>1
  <2> QED  BY <1>4, <1>6, <2>1, <2>2
<1>8. \A j \in found : x <= j /\ j \in Nat
  <2>1. ASSUME NEW j \in found PROVE x <= j /\ j \in Nat
    <3>1. j \in Nat /\ j >= at /\ Occurs(s, needle, j)
      BY <1>4
    <3>2. j \notin at..(x - 1)
      BY <1>6, <3>1
    <3> QED  BY <3>1, <3>2
  <2> QED  BY <2>1
<1>9. x = CHOOSE i \in found : \A j \in found : i <= j
  <2>1. \A i \in found : (\A j \in found : i <= j) => i = x
    BY <1>7, <1>8
  <2> QED  BY <1>7, <1>8, <2>1
<1>10. Shown' = SubSeq(s, 1, x) \o r \o SubSeq(s, x + Len(needle) + 1, Len(s))
  BY <1>1 DEF Edited
<1>11. CodeText!Replace
  BY <1>1, <1>2, <1>3, <1>4, <1>7, <1>9, <1>10
     DEF CodeText!Replace, CodeText!Called, CodeText!Occurs, Occurs, CodeText!Start, CodeText!Rest
<1> QED  BY <1>11 DEF Told, CodeText!Next

(***************************************************************************)
(* The calls, as Text says them.                                           *)
(***************************************************************************)

LEMMA SizedTold ==
  ASSUME StringInv, NEW n \in Nat, StringInitSized(n) \/ StringReserve(n)
  PROVE  Told
<1>1. IsString(arr)
  BY DEF StringInv
<1>2. CASE StringInitSized(n)
  <2>1. PICK s : s = [i \in 1..n |-> ArrayUnset]
    OBVIOUS
  <2>2. s \in [1..n -> Held]
    BY <2>1 DEF Held, Contents
  <2>3. s \in Seq(Held) /\ Len(s) = n
    BY <2>2, ASequence
  <2>4. PICK new : new = [data |-> "live", size |-> n, reserved |-> n + 1, cells |-> s \o <<Nul>>]
    OBVIOUS
  <2>5. UnitsOf(new) = s
    BY <2>3, <2>4, NewShows, ShowsUnits
  <2>6. PICK none : none = <<>>
    OBVIOUS
  <2>7. Calls("sized", 0, n, none, n, new)
    BY <1>2, <2>1, <2>4, <2>6 DEF StringInitSized
  <2>8. CASE IsMade([op |-> "sized", at |-> 0, n |-> n, s |-> none], new)
    BY <2>3, <2>5, <2>8, TellsSized
  <2> QED  BY <2>7, <2>8, CallsMake
<1>3. CASE StringReserve(n)
  <2>1. PICK a : a = WithRoom(n)
    OBVIOUS
  <2>2. PICK s : s = Now
    OBVIOUS
  <2>3. UnitsOf(a) = s
    <3>1. HasMemory(a) /\ a.size = Len(s) /\ Begin(a, s)
      BY <1>1, <2>1, <2>2, RoomBegins
    <3>2. IsString(a)
      BY <1>1, <2>1, RoomIs
    <3>3. s \in Seq(Held)
      BY <1>1, <2>2, UnitsAre
    <3>4. Shows(a, s)
      BY <3>1, <3>2, <3>3 DEF Shows
    <3> QED  BY <3>4, ShowsUnits
  <2>4. Idle /\ UNCHANGED scan /\ ArrayCalled("keep", 0, 0, <<>>)
    BY <1>3 DEF StringReserve
  <2>5. CASE Keeps(a)
    <3>1. IsMade([op |-> "keep", at |-> 0, n |-> 0, s |-> <<>>], a)
      BY <2>4, <2>5, LeavesMake
    <3> QED  BY <2>2, <2>3, <3>1, TellsKeep
  <2>6. CASE Keeps(arr)
    <3>1. IsMade([op |-> "keep", at |-> 0, n |-> 0, s |-> <<>>], arr)
      BY <2>4, <2>6, LeavesMake
    <3> QED  BY <3>1, NowIs, TellsKeep
  <2> QED  BY <1>3, <2>1, <2>5, <2>6 DEF StringReserve
<1> QED  BY <1>2, <1>3

LEMMA GivenTold ==
  ASSUME StringInv, NEW s \in Seq(Held),
         StringInitFrom(s) \/ StringSet(s) \/ StringAppend(s) \/ StringPrepend(s)
  PROVE  Told
<1>1. IsString(arr)
  BY DEF StringInv
<1>2. PICK old \in Seq(Held) : old = Now
  BY <1>1, UnitsAre
<1>3. CASE StringInitFrom(s)
  <2>1. PICK n \in Nat : n = Len(s)
    OBVIOUS
  <2>2. PICK new : new = [data |-> "live", size |-> n, reserved |-> n + 1, cells |-> s \o <<Nul>>]
    OBVIOUS
  <2>3. UnitsOf(new) = s
    BY <2>1, <2>2, NewShows, ShowsUnits
  <2>4. Calls("set", 0, 0, s, n, new)
    BY <1>3, <2>1, <2>2 DEF StringInitFrom
  <2>5. CASE IsMade([op |-> "set", at |-> 0, n |-> 0, s |-> s], new)
    BY <2>3, <2>5, TellsSet
  <2> QED  BY <2>4, <2>5, CallsMake
<1>4. CASE StringSet(s)
  <2>1. PICK new : new = Ended(Put([WithRoom(Len(s)) EXCEPT !.size = Len(s)], 0, s))
    OBVIOUS
  <2>2. UnitsOf(new) = s
    BY <1>1, <2>1, SetShows, ShowsUnits
  <2>3. Calls("set", 0, 0, s, Len(s), new)
    BY <1>4, <2>1 DEF StringSet
  <2>4. CASE IsMade([op |-> "set", at |-> 0, n |-> 0, s |-> s], new)
    BY <2>2, <2>4, TellsSet
  <2> QED  BY <2>3, <2>4, CallsMake
<1>5. CASE StringAppend(s)
  <2>1. PICK new : new = Ended(Put([WithRoom(Extra(Len(s))) EXCEPT !.size = @ + Len(s)], arr.size, s))
    OBVIOUS
  <2>2. UnitsOf(new) = old \o s
    BY <1>1, <1>2, <2>1, AppendShows, ShowsUnits
  <2>3. CASE s = <<>> /\ Idle /\ UNCHANGED scan /\ ArrayCalled("append", 0, 0, s) /\ Keeps(arr)
    <3>1. IsMade([op |-> "append", at |-> 0, n |-> 0, s |-> s], arr)
      BY <2>3, LeavesMake
    <3>2. UnitsOf(arr) = Now \o s
      <4>1. old \o << >> = old
        BY ConcatEmptySeq
      <4> QED  BY <1>2, <2>3, <4>1, NowIs
    <3> QED  BY <3>1, <3>2, TellsExtend
  <2>4. CASE Calls("append", 0, 0, s, Extra(Len(s)), new)
    <3>1. CASE IsMade([op |-> "append", at |-> 0, n |-> 0, s |-> s], new)
      BY <1>2, <2>2, <3>1, TellsExtend
    <3> QED  BY <2>4, <3>1, CallsMake
  <2> QED  BY <1>5, <2>1, <2>3, <2>4 DEF StringAppend
<1>6. CASE StringPrepend(s)
  <2>1. PICK new : new = Prepended(s)
    OBVIOUS
  <2>2. UnitsOf(new) = s \o old
    BY <1>1, <1>2, <2>1, PrependShows, ShowsUnits
  <2>3. CASE s = <<>> /\ Idle /\ UNCHANGED scan /\ ArrayCalled("prepend", 0, 0, s) /\ Keeps(arr)
    <3>1. IsMade([op |-> "prepend", at |-> 0, n |-> 0, s |-> s], arr)
      BY <2>3, LeavesMake
    <3>2. UnitsOf(arr) = s \o Now
      <4>1. << >> \o old = old
        BY ConcatEmptySeq
      <4> QED  BY <1>2, <2>3, <4>1, NowIs
    <3> QED  BY <3>1, <3>2, TellsPrepend
  <2>4. CASE Calls("prepend", 0, 0, s, Extra(Len(s)), new)
    <3>1. CASE IsMade([op |-> "prepend", at |-> 0, n |-> 0, s |-> s], new)
      BY <1>2, <2>2, <3>1, TellsPrepend
    <3> QED  BY <2>4, <3>1, CallsMake
  <2> QED  BY <1>6, <2>1, <2>3, <2>4 DEF StringPrepend
<1> QED  BY <1>3, <1>4, <1>5, <1>6

LEMMA CopyTold ==
  ASSUME StringInv, NEW s \in Seq(Held), NEW n \in Nat, NEW at \in Nat, StringCopy(s, n, at)
  PROVE  Told
<1>1. IsString(arr)
  BY DEF StringInv
<1>2. PICK old \in Seq(Held) : old = Now
  BY <1>1, UnitsAre
<1>3. PICK m \in Nat : m = (IF n < Len(s) THEN n ELSE Len(s)) /\ m = Least(n, Len(s)) /\ m <= Len(s)
  <2>1. PICK k \in Nat : k = Len(s)
    OBVIOUS
  <2>2. (IF n < k THEN n ELSE k) \in Nat /\ (IF n < k THEN n ELSE k) <= k
    OBVIOUS
  <2> QED  BY <2>1, <2>2 DEF Least
<1>4. PICK p : p = SubSeq(s, 1, m)
  OBVIOUS
<1>5. p \in Seq(Held) /\ Len(p) = m
  <2>1. PICK z \in Nat : z = 0 /\ z + 1 = 1 /\ m - z = m /\ z <= m
    OBVIOUS
  <2>2. p = SubSeq(s, z + 1, m)
    BY <1>4, <2>1
  <2> QED  BY <1>3, <2>1, <2>2, WithinIs
<1>6. CASE m = 0
  <2>1. Idle /\ UNCHANGED scan /\ ArrayCalled("copy", at, n, s) /\ Keeps(arr)
    BY <1>3, <1>6 DEF StringCopy
  <2>2. IsMade([op |-> "copy", at |-> at, n |-> n, s |-> s], arr)
    BY <2>1, LeavesMake
  <2>3. p = <<>>
    BY <1>5, <1>6, EmptySeq
  <2>4. SubSeq(s, 1, IF n < Len(s) THEN n ELSE Len(s)) = <<>>
    BY <1>3, <1>4, <2>3
  <2> QED  BY <1>1, <2>2, <2>4, TellsNoCopy
<1>7. CASE m # 0
  <2>1. PICK new : new = Copied(s, n, at)
    OBVIOUS
  <2>2. Calls("copy", at, n, s, at + m, new)
    BY <1>3, <1>7, <2>1 DEF StringCopy
  <2>3. IsOver(UnitsOf(new), old, at, p)
    BY <1>1, <1>2, <1>3, <1>4, <1>7, <2>1, CopyShows
  <2>4. p # <<>>
    BY <1>5, <1>7
  <2>5. CASE IsMade([op |-> "copy", at |-> at, n |-> n, s |-> s], new)
    <3>1. p = SubSeq(s, 1, IF n < Len(s) THEN n ELSE Len(s))
      BY <1>3, <1>4
    <3> QED  BY <1>1, <1>2, <1>5, <2>3, <2>4, <2>5, <3>1, TellsCopy
  <2> QED  BY <2>2, <2>5, CallsMake
<1> QED  BY <1>6, <1>7

LEMMA SubstringTold ==
  ASSUME StringInv, NEW s \in Seq(Held), NEW start \in Nat, NEW n \in Nat, NEW at \in Nat,
         StringSubstring(s, start, n, at)
  PROVE  Told
<1>1. IsString(arr)
  BY DEF StringInv
<1>2. CASE ~SliceInside(s, start, n)
  BY <1>2, ShownFault DEF StringSubstring
<1>3. CASE SliceInside(s, start, n)
  <2>1. PICK p \in Seq(Held) : p = Slice(s, start, n)
    BY <1>3, SliceIs
  <2>2. PICK e \in Nat, m \in Nat : e = at + Len(p) /\ m = Len(p)
    OBVIOUS
  <2>3. PICK old \in Seq(Held) : old = Now /\ Len(old) = arr.size
    BY <1>1, UnitsAre
  <2>4. at <= Len(old)
    BY <1>3, <2>3 DEF StringSubstring
  <2>5. p = SubSeq(p, 1, IF m < Len(p) THEN m ELSE Len(p))
    BY <2>2, AllPart
  <2>6. ASSUME NEW new, NEW room, Calls("copy", at, m, p, room, new), IsOver(UnitsOf(new), old, at, p)
        PROVE  Told
    <3>1. CASE IsMade([op |-> "copy", at |-> at, n |-> m, s |-> p], new)
      BY <1>1, <2>3, <2>4, <2>5, <2>6, <3>1, TellsCopy
    <3> QED  BY <2>6, <3>1, CallsMake
  <2>7. CASE e >= arr.size
    <3>1. PICK new : new = LET b == Put(WithRoom(e), at, p)
                           IN  Ended([b EXCEPT !.size = IF @ < e THEN e ELSE @])
      OBVIOUS
    <3>2. IsOver(UnitsOf(new), old, at, p)
      BY <1>1, <2>2, <2>3, <2>7, <3>1, SubstringEndsShows
    <3>3. Calls("copy", at, m, p, e, new)
      BY <1>3, <2>1, <2>2, <2>7, <3>1 DEF StringSubstring
    <3> QED  BY <2>6, <3>2, <3>3
  <2>8. CASE ~(e >= arr.size)
    <3>1. PICK new : new = LET b == Put(arr, at, p)
                           IN  [b EXCEPT !.size = IF @ < e THEN e ELSE @]
      OBVIOUS
    <3>2. e < arr.size
      BY <2>3, <2>8
    <3>3. IsOver(UnitsOf(new), old, at, p)
      BY <1>1, <2>2, <2>3, <3>1, <3>2, SubstringInsideShows
    <3>4. Calls("copy", at, m, p, 0, new)
      BY <1>3, <2>1, <2>2, <2>8, <3>1 DEF StringSubstring
    <3> QED  BY <2>6, <3>3, <3>4
  <2> QED  BY <2>7, <2>8
<1> QED  BY <1>2, <1>3

LEMMA JoinTold ==
  ASSUME StringInv, NEW s \in Seq(Held), NEW t \in Seq(Held), NEW d \in Seq(Held),
         StringJoin(<<s, t>>, d) \/ StringJoin(<<>>, d)
  PROVE  Told
<1>1. IsString(arr)
  BY DEF StringInv
<1>2. CASE StringJoin(<<s, t>>, d)
  <2>1. PICK all : all = JoinPieces(<<s, t>>, d)
    OBVIOUS
  <2>2. all \in Seq(Held) /\ all = s \o d \o t
    <3>1. all = s \o d \o t
      BY <2>1, JoinedTwo
    <3> QED  BY <3>1
  <2>3. PICK new : new = Ended(Put([WithRoom(Len(all)) EXCEPT !.size = Len(all)], 0, all))
    OBVIOUS
  <2>4. UnitsOf(new) = s \o d \o t
    BY <1>1, <2>2, <2>3, SetShows, ShowsUnits
  <2>5. PICK pieces : pieces = <<s, t>>
    OBVIOUS
  <2>6. PICK given : given = <<pieces, d>>
    OBVIOUS
  <2>7. Calls("join", 0, 0, given, Len(all), new)
    <3>1. pieces # <<>>
      BY <2>5
    <3> QED  BY <1>2, <2>1, <2>3, <2>5, <2>6, <3>1 DEF StringJoin
  <2>8. CASE IsMade([op |-> "join", at |-> 0, n |-> 0, s |-> given], new)
    BY <2>4, <2>5, <2>6, <2>8, TellsJoin
  <2> QED  BY <2>7, <2>8, CallsMake
<1>3. CASE StringJoin(<<>>, d)
  <2>1. PICK given : given = <<<<>>, d>>
    OBVIOUS
  <2>2. Idle /\ UNCHANGED scan /\ ArrayCalled("join", 0, 0, given) /\ Keeps(arr)
    BY <1>3, <2>1 DEF StringJoin
  <2>3. IsMade([op |-> "join", at |-> 0, n |-> 0, s |-> given], arr)
    BY <2>2, LeavesMake
  <2> QED  BY <2>1, <2>3, TellsNoJoin
<1> QED  BY <1>2, <1>3

LEMMA ReplaceTold ==
  ASSUME StringInv, NEW needle \in Seq(Held), NEW r \in Seq(Held), NEW at \in Nat, StringReplace(needle, r, at)
  PROVE  Told
<1>1. IsString(arr)
  BY DEF StringInv
<1>2. PICK s \in Seq(Held) : s = Now /\ Len(s) = arr.size
  BY <1>1, UnitsAre
<1>3. PICK g : g = <<needle, r>>
  OBVIOUS
<1>4. PICK x : x = Found(needle, at)
  OBVIOUS
<1>5. needle # <<>> => IsFirst(x, s, needle, at)
  <2> SUFFICES ASSUME needle # <<>> PROVE IsFirst(x, s, needle, at)
    OBVIOUS
  <2>1. x = IndexOf(s, needle, at)
    BY <1>2, <1>4 DEF Found
  <2> QED  BY <2>1, FirstIs
<1>6. CASE x < 0
  <2>1. Idle /\ UNCHANGED scan /\ ArrayCalled("replace", at, 0, g) /\ Keeps(arr)
    BY <1>3, <1>4, <1>6 DEF StringReplace
  <2>2. IsMade([op |-> "replace", at |-> at, n |-> 0, s |-> g], arr)
    BY <2>1, LeavesMake
  <2>3. needle = <<>> \/ \A i \in Nat : i >= at => ~Occurs(s, needle, i)
    BY <1>5, <1>6 DEF IsFirst
  <2> QED  BY <1>2, <1>3, <2>2, <2>3, TellsNoReplace
<1>7. CASE ~(x < 0)
  <2>1. needle # <<>>
    <3>1. -1 < 0
      OBVIOUS
    <3> QED  BY <1>4, <1>7, <3>1 DEF Found
  <2>2. IsFirst(x, s, needle, at)
    BY <1>5, <2>1
  <2>3. x \in Nat /\ x + Len(needle) <= arr.size
    BY <1>2, <1>7, <2>2 DEF IsFirst
  <2>4. PICK new : new = Spliced(x, needle, r)
    OBVIOUS
  <2>5. UnitsOf(new) = Edited(s, x, x + Len(needle), r)
    <3>1. Len(needle) > 0
      BY <2>1, EmptySeq
    <3> QED  BY <1>1, <1>2, <2>3, <2>4, <3>1, SplicedShows
  <2>6. PICK room : room = SpliceRoom(needle, r)
    OBVIOUS
  <2>7. Calls("replace", at, 0, g, room, new)
    BY <1>3, <1>4, <1>7, <2>4, <2>6 DEF StringReplace
  <2>8. CASE IsMade([op |-> "replace", at |-> at, n |-> 0, s |-> g], new)
    BY <1>2, <1>3, <2>1, <2>2, <2>3, <2>5, <2>8, TellsReplace
  <2> QED  BY <2>7, <2>8, CallsMake
<1> QED  BY <1>6, <1>7

LEMMA TrimTold ==
  ASSUME StringInv, StringTrimLeft \/ StringTrimRight \/ StringTrim
  PROVE  Told
<1>1. IsString(arr)
  BY DEF StringInv
<1>2. PICK s \in Seq(Held) : s = Now /\ s = UnitsOf(arr)
  BY <1>1, UnitsAre, NowIs
<1>3. PICK n \in Nat : n = Len(s)
  OBVIOUS
<1>4. CASE StringTrimLeft
  <2>1. PICK new : new = LeftTrimmed(arr)
    OBVIOUS
  <2>2. IsMade([op |-> "trim_left", at |-> 0, n |-> 0, s |-> <<>>], new)
    BY <1>4, <2>1, LeavesMake DEF StringTrimLeft
  <2>3. PICK t : t = UnitsOf(new)
    OBVIOUS
  <2>4. PICK i \in 0..n : IsLeftCut(t, s, i)
    BY <1>1, <1>2, <1>3, <2>1, <2>3, LeftShows
  <2>5. IsCut("trim_left", t, s, i, n)
    <3>1. i <= n /\ (n + 1)..n = {}
      OBVIOUS
    <3> QED  BY <1>3, <2>4, <3>1 DEF IsCut, IsLeftCut
  <2>6. n \in 0..n
    OBVIOUS
  <2> QED  BY <1>2, <1>3, <2>2, <2>3, <2>5, <2>6, TellsTrim
<1>5. CASE StringTrimRight
  <2>1. PICK new : new = RightTrimmed(arr)
    OBVIOUS
  <2>2. PICK none : none = <<>>
    OBVIOUS
  <2>3. Calls("trim_right", 0, 0, none, 0, new)
    BY <1>5, <2>1, <2>2 DEF StringTrimRight
  <2>4. CASE new.data = "live" /\ IsMade([op |-> "trim_right", at |-> 0, n |-> 0, s |-> none], new)
    <3>1. PICK t : t = UnitsOf(new)
      OBVIOUS
    <3>2. HasMemory(arr)
      BY <1>1, <2>1, <2>4, RightIs
    <3>3. PICK j \in 0..n : IsRightCut(t, s, j)
      BY <1>1, <1>2, <1>3, <2>1, <3>1, <3>2, RightShows
    <3>4. PICK z \in 0..n : z = 0 /\ z + 1 = 1
      OBVIOUS
    <3>5. IsCut("trim_right", t, s, z, j)
      <4>1. z <= j /\ 1..z = {}
        BY <3>4
      <4> QED  BY <1>3, <3>3, <3>4, <4>1 DEF IsCut, IsRightCut
    <3> QED  BY <1>2, <1>3, <2>2, <2>4, <3>1, <3>5, TellsTrim
  <2> QED  BY <2>3, <2>4, CallsMake
<1>6. CASE StringTrim
  <2>1. PICK a : a = LeftTrimmed(arr)
    OBVIOUS
  <2>2. IsString(a)
    BY <1>1, <2>1, LeftIs DEF Trimmed
  <2>3. PICK new : new = RightTrimmed(a)
    OBVIOUS
  <2>4. PICK none : none = <<>>
    OBVIOUS
  <2>5. Calls("trim", 0, 0, none, 0, new)
    BY <1>6, <2>1, <2>3, <2>4 DEF StringTrim
  <2>6. CASE new.data = "live" /\ IsMade([op |-> "trim", at |-> 0, n |-> 0, s |-> none], new)
    <3>1. PICK t : t = UnitsOf(new)
      OBVIOUS
    <3>2. HasMemory(a)
      BY <2>2, <2>3, <2>6, RightIs
    <3>3. PICK b : b = UnitsOf(a)
      OBVIOUS
    <3>4. PICK i \in 0..n : IsLeftCut(b, s, i)
      BY <1>1, <1>2, <1>3, <2>1, <3>3, LeftShows
    <3>5. PICK j \in 0..Len(b) : IsRightCut(t, b, j)
      BY <2>2, <2>3, <3>1, <3>2, <3>3, RightShows
    <3>6. PICK l \in 0..n : IsCut("trim", t, s, i, l)
      BY <1>3, <3>4, <3>5, CutsBoth
    <3> QED  BY <1>2, <1>3, <2>4, <2>6, <3>1, <3>6, TellsTrim
  <2> QED  BY <2>5, <2>6, CallsMake
<1> QED  BY <1>4, <1>5, <1>6

LEMMA PlainTold ==
  ASSUME StringInv, StringFree \/ StringClear \/ StringUpper \/ StringLower
  PROVE  Told
<1>1. IsString(arr)
  BY DEF StringInv
<1>2. PICK s : s = Now
  OBVIOUS
<1>3. \A u \in Held : UpperOf[u] \in Held /\ LowerOf[u] \in Held
  BY StringAssumption DEF Held
<1>4. ASSUME NEW new, new.size = 0, Idle, UNCHANGED scan, ArrayCalled("clear", 0, 0, <<>>), Keeps(new) PROVE Told
  <2>1. IsMade([op |-> "clear", at |-> 0, n |-> 0, s |-> <<>>], new)
    BY <1>4, LeavesMake
  <2> QED  BY <1>4, <2>1, TellsClear
<1>5. CASE StringFree
  <2>1. NoArray.size = 0
    BY DEF NoArray
  <2> QED  BY <1>4, <1>5, <2>1 DEF StringFree
<1>6. CASE StringClear
  <2>1. PICK b : b = [arr EXCEPT !.size = 0]
    OBVIOUS
  <2>2. b.size = 0
    <3>1. arr \in [data : {arr.data}, size : {arr.size}, reserved : {arr.reserved}, cells : {arr.cells}]
      BY <1>1 DEF IsString, HasMemory, NoArray
    <3> QED  BY <2>1, <3>1
  <2>3. Ended(b).size = 0
    <3>1. b \in [data : {b.data}, size : {b.size}, reserved : {b.reserved}, cells : {b.cells}]
      BY <1>1, <2>1 DEF IsString, HasMemory, NoArray
    <3> QED  BY <2>2, <3>1 DEF Ended, Put
  <2> QED  BY <1>4, <1>6, <2>1, <2>3 DEF StringClear
<1>7. CASE StringUpper
  <2>1. PICK new : new = Recased(UpperOf)
    OBVIOUS
  <2>2. UnitsOf(new) = [i \in 1..Len(s) |-> UpperOf[s[i]]]
    BY <1>1, <1>2, <1>3, <2>1, RecasedShows
  <2>3. StringRecase("upper", UpperOf)
    BY <1>7 DEF StringUpper
  <2>4. CASE ArrayCalled("upper", 0, 0, <<>>) /\ Keeps(new)
    <3>1. IsMade([op |-> "upper", at |-> 0, n |-> 0, s |-> <<>>], new)
      BY <2>3, <2>4, LeavesMake, Recases
    <3> QED  BY <1>2, <2>2, <3>1, TellsUpper
  <2>5. CASE Faults
    BY <2>3, <2>5, ShownFault, Recases
  <2> QED  BY <2>1, <2>3, <2>4, <2>5, Recases
<1>8. CASE StringLower
  <2>1. PICK new : new = Recased(LowerOf)
    OBVIOUS
  <2>2. UnitsOf(new) = [i \in 1..Len(s) |-> LowerOf[s[i]]]
    BY <1>1, <1>2, <1>3, <2>1, RecasedShows
  <2>3. StringRecase("lower", LowerOf)
    BY <1>8 DEF StringLower
  <2>4. CASE ArrayCalled("lower", 0, 0, <<>>) /\ Keeps(new)
    <3>1. IsMade([op |-> "lower", at |-> 0, n |-> 0, s |-> <<>>], new)
      BY <2>3, <2>4, LeavesMake, Recases
    <3> QED  BY <1>2, <2>2, <3>1, TellsLower
  <2>5. CASE Faults
    BY <2>3, <2>5, ShownFault, Recases
  <2> QED  BY <2>1, <2>3, <2>4, <2>5, Recases
<1> QED  BY <1>5, <1>6, <1>7, <1>8

(***************************************************************************)
(* What is behind the place a loop is at is as it was.                     *)
(***************************************************************************)

\* The last m units of t, behind e others, are those of s behind k others.
IsTail(t, e, s, k, m) ==
  /\ t \in Seq(Held) /\ s \in Seq(Held) /\ Len(t) = e + m /\ Len(s) = k + m
  /\ \A j \in 1..m : t[e + j] = s[k + j]

LEMMA TailIs ==
  ASSUME NEW s \in Seq(Held), NEW a \in Nat, a <= Len(s), NEW k \in Nat, k <= Len(s), NEW p \in Seq(Held),
         NEW t, t = Edited(s, a, k, p), NEW e \in Nat, e = a + Len(p), NEW m \in Nat, Len(s) = k + m
  PROVE  IsTail(t, e, s, k, m)
<1>1. IsEdit(t, s, a, k, p)
  BY EditedIs
<1>2. m = Len(s) - k
  OBVIOUS
<1>3. t \in Seq(Held) /\ Len(t) = a + Len(p) + m /\ \A j \in 1..m : t[a + Len(p) + j] = s[k + j]
  BY <1>1, <1>2 DEF IsEdit
<1> QED  BY <1>3 DEF IsTail

AreAlike(t, f, l, s, h, y) == SubSeq(t, f + 1, l) = SubSeq(s, h + 1, y)

\* u is the c units of t behind position f.
IsSpan(u, t, f, l, c) ==
  /\ u = SubSeq(t, f + 1, l)
  /\ u \in Seq(Held) /\ Len(u) = c
  /\ \A j \in 1..c : u[j] = t[f + j]

LEMMA SpanIs ==
  ASSUME NEW t \in Seq(Held), NEW f \in Nat, NEW l \in Nat, f <= l, l <= Len(t),
         NEW c \in Nat, c = l - f
  PROVE  \E u : IsSpan(u, t, f, l, c)
<1>1. PICK u : u = SubSeq(t, f + 1, l)
  OBVIOUS
<1>2. u \in Seq(Held) /\ Len(u) = c /\ \A j \in 1..c : u[j] = t[f + j]
  BY <1>1, WithinIs
<1> QED  BY <1>1, <1>2 DEF IsSpan

LEMMA SamePart ==
  ASSUME NEW t, NEW s, NEW e \in Nat, NEW k \in Nat, NEW m \in Nat, IsTail(t, e, s, k, m),
         NEW d \in Nat, NEW g \in Nat, d <= g, g <= m,
         NEW f \in Nat, f = e + d, NEW l \in Nat, l = e + g, NEW h \in Nat, h = k + d, NEW y \in Nat, y = k + g
  PROVE  AreAlike(t, f, l, s, h, y)
<1>1. t \in Seq(Held) /\ s \in Seq(Held) /\ Len(t) = e + m /\ Len(s) = k + m
  BY DEF IsTail
<1>2. PICK c \in Nat : c = g - d /\ g = d + c
  BY Difference
<1>3. f <= l /\ l <= Len(t) /\ h <= y /\ y <= Len(s) /\ c = l - f /\ c = y - h
  BY <1>1, <1>2
<1>4. PICK u : IsSpan(u, t, f, l, c)
  BY <1>1, <1>3, SpanIs
<1>5. u \in Seq(Held) /\ Len(u) = c /\ \A j \in 1..c : u[j] = t[f + j]
  BY <1>4 DEF IsSpan
<1>6. PICK v : IsSpan(v, s, h, y, c)
  BY <1>1, <1>3, SpanIs
<1>7. v \in Seq(Held) /\ Len(v) = c /\ \A j \in 1..c : v[j] = s[h + j]
  BY <1>6 DEF IsSpan
<1>8. ASSUME NEW j \in 1..c PROVE u[j] = v[j]
  <2>1. PICK b \in 1..m : b = d + j
    <3>1. d + j \in 1..m
      BY <1>2
    <3> QED  BY <3>1
  <2>2. f + j = e + b /\ h + j = k + b
    BY <2>1
  <2>3. t[e + b] = s[k + b]
    BY DEF IsTail
  <2>4. u[j] = t[f + j] /\ v[j] = s[h + j]
    BY <1>5, <1>7
  <2> QED  BY <2>2, <2>3, <2>4
<1>9. u = v
  BY <1>5, <1>7, <1>8, SameUnits
<1>10. u = SubSeq(t, f + 1, l) /\ v = SubSeq(s, h + 1, y)
  BY <1>4, <1>6 DEF IsSpan
<1> QED  BY <1>9, <1>10 DEF AreAlike

Alike(t, f, s, h, needle) == Occurs(t, needle, f) <=> Occurs(s, needle, h)

LEMMA SameOccurs ==
  ASSUME NEW t, NEW s, NEW e \in Nat, NEW k \in Nat, NEW m \in Nat, IsTail(t, e, s, k, m),
         NEW needle \in Seq(Held), NEW d \in Nat,
         NEW f \in Nat, f = e + d, NEW h \in Nat, h = k + d
  PROVE  Alike(t, f, s, h, needle)
<1>1. t \in Seq(Held) /\ s \in Seq(Held) /\ Len(t) = e + m /\ Len(s) = k + m
  BY DEF IsTail
<1>2. PICK x \in Nat, g \in Nat : x = Len(needle) /\ g = d + x
  OBVIOUS
<1>3. PICK l \in Nat, y \in Nat : l = e + g /\ y = k + g
  OBVIOUS
<1>4. f + x = l /\ h + x = y /\ d <= g
  BY <1>2, <1>3
<1>5. f + x <= Len(t) <=> g <= m
  BY <1>1, <1>3, <1>4
<1>6. h + x <= Len(s) <=> g <= m
  BY <1>1, <1>3, <1>4
<1>7. ASSUME g <= m PROVE SubSeq(t, f + 1, l) = SubSeq(s, h + 1, y)
  <2>1. d <= g
    BY <1>4
  <2>2. l = e + g
    BY <1>3
  <2>3. y = k + g
    BY <1>3
  <2>4. AreAlike(t, f, l, s, h, y)
    BY <1>7, <2>1, <2>2, <2>3, SamePart
  <2> QED  BY <2>4 DEF AreAlike
<1>8. g <= m => SubSeq(t, f + 1, f + x) = SubSeq(s, h + 1, h + x)
  BY <1>4, <1>7
<1> QED  BY <1>2, <1>5, <1>6, <1>8 DEF Alike, Occurs

\* A needle that has no unit in common with what was put at x does not begin in it.
LEMMA NotInside ==
  ASSUME NEW needle \in Seq(Held), NEW r \in Seq(Held), needle # <<>>,
         \A u \in 1..Len(needle), v \in 1..Len(r) : needle[u] # r[v],
         NEW t \in Seq(Held), NEW x \in Nat, \A j \in 1..Len(r) : t[x + j] = r[j],
         NEW i \in (x + 1)..(x + Len(r) - 1)
  PROVE  ~Occurs(t, needle, i)
<1>1. PICK m \in Nat, y \in Nat : m = Len(needle) /\ y = Len(r)
  OBVIOUS
<1>2. m > 0
  BY <1>1, EmptySeq
<1>3. PICK j \in 1..y : x + j = i + 1
  <2>1. (i + 1) - x \in 1..y /\ x + ((i + 1) - x) = i + 1
    BY <1>1
  <2> QED  BY <2>1
<1>4. t[i + 1] = r[j]
  BY <1>1, <1>3
<1>5. needle[1] # r[j]
  <2>1. 1 \in 1..m
    BY <1>2
  <2> QED  BY <1>1, <2>1
<1>6. ASSUME Occurs(t, needle, i) PROVE FALSE
  <2>1. PICK e \in Nat : e = i + m /\ e <= Len(t) /\ SubSeq(t, i + 1, e) = needle
    BY <1>1, <1>6 DEF Occurs
  <2>2. i \in Nat /\ i <= e /\ m = e - i
    BY <2>1
  <2>3. needle[1] = t[i + 1]
    <3>1. \A b \in 1..m : needle[b] = t[i + b]
      BY <2>1, <2>2, WithinIs
    <3>2. 1 \in 1..m
      BY <1>2
    <3> QED  BY <3>1, <3>2
  <2> QED  BY <1>4, <1>5, <2>3
<1> QED  BY <1>6

(***************************************************************************)
(* The rounds of a loop.                                                   *)
(***************************************************************************)

\* The units of o from a up to the k-th have become p, as f says of all behind a.
IsRound(o, f, a, k, p, now) ==
  k \in a..Len(o) /\ p \in Seq(Held) /\ now = Edited(o, a, k, p) /\ p \o f[k] = f[a]

LEMMA RoundStarts ==
  ASSUME NEW o \in Seq(Held), NEW f, NEW a \in Nat, a <= Len(o), f[a] \in Seq(Held)
  PROVE  IsRound(o, f, a, a, <<>>, o)
<1>1. PICK n \in Nat, m \in Nat : n = Len(o) /\ m = n - a /\ n = a + m
  <2>1. PICK n \in Nat : n = Len(o)
    OBVIOUS
  <2>2. PICK m \in Nat : m = n - a /\ n = a + m
    BY <2>1, Difference
  <2> QED  BY <2>1, <2>2
<1>2. PICK none \in Seq(Held) : none = <<>>
  <2>1. <<>> \in Seq(Held)
    OBVIOUS
  <2> QED  BY <2>1
<1>3. Len(none) = 0 /\ a \in a..n
  BY <1>1, <1>2
<1>4. IsEdit(o, o, a, a, none)
  <2>1. Len(o) = a + Len(none) + (Len(o) - a)
    BY <1>1, <1>3
  <2>2. \A j \in 1..Len(none) : o[a + j] = none[j]
    BY <1>3
  <2>3. \A j \in 1..(Len(o) - a) : a + Len(none) + j = a + j
    BY <1>1, <1>3
  <2> QED  BY <2>1, <2>2, <2>3 DEF IsEdit
<1>5. o = Edited(o, a, a, none)
  BY <1>2, <1>4, EditedWhen
<1>6. none \o f[a] = f[a]
  BY <1>2, ConcatEmptySeq
<1> QED  BY <1>1, <1>2, <1>3, <1>5, <1>6 DEF IsRound

\* What becomes of o behind k units is r, and what becomes of it behind g.
IsTurn(f, k, g, r) == r \in Seq(Held) /\ f[g] \in Seq(Held) /\ f[k] = r \o f[g]

LEMMA Longer ==
  ASSUME NEW p \in Seq(Held), NEW c \in Seq(Held)
  PROVE  p \o c \in Seq(Held) /\ Len(p \o c) = Len(p) + Len(c)
OBVIOUS

LEMMA RoundKeeps ==
  ASSUME NEW o \in Seq(Held), NEW f, NEW a \in Nat, NEW k \in Nat, NEW p, NEW now, IsRound(o, f, a, k, p, now),
         NEW l \in Nat, k <= l, l <= Len(o), IsSkip(o, f, k, l)
  PROVE  \E q \in Seq(Held) : Len(q) = Len(p) + (l - k) /\ IsRound(o, f, a, l, q, now)
<1>1. a <= k /\ k <= Len(o) /\ a <= Len(o) /\ p \in Seq(Held)
  BY DEF IsRound
<1>2. PICK d \in Nat : d = l - k /\ l = k + d
  BY Difference
<1>3. PICK c : c = SubSeq(o, k + 1, l)
  OBVIOUS
<1>4. c \in Seq(Held) /\ Len(c) = d
  <2>1. d = l - k
    BY <1>2
  <2>2. k <= l /\ l <= Len(o)
    OBVIOUS
  <2> QED  BY <1>3, <2>1, <2>2, WithinIs
<1>5. PICK q : q = p \o c
  OBVIOUS
<1>6. q \in Seq(Held) /\ Len(q) = Len(p) + d
  BY <1>1, <1>4, <1>5, Longer
<1>7. now = Edited(o, a, k, p)
  BY DEF IsRound
<1>8. now = Edited(o, a, l, q)
  <2>1. Edited(o, a, k, p) = Edited(o, a, l, p \o c)
    <3>1. a <= Len(o) /\ p \in Seq(Held)
      BY <1>1
    <3>2. k <= l /\ l <= Len(o)
      OBVIOUS
    <3>3. IsKept(o, a, k, l, p, c)
      BY <1>3, <3>1, <3>2, KeepsOn
    <3> QED  BY <3>3 DEF IsKept
  <2> QED  BY <1>5, <1>7, <2>1
<1>9. q \o f[l] = f[a]
  <2>1. PICK h \in Seq(Held) : h = f[l]
    BY DEF IsSkip
  <2>2. q \o h = p \o (c \o h)
    BY <1>1, <1>4, <1>5, Associates
  <2>3. f[k] = c \o h
    BY <1>3, <2>1 DEF IsSkip
  <2>4. p \o f[k] = f[a]
    BY DEF IsRound
  <2> QED  BY <2>1, <2>2, <2>3, <2>4
<1>10. l \in a..Len(o)
  BY <1>1
<1>11. IsRound(o, f, a, l, q, now)
  BY <1>6, <1>8, <1>9, <1>10 DEF IsRound
<1>12. Len(q) = Len(p) + (l - k)
  BY <1>2, <1>6
<1> QED  BY <1>6, <1>11, <1>12

IsExtended(s, q, r, o, f, a, g, now) == Len(s) = Len(q) + Len(r) /\ s = q \o r /\ IsRound(o, f, a, g, s, now)

LEMMA RoundPuts ==
  ASSUME NEW o \in Seq(Held), NEW f, NEW a \in Nat, NEW l \in Nat, NEW q, NEW now, IsRound(o, f, a, l, q, now),
         NEW g \in Nat, l <= g, g <= Len(o), NEW r, IsTurn(f, l, g, r),
         NEW x \in Nat, x = a + Len(q), NEW y \in Nat, y = x + (g - l)
  PROVE  \E s \in Seq(Held) : IsExtended(s, q, r, o, f, a, g, Edited(now, x, y, r))
<1>1. a <= l /\ l <= Len(o) /\ a <= Len(o) /\ q \in Seq(Held) /\ r \in Seq(Held)
  BY DEF IsRound, IsTurn
<1>2. PICK s : s = q \o r
  OBVIOUS
<1>3. s \in Seq(Held) /\ Len(s) = Len(q) + Len(r)
  BY <1>1, <1>2
<1>4. now = Edited(o, a, l, q)
  BY DEF IsRound
<1>5. Edited(now, x, y, r) = Edited(o, a, g, q \o r)
  BY <1>1, <1>4, PutsOn
<1>6. s \o f[g] = f[a]
  <2>1. PICK h \in Seq(Held) : h = f[g]
    BY DEF IsTurn
  <2>2. s \o h = q \o (r \o h)
    BY <1>1, <1>2, Associates
  <2>3. f[l] = r \o h
    BY <2>1 DEF IsTurn
  <2>4. q \o f[l] = f[a]
    BY DEF IsRound
  <2> QED  BY <2>1, <2>2, <2>3, <2>4
<1>7. g \in a..Len(o)
  BY <1>1
<1>8. IsRound(o, f, a, g, s, Edited(now, x, y, r))
  BY <1>2, <1>3, <1>5, <1>6, <1>7 DEF IsRound
<1> QED  BY <1>2, <1>3, <1>8 DEF IsExtended

\* Where replace_all is when at is where it goes on: nothing before that and behind
\* what is rewritten will be found.
EveryRound(o, needle, f, a, at, now) ==
  \E k \in Nat : \E p \in Seq(Held) :
    /\ IsRound(o, f, a, k, p, now) /\ at \in a..(a + Len(p))
    /\ \A i \in at..(a + Len(p) - 1) : ~Occurs(now, needle, i)

LEMMA EveryStarts ==
  ASSUME NEW o \in Seq(Held), NEW needle \in Seq(Held), NEW r \in Seq(Held), NEW f, IsEvery(f, o, needle, r),
         NEW a \in Nat, a <= Len(o)
  PROVE  EveryRound(o, needle, f, a, a, o)
<1>1. f[a] \in Seq(Held)
  <2>1. a \in 0..(Len(o) + Len(needle))
    <3>1. PICK n \in Nat, m \in Nat : n = Len(o) /\ m = Len(needle)
      OBVIOUS
    <3> QED  BY <3>1
  <2> QED  BY <2>1 DEF IsEvery
<1>2. PICK none \in Seq(Held) : none = <<>>
  <2>1. <<>> \in Seq(Held)
    OBVIOUS
  <2> QED  BY <2>1
<1>3. IsRound(o, f, a, a, none, o)
  BY <1>1, <1>2, RoundStarts
<1>4. Len(none) = 0
  BY <1>2
<1>5. a \in a..(a + Len(none)) /\ a..(a + Len(none) - 1) = {}
  BY <1>4
<1> QED  BY <1>3, <1>5 DEF EveryRound

NoneFrom(now, needle, at) == \A i \in Nat : i >= at => ~Occurs(now, needle, i)

\* The units of o behind k others that no needle begins at, when none does in now.
LEMMA NoneBehind ==
  ASSUME NEW o, NEW needle \in Seq(Held), NEW now, NEW e \in Nat, NEW k \in Nat, NEW m \in Nat,
         IsTail(now, e, o, k, m), NEW d \in Nat, NEW x \in Nat, x = e + d, NEW l \in Nat, l = k + d,
         NoneIn(now, needle, e, x)
  PROVE  NoneIn(o, needle, k, l)
<1>1. ASSUME NEW i \in k..(l - 1) PROVE ~Occurs(o, needle, i)
  <2>1. i \in Nat /\ k <= i /\ i < k + d
    OBVIOUS
  <2>2. PICK c \in Nat : c = i - k /\ i = k + c
    BY <2>1, Difference
  <2>3. PICK h \in Nat : h = e + c
    OBVIOUS
  <2>4. h \in e..(x - 1)
    BY <2>1, <2>2, <2>3
  <2>5. ~Occurs(now, needle, h)
    BY <2>4 DEF NoneIn
  <2>6. Alike(now, h, o, i, needle)
    <3>1. i = k + c
      BY <2>2
    <3>2. i \in Nat
      BY <2>1
    <3> QED  BY <2>3, <3>1, <3>2, SameOccurs
  <2> QED  BY <2>5, <2>6 DEF Alike
<1> QED  BY <1>1 DEF NoneIn

\* All behind a is rewritten.
IsDone(now, o, f, a) == now = SubSeq(o, 1, a) \o f[a]

LEMMA EveryEnds ==
  ASSUME NEW o \in Seq(Held), NEW needle \in Seq(Held), NEW r \in Seq(Held), NEW f, IsEvery(f, o, needle, r),
         NEW a \in Nat, a <= Len(o), NEW at \in Nat, NEW now, EveryRound(o, needle, f, a, at, now),
         NoneFrom(now, needle, at)
  PROVE  IsDone(now, o, f, a)
<1>1. PICK k \in Nat, p \in Seq(Held) : IsRound(o, f, a, k, p, now) /\ at \in a..(a + Len(p))
  BY DEF EveryRound
<1>2. k <= Len(o) /\ now = Edited(o, a, k, p) /\ p \o f[k] = f[a]
  BY <1>1 DEF IsRound
<1>3. PICK n \in Nat : n = Len(o) /\ k <= n
  BY <1>2
<1>4. PICK m \in Nat : m = n - k /\ n = k + m
  BY <1>3, Difference
<1>5. PICK e \in Nat : e = a + Len(p)
  OBVIOUS
<1>6. IsTail(now, e, o, k, m)
  <2>1. Len(o) = k + m
    BY <1>3, <1>4
  <2> QED  BY <1>2, <1>5, <2>1, TailIs
<1>7. NoneIn(o, needle, k, n)
  <2>1. at <= e
    BY <1>1, <1>5
  <2>2. PICK x \in Nat : x = e + m
    OBVIOUS
  <2>3. NoneIn(now, needle, e, x)
    <3>1. \A i \in e..(x - 1) : i \in Nat /\ i >= at
      BY <2>1
    <3> QED  BY <3>1 DEF NoneFrom, NoneIn
  <2>4. n = k + m
    BY <1>4
  <2> QED  BY <1>6, <2>2, <2>3, <2>4, NoneBehind
<1>8. IsSkip(o, f, k, n)
  <2>1. n <= Len(o)
    BY <1>3
  <2>2. k <= n
    BY <1>3
  <2> QED  BY <1>7, <2>1, <2>2, Skips
<1>9. PICK c : c = SubSeq(o, k + 1, n)
  OBVIOUS
<1>10. c \in Seq(Held)
  <2>1. n <= Len(o) /\ m = n - k
    BY <1>3, <1>4
  <2> QED  BY <1>3, <1>9, <2>1, WithinIs
<1>11. f[k] = c
  <2>1. f[n] = <<>>
    <3>1. n \in 0..(Len(o) + Len(needle)) /\ n >= Len(o)
      <4>1. PICK y \in Nat : y = Len(needle)
        OBVIOUS
      <4> QED  BY <1>3, <4>1
    <3> QED  BY <3>1 DEF IsEvery
  <2>2. f[k] = c \o f[n]
    BY <1>8, <1>9 DEF IsSkip
  <2>3. c \o << >> = c
    BY <1>10, ConcatEmptySeq
  <2> QED  BY <2>1, <2>2, <2>3
<1>12. PICK b : b = SubSeq(o, 1, a)
  OBVIOUS
<1>13. b \in Seq(Held)
  <2>1. PICK z \in Nat : z = 0 /\ z + 1 = 1 /\ a - z = a /\ z <= a
    OBVIOUS
  <2>2. b = SubSeq(o, z + 1, a)
    BY <1>12, <2>1
  <2> QED  BY <2>1, <2>2, WithinIs
<1>14. now = (b \o p) \o c
  BY <1>2, <1>3, <1>9, <1>12 DEF Edited
<1>15. (b \o p) \o c = b \o (p \o c)
  BY <1>10, <1>13, Associates
<1> QED  BY <1>2, <1>11, <1>12, <1>14, <1>15 DEF IsDone

AreApart(needle, r) == \A u \in 1..Len(needle), v \in 1..Len(r) : needle[u] # r[v]

LEMMA EveryGoes ==
  ASSUME NEW o \in Seq(Held), NEW needle \in Seq(Held), NEW r \in Seq(Held), NEW f, IsEvery(f, o, needle, r),
         needle # <<>>, r # <<>>, AreApart(needle, r),
         NEW a \in Nat, a <= Len(o), NEW at \in Nat, NEW now, EveryRound(o, needle, f, a, at, now),
         NEW x \in Nat, IsFirst(x, now, needle, at), NEW y \in Nat, y = x + Len(needle)
  PROVE  EveryRound(o, needle, f, a, x + 1, Edited(now, x, y, r))
<1>1. PICK k \in Nat, p \in Seq(Held) : /\ IsRound(o, f, a, k, p, now) /\ at \in a..(a + Len(p))
                                       /\ \A i \in at..(a + Len(p) - 1) : ~Occurs(now, needle, i)
  BY DEF EveryRound
<1>2. k <= Len(o) /\ now = Edited(o, a, k, p)
  BY <1>1 DEF IsRound
<1>3. PICK n \in Nat : n = Len(o) /\ k <= n
  BY <1>2
<1>4. PICK m \in Nat : m = n - k /\ n = k + m
  BY <1>3, Difference
<1>5. PICK e \in Nat : e = a + Len(p)
  OBVIOUS
<1>6. IsTail(now, e, o, k, m)
  <2>1. Len(o) = k + m
    BY <1>3, <1>4
  <2> QED  BY <1>2, <1>5, <2>1, TailIs
<1>7. x >= at /\ Occurs(now, needle, x) /\ \A i \in at..(x - 1) : ~Occurs(now, needle, i)
  <2>1. x # -1
    OBVIOUS
  <2> QED  BY <2>1 DEF IsFirst
<1>8. e <= x
  <2>1. x \notin at..(e - 1)
    BY <1>1, <1>5, <1>7
  <2> QED  BY <1>7, <2>1
<1>9. PICK d \in Nat : d = x - e /\ x = e + d
  BY <1>8, Difference
<1>10. PICK l \in Nat : l = k + d
  OBVIOUS
<1>11. PICK z \in Nat : z = Len(needle)
  OBVIOUS
<1>12. PICK g \in Nat : g = l + z
  OBVIOUS
<1>13. Occurs(o, needle, l)
  <2>1. x = e + d
    BY <1>9
  <2>2. Alike(now, x, o, l, needle)
    BY <1>6, <1>10, <2>1, SameOccurs
  <2> QED  BY <1>7, <2>2 DEF Alike
<1>14. g <= n /\ g <= Len(o)
  BY <1>3, <1>11, <1>12, <1>13 DEF Occurs
<1>15. z > 0
  BY <1>11, EmptySeq
<1>16. k <= l /\ l <= g /\ l <= n /\ l <= Len(o) /\ l < n
  BY <1>3, <1>10, <1>12, <1>14, <1>15
<1>17. NoneIn(o, needle, k, l)
  <2>1. at <= e
    BY <1>1, <1>5
  <2>2. NoneIn(now, needle, e, x)
    <3>1. \A i \in e..(x - 1) : i \in at..(x - 1)
      BY <2>1
    <3> QED  BY <1>7, <3>1 DEF NoneIn
  <2>3. x = e + d
    BY <1>9
  <2> QED  BY <1>6, <1>10, <2>2, <2>3, NoneBehind
<1>29. k <= l
  BY <1>16
<1>30. l <= g
  BY <1>16
<1>31. l <= Len(o)
  BY <1>16
<1>32. g <= Len(o)
  BY <1>14
<1>18. IsSkip(o, f, k, l)
  BY <1>17, <1>29, <1>31, Skips
<1>33. IsRound(o, f, a, k, p, now)
  BY <1>1
<1>19. PICK q \in Seq(Held) : Len(q) = Len(p) + (l - k) /\ IsRound(o, f, a, l, q, now)
  BY <1>18, <1>29, <1>31, <1>33, RoundKeeps
<1>34. IsRound(o, f, a, l, q, now)
  BY <1>19
<1>20. IsTurn(f, l, g, r)
  <2>1. f[l] = r \o f[l + Len(needle)]
    <3>1. l \in 0..(Len(o) - 1)
      BY <1>3, <1>16
    <3> QED  BY <1>13, <3>1 DEF IsEvery
  <2>2. f[g] \in Seq(Held)
    <3>1. g \in 0..(Len(o) + Len(needle))
      BY <1>3, <1>11, <1>14
    <3> QED  BY <3>1 DEF IsEvery
  <2> QED  BY <1>11, <1>12, <2>1, <2>2 DEF IsTurn
<1>21. x = a + Len(q)
  <2>1. PICK w \in Nat, v \in Nat : w = Len(p) /\ v = Len(q)
    OBVIOUS
  <2>2. v = w + (l - k) /\ e = a + w
    BY <1>5, <1>19, <2>1
  <2>3. x = a + v
    BY <1>9, <1>10, <2>2
  <2> QED  BY <2>1, <2>3
<1>22. y = x + (g - l)
  BY <1>11, <1>12
<1>23. PICK t : t = Edited(now, x, y, r)
  OBVIOUS
<1>24. PICK s \in Seq(Held) : Len(s) = Len(q) + Len(r) /\ s = q \o r /\ IsRound(o, f, a, g, s, t)
  <2>1. \E s \in Seq(Held) : IsExtended(s, q, r, o, f, a, g, t)
    BY <1>20, <1>21, <1>22, <1>23, <1>30, <1>32, <1>34, RoundPuts
  <2> QED  BY <2>1 DEF IsExtended
<1>25. PICK u \in Nat : u = Len(r) /\ u > 0
  BY EmptySeq
<1>26. a + Len(s) = x + u
  <2>1. PICK v \in Nat : v = Len(q)
    OBVIOUS
  <2>2. Len(s) = v + u /\ x = a + v
    BY <1>21, <1>24, <1>25, <2>1
  <2> QED  BY <2>2
<1>27. x + 1 \in a..(a + Len(s))
  <2>1. a <= x
    BY <1>1, <1>7
  <2> QED  BY <1>25, <1>26, <2>1
<1>28. \A i \in (x + 1)..(a + Len(s) - 1) : ~Occurs(t, needle, i)
  <2>1. t \in Seq(Held) /\ \A j \in 1..Len(r) : t[x + j] = r[j]
    <3>1. now \in Seq(Held) /\ x <= Len(now) /\ y <= Len(now)
      <4>1. now \in Seq(Held)
        BY <1>6 DEF IsTail
      <4>2. x + z <= Len(now)
        BY <1>7, <1>11 DEF Occurs
      <4> QED  BY <1>11, <4>1, <4>2
    <3>2. IsEdit(t, now, x, y, r)
      BY <1>23, <3>1, EditedIs
    <3> QED  BY <3>2 DEF IsEdit
  <2>2. \A v \in 1..Len(needle), w \in 1..Len(r) : needle[v] # r[w]
    BY DEF AreApart
  <2>3. \A i \in (x + 1)..(x + Len(r) - 1) : ~Occurs(t, needle, i)
    BY <2>1, <2>2, NotInside
  <2> QED  BY <1>25, <1>26, <2>3
<1> QED  BY <1>23, <1>24, <1>27, <1>28 DEF EveryRound

(***************************************************************************)
(* The rounds of resolve_environment_variables.                            *)
(***************************************************************************)

\* Where it is when at is where it goes on: all before that is resolved.
ResolveRoundAt(o, f, at, now) ==
  \E k \in Nat : \E p \in Seq(Held) : IsRound(o, f, 0, k, p, now) /\ at = Len(p)

LEMMA ResolveStarts ==
  ASSUME NEW o \in Seq(Held), NEW f, f[0] \in Seq(Held)
  PROVE  ResolveRoundAt(o, f, 0, o)
<1>1. PICK z \in Nat : z = 0
  OBVIOUS
<1>2. PICK none \in Seq(Held) : none = <<>>
  <2>1. <<>> \in Seq(Held)
    OBVIOUS
  <2> QED  BY <2>1
<1>3. z <= Len(o) /\ f[z] \in Seq(Held)
  BY <1>1
<1>4. IsRound(o, f, z, z, none, o)
  BY <1>2, <1>3, RoundStarts
<1>5. Len(none) = z
  BY <1>1, <1>2
<1> QED  BY <1>1, <1>4, <1>5 DEF ResolveRoundAt

\* A round that is there: k units of o are done and m are left.
IsLeft(o, f, at, now, k, p, m) ==
  /\ p \in Seq(Held) /\ IsRound(o, f, 0, k, p, now) /\ Len(p) = at
  /\ k <= Len(o) /\ Len(o) = k + m /\ IsTail(now, at, o, k, m)

LEMMA RoundIsLeft ==
  ASSUME NEW o \in Seq(Held), NEW f, NEW at \in Nat, NEW now, ResolveRoundAt(o, f, at, now)
  PROVE  \E k \in Nat, p \in Seq(Held), m \in Nat : IsLeft(o, f, at, now, k, p, m)
<1>1. PICK k \in Nat, p \in Seq(Held) : IsRound(o, f, 0, k, p, now) /\ at = Len(p)
  BY DEF ResolveRoundAt
<1>2. PICK z \in Nat : z = 0
  OBVIOUS
<1>3. k <= Len(o) /\ now = Edited(o, z, k, p)
  BY <1>1, <1>2 DEF IsRound
<1>4. PICK n \in Nat : n = Len(o) /\ k <= n
  BY <1>3
<1>5. PICK m \in Nat : m = n - k /\ n = k + m
  BY <1>4, Difference
<1>6. Len(o) = k + m
  BY <1>4, <1>5
<1>7. IsTail(now, at, o, k, m)
  <2>1. at = z + Len(p)
    BY <1>1, <1>2
  <2>2. z <= Len(o)
    BY <1>2
  <2>3. k <= Len(o)
    BY <1>3
  <2>4. now = Edited(o, z, k, p)
    BY <1>3
  <2> QED  BY <1>6, <2>1, <2>2, <2>3, <2>4, TailIs
<1>8. IsLeft(o, f, at, now, k, p, m)
  BY <1>1, <1>3, <1>6, <1>7 DEF IsLeft
<1> QED  BY <1>8

LEMMA ResolveEnds ==
  ASSUME NEW o \in Seq(Held), NEW f, NEW env, IsResolving(f, env, o),
         NEW at \in Nat, NEW now, ResolveRoundAt(o, f, at, now), at >= Len(now)
  PROVE  now = f[0]
<1>1. PICK k \in Nat, p \in Seq(Held), m \in Nat : IsLeft(o, f, at, now, k, p, m)
  BY RoundIsLeft
<1>2. k = Len(o)
  <2>1. Len(now) = at + m /\ Len(o) = k + m
    BY <1>1 DEF IsLeft, IsTail
  <2>2. m = 0
    BY <2>1
  <2> QED  BY <2>1, <2>2
<1>3. IsRound(o, f, 0, k, p, now)
  BY <1>1 DEF IsLeft
<1>4. f[k] = <<>>
  BY <1>2 DEF IsResolving
<1>5. p = f[0]
  <2>1. p \o f[k] = f[0]
    BY <1>3 DEF IsRound
  <2>2. p \o << >> = p
    BY ConcatEmptySeq
  <2> QED  BY <1>4, <2>1, <2>2
<1>6. now = p
  <2>1. PICK z \in Nat : z = 0 /\ z <= Len(o)
    OBVIOUS
  <2>2. now = Edited(o, z, k, p)
    BY <1>3, <2>1 DEF IsRound
  <2>3. PICK n \in Nat : n = k /\ Len(o) - n = 0 /\ n <= Len(o)
    BY <1>2
  <2>4. IsEdit(now, o, z, n, p)
    BY <2>1, <2>2, <2>3, EditedIs
  <2>5. PICK l \in Nat : l = Len(p)
    OBVIOUS
  <2>6. now \in Seq(Held) /\ Len(now) = l /\ \A j \in 1..l : now[j] = p[j]
    <3>1. now \in Seq(Held) /\ Len(now) = z + l + (Len(o) - n) /\ \A j \in 1..l : now[z + j] = p[j]
      BY <2>4, <2>5 DEF IsEdit
    <3>2. z + l + (Len(o) - n) = l /\ \A j \in 1..l : z + j = j
      BY <2>1, <2>3
    <3> QED  BY <3>1, <3>2
  <2> QED  BY <2>5, <2>6, SameUnits
<1> QED  BY <1>5, <1>6

SameAt(t, i, s, j) == t[i + 1] = s[j + 1]

LEMMA SameUnit ==
  ASSUME NEW t, NEW s, NEW e \in Nat, NEW k \in Nat, NEW m \in Nat, IsTail(t, e, s, k, m),
         NEW d \in Nat, d < m, NEW i \in Nat, i = e + d, NEW j \in Nat, j = k + d
  PROVE  SameAt(t, i, s, j)
<1>1. PICK b \in 1..m : b = d + 1
  <2>1. d + 1 \in 1..m
    OBVIOUS
  <2> QED  BY <2>1
<1>2. e + b = i + 1 /\ k + b = j + 1
  BY <1>1
<1>3. t[e + b] = s[k + b]
  BY DEF IsTail
<1> QED  BY <1>2, <1>3 DEF SameAt

LEMMA SameEscape ==
  ASSUME NEW t, NEW s, NEW e \in Nat, NEW k \in Nat, NEW m \in Nat, IsTail(t, e, s, k, m)
  PROVE  IsEscape(t, e) <=> IsEscape(s, k)
<1>1. Len(t) = e + m /\ Len(s) = k + m
  BY DEF IsTail
<1>2. (e + 1 < Len(t) <=> 1 < m) /\ (k + 1 < Len(s) <=> 1 < m)
  BY <1>1
<1>3. ASSUME 1 < m PROVE t[e + 1] = s[k + 1] /\ t[e + 2] = s[k + 2]
  <2>1. 1 \in 1..m /\ 2 \in 1..m
    BY <1>3
  <2> QED  BY <2>1 DEF IsTail
<1> QED  BY <1>2, <1>3, Zenon DEF IsEscape

\* The unit before an escaped dollar is taken out: the two are now the dollar.
LEMMA TakesOut ==
  ASSUME NEW s \in Seq(Held), NEW i \in Nat, IsEscape(s, i), NEW e \in Nat, e = i + 1, NEW g \in Nat, g = i + 2
  PROVE  <<Dollar>> \in Seq(Held) /\ Edited(s, i, e, <<>>) = Edited(s, i, g, <<Dollar>>)
<1>1. PICK n \in Nat : n = Len(s) /\ e < n /\ s[g] = Dollar
  BY DEF IsEscape
<1>2. PICK p : p = <<Dollar>>
  OBVIOUS
<1>3. p \in Seq(Held) /\ Len(p) = 1 /\ p[1] = s[g]
  <2>1. g \in 1..Len(s)
    BY <1>1
  <2>2. <<s[g]>> \in Seq(Held) /\ Len(<<s[g]>>) = 1
    BY <2>1, OneUnit
  <2> QED  BY <1>1, <1>2, <2>2
<1>4. PICK none \in Seq(Held) : none = <<>> /\ Len(none) = 0
  <2>1. <<>> \in Seq(Held)
    OBVIOUS
  <2> QED  BY <2>1
<1>5. PICK l \in Nat : l = n - g /\ n = g + l
  <2>1. g <= n
    BY <1>1
  <2> QED  BY <2>1, Difference
<1>6. i <= Len(s) /\ e <= Len(s) /\ g <= Len(s)
  BY <1>1
<1>7. PICK t : t = Edited(s, i, e, none)
  OBVIOUS
<1>8. /\ t \in Seq(Held) /\ Len(t) = i + 1 + l
      /\ \A j \in 1..i : t[j] = s[j]
      /\ \A j \in 1..(l + 1) : t[i + j] = s[e + j]
  <2>1. IsEdit(t, s, i, e, none)
    BY <1>6, <1>7, EditedIs
  <2>2. t \in Seq(Held) /\ Len(t) = i + 0 + (n - e) /\ (\A j \in 1..i : t[j] = s[j])
        /\ \A j \in 1..(n - e) : t[i + 0 + j] = s[e + j]
    BY <1>1, <1>4, <2>1 DEF IsEdit
  <2>3. n - e = l + 1 /\ i + 0 + (n - e) = i + 1 + l
    BY <1>5
  <2>4. \A j \in 1..(l + 1) : i + 0 + j = i + j
    OBVIOUS
  <2> QED  BY <2>2, <2>3, <2>4
<1>9. t[i + 1] = p[1]
  <2>1. 1 \in 1..(l + 1) /\ e + 1 = g
    OBVIOUS
  <2> QED  BY <1>3, <1>8, <2>1
<1>10. ASSUME NEW j \in 1..l PROVE t[i + 1 + j] = s[g + j]
  <2>1. PICK x \in 1..(l + 1) : x = j + 1
    <3>1. j + 1 \in 1..(l + 1)
      OBVIOUS
    <3> QED  BY <3>1
  <2>2. i + x = i + 1 + j /\ e + x = g + j
    BY <2>1
  <2>3. t[i + x] = s[e + x]
    BY <1>8
  <2> QED  BY <2>2, <2>3
<1>11. IsEdit(t, s, i, g, p)
  <2>1. Len(s) - g = l
    BY <1>1, <1>5
  <2>2. \A j \in 1..Len(p) : t[i + j] = p[j]
    BY <1>3, <1>9
  <2> QED  BY <1>3, <1>8, <1>10, <2>1, <2>2 DEF IsEdit
<1>12. t = Edited(s, i, g, p)
  BY <1>3, <1>6, <1>11, EditedWhen
<1> QED  BY <1>2, <1>3, <1>4, <1>7, <1>12

LEMMA LeftIsRound ==
  ASSUME NEW o \in Seq(Held), NEW f, NEW k \in Nat, NEW s \in Seq(Held), NEW now, IsRound(o, f, 0, k, s, now),
         NEW at \in Nat, Len(s) = at
  PROVE  ResolveRoundAt(o, f, at, now)
BY DEF ResolveRoundAt

LEMMA EscapeGoes ==
  ASSUME NEW o \in Seq(Held), NEW f, NEW env, IsResolving(f, env, o),
         NEW at \in Nat, NEW now, ResolveRoundAt(o, f, at, now), IsEscape(now, at),
         NEW e \in Nat, e = at + 1
  PROVE  ResolveRoundAt(o, f, e, Edited(now, at, e, <<>>))
<1>1. PICK k \in Nat, p \in Seq(Held), m \in Nat : IsLeft(o, f, at, now, k, p, m)
  BY RoundIsLeft
<1>2. PICK z \in Nat : z = 0
  OBVIOUS
<1>3. IsRound(o, f, z, k, p, now) /\ Len(p) = at /\ Len(o) = k + m
  BY <1>1, <1>2 DEF IsLeft
<1>4. IsTail(now, at, o, k, m)
  BY <1>1 DEF IsLeft
<1>5. now \in Seq(Held) /\ Len(now) = at + m
  BY <1>4 DEF IsTail
<1>6. IsEscape(o, k)
  BY <1>4, SameEscape
<1>7. k + 1 < Len(o)
  BY <1>6 DEF IsEscape
<1>8. PICK g \in Nat, y \in Nat : g = k + 2 /\ y = at + 2
  OBVIOUS
<1>22. PICK r : r = <<Dollar>>
  OBVIOUS
<1>9. r \in Seq(Held) /\ Edited(now, at, e, <<>>) = Edited(now, at, y, r)
  BY <1>5, <1>8, <1>22, TakesOut
<1>10. k <= g /\ g <= Len(o)
  BY <1>3, <1>7, <1>8
<1>11. IsTurn(f, k, g, r)
  <2>1. k \in 0..(Len(o) - 1) /\ g \in 0..Len(o)
    BY <1>3, <1>7, <1>10
  <2>2. f[k] = <<Dollar>> \o f[k + 2]
    BY <1>6, <2>1 DEF IsResolving
  <2>3. f[g] \in Seq(Held)
    BY <2>1 DEF IsResolving
  <2> QED  BY <1>8, <1>9, <1>22, <2>2, <2>3 DEF IsTurn
<1>12. k <= g
  BY <1>10
<1>13. g <= Len(o)
  BY <1>10
<1>14. at = z + Len(p)
  BY <1>2, <1>3
<1>15. y = at + (g - k)
  BY <1>8
<1>16. IsRound(o, f, z, k, p, now)
  BY <1>3
<1>17. PICK t : t = Edited(now, at, y, r)
  OBVIOUS
<1>18. PICK s \in Seq(Held) : IsExtended(s, p, r, o, f, z, g, t)
  BY <1>11, <1>12, <1>13, <1>14, <1>15, <1>16, <1>17, RoundPuts
<1>19. Len(s) = e
  <2>1. Len(r) = 1
    BY <1>22
  <2>2. Len(s) = Len(p) + Len(r)
    BY <1>18 DEF IsExtended
  <2> QED  BY <1>3, <2>1, <2>2
<1>20. IsRound(o, f, 0, g, s, t)
  BY <1>2, <1>18 DEF IsExtended
<1>21. ResolveRoundAt(o, f, e, t)
  BY <1>19, <1>20, LeftIsRound
<1> QED  BY <1>9, <1>17, <1>21

LEMMA OnePart ==
  ASSUME NEW s \in Seq(Held), NEW k \in Nat, NEW g \in Nat, g = k + 1, g <= Len(s)
  PROVE  SubSeq(s, k + 1, g) = <<s[g]>>
<1>1. GoesOn(s, k, k, g)
  BY PartAndUnit
<1>2. k <= Len(s)
  OBVIOUS
<1>3. SubSeq(s, k + 1, k) = <<>>
  BY <1>2, NoPart
<1>4. g \in 1..Len(s)
  OBVIOUS
<1>5. PICK u \in Seq(Held) : u = <<s[g]>>
  <2>1. <<s[g]>> \in Seq(Held)
    BY <1>4, OneUnit
  <2> QED  BY <2>1
<1>6. << >> \o u = u
  BY ConcatEmptySeq
<1> QED  BY <1>1, <1>3, <1>5, <1>6 DEF GoesOn

LEMMA UnitGoes ==
  ASSUME NEW o \in Seq(Held), NEW f, NEW env, IsResolving(f, env, o),
         NEW at \in Nat, NEW now, ResolveRoundAt(o, f, at, now), at < Len(now), ~IsEscape(now, at),
         now[at + 1] # Dollar, NEW e \in Nat, e = at + 1
  PROVE  ResolveRoundAt(o, f, e, now)
<1>1. PICK k \in Nat, p \in Seq(Held), m \in Nat : IsLeft(o, f, at, now, k, p, m)
  BY RoundIsLeft
<1>2. PICK z \in Nat : z = 0
  OBVIOUS
<1>3. IsRound(o, f, z, k, p, now) /\ Len(p) = at /\ Len(o) = k + m
  BY <1>1, <1>2 DEF IsLeft
<1>4. IsTail(now, at, o, k, m)
  BY <1>1 DEF IsLeft
<1>5. Len(now) = at + m
  BY <1>4 DEF IsTail
<1>6. 0 < m
  BY <1>5
<1>7. ~IsEscape(o, k)
  BY <1>4, SameEscape
<1>8. o[k + 1] # Dollar
  <2>1. at = at + z
    BY <1>2
  <2>2. k = k + z
    BY <1>2
  <2>3. z < m
    BY <1>2, <1>6
  <2>4. SameAt(now, at, o, k)
    BY <1>4, <2>1, <2>2, <2>3, SameUnit
  <2> QED  BY <2>4 DEF SameAt
<1>9. PICK g \in Nat : g = k + 1
  OBVIOUS
<1>10. k \in 0..(Len(o) - 1) /\ g \in 0..Len(o)
  BY <1>3, <1>6, <1>9
<1>11. k <= g
  BY <1>9
<1>12. g <= Len(o)
  BY <1>10
<1>13. IsSkip(o, f, k, g)
  <2>1. f[k] = <<o[k + 1]>> \o f[k + 1]
    BY <1>7, <1>8, <1>10 DEF IsResolving
  <2>2. SubSeq(o, k + 1, g) = <<o[g]>>
    BY <1>9, <1>12, OnePart
  <2>3. f[g] \in Seq(Held)
    BY <1>10 DEF IsResolving
  <2> QED  BY <1>9, <2>1, <2>2, <2>3 DEF IsSkip
<1>14. IsRound(o, f, z, k, p, now)
  BY <1>3
<1>15. PICK q \in Seq(Held) : Len(q) = Len(p) + (g - k) /\ IsRound(o, f, z, g, q, now)
  BY <1>11, <1>12, <1>13, <1>14, RoundKeeps
<1>16. Len(q) = e
  BY <1>3, <1>9, <1>15
<1>17. IsRound(o, f, 0, g, q, now)
  BY <1>2, <1>15
<1> QED  BY <1>16, <1>17, LeftIsRound

\* The units of t behind i others up to the last-th are a name.
IsName(t, i, last) ==
  (\A l \in (i + 1)..last : t[l] \in NameUnits) /\ (last = Len(t) \/ t[last + 1] \notin NameUnits)

NamedAlike(now, i, end, o, j, g) == g = NameEndOf(o, j) /\ AreAlike(now, i, end, o, j, g)

\* The name behind a dollar ends in o as many units behind it as it does in now.
LEMMA SameName ==
  ASSUME NEW o, NEW now, NEW at \in Nat, NEW k \in Nat, NEW m \in Nat, IsTail(now, at, o, k, m),
         NEW i \in Nat, i = at + 1, NEW j \in Nat, j = k + 1, NEW end \in Nat, i <= end, end <= at + m,
         NEW g \in Nat, NEW d \in Nat, end = at + d, g = k + d, IsName(now, i, end)
  PROVE  NamedAlike(now, i, end, o, j, g)
<1>1. o \in Seq(Held) /\ now \in Seq(Held) /\ Len(now) = at + m /\ Len(o) = k + m
  BY DEF IsTail
<1>2. 1 <= d /\ d <= m
  OBVIOUS
<1>3. PICK n \in Nat : n = Len(o) /\ j <= n /\ n = k + m
  BY <1>1, <1>2
<1>4. PICK x : x = NameEndOf(o, j)
  OBVIOUS
<1>5. IsNameEnd(o, j, x)
  BY <1>1, <1>3, <1>4, NameEndIs
<1>6. x \in j..n /\ (\A l \in (j + 1)..x : o[l] \in NameUnits) /\ (x = n \/ o[x + 1] \notin NameUnits)
  BY <1>3, <1>5 DEF IsNameEnd
<1>7. g \in j..n
  BY <1>2, <1>3
<1>8. ASSUME NEW l \in (j + 1)..g PROVE o[l] \in NameUnits
  <2>1. PICK c \in 1..m : l = k + c /\ at + c \in (i + 1)..end
    <3>1. l - k \in 1..m /\ l = k + (l - k) /\ at + (l - k) \in (i + 1)..end
      BY <1>2
    <3> QED  BY <3>1
  <2>2. now[at + c] = o[k + c]
    BY DEF IsTail
  <2> QED  BY <2>1, <2>2 DEF IsName
<1>9. g = n \/ o[g + 1] \notin NameUnits
  <2>1. CASE d = m
    BY <1>3, <2>1
  <2>2. CASE d # m
    <3>1. d < m
      BY <1>2, <2>2
    <3>2. SameAt(now, end, o, g)
      BY <3>1, SameUnit
    <3>3. end # Len(now)
      BY <1>1, <3>1
    <3> QED  BY <3>2, <3>3 DEF IsName, SameAt
  <2> QED  BY <2>1, <2>2
<1>10. g = x
  BY <1>1, <1>3, <1>6, <1>7, <1>8, <1>9, OneNameEnd
<1>11. AreAlike(now, i, end, o, j, g)
  <2>1. PICK one \in Nat : one = 1 /\ one <= d /\ i = at + one /\ j = k + one
    BY <1>2
  <2>2. d <= m
    BY <1>2
  <2> QED  BY <2>1, <2>2, SamePart
<1> QED  BY <1>4, <1>10, <1>11 DEF NamedAlike

LEMMA NameGoes ==
  ASSUME NEW o \in Seq(Held), NEW f, NEW env, IsEnvironment(env), IsResolving(f, env, o),
         NEW at \in Nat, NEW now, ResolveRoundAt(o, f, at, now), at < Len(now), ~IsEscape(now, at),
         now[at + 1] = Dollar, NEW end \in Nat, at < end, end <= Len(now),
         NEW i \in Nat, i = at + 1, IsName(now, i, end),
         NEW r \in Seq(Held), r = ValueIn(env, SubSeq(now, at + 2, end)), NEW e \in Nat, e = at + Len(r)
  PROVE  ResolveRoundAt(o, f, e, Edited(now, at, end, r))
<1>1. PICK k \in Nat, p \in Seq(Held), m \in Nat : IsLeft(o, f, at, now, k, p, m)
  BY RoundIsLeft
<1>2. PICK z \in Nat : z = 0
  OBVIOUS
<1>3. IsRound(o, f, z, k, p, now) /\ Len(p) = at /\ Len(o) = k + m
  BY <1>1, <1>2 DEF IsLeft
<1>4. IsTail(now, at, o, k, m)
  BY <1>1 DEF IsLeft
<1>5. Len(now) = at + m
  BY <1>4 DEF IsTail
<1>6. 0 < m
  BY <1>5
<1>7. ~IsEscape(o, k)
  BY <1>4, SameEscape
<1>8. o[k + 1] = Dollar
  <2>1. at = at + z
    BY <1>2
  <2>2. k = k + z
    BY <1>2
  <2>3. z < m
    BY <1>2, <1>6
  <2>4. SameAt(now, at, o, k)
    BY <1>4, <2>1, <2>2, <2>3, SameUnit
  <2> QED  BY <2>4 DEF SameAt
<1>9. at <= end
  OBVIOUS
<1>10. PICK d \in Nat : d = end - at /\ end = at + d
  BY <1>9, Difference
<1>11. PICK g \in Nat, j \in Nat : g = k + d /\ j = k + 1
  OBVIOUS
<1>12. d <= m /\ i <= end /\ end <= at + m
  BY <1>5, <1>10, <1>11
<1>13. g = NameEndOf(o, j) /\ AreAlike(now, i, end, o, j, g)
  <2>3. i <= end
    BY <1>12
  <2>4. end <= at + m
    BY <1>12
  <2>5. end = at + d
    BY <1>10
  <2>6. g = k + d
    BY <1>11
  <2>7. j = k + 1
    BY <1>11
  <2>8. NamedAlike(now, i, end, o, j, g)
    BY <1>4, <2>3, <2>4, <2>5, <2>6, <2>7, SameName
  <2> QED  BY <2>8 DEF NamedAlike
<1>14. k \in 0..(Len(o) - 1) /\ g \in 0..Len(o)
  BY <1>3, <1>6, <1>11, <1>12
<1>15. IsTurn(f, k, g, r)
  <2>1. f[k] = ValueIn(env, SubSeq(o, k + 2, NameEndOf(o, k + 1))) \o f[NameEndOf(o, k + 1)]
    BY <1>7, <1>8, <1>14 DEF IsResolving
  <2>2. i + 1 = at + 2 /\ j + 1 = k + 2
    BY <1>11
  <2>3. SubSeq(now, at + 2, end) = SubSeq(o, k + 2, g)
    BY <1>13, <2>2 DEF AreAlike
  <2>4. f[g] \in Seq(Held)
    BY <1>14 DEF IsResolving
  <2> QED  BY <1>11, <1>13, <2>1, <2>3, <2>4 DEF IsTurn
<1>16. k <= g
  BY <1>11
<1>17. g <= Len(o)
  BY <1>14
<1>18. at = z + Len(p)
  BY <1>2, <1>3
<1>19. end = at + (g - k)
  BY <1>10, <1>11
<1>20. IsRound(o, f, z, k, p, now)
  BY <1>3
<1>21. PICK t : t = Edited(now, at, end, r)
  OBVIOUS
<1>22. PICK s \in Seq(Held) : IsExtended(s, p, r, o, f, z, g, t)
  BY <1>15, <1>16, <1>17, <1>18, <1>19, <1>20, <1>21, RoundPuts
<1>23. Len(s) = e
  <2>1. Len(s) = Len(p) + Len(r)
    BY <1>22 DEF IsExtended
  <2> QED  BY <1>3, <2>1
<1>24. IsRound(o, f, 0, g, s, t)
  BY <1>2, <1>22 DEF IsExtended
<1>25. ResolveRoundAt(o, f, e, t)
  BY <1>23, <1>24, LeftIsRound
<1> QED  BY <1>21, <1>25

(***************************************************************************)
(* The loops that are under way.                                           *)
(***************************************************************************)

EveryState(o, needle, r, a, at, now) ==
  IF needle = <<>> \/ a > Len(o) THEN now = o /\ at = a
  ELSE r # <<>> /\ AreApart(needle, r) => EveryRound(o, needle, EveryFrom(o, needle, r), a, at, now)

ResolveState(o, at, now) == ResolveRoundAt(o, ResolvedFrom(EveryValue, o), at, now)

\* How far a loop has come: what is before the place it is at is rewritten, and what
\* is behind that is as it was.
LoopInv ==
  /\ scan.op # "none" => scan.orig \in Seq(Held)
  /\ scan.op = "replace_all" =>
       /\ scan.from \in Nat
       /\ EveryState(scan.orig, scan.s[1], scan.s[2], scan.from, scan.at, Now)
  /\ scan.op = "resolve" => ResolveState(scan.orig, scan.at, Now)

\* A step does what Text says and leaves the loops where they should be.
Follow == Told /\ LoopInv'

LEMMA IdleLoops ==
  ASSUME Idle, UNCHANGED scan
  PROVE  LoopInv'
<1>1. scan'.op = "none"
  BY DEF Idle
<1> QED  BY <1>1 DEF LoopInv

LEMMA FaultLoops ==
  ASSUME LoopInv, UNCHANGED <<arr, scan>>
  PROVE  LoopInv'
<1>1. Now' = Now
  BY DEF Now, ArrayItems
<1>2. scan' = scan
  OBVIOUS
<1> QED  BY <1>1, <1>2 DEF LoopInv

LEMMA FaultFollows ==
  ASSUME LoopInv, Faults, UNCHANGED scan
  PROVE  Follow
<1>1. UNCHANGED <<arr, scan>>
  BY DEF Faults
<1> QED  BY <1>1, FaultLoops, ShownFault DEF Follow

LEMMA IdleFollows ==
  ASSUME Idle, UNCHANGED scan, Told
  PROVE  Follow
BY IdleLoops DEF Follow

EnvironmentIs == IsEnvironment(EveryValue)

LEMMA AnEnvironment == EnvironmentIs
<1>1. \A name : EnvironmentValue(name) \in Seq(Held)
  BY ValueIs
<1>2. << >> \in Seq(Held)
  OBVIOUS
<1>3. \A name : ValueIn(EveryValue, name) \in Seq(Held)
  <2>1. ASSUME NEW name PROVE ValueIn(EveryValue, name) \in Seq(Held)
    <3>1. DOMAIN EveryValue = Seq(Held)
      BY DEF EveryValue
    <3>2. CASE name \in Seq(Held)
      <4>1. EveryValue[name] = EnvironmentValue(name)
        BY <3>2 DEF EveryValue
      <4> QED  BY <1>1, <3>1, <3>2, <4>1 DEF ValueIn
    <3>3. CASE name \notin Seq(Held)
      BY <1>2, <3>1, <3>3 DEF ValueIn
    <3> QED  BY <3>2, <3>3
  <2> QED  BY <2>1
<1> QED  BY <1>3 DEF EnvironmentIs, IsEnvironment

LEMMA ValueFound ==
  ASSUME NEW name \in Seq(Held)
  PROVE  ValueIn(EveryValue, name) = EnvironmentValue(name)
BY DEF ValueIn, EveryValue

LEMMA BeginsShows ==
  ASSUME NEW op \in {"replace_all", "resolve"}, NEW from, NEW s, Begins(op, from, s)
  PROVE  /\ Told /\ Now' = Now
         /\ scan'.op = op /\ scan'.at = from /\ scan'.s = s /\ scan'.from = from /\ scan'.orig = Now
<1>1. Idle /\ UNCHANGED <<arr, arrayCall>>
      /\ scan' = [op |-> op, at |-> from, s |-> s, from |-> from, orig |-> Now, long |-> scan.long]
  BY DEF Begins
<1>2. Now' = Now
  BY <1>1 DEF Now, ArrayItems
<1>3. scan'.op = op /\ scan'.at = from /\ scan'.s = s /\ scan'.from = from /\ scan'.orig = Now
  BY <1>1
<1>4. ~Idle'
  BY <1>3 DEF Idle
<1>5. Shown = Now /\ Shown' = Now
  BY <1>1, <1>3, <1>4 DEF Shown
<1> QED  BY <1>1, <1>2, <1>3, <1>5 DEF Told

LEMMA ReplaceBegins ==
  ASSUME StringInv, NEW needle \in Seq(Held), NEW r \in Seq(Held), NEW at \in Nat, ReplaceAllBegin(needle, r, at)
  PROVE  Follow
<1>1. PICK o \in Seq(Held) : o = Now
  BY UnitsAre DEF StringInv
<1>2. PICK s : s = <<needle, r>>
  OBVIOUS
<1>3. Begins("replace_all", at, s)
  BY <1>2 DEF ReplaceAllBegin
<1>4. /\ Told /\ Now' = Now
      /\ scan'.op = "replace_all" /\ scan'.at = at /\ scan'.s = s /\ scan'.from = at /\ scan'.orig = Now
  BY <1>3, BeginsShows
<1>5. EveryState(o, needle, r, at, at, o)
  <2>1. CASE needle = <<>> \/ at > Len(o)
    BY <2>1 DEF EveryState
  <2>2. CASE ~(needle = <<>> \/ at > Len(o))
    <3>1. PICK f : f = EveryFrom(o, needle, r)
      OBVIOUS
    <3>2. IsEvery(f, o, needle, r)
      BY <2>2, <3>1, EveryIs
    <3>3. at <= Len(o)
      BY <2>2
    <3>4. EveryRound(o, needle, f, at, at, o)
      BY <3>2, <3>3, EveryStarts
    <3> QED  BY <2>2, <3>1, <3>4 DEF EveryState
  <2> QED  BY <2>1, <2>2
<1>6. LoopInv'
  <2>1. scan'.s[1] = needle /\ scan'.s[2] = r
    BY <1>2, <1>4
  <2>2. scan'.op # "resolve"
    BY <1>4
  <2> QED  BY <1>1, <1>4, <1>5, <2>1, <2>2 DEF LoopInv
<1> QED  BY <1>4, <1>6 DEF Follow

LEMMA ResolveBegins ==
  ASSUME StringInv, ResolveBegin
  PROVE  Follow
<1>1. PICK o \in Seq(Held) : o = Now
  BY UnitsAre DEF StringInv
<1>2. PICK z \in Nat : z = 0
  OBVIOUS
<1>3. Begins("resolve", z, <<>>)
  BY <1>2 DEF ResolveBegin
<1>4. /\ Told /\ Now' = Now
      /\ scan'.op = "resolve" /\ scan'.at = z /\ scan'.orig = Now
  BY <1>3, BeginsShows
<1>5. ResolveState(o, z, o)
  <2>1. PICK f : f = ResolvedFrom(EveryValue, o)
    OBVIOUS
  <2>2. IsResolving(f, EveryValue, o)
    BY <2>1, AnEnvironment, ResolvingIs DEF EnvironmentIs
  <2>3. 0 \in 0..Len(o)
    OBVIOUS
  <2>4. f[0] \in Seq(Held)
    BY <2>2, <2>3 DEF IsResolving
  <2>5. ResolveRoundAt(o, f, 0, o)
    BY <2>4, ResolveStarts
  <2> QED  BY <1>2, <2>1, <2>5 DEF ResolveState
<1>6. LoopInv'
  BY <1>1, <1>4, <1>5 DEF LoopInv
<1> QED  BY <1>4, <1>6 DEF Follow

\* A round of a loop: nothing but a fault, or what it leaves.
LEMMA ProceedsShows ==
  ASSUME StringInv, LoopInv, scan.op # "none", NEW at, NEW room, NEW new, Proceeds(at, room, new)
  PROVE  \/ Follow
         \/ /\ Told /\ Now' = UnitsOf(new)
            /\ scan'.op = scan.op /\ scan'.at = at /\ scan'.s = scan.s /\ scan'.from = scan.from
            /\ scan'.orig = scan.orig
<1>1. CASE Faults /\ UNCHANGED scan
  BY <1>1, FaultFollows
<1>2. CASE Keeps(new) /\ UNCHANGED arrayCall
           /\ scan' = [scan EXCEPT !.at = at, !.long = @ \/ (scan.op = "resolve" /\ room > 0)]
  <2>1. arr' = new
    BY <1>2 DEF Keeps
  <2>2. Now' = UnitsOf(new)
    BY <2>1 DEF Now, ArrayItems, UnitsOf
  <2>3. PICK l : l = (scan.long \/ (scan.op = "resolve" /\ room > 0))
    OBVIOUS
  <2>4. scan' = [op |-> scan.op, at |-> at, s |-> scan.s, from |-> scan.from, orig |-> scan.orig, long |-> l]
    BY <1>2, <2>3 DEF StringInv, ScanIs
  <2>5. scan'.op = scan.op /\ scan'.at = at /\ scan'.s = scan.s /\ scan'.from = scan.from
        /\ scan'.orig = scan.orig
    BY <2>4
  <2>6. ~Idle /\ ~Idle'
    BY <2>5 DEF Idle
  <2>7. Shown = scan.orig /\ Shown' = scan.orig
    BY <2>5, <2>6 DEF Shown
  <2>8. Told
    BY <1>2, <2>7 DEF Told
  <2> QED  BY <2>2, <2>5, <2>8
<1> QED  BY <1>1, <1>2 DEF Proceeds

LEMMA FinishesShows ==
  ASSUME NEW op, Finishes(op), scan.op # "none"
  PROVE  /\ LoopInv' /\ Shown = scan.orig /\ Shown' = Now
         /\ arrayCall' = [op |-> op, at |-> scan.from, n |-> 0, s |-> scan.s]
<1>1. scan' = [NoScan EXCEPT !.long = scan.long] /\ UNCHANGED arr
      /\ arrayCall' = [op |-> op, at |-> scan.from, n |-> 0, s |-> scan.s]
  BY DEF Finishes, ArrayCalled
<1>2. scan'.op = "none"
  BY <1>1 DEF NoScan
<1>3. Idle' /\ ~Idle
  BY <1>2 DEF Idle
<1>4. Now' = Now
  BY <1>1 DEF Now, ArrayItems
<1>5. LoopInv'
  BY <1>2 DEF LoopInv
<1> QED  BY <1>1, <1>3, <1>4, <1>5 DEF Shown

\* What Text says t is when every needle in s, from at on, gave way to new.
IsEveryOf(t, s, needle, new, at, f) ==
  IF needle = <<>> \/ at > Len(s) THEN t = s
  ELSE (new # <<>> /\ CodeText!ToSet(needle) \cap CodeText!ToSet(new) = {}) => t = CodeText!Start(s, at) \o f[at]

LEMMA EveryAction ==
  ASSUME NEW needle, NEW new, NEW at, NEW s, s = Shown,
         NEW c, c = arrayCall', c.s[1] = needle, c.s[2] = new, c.at = at, c.op = "replace_all",
         NEW f, f = EveryFrom(s, needle, new), NEW t, t = Shown',
         IsEveryOf(t, s, needle, new, at, f)
  PROVE  CodeText!ReplaceEvery
BY ZenonT(40) DEF IsEveryOf, CodeText!ReplaceEvery, EveryFrom, CodeText!Occurs, Occurs, CodeText!Called

LEMMA TellsEvery ==
  ASSUME NEW needle \in Seq(Held), NEW r \in Seq(Held), NEW at, NEW o, o = Shown, NEW t, t = Shown',
         NEW c, c = arrayCall', c.op = "replace_all", c.at = at, c.s[1] = needle, c.s[2] = r,
         NEW f, f = EveryFrom(o, needle, r),
         IF needle = <<>> \/ at > Len(o) THEN t = o
         ELSE r # <<>> /\ AreApart(needle, r) => IsDone(t, o, f, at)
  PROVE  Told
<1>1. CodeText!ToSet(needle) \cap CodeText!ToSet(r) = {} => AreApart(needle, r)
  <2> SUFFICES ASSUME CodeText!ToSet(needle) \cap CodeText!ToSet(r) = {},
                      NEW u \in 1..Len(needle), NEW v \in 1..Len(r), needle[u] = r[v]
               PROVE  FALSE
    BY DEF AreApart
  <2>1. u \in DOMAIN needle /\ v \in DOMAIN r
    OBVIOUS
  <2>2. needle[u] \in CodeText!ToSet(needle) /\ r[v] \in CodeText!ToSet(r)
    BY <2>1 DEF CodeText!ToSet
  <2> QED  BY <2>2
<1>2. IF needle = <<>> \/ at > Len(o) THEN t = o
      ELSE r # <<>> /\ CodeText!ToSet(needle) \cap CodeText!ToSet(r) = {} => t = CodeText!Start(o, at) \o f[at]
  <2>1. CASE needle = <<>> \/ at > Len(o)
    BY <2>1
  <2>2. CASE ~(needle = <<>> \/ at > Len(o))
    <3> SUFFICES ASSUME r # <<>>, CodeText!ToSet(needle) \cap CodeText!ToSet(r) = {}
                 PROVE  t = CodeText!Start(o, at) \o f[at]
      BY <2>2
    <3>1. IsDone(t, o, f, at)
      BY <1>1, <2>2
    <3> QED  BY <3>1 DEF CodeText!Start, IsDone
  <2> QED  BY <2>1, <2>2
<1>4. IsEveryOf(t, o, needle, r, at, f)
  BY <1>2 DEF IsEveryOf
<1>3. CodeText!ReplaceEvery
  BY <1>4, EveryAction
<1> QED  BY <1>3 DEF Told, CodeText!Next

LEMMA TellsResolve ==
  ASSUME NEW o, o = Shown, arrayCall'.op = "resolve", Shown' = ResolvedFrom(EveryValue, o)[0]
  PROVE  Told
<1>1. CodeText!Resolve
  BY DEF CodeText!Resolve, ResolvedFrom, ValueIn, NameEndOf, IsEscape, CodeText!Called
<1> QED  BY <1>1 DEF Told, CodeText!Next

\* What replace_all finds from at on, and what is then the case.
LEMMA ReplaceRoundFollows ==
  ASSUME StringInv, LoopInv, ReplaceAllRound
  PROVE  Follow
<1>1. IsString(arr) /\ scan.op = "replace_all" /\ scan.at \in Nat
  BY DEF StringInv, ScanIs, ReplaceAllRound
<1>2. PICK needle \in Seq(Held), r \in Seq(Held) : needle = scan.s[1] /\ r = scan.s[2]
  BY <1>1 DEF StringInv, ScanIs
<1>3. PICK o \in Seq(Held), a \in Nat, at \in Nat : o = scan.orig /\ a = scan.from /\ at = scan.at
  BY <1>1 DEF LoopInv
<1>4. PICK now \in Seq(Held) : now = Now /\ Len(now) = arr.size
  BY <1>1, UnitsAre
<1>5. EveryState(o, needle, r, a, at, now)
  BY <1>1, <1>2, <1>3, <1>4 DEF LoopInv
<1>6. PICK x : x = Found(needle, at)
  OBVIOUS
<1>7. needle # <<>> => IsFirst(x, now, needle, at)
  <2> SUFFICES ASSUME needle # <<>> PROVE IsFirst(x, now, needle, at)
    OBVIOUS
  <2>1. x = IndexOf(now, needle, at)
    BY <1>4, <1>6 DEF Found
  <2> QED  BY <2>1, FirstIs
<1>8. PICK f : f = EveryFrom(o, needle, r)
  OBVIOUS
<1>9. needle # <<>> => IsEvery(f, o, needle, r)
  BY <1>8, EveryIs
<1>10. CASE x < 0
  <2>1. Finishes("replace_all")
    BY <1>2, <1>3, <1>6, <1>10 DEF ReplaceAllRound
  <2>2. scan.op # "none"
    BY <1>1
  <2>3. /\ LoopInv' /\ Shown = scan.orig /\ Shown' = Now
        /\ arrayCall' = [op |-> "replace_all", at |-> scan.from, n |-> 0, s |-> scan.s]
    BY <2>1, <2>2, FinishesShows
  <2>4. PICK c : c = arrayCall'
    OBVIOUS
  <2>5. c.op = "replace_all" /\ c.at = a /\ c.s[1] = needle /\ c.s[2] = r
    BY <1>2, <1>3, <2>3, <2>4
  <2>6. IF needle = <<>> \/ a > Len(o) THEN now = o
        ELSE r # <<>> /\ AreApart(needle, r) => IsDone(now, o, f, a)
    <3>1. CASE needle = <<>> \/ a > Len(o)
      BY <1>5, <3>1 DEF EveryState
    <3>2. CASE ~(needle = <<>> \/ a > Len(o))
      <4> SUFFICES ASSUME r # <<>>, AreApart(needle, r) PROVE IsDone(now, o, f, a)
        BY <3>2
      <4>1. EveryRound(o, needle, f, a, at, now)
        BY <1>5, <1>8, <3>2 DEF EveryState
      <4>2. NoneFrom(now, needle, at)
        BY <1>7, <1>10, <3>2 DEF IsFirst, NoneFrom
      <4>3. a <= Len(o)
        BY <3>2
      <4>4. IsEvery(f, o, needle, r)
        BY <1>9, <3>2
      <4> QED  BY <4>1, <4>2, <4>3, <4>4, EveryEnds
    <3> QED  BY <3>1, <3>2
  <2>7. o = Shown /\ now = Shown'
    BY <1>3, <1>4, <2>3
  <2>8. Told
    BY <1>8, <2>4, <2>5, <2>6, <2>7, TellsEvery
  <2> QED  BY <2>3, <2>8 DEF Follow
<1>11. CASE ~(x < 0)
  <2>1. needle # <<>>
    <3>1. -1 < 0
      OBVIOUS
    <3> QED  BY <1>6, <1>11, <3>1 DEF Found
  <2>2. IsFirst(x, now, needle, at)
    BY <1>7, <2>1
  <2>3. x \in Nat /\ x >= at /\ x + Len(needle) <= Len(now) /\ x + Len(needle) <= arr.size
    BY <1>4, <1>11, <2>2 DEF IsFirst
  <2>4. PICK new : new = Spliced(x, needle, r)
    OBVIOUS
  <2>5. PICK y \in Nat, next \in Nat : y = x + Len(needle) /\ next = x + 1
    <3>1. PICK m \in Nat : m = Len(needle)
      OBVIOUS
    <3>2. x + m \in Nat /\ x + 1 \in Nat
      BY <2>3
    <3> QED  BY <3>1, <3>2
  <2>6. UnitsOf(new) = Edited(now, x, y, r)
    <3>1. Len(needle) > 0
      BY <2>1, EmptySeq
    <3> QED  BY <1>1, <1>4, <2>3, <2>4, <2>5, <3>1, SplicedShows
  <2>7. PICK room : room = SpliceRoom(needle, r)
    OBVIOUS
  <2>8. Proceeds(next, room, new)
    BY <1>2, <1>3, <1>6, <1>11, <2>4, <2>5, <2>7 DEF ReplaceAllRound, ReplaceAllNext
  <2>9. scan.op # "none"
    BY <1>1
  <2>10. \/ Follow
         \/ /\ Told /\ Now' = UnitsOf(new)
            /\ scan'.op = scan.op /\ scan'.at = next /\ scan'.s = scan.s /\ scan'.from = scan.from
            /\ scan'.orig = scan.orig
    BY <2>8, <2>9, ProceedsShows
  <2>11. EveryState(o, needle, r, a, next, Edited(now, x, y, r))
    <3>1. a <= Len(o)
      <4> SUFFICES ASSUME a > Len(o) PROVE FALSE
        OBVIOUS
      <4>1. now = o /\ at = a
        BY <1>5 DEF EveryState
      <4>2. PICK n \in Nat, m \in Nat : n = Len(o) /\ m = Len(needle)
        OBVIOUS
      <4>3. x >= a /\ x + m <= n /\ a > n
        BY <2>3, <4>1, <4>2
      <4> QED  BY <2>3, <4>3
    <3>2. ASSUME r # <<>>, AreApart(needle, r) PROVE EveryRound(o, needle, f, a, next, Edited(now, x, y, r))
      <4>1. EveryRound(o, needle, f, a, at, now)
        BY <1>5, <1>8, <2>1, <3>1, <3>2 DEF EveryState
      <4>2. IsEvery(f, o, needle, r)
        BY <1>9, <2>1
      <4>3. x \in Nat
        BY <2>3
      <4>4. y = x + Len(needle)
        BY <2>5
      <4>5. EveryRound(o, needle, f, a, x + 1, Edited(now, x, y, r))
        BY <2>1, <2>2, <3>1, <3>2, <4>1, <4>2, <4>3, <4>4, EveryGoes
      <4> QED  BY <2>5, <4>5
    <3>3. ~(a > Len(o))
      BY <3>1
    <3> QED  BY <1>8, <2>1, <3>2, <3>3 DEF EveryState
  <2>12. ASSUME Told, Now' = UnitsOf(new), scan'.op = scan.op, scan'.at = next, scan'.s = scan.s,
                scan'.from = scan.from, scan'.orig = scan.orig
         PROVE  Follow
    <3>1. Now' = Edited(now, x, y, r)
      BY <2>6, <2>12
    <3>2. scan'.s[1] = needle /\ scan'.s[2] = r /\ scan'.orig = o /\ scan'.from = a
      BY <1>2, <1>3, <2>12
    <3>3. scan'.op = "replace_all"
      BY <1>1, <2>12
    <3>4. LoopInv'
      BY <1>3, <2>11, <2>12, <3>1, <3>2, <3>3 DEF LoopInv
    <3> QED  BY <2>12, <3>4 DEF Follow
  <2> QED  BY <2>10, <2>12
<1> QED  BY <1>10, <1>11

LEMMA ResolveRoundFollows ==
  ASSUME StringInv, LoopInv, ResolveRound
  PROVE  Follow
<1>1. IsString(arr) /\ scan.op = "resolve" /\ scan.at \in Nat
  BY DEF StringInv, ScanIs, ResolveRound
<1>2. PICK o \in Seq(Held), i \in Nat : o = scan.orig /\ i = scan.at
  BY <1>1 DEF LoopInv
<1>3. PICK now \in Seq(Held), n \in Nat : now = Now /\ Len(now) = n /\ n = arr.size
  BY <1>1, UnitsAre, StringIs
<1>4. PICK f : f = ResolvedFrom(EveryValue, o)
  OBVIOUS
<1>5. IsResolving(f, EveryValue, o)
  BY <1>4, AnEnvironment, ResolvingIs DEF EnvironmentIs
<1>6. ResolveRoundAt(o, f, i, now)
  BY <1>1, <1>2, <1>3, <1>4 DEF LoopInv, ResolveState
<1>7. PICK end : end = CHOOSE j \in (i + 1)..n : NameEnds(i, j)
  OBVIOUS
<1>8. PICK value \in Seq(Held) : value = EnvironmentValue(SubSeq(Now, i + 2, end))
  BY ValueIs
<1>9. PICK room : room = IF Len(value) > end - i THEN n + Len(value) - (end - i) ELSE 0
  OBVIOUS
<1>10. PICK shorter : shorter = Ended([Shifted(arr, i + 1, i, n - i) EXCEPT !.size = @ - 1])
  OBVIOUS
<1> DEFINE escaped == i + 1 < n /\ Now[i + 1] = Backslash /\ Now[i + 2] = Dollar
<1>11. \/ i >= n /\ Finishes("resolve")
       \/ i < n /\ escaped /\ Proceeds(i + 1, 0, shorter)
       \/ i < n /\ ~escaped /\ Now[i + 1] # Dollar /\ Proceeds(i + 1, 0, arr)
       \/ i < n /\ ~escaped /\ Now[i + 1] = Dollar /\ Proceeds(i + Len(value), room, Resolved(i, end, value))
  <2>1. end = CHOOSE j \in (scan.at + 1)..arr.size :
                  /\ \A k \in (scan.at + 2)..j : Now[k] \in NameUnits
                  /\ j = arr.size \/ Now[j + 1] \notin NameUnits
    BY <1>2, <1>3, <1>7 DEF NameEnds
  <2>2. i >= n \/ i < n
    OBVIOUS
  <2> QED  BY <1>2, <1>3, <1>8, <1>9, <1>10, <2>1, <2>2 DEF ResolveRound
<1>12. escaped <=> IsEscape(now, i)
  BY <1>3 DEF IsEscape
<1> HIDE DEF escaped
<1>13. scan.op # "none"
  BY <1>1
<1>14. ASSUME NEW at, NEW room1, NEW new, Proceeds(at, room1, new), ResolveRoundAt(o, f, at, UnitsOf(new))
       PROVE  Follow
  <2>1. \/ Follow
        \/ /\ Told /\ Now' = UnitsOf(new)
           /\ scan'.op = scan.op /\ scan'.at = at /\ scan'.s = scan.s /\ scan'.from = scan.from
           /\ scan'.orig = scan.orig
    BY <1>13, <1>14, ProceedsShows
  <2>2. ASSUME Told, Now' = UnitsOf(new), scan'.op = scan.op, scan'.at = at, scan'.orig = scan.orig
        PROVE  Follow
    <3>1. scan'.op = "resolve" /\ scan'.orig = o
      BY <1>1, <1>2, <2>2
    <3>2. LoopInv'
      BY <1>2, <1>4, <1>14, <2>2, <3>1 DEF LoopInv, ResolveState
    <3> QED  BY <2>2, <3>2 DEF Follow
  <2> QED  BY <2>1, <2>2
<1>15. CASE i >= n /\ Finishes("resolve")
  <2>1. /\ LoopInv' /\ Shown = scan.orig /\ Shown' = Now
        /\ arrayCall' = [op |-> "resolve", at |-> scan.from, n |-> 0, s |-> scan.s]
    BY <1>13, <1>15, FinishesShows
  <2>2. i >= Len(now)
    BY <1>3, <1>15
  <2>3. now = f[0]
    BY <1>5, <1>6, <2>2, ResolveEnds
  <2>4. arrayCall'.op = "resolve"
    BY <2>1
  <2>5. Shown' = ResolvedFrom(EveryValue, o)[0] /\ o = Shown
    BY <1>2, <1>3, <1>4, <2>1, <2>3
  <2>6. Told
    BY <2>4, <2>5, TellsResolve
  <2> QED  BY <2>1, <2>6 DEF Follow
<1>16. PICK e \in Nat : e = i + 1
  OBVIOUS
<1>17. CASE i < n /\ escaped /\ Proceeds(i + 1, 0, shorter)
  <2>1. UnitsOf(shorter) = Edited(now, i, e, <<>>)
    <3>1. n = arr.size /\ i < n
      BY <1>3, <1>17
    <3> QED  BY <1>1, <1>3, <1>10, <1>16, <3>1, EscapedShows
  <2>2. IsEscape(now, i)
    BY <1>12, <1>17
  <2>3. ResolveRoundAt(o, f, e, Edited(now, i, e, <<>>))
    BY <1>5, <1>6, <1>16, <2>2, EscapeGoes
  <2>4. Proceeds(e, 0, shorter)
    BY <1>16, <1>17
  <2> QED  BY <1>14, <2>1, <2>3, <2>4
<1>18. CASE i < n /\ ~escaped /\ Now[i + 1] # Dollar /\ Proceeds(i + 1, 0, arr)
  <2>1. i < Len(now) /\ now[i + 1] # Dollar
    BY <1>3, <1>18
  <2>2. ~IsEscape(now, i)
    BY <1>12, <1>18
  <2>3. ResolveRoundAt(o, f, e, now)
    BY <1>5, <1>6, <1>16, <2>1, <2>2, UnitGoes
  <2>4. Proceeds(e, 0, arr)
    BY <1>16, <1>18
  <2>5. UnitsOf(arr) = now
    BY <1>3, NowIs
  <2> QED  BY <1>14, <2>3, <2>4, <2>5
<1>19. CASE i < n /\ ~escaped /\ Now[i + 1] = Dollar /\ Proceeds(i + Len(value), room, Resolved(i, end, value))
  <2>1. end \in (i + 1)..n /\ NameEnds(i, end)
    BY <1>3, <1>7, <1>19, NamesEnd
  <2>2. PICK at \in Nat : at = i + Len(value)
    <3>1. i + Len(value) \in Nat
      OBVIOUS
    <3> QED  BY <3>1
  <2>3. end \in Nat /\ i < end /\ end <= n
    BY <2>1
  <2>4. PICK new : new = Resolved(i, end, value)
    OBVIOUS
  <2>5. UnitsOf(new) = Edited(now, i, end, value)
    <3>1. end <= arr.size
      BY <1>3, <2>3
    <3> QED  BY <1>1, <1>3, <2>3, <2>4, <3>1, ResolvedShows
  <2>6. i < Len(now) /\ now[i + 1] = Dollar
    BY <1>3, <1>19
  <2>7. ~IsEscape(now, i)
    BY <1>12, <1>19
  <2>8. IsName(now, e, end)
    <3>1. e + 1 = i + 2
      BY <1>16
    <3> QED  BY <1>3, <2>1, <3>1 DEF IsName, NameEnds
  <2>9. value = ValueIn(EveryValue, SubSeq(now, i + 2, end))
    <3>1. PICK name : name = SubSeq(now, e + 1, end)
      OBVIOUS
    <3>2. PICK d \in Nat : d = end - e
      <4>1. e <= end
        BY <1>16, <2>3
      <4> QED  BY <2>3, <4>1, Difference
    <3>3. e <= end /\ end <= Len(now)
      BY <1>3, <1>16, <2>3
    <3>4. name \in Seq(Held)
      BY <2>3, <3>1, <3>2, <3>3, WithinIs
    <3>5. e + 1 = i + 2
      BY <1>16
    <3>6. ValueIn(EveryValue, name) = EnvironmentValue(name)
      BY <3>4, ValueFound
    <3> QED  BY <1>3, <1>8, <3>1, <3>5, <3>6
  <2>10. ResolveRoundAt(o, f, at, Edited(now, i, end, value))
    <3>1. end <= Len(now)
      BY <1>3, <2>3
    <3>2. end \in Nat
      BY <2>3
    <3>3. i < end
      BY <2>3
    <3>4. i < Len(now)
      BY <2>6
    <3>5. now[i + 1] = Dollar
      BY <2>6
    <3> QED  BY <1>5, <1>6, <1>16, <2>2, <2>7, <2>8, <2>9, <3>1, <3>2, <3>3, <3>4, <3>5, AnEnvironment, NameGoes
             DEF EnvironmentIs
  <2>11. Proceeds(at, room, new)
    BY <1>19, <2>2, <2>4
  <2> QED  BY <1>14, <2>5, <2>10, <2>11
<1> QED  BY <1>11, <1>15, <1>17, <1>18, <1>19

(***************************************************************************)
(* Every step.                                                             *)
(***************************************************************************)

\* A call that is no loop, and resolves nothing.
Alone ==
  /\ Idle /\ UNCHANGED scan
  /\ arrayCall'.op # "resolve" \/ UNCHANGED <<Shown, arrayCall>>

LEMMA FaultAlone == Idle /\ Faults /\ UNCHANGED scan => Alone
<1> SUFFICES ASSUME Idle, Faults, UNCHANGED scan PROVE Alone
  OBVIOUS
<1>1. UNCHANGED <<arr, arrayCall>>
  BY DEF Faults
<1>2. Idle' = Idle /\ Now' = Now /\ scan'.orig = scan.orig
  BY <1>1 DEF Idle, Now, ArrayItems
<1> QED  BY <1>1, <1>2 DEF Alone, Shown

LEMMA MadeAlone ==
  ASSUME NEW op, NEW at, NEW n, NEW s, Idle, UNCHANGED scan, ArrayCalled(op, at, n, s), op # "resolve"
  PROVE  Alone
BY DEF Alone, ArrayCalled

LEMMA CallsAlone ==
  ASSUME NEW op, NEW at, NEW n, NEW s, NEW room, NEW new, Calls(op, at, n, s, room, new), op # "resolve"
  PROVE  Alone
<1>1. Idle /\ UNCHANGED scan
  BY DEF Calls
<1>2. CASE Faults
  BY <1>1, <1>2, FaultAlone
<1>3. CASE ArrayCalled(op, at, n, s)
  BY <1>1, <1>3, MadeAlone
<1> QED  BY <1>2, <1>3 DEF Calls

LEMMA SizedAlone ==
  ASSUME NEW n, StringInitSized(n) \/ StringReserve(n)
  PROVE  Alone
<1>1. CASE StringInitSized(n)
  <2>1. PICK new : Calls("sized", 0, n, <<>>, n, new)
    BY <1>1 DEF StringInitSized
  <2> QED  BY <2>1, CallsAlone
<1>2. CASE StringReserve(n)
  <2>1. Idle /\ UNCHANGED scan /\ ArrayCalled("keep", 0, 0, <<>>)
    BY <1>2 DEF StringReserve
  <2> QED  BY <2>1, MadeAlone
<1> QED  BY <1>1, <1>2

LEMMA GivenAlone ==
  ASSUME NEW s, StringInitFrom(s) \/ StringSet(s) \/ StringAppend(s) \/ StringPrepend(s)
  PROVE  Alone
<1>1. CASE StringInitFrom(s) \/ StringSet(s)
  <2>1. PICK new : Calls("set", 0, 0, s, Len(s), new)
    BY <1>1 DEF StringInitFrom, StringSet
  <2> QED  BY <2>1, CallsAlone
<1>2. CASE StringAppend(s)
  <2>1. CASE s = <<>>
    <3>1. Idle /\ UNCHANGED scan /\ ArrayCalled("append", 0, 0, s)
      BY <1>2, <2>1 DEF StringAppend
    <3> QED  BY <3>1, MadeAlone
  <2>2. CASE s # <<>>
    <3>1. PICK new : Calls("append", 0, 0, s, Extra(Len(s)), new)
      BY <1>2, <2>2 DEF StringAppend
    <3> QED  BY <3>1, CallsAlone
  <2> QED  BY <2>1, <2>2
<1>3. CASE StringPrepend(s)
  <2>1. CASE s = <<>>
    <3>1. Idle /\ UNCHANGED scan /\ ArrayCalled("prepend", 0, 0, s)
      BY <1>3, <2>1 DEF StringPrepend
    <3> QED  BY <3>1, MadeAlone
  <2>2. CASE s # <<>>
    <3>1. PICK new : Calls("prepend", 0, 0, s, Extra(Len(s)), new)
      BY <1>3, <2>2 DEF StringPrepend
    <3> QED  BY <3>1, CallsAlone
  <2> QED  BY <2>1, <2>2
<1> QED  BY <1>1, <1>2, <1>3

LEMMA CopyAlone ==
  ASSUME NEW s, NEW n, NEW at, StringCopy(s, n, at)
  PROVE  Alone
<1>1. CASE Least(n, Len(s)) = 0
  <2>1. Idle /\ UNCHANGED scan /\ ArrayCalled("copy", at, n, s)
    BY <1>1 DEF StringCopy
  <2> QED  BY <2>1, MadeAlone
<1>2. CASE Least(n, Len(s)) # 0
  <2>1. PICK new : Calls("copy", at, n, s, at + Least(n, Len(s)), new)
    BY <1>2 DEF StringCopy
  <2> QED  BY <2>1, CallsAlone
<1> QED  BY <1>1, <1>2

LEMMA SubstringAlone ==
  ASSUME NEW s, NEW start, NEW n, NEW at, StringSubstring(s, start, n, at)
  PROVE  Alone
<1>1. CASE ~SliceInside(s, start, n)
  <2>1. Idle /\ Faults /\ UNCHANGED scan
    BY <1>1 DEF StringSubstring
  <2> QED  BY <2>1, FaultAlone
<1>2. CASE SliceInside(s, start, n)
  <2>1. \E m, c, room, new : Calls("copy", at, m, c, room, new)
    BY <1>2 DEF StringSubstring
  <2> QED  BY <2>1, CallsAlone
<1> QED  BY <1>1, <1>2

LEMMA JoinAlone ==
  ASSUME NEW pieces, NEW d, StringJoin(pieces, d)
  PROVE  Alone
<1>1. PICK g : g = <<pieces, d>>
  OBVIOUS
<1>2. CASE pieces = <<>>
  <2>1. Idle /\ UNCHANGED scan /\ ArrayCalled("join", 0, 0, g)
    BY <1>1, <1>2 DEF StringJoin
  <2> QED  BY <2>1, MadeAlone
<1>3. CASE pieces # <<>>
  <2>1. PICK room, new : Calls("join", 0, 0, g, room, new)
    BY <1>1, <1>3 DEF StringJoin
  <2> QED  BY <2>1, CallsAlone
<1> QED  BY <1>2, <1>3

LEMMA ReplaceAlone ==
  ASSUME NEW needle, NEW r, NEW at, StringReplace(needle, r, at)
  PROVE  Alone
<1>1. PICK g : g = <<needle, r>>
  OBVIOUS
<1>2. CASE Found(needle, at) < 0
  <2>1. Idle /\ UNCHANGED scan /\ ArrayCalled("replace", at, 0, g)
    BY <1>1, <1>2 DEF StringReplace
  <2> QED  BY <2>1, MadeAlone
<1>3. CASE ~(Found(needle, at) < 0)
  <2>1. PICK room, new : Calls("replace", at, 0, g, room, new)
    BY <1>1, <1>3 DEF StringReplace
  <2> QED  BY <2>1, CallsAlone
<1> QED  BY <1>2, <1>3

LEMMA RecaseAlone ==
  ASSUME NEW op, op # "resolve", NEW to, StringRecase(op, to)
  PROVE  Alone
<1>1. Idle /\ UNCHANGED scan
  BY Recases
<1>2. CASE Faults
  BY <1>1, <1>2, FaultAlone
<1>3. CASE ArrayCalled(op, 0, 0, <<>>)
  BY <1>1, <1>3, MadeAlone
<1> QED  BY <1>2, <1>3, Recases

LEMMA PlainAlone ==
  ASSUME \/ StringFree \/ StringClear \/ StringTrimLeft \/ StringTrimRight \/ StringTrim
         \/ StringUpper \/ StringLower
  PROVE  Alone
<1>1. CASE StringFree \/ StringClear
  <2>1. Idle /\ UNCHANGED scan /\ ArrayCalled("clear", 0, 0, <<>>)
    BY <1>1 DEF StringFree, StringClear
  <2> QED  BY <2>1, MadeAlone
<1>2. CASE StringTrimLeft
  <2>1. Idle /\ UNCHANGED scan /\ ArrayCalled("trim_left", 0, 0, <<>>)
    BY <1>2 DEF StringTrimLeft
  <2> QED  BY <2>1, MadeAlone
<1>3. CASE StringTrimRight
  BY <1>3, CallsAlone DEF StringTrimRight
<1>4. CASE StringTrim
  BY <1>4, CallsAlone DEF StringTrim
<1>5. CASE StringUpper
  BY <1>5, RecaseAlone DEF StringUpper
<1>6. CASE StringLower
  BY <1>6, RecaseAlone DEF StringLower
<1> QED  BY <1>1, <1>2, <1>3, <1>4, <1>5, <1>6

\* Nothing is recorded as resolved.
Quiet == arrayCall'.op # "resolve" \/ UNCHANGED <<Shown, arrayCall>>

LEMMA ProceedsQuiet ==
  ASSUME StringInv, scan.op # "none", NEW at, NEW room, NEW new, Proceeds(at, room, new)
  PROVE  Quiet
<1>1. CASE Faults /\ UNCHANGED scan
  <2>1. UNCHANGED <<arr, arrayCall, scan>>
    BY <1>1 DEF Faults
  <2>2. Now' = Now
    BY <2>1 DEF Now, ArrayItems
  <2> QED  BY <2>1, <2>2 DEF Quiet, Shown, Idle
<1>2. CASE UNCHANGED arrayCall
           /\ scan' = [scan EXCEPT !.at = at, !.long = @ \/ (scan.op = "resolve" /\ room > 0)]
  <2>1. PICK l : l = (scan.long \/ (scan.op = "resolve" /\ room > 0))
    OBVIOUS
  <2>2. scan' = [op |-> scan.op, at |-> at, s |-> scan.s, from |-> scan.from, orig |-> scan.orig, long |-> l]
    BY <1>2, <2>1 DEF StringInv, ScanIs
  <2>3. scan'.op = scan.op /\ scan'.orig = scan.orig
    BY <2>2
  <2>4. ~Idle /\ ~Idle'
    BY <2>3 DEF Idle
  <2> QED  BY <1>2, <2>3, <2>4 DEF Quiet, Shown
<1> QED  BY <1>1, <1>2 DEF Proceeds

LEMMA BeginsQuiet ==
  ASSUME NEW op \in {"replace_all", "resolve"}, NEW from, NEW s, Begins(op, from, s)
  PROVE  Quiet
<1>1. Idle /\ UNCHANGED <<arr, arrayCall>>
      /\ scan' = [op |-> op, at |-> from, s |-> s, from |-> from, orig |-> Now, long |-> scan.long]
  BY DEF Begins
<1>2. scan'.op = op /\ scan'.orig = Now
  BY <1>1
<1>3. ~Idle'
  BY <1>2 DEF Idle
<1> QED  BY <1>1, <1>2, <1>3 DEF Quiet, Shown

LEMMA ReplaceRoundQuiet ==
  ASSUME StringInv, ReplaceAllRound
  PROVE  Quiet
<1>1. scan.op = "replace_all" /\ scan.op # "none"
  BY DEF ReplaceAllRound
<1>2. CASE Finishes("replace_all")
  <2>1. arrayCall'.op = "replace_all"
    BY <1>2 DEF Finishes, ArrayCalled
  <2> QED  BY <2>1 DEF Quiet
<1>3. CASE \E at, room, new : Proceeds(at, room, new)
  BY <1>1, <1>3, ProceedsQuiet
<1> QED  BY <1>2, <1>3 DEF ReplaceAllRound

\* A step does what Text says and leaves the loops where they should be, and only
\* the end of a loop of resolve_environment_variables is told as one.
Stepped == Follow /\ (scan.op = "resolve" \/ Quiet)

LEMMA AloneSteps == Told /\ Alone => Stepped
<1> SUFFICES ASSUME Told, Alone PROVE Stepped
  OBVIOUS
<1>1. Idle /\ UNCHANGED scan /\ Quiet
  BY DEF Alone, Quiet
<1>2. Follow
  BY <1>1, IdleFollows
<1> QED  BY <1>1, <1>2 DEF Stepped

LEMMA TextStep ==
  ASSUME StringInv, LoopInv, StringNext
  PROVE  Stepped
<1>1. \A n \in Places : n \in Nat
  BY StringAssumption DEF Places
<1>2. \A s \in Texts : s \in Seq(Held)
  BY StringAssumption DEF Held
<1>3. << >> \in Seq(Held)
  OBVIOUS
<1>5. ASSUME NEW n \in Places, StringInitSized(n) \/ StringReserve(n) PROVE Stepped
  BY <1>1, <1>5, SizedTold, SizedAlone, AloneSteps
<1>6. ASSUME NEW s \in Texts, StringInitFrom(s) \/ StringSet(s) \/ StringAppend(s) \/ StringPrepend(s)
      PROVE  Stepped
  BY <1>2, <1>6, GivenTold, GivenAlone, AloneSteps
<1>7. ASSUME NEW s \in Texts, NEW n \in 0..2,
             \/ \E at \in Places : StringCopy(s, n, at)
             \/ StringCopyNew(s, n)
             \/ \E start \in 0..2, at \in Places : n > 0 /\ StringSubstring(s, start, n, at)
      PROVE  Stepped
  <2>1. s \in Seq(Held) /\ n \in Nat
    BY <1>2
  <2>2. ASSUME NEW at \in Places, StringCopy(s, n, at) PROVE Stepped
    BY <1>1, <2>1, <2>2, CopyTold, CopyAlone, AloneSteps
  <2>3. ASSUME StringCopyNew(s, n) PROVE Stepped
    <3>1. PICK z \in Nat : z = 0
      OBVIOUS
    <3>2. StringCopy(s, n, z)
      BY <2>3, <3>1 DEF StringCopyNew
    <3> QED  BY <2>1, <3>2, CopyTold, CopyAlone, AloneSteps
  <2>4. ASSUME NEW start \in 0..2, NEW at \in Places, StringSubstring(s, start, n, at) PROVE Stepped
    <3>1. start \in Nat /\ at \in Nat
      BY <1>1
    <3> QED  BY <2>1, <2>4, <3>1, SubstringTold, SubstringAlone, AloneSteps
  <2> QED  BY <1>7, <2>2, <2>3, <2>4
<1>8. ASSUME NEW s \in Texts, NEW t \in Texts,
             \/ StringJoin(<<s, t>>, <<>>) \/ StringJoin(<<>>, s) \/ StringJoin(<<s, s>>, t)
             \/ \E at \in 0..1 : StringReplace(s, t, at) \/ ReplaceAllBegin(s, t, at)
      PROVE  Stepped
  <2>1. s \in Seq(Held) /\ t \in Seq(Held)
    BY <1>2
  <2>2. PICK none \in Seq(Held) : none = << >>
    BY <1>3
  <2>3. CASE StringJoin(<<s, t>>, none) \/ StringJoin(<<>>, s)
    BY <2>1, <2>2, <2>3, JoinTold, JoinAlone, AloneSteps
  <2>4. CASE StringJoin(<<s, s>>, t)
    BY <2>1, <2>4, JoinTold, JoinAlone, AloneSteps
  <2>5. ASSUME NEW at \in 0..1, StringReplace(s, t, at) \/ ReplaceAllBegin(s, t, at) PROVE Stepped
    <3>1. at \in Nat
      OBVIOUS
    <3>2. CASE StringReplace(s, t, at)
      BY <2>1, <3>1, <3>2, ReplaceTold, ReplaceAlone, AloneSteps
    <3>3. CASE ReplaceAllBegin(s, t, at)
      <4>1. Follow
        BY <2>1, <3>1, <3>3, ReplaceBegins
      <4>2. Quiet
        BY <3>3, BeginsQuiet DEF ReplaceAllBegin
      <4> QED  BY <4>1, <4>2 DEF Stepped
    <3> QED  BY <2>5, <3>2, <3>3
  <2> QED  BY <1>8, <2>2, <2>3, <2>4, <2>5
<1>9. CASE \/ StringFree \/ StringClear \/ StringTrimLeft \/ StringTrimRight \/ StringTrim
           \/ StringUpper \/ StringLower
  <2>1. Told
    BY <1>9, PlainTold, TrimTold
  <2> QED  BY <1>9, <2>1, PlainAlone, AloneSteps
<1>10. CASE ReplaceAllRound
  BY <1>10, ReplaceRoundFollows, ReplaceRoundQuiet DEF Stepped
<1>11. CASE ResolveBegin
  <2>1. Quiet
    BY <1>11, BeginsQuiet DEF ResolveBegin
  <2> QED  BY <1>11, <2>1, ResolveBegins DEF Stepped
<1>12. CASE ResolveRound
  <2>1. scan.op = "resolve"
    BY <1>12 DEF ResolveRound
  <2> QED  BY <1>12, <2>1, ResolveRoundFollows DEF Stepped
<1> QED  BY <1>5, <1>6, <1>7, <1>8, <1>9, <1>10, <1>11, <1>12 DEF StringNext, StringSteps

TextInv == StringInv /\ LoopInv

LEMMA TextBegins == StringInit => TextInv
<1> SUFFICES ASSUME StringInit PROVE TextInv
  OBVIOUS
<1>1. scan = NoScan
  BY DEF StringInit
<1>2. scan.op = "none"
  BY <1>1 DEF NoScan
<1> QED  BY <1>2, StringBegins DEF TextInv, LoopInv

LEMMA TextKept == TextInv /\ [StringNext]_stringVars => TextInv' /\ (Stepped \/ UNCHANGED <<Shown, arrayCall>>)
<1> SUFFICES ASSUME TextInv, [StringNext]_stringVars
             PROVE  TextInv' /\ (Stepped \/ UNCHANGED <<Shown, arrayCall>>)
  OBVIOUS
<1>1. StringInv'
  BY StringStep DEF TextInv
<1>2. CASE UNCHANGED stringVars
  <2>1. UNCHANGED <<arr, arrayCall, scan>>
    BY <1>2 DEF stringVars
  <2>2. LoopInv'
    BY <2>1, FaultLoops DEF TextInv
  <2>3. Now' = Now
    BY <2>1 DEF Now, ArrayItems
  <2> QED  BY <1>1, <2>1, <2>2, <2>3 DEF TextInv, Shown, Idle
<1>3. CASE StringNext
  <2>1. Stepped
    BY <1>3, TextStep DEF TextInv
  <2> QED  BY <1>1, <2>1 DEF TextInv, Stepped, Follow
<1> QED  BY <1>2, <1>3

\* Every call of string.cpp, however its memory moves and however many rounds its
\* loop takes, changes the text as string.hpp says, for every environment: a variable
\* is what get_environment_variable finds under a name, and upper case what UpperOf makes
\* of the units of Recasable code points.  A call that gets no memory, takes a slice from
\* behind the end or recases others ends the behaviour.
THEOREM StringsTellText == StringSpec => CodeText!Spec
<1>1. StringInit => CodeText!Init
  <2> SUFFICES ASSUME StringInit PROVE CodeText!Init
    OBVIOUS
  <2>1. arr = NoArray /\ scan = NoScan /\ arrayCall = [op |-> "init", at |-> 0, n |-> 0, s |-> <<>>]
    BY DEF StringInit, ArrayInit, NoCall
  <2>2. Idle
    BY <2>1 DEF NoScan, Idle
  <2>3. arr.size = 0
    BY <2>1 DEF NoArray
  <2>4. Now = <<>>
    BY <2>3, NowIs, NoUnits
  <2> QED  BY <2>1, <2>2, <2>4 DEF CodeText!Init, Shown
<1>2. TextInv /\ [StringNext]_stringVars => [CodeText!Next]_(CodeText!vars)
  BY TextKept DEF Stepped, Follow, Told, CodeText!vars
<1>3. TextInv /\ [StringNext]_stringVars => TextInv'
  BY TextKept
<1> QED  BY <1>1, <1>2, <1>3, TextBegins, PTL DEF StringSpec, CodeText!Spec

(***************************************************************************)
(* The environment by name.                                                *)
(***************************************************************************)

\* What becomes of the i-th unit of s and of those behind it, when f is what becomes
\* of the text from each later place on.
Becomes(env, s, f, i) ==
  IF i = Len(s) THEN <<>>
  ELSE IF IsEscape(s, i) THEN <<Dollar>> \o f[i + 2]
  ELSE IF s[i + 1] = Dollar
       THEN ValueIn(env, SubSeq(s, i + 2, NameEndOf(s, i + 1))) \o f[NameEndOf(s, i + 1)]
  ELSE <<s[i + 1]>> \o f[i + 1]

AreExact(s) ==
  \A i \in 0..(Len(s) - 1) :
    s[i + 1] = Dollar /\ ~IsEscape(s, i) =>
      ValueIn(EveryValue, SubSeq(s, i + 2, NameEndOf(s, i + 1)))
        = ValueIn(EnvironmentFunction, SubSeq(s, i + 2, NameEndOf(s, i + 1)))

LEMMA ExactResolves ==
  ASSUME NEW s \in Seq(Held), AreExact(s)
  PROVE  ResolvedFrom(EveryValue, s) = ResolvedFrom(EnvironmentFunction, s)
<1>1. PICK a : a = EveryValue
  OBVIOUS
<1>2. PICK b : b = EnvironmentFunction
  OBVIOUS
<1>3. ASSUME NEW f, NEW i \in 0..Len(s) PROVE Becomes(a, s, f, i) = Becomes(b, s, f, i)
  <2>1. CASE i = Len(s) \/ IsEscape(s, i) \/ s[i + 1] # Dollar
    BY <2>1 DEF Becomes
  <2>2. CASE ~(i = Len(s) \/ IsEscape(s, i) \/ s[i + 1] # Dollar)
    <3>1. i \in 0..(Len(s) - 1)
      BY <2>2
    <3>2. ValueIn(a, SubSeq(s, i + 2, NameEndOf(s, i + 1))) = ValueIn(b, SubSeq(s, i + 2, NameEndOf(s, i + 1)))
      BY <1>1, <1>2, <2>2, <3>1 DEF AreExact
    <3> QED  BY <2>2, <3>2 DEF Becomes
  <2> QED  BY <2>1, <2>2
<1>4. ASSUME NEW f PROVE [i \in 0..Len(s) |-> Becomes(a, s, f, i)] = [i \in 0..Len(s) |-> Becomes(b, s, f, i)]
  BY <1>3
<1>5. \A f : (f = [i \in 0..Len(s) |-> Becomes(a, s, f, i)]) <=> (f = [i \in 0..Len(s) |-> Becomes(b, s, f, i)])
  BY <1>4
<1>6. (CHOOSE f : f = [i \in 0..Len(s) |-> Becomes(a, s, f, i)])
        = (CHOOSE f : f = [i \in 0..Len(s) |-> Becomes(b, s, f, i)])
  BY <1>5, Zenon
<1>7. ResolvedFrom(a, s) = ResolvedFrom(b, s)
  BY <1>6, Zenon DEF ResolvedFrom, Becomes
<1> QED  BY <1>1, <1>2, <1>7

\* The same text is told of either environment.
LEMMA NamedResolve ==
  ASSUME NEW o \in Seq(Held), o = Shown, AreExact(o), CodeText!Resolve
  PROVE  TextOf!Resolve
<1>1. Shown' = ResolvedFrom(EveryValue, o)[0] /\ arrayCall'.op = "resolve"
  BY DEF CodeText!Resolve, ResolvedFrom, ValueIn, NameEndOf, IsEscape, CodeText!Called
<1>2. Shown' = ResolvedFrom(EnvironmentFunction, o)[0]
  BY <1>1, ExactResolves
<1>3. (IF Idle THEN Now ELSE scan.orig)' = ResolvedFrom(EnvironmentFunction, IF Idle THEN Now ELSE scan.orig)[0]
  BY <1>2 DEF Shown
<1>4. TextOf!Resolve
  BY <1>1, <1>3, Zenon DEF TextOf!Resolve, ResolvedFrom, ValueIn, NameEndOf, IsEscape, TextOf!Called
<1> QED  BY <1>4

LEMMA NamedOthers ==
  ASSUME CodeText!Next, ~CodeText!Resolve
  PROVE  TextOf!Next
<1>1. CASE CodeText!Sized \/ CodeText!SetTo \/ CodeText!Extend \/ CodeText!Prepend \/ CodeText!Clear \/ CodeText!Keep
  <2>1. TextOf!Sized \/ TextOf!SetTo \/ TextOf!Extend \/ TextOf!Prepend \/ TextOf!Clear \/ TextOf!Keep
    BY <1>1, Zenon DEF Shown, CodeText!Called, TextOf!Called, CodeText!Sized, TextOf!Sized, CodeText!SetTo, TextOf!SetTo,
       CodeText!Extend, TextOf!Extend, CodeText!Prepend, TextOf!Prepend, CodeText!Clear, TextOf!Clear,
       CodeText!Keep, TextOf!Keep
  <2> QED  BY <2>1 DEF TextOf!Next
<1>2. CASE CodeText!CopyInto
  <2>1. TextOf!CopyInto
    BY <1>2, Zenon DEF Shown, CodeText!Called, TextOf!Called, CodeText!Start, TextOf!Start, CodeText!Rest, TextOf!Rest,
       CodeText!CopyInto, TextOf!CopyInto
  <2> QED  BY <2>1 DEF TextOf!Next
<1>3. CASE CodeText!Trim
  <2>1. TextOf!Trim
    BY <1>3, Zenon DEF Shown, CodeText!Trimmable, TextOf!Trimmable, CodeText!Trim, TextOf!Trim
  <2> QED  BY <2>1 DEF TextOf!Next
<1>4. CASE CodeText!ToUpper
  <2>1. TextOf!ToUpper
    BY <1>4, Zenon DEF Shown, CodeText!Called, TextOf!Called, CodeText!ToUpper, TextOf!ToUpper
  <2> QED  BY <2>1 DEF TextOf!Next
<1>8. CASE CodeText!ToLower
  <2>1. TextOf!ToLower
    BY <1>8, Zenon DEF Shown, CodeText!Called, TextOf!Called, CodeText!ToLower, TextOf!ToLower
  <2> QED  BY <2>1 DEF TextOf!Next
<1>5. CASE CodeText!Join
  <2>1. TextOf!Join
    BY <1>5, Zenon DEF Shown, CodeText!Called, TextOf!Called, CodeText!FoldLeft, TextOf!FoldLeft, CodeText!MapThenFoldSet,
       TextOf!MapThenFoldSet, CodeText!Max, TextOf!Max, CodeText!Join, TextOf!Join
  <2> QED  BY <2>1 DEF TextOf!Next
<1>6. CASE CodeText!Replace
  <2>1. TextOf!Replace
    BY <1>6, Zenon DEF Shown, CodeText!Called, TextOf!Called, CodeText!Start, TextOf!Start, CodeText!Rest, TextOf!Rest,
       CodeText!Occurs, TextOf!Occurs, CodeText!Replace, TextOf!Replace
  <2> QED  BY <2>1 DEF TextOf!Next
<1>7. CASE CodeText!ReplaceEvery
  <2>1. TextOf!ReplaceEvery
    BY <1>7, Zenon DEF Shown, CodeText!Called, TextOf!Called, CodeText!Start, TextOf!Start, CodeText!ToSet, TextOf!ToSet,
       CodeText!Occurs, TextOf!Occurs, CodeText!ReplaceEvery, TextOf!ReplaceEvery
  <2> QED  BY <2>1 DEF TextOf!Next
<1> QED  BY <1>1, <1>2, <1>3, <1>4, <1>5, <1>6, <1>7, <1>8 DEF CodeText!Next

\* What a name refers to is what the variable of that name holds: no variable is
\* found for it that differs in the one unit that is not compared.
IsExact(name) == EnvironmentValue(name) = ValueIn(EnvironmentFunction, name)

\* Every name to which a text that is being resolved refers is one of those.
ReferencesAreExact ==
  scan.op = "resolve" =>
    \A i \in 0..(Len(scan.orig) - 1) :
      scan.orig[i + 1] = Dollar /\ ~IsEscape(scan.orig, i) =>
        IsExact(SubSeq(scan.orig, i + 2, NameEndOf(scan.orig, i + 1)))

LEMMA ReferenceIs ==
  ASSUME NEW s \in Seq(Held), NEW i \in 0..(Len(s) - 1)
  PROVE  SubSeq(s, i + 2, NameEndOf(s, i + 1)) \in Seq(Held)
<1>1. PICK e \in Nat : e = i + 1 /\ e + 1 = i + 2 /\ e <= Len(s)
  <2>1. i + 1 \in Nat /\ (i + 1) + 1 = i + 2 /\ i + 1 <= Len(s)
    OBVIOUS
  <2> QED  BY <2>1
<1>2. IsNameEnd(s, e, NameEndOf(s, e))
  BY <1>1, NameEndIs
<1>3. PICK end \in Nat : end = NameEndOf(s, e) /\ e <= end /\ end <= Len(s)
  BY <1>2 DEF IsNameEnd
<1>4. PICK d \in Nat : d = end - e
  BY <1>3, Difference
<1>5. SubSeq(s, e + 1, end) \in Seq(Held)
  BY <1>3, <1>4, WithinIs
<1> QED  BY <1>1, <1>3, <1>5

LEMMA ExactIs ==
  ASSUME ReferencesAreExact, scan.op = "resolve", NEW s \in Seq(Held), s = scan.orig
  PROVE  AreExact(s)
<1>1. ASSUME NEW i \in 0..(Len(s) - 1), s[i + 1] = Dollar, ~IsEscape(s, i)
      PROVE  ValueIn(EveryValue, SubSeq(s, i + 2, NameEndOf(s, i + 1)))
               = ValueIn(EnvironmentFunction, SubSeq(s, i + 2, NameEndOf(s, i + 1)))
  <2>1. PICK name \in Seq(Held) : name = SubSeq(s, i + 2, NameEndOf(s, i + 1))
    BY ReferenceIs
  <2>2. IsExact(name)
    BY <1>1, <2>1 DEF ReferencesAreExact
  <2>3. ValueIn(EveryValue, name) = EnvironmentValue(name)
    BY ValueFound
  <2> QED  BY <2>1, <2>2, <2>3 DEF IsExact
<1> QED  BY <1>1 DEF AreExact

LEMMA NamedStep ==
  ASSUME TextInv, [StringNext]_stringVars, ReferencesAreExact
  PROVE  [TextOf!Next]_(TextOf!vars)
<1>1. CASE UNCHANGED <<Shown, arrayCall>>
  <2>1. UNCHANGED TextOf!vars
    BY <1>1 DEF Shown, TextOf!vars
  <2> QED  BY <2>1
<1>2. CASE ~UNCHANGED <<Shown, arrayCall>>
  <2>1. CodeText!Next /\ (scan.op = "resolve" \/ arrayCall'.op # "resolve")
    BY <1>2, TextKept DEF Stepped, Quiet, Follow, Told
  <2>2. CASE CodeText!Resolve
    <3>1. scan.op = "resolve"
      BY <2>1, <2>2 DEF CodeText!Resolve, CodeText!Called
    <3>2. PICK o \in Seq(Held) : o = scan.orig
      BY <3>1 DEF TextInv, LoopInv
    <3>3. o = Shown
      BY <3>1, <3>2 DEF Shown, Idle
    <3>4. TextOf!Resolve
      BY <2>2, <3>1, <3>2, <3>3, ExactIs, NamedResolve
    <3> QED  BY <3>4 DEF TextOf!Next
  <2>3. CASE ~CodeText!Resolve
    BY <2>1, <2>3, NamedOthers
  <2> QED  BY <2>2, <2>3
<1> QED  BY <1>1, <1>2

\* Every call of string.cpp changes the text as string.hpp says when a variable is what
\* has the name, all of it, as long as no text that is resolved refers to a name that a
\* variable shares all but the last unit of: get_environment_variable would find it.  The
\* calls that end the behaviour, and upper case, are as in StringsTellText.
THEOREM StringsAreTextByName == StringSpec /\ []ReferencesAreExact => StringIsText
<1>1. StringInit => TextOf!Init
  <2> SUFFICES ASSUME StringInit PROVE TextOf!Init
    OBVIOUS
  <2>1. arr = NoArray /\ scan = NoScan /\ arrayCall = [op |-> "init", at |-> 0, n |-> 0, s |-> <<>>]
    BY DEF StringInit, ArrayInit, NoCall
  <2>2. Idle
    BY <2>1 DEF NoScan, Idle
  <2>3. arr.size = 0
    BY <2>1 DEF NoArray
  <2>4. Now = <<>>
    BY <2>3, NowIs, NoUnits
  <2> QED  BY <2>1, <2>2, <2>4 DEF TextOf!Init
<1>2. TextInv /\ [StringNext]_stringVars /\ ReferencesAreExact => [TextOf!Next]_(TextOf!vars)
  BY NamedStep
<1>3. TextInv /\ [StringNext]_stringVars => TextInv'
  BY TextKept
<1> QED  BY <1>1, <1>2, <1>3, TextBegins, PTL DEF StringSpec, StringIsText, TextOf!Spec
=============================================================================
