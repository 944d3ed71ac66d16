---------------------------- MODULE NumberProofs ----------------------------
(***************************************************************************)
(* Facts about numbers that the proofs of the other modules share: least   *)
(* elements, remainders, and the powers of two that ceil_exp2 rounds to.   *)
(***************************************************************************)
EXTENDS Bits, FiniteSetTheorems, WellFoundedInduction, TLAPS

\* Some numbers have a lowest one.
LEMMA LeastExists ==
  ASSUME NEW S \in SUBSET Nat, S # {}
  PROVE  \E s \in S : \A t \in S : s <= t
<1> DEFINE Below == {0..s : s \in S}
<1>1. Below \subseteq FiniteSubsetsOf(Nat) /\ Below # {}
  <2>1. ASSUME NEW s \in S PROVE IsFiniteSet(0..s) /\ 0..s \in SUBSET Nat
    BY FS_Interval
  <2> QED  BY <2>1 DEF FiniteSubsetsOf
<1>2. PICK B \in Below : \A C \in Below : ~(<<C, B>> \in StrictSubsetOrdering(Nat))
  BY <1>1, FS_StrictSubsetOrderingWellFounded, WFMin
<1>3. PICK s \in S : B = 0..s
  BY <1>2
<1>4. ASSUME NEW t \in S, ~(s <= t) PROVE FALSE
  <2>1. t \in 0..s /\ s \in 0..s /\ s \notin 0..t /\ 0..t \subseteq 0..s
    BY <1>4
  <2>2. 0..t \in Below /\ 0..t # B /\ 0..t \subseteq B /\ B \subseteq Nat
    BY <1>3, <2>1
  <2> QED  BY <1>2, <2>2 DEF StrictSubsetOrdering
<1> QED  BY <1>4

\* What is left of a number is told by any way to divide it.
LEMMA RemainderIs ==
  ASSUME NEW n \in Nat \ {0}, NEW q \in Int, NEW r \in 0..(n - 1), NEW a \in Int, a = n * q + r
  PROVE  a % n = r
<1>1. a = n * (a \div n) + (a % n) /\ a % n \in 0..(n - 1) /\ a \div n \in Int
  OBVIOUS
<1> DEFINE p == a \div n
<1>2. p \in Int
  BY <1>1
<1> HIDE DEF p
<1>3. n * (p - q) = r - (a % n)
  BY <1>1, <1>2 DEF p
<1>4. CASE p = q
  BY <1>1, <1>2, <1>3, <1>4
<1>5. CASE p >= q + 1
  <2>1. n * (p - q) >= n * 1
    BY <1>2, <1>5
  <2> QED  BY <2>1, <1>1, <1>3
<1>6. CASE p + 1 <= q
  <2>1. n * (p - q) <= n * (-1)
    BY <1>2, <1>6
  <2> QED  BY <2>1, <1>1, <1>3
<1> QED  BY <1>2, <1>4, <1>5, <1>6

\* Numbers with the same remainder differ by a multiple.
LEMMA SameRemainder ==
  ASSUME NEW n \in Nat \ {0}, NEW a \in Int, NEW b \in Int, a % n = b % n
  PROVE  \E q \in Int : a - b = n * q
<1>1. a = n * (a \div n) + (a % n) /\ b = n * (b \div n) + (b % n)
  OBVIOUS
<1>2. PICK p \in Int, q \in Int : p = a \div n /\ q = b \div n
  OBVIOUS
<1>3. a - b = n * p - n * q
  BY <1>1, <1>2
<1>4. PICK r \in Int : r = p - q
  OBVIOUS
<1>5. a - b = n * r
  BY <1>3, <1>4
<1> QED  BY <1>5

\* Numbers with the same remainder have it when as much is added to both.
LEMMA ShiftedRemainder ==
  ASSUME NEW n \in Nat \ {0}, NEW a \in Int, NEW b \in Int, a % n = b % n, NEW c \in Int
  PROVE  (a + c) % n = (b + c) % n
<1>1. PICK q \in Int : a - b = n * q
  BY SameRemainder
<1>2. PICK p \in Int, r \in 0..(n - 1) : b + c = n * p + r
  <2>1. b + c = n * ((b + c) \div n) + ((b + c) % n) /\ (b + c) % n \in 0..(n - 1)
        /\ (b + c) \div n \in Int
    OBVIOUS
  <2> QED  BY <2>1
<1>3. PICK s \in Int : s = p + q
  OBVIOUS
<1>4. PICK d \in Int : d = a + c
  OBVIOUS
<1>5. (b + c) % n = r
  BY <1>2, RemainderIs
<1>6. n * s = n * p + n * q
  BY <1>3
<1>7. d = n * s + r
  BY <1>1, <1>2, <1>4, <1>6
<1>8. d % n = r
  BY <1>7, RemainderIs
<1> QED  BY <1>4, <1>5, <1>8

\* Numbers that are closer than n and have the same remainder are the same.
LEMMA CloseRemainders ==
  ASSUME NEW n \in Nat \ {0}, NEW a \in Int, NEW b \in Int, a % n = b % n, a - b < n, b - a < n
  PROVE  a = b
<1>1. PICK q \in Int : a - b = n * q
  BY SameRemainder
<1>2. q >= 1 => n * q >= n
  OBVIOUS
<1>3. q <= -1 => n * q <= -n
  OBVIOUS
<1>4. q = 0 => n * q = 0
  OBVIOUS
<1> QED  BY <1>1, <1>2, <1>3, <1>4

\* What is added to numbers with the same remainder does not make up for less than n.
LEMMA RemaindersApart ==
  ASSUME NEW n \in Nat \ {0}, NEW a \in Int, NEW b \in Int, a % n = b % n,
         NEW i \in Int, NEW c \in Int, b + i - c < n, c - (b + i) < n, b + i # c
  PROVE  (a + i) % n # c % n
<1>1. PICK d \in Int : d = b + i
  OBVIOUS
<1>2. (a + i) % n = (b + i) % n
  BY ShiftedRemainder
<1>3. d % n = c % n => d = c
  <2>1. d - c < n /\ c - d < n
    BY <1>1
  <2> QED  BY <2>1, CloseRemainders
<1> QED  BY <1>1, <1>2, <1>3

\* A number, and one that is n less, have the remainder of the number.
LEMMA ReducedRemainder ==
  ASSUME NEW n \in Nat \ {0}, NEW a \in Int
  PROVE  a % n \in 0..(n - 1) /\ (a % n) % n = a % n /\ (a - n) % n = a % n
<1>1. PICK q \in Int, r \in 0..(n - 1) : a = n * q + r
  <2>1. a = n * (a \div n) + (a % n) /\ a % n \in 0..(n - 1) /\ a \div n \in Int
    OBVIOUS
  <2> QED  BY <2>1
<1>2. a % n = r
  BY <1>1, RemainderIs
<1>3. r = n * 0 + r
  OBVIOUS
<1>4. r % n = r
  BY <1>3, RemainderIs
<1>5. (a - n) % n = r
  <2>1. PICK p \in Int, d \in Int : p = q - 1 /\ d = a - n
    OBVIOUS
  <2>2. n * p = n * q - n
    BY <2>1
  <2>3. d = n * p + r
    BY <1>1, <2>1, <2>2
  <2>4. d % n = r
    BY <2>3, RemainderIs
  <2> QED  BY <2>1, <2>4
<1> QED  BY <1>2, <1>4, <1>5

LEMMA DividesIs ==
  ASSUME NEW n \in Nat \ {0}, NEW a \in Int
  PROVE  a % n = 0 <=> \E q \in Int : a = n * q
<1>1. ASSUME NEW q \in Int, a = n * q PROVE a % n = 0
  <2>1. a = n * q + 0 /\ 0 \in 0..(n - 1)
    BY <1>1
  <2> QED  BY <2>1, RemainderIs
<1>2. ASSUME a % n = 0 PROVE a = n * (a \div n) /\ a \div n \in Int
  BY <1>2
<1> QED  BY <1>1, <1>2

LEMMA EvenOrOdd ==
  ASSUME NEW a \in Int
  PROVE  \/ a % 2 = 0 /\ \E q \in Int : a = 2 * q
         \/ a % 2 = 1 /\ \E q \in Int : a = 2 * q + 1
OBVIOUS

(***************************************************************************)
(* Powers of two                                                           *)
(***************************************************************************)

LEMMA PowersDouble ==
  ASSUME NEW p \in Nat, PowerOfTwo(p)
  PROVE  PowerOfTwo(2 * p)
<1>1. ASSUME NEW d \in 2..(2 * p), (2 * p) % d = 0, d % 2 # 0 PROVE FALSE
  <2>1. PICK q \in Int : 2 * p = d * q
    BY <1>1, DividesIs
  <2>2. PICK e \in Int : d = 2 * e + 1
    BY <1>1, EvenOrOdd
  <2> DEFINE s == p - e * q
  <2>3. s \in Int /\ e * q \in Int
    OBVIOUS
  <2>4. q = 2 * s
    <3>1. d * q = 2 * (e * q) + q
      BY <2>2
    <3> QED  BY <2>1, <2>3, <3>1
  <2>5. p = d * s
    <3>1. d * q = 2 * (d * s)
      BY <2>3, <2>4
    <3>2. d * s \in Int
      BY <2>3
    <3> QED  BY <2>1, <3>1, <3>2
  <2> HIDE DEF s
  <2>6. p % d = 0
    BY <2>3, <2>5, DividesIs
  <2>7. s > 0
    <3>1. p > 0
      BY DEF PowerOfTwo
    <3>2. s <= 0 => d * s <= 0
      BY <2>3
    <3> QED  BY <2>3, <2>5, <3>1, <3>2
  <2>8. d <= p
    <3>1. d * s >= d * 1
      BY <2>3, <2>7
    <3> QED  BY <2>5, <3>1
  <2> QED  BY <1>1, <2>6, <2>8 DEF PowerOfTwo
<1>2. p > 0
  BY DEF PowerOfTwo
<1> QED  BY <1>1, <1>2 DEF PowerOfTwo

\* A power of two is one, or twice a power of two.
LEMMA PowersHalve ==
  ASSUME NEW p \in Nat, PowerOfTwo(p), p # 1
  PROVE  \E h \in Nat : p = 2 * h /\ PowerOfTwo(h)
<1>1. p \in 2..p
  BY DEF PowerOfTwo
<1>2. p % p = 0
  <2>1. p = p * 1
    OBVIOUS
  <2> QED  BY <1>1, <2>1, DividesIs
<1>3. PICK h \in Int : p = 2 * h
  BY <1>1, <1>2, EvenOrOdd DEF PowerOfTwo
<1>4. ASSUME NEW d \in 2..h, h % d = 0 PROVE d % 2 = 0
  <2>1. PICK q \in Int : h = d * q
    BY <1>3, <1>4, DividesIs
  <2>2. p = d * (2 * q) /\ 2 * q \in Int
    BY <1>3, <2>1
  <2>3. d \in Nat \ {0} /\ d <= h /\ h <= p /\ p \in Int
    BY <1>3
  <2>4. p % d = 0
    BY <2>2, <2>3, DividesIs
  <2> QED  BY <2>3, <2>4 DEF PowerOfTwo
<1> QED  BY <1>1, <1>3, <1>4 DEF PowerOfTwo

\* ceil_exp2 rounds up, and by less than the double.
LEMMA CeilIs ==
  ASSUME NEW n \in Nat \ {0}
  PROVE  CeilExp2(n) \in n..(2 * n - 1) /\ PowerOfTwo(CeilExp2(n))
<1> DEFINE Without == {m \in Nat \ {0} : ~\E p \in m..(2 * m - 1) : PowerOfTwo(p)}
<1>1. Without = {}
  <2> SUFFICES ASSUME Without # {} PROVE FALSE
    OBVIOUS
  <2>1. PICK m \in Without : \A k \in Without : m <= k
    BY LeastExists
  <2>2. m # 1
    <3>1. PowerOfTwo(1) /\ 1 \in 1..(2 * 1 - 1)
      BY DEF PowerOfTwo
    <3> QED  BY <2>1, <3>1
  <2>3. m \in Nat /\ m > 1 /\ m - 1 \in Nat \ {0} /\ m - 1 \notin Without
    BY <2>1, <2>2
  <2>4. PICK p \in (m - 1)..(2 * (m - 1) - 1) : PowerOfTwo(p)
    BY <2>3
  <2>5. CASE p >= m
    BY <2>1, <2>3, <2>4, <2>5
  <2>6. CASE p = m - 1
    <3>1. PowerOfTwo(2 * p) /\ 2 * p \in m..(2 * m - 1)
      BY <2>3, <2>4, <2>6, PowersDouble
    <3> QED  BY <2>1, <3>1
  <2> QED  BY <2>3, <2>4, <2>5, <2>6
<1> QED  BY <1>1 DEF CeilExp2

\* A power of two that divides a product divides what is left of it without an odd factor.
LEMMA OddFactorOut ==
  ASSUME NEW n \in Nat, PowerOfTwo(n), NEW a \in Nat, a % 2 = 1, NEW b \in Nat, (a * b) % n = 0
  PROVE  b % n = 0
<1> DEFINE Wrong == {m \in Nat : PowerOfTwo(m) /\ \E c \in Nat : (a * c) % m = 0 /\ c % m # 0}
<1>1. Wrong = {}
  <2> SUFFICES ASSUME Wrong # {} PROVE FALSE
    OBVIOUS
  <2>1. PICK m \in Wrong : \A k \in Wrong : m <= k
    BY LeastExists
  <2>2. PICK c \in Nat : (a * c) % m = 0 /\ c % m # 0
    BY <2>1
  <2>3. m # 1
    BY <2>2
  <2>4. PICK h \in Nat : m = 2 * h /\ PowerOfTwo(h)
    BY <2>1, <2>3, PowersHalve
  <2>5. h \in Nat \ {0} /\ h < m /\ m \in Nat \ {0}
    BY <2>4 DEF PowerOfTwo
  <2>6. PICK q \in Int : a * c = m * q
    <3>1. a * c \in Int
      OBVIOUS
    <3> QED  BY <2>2, <2>5, <3>1, DividesIs
  <2>7. PICK e \in Int : a = 2 * e + 1
    BY EvenOrOdd
  <2>8. PICK g \in Int : c = 2 * g
    <3>1. a * c = 2 * (e * c) + c /\ e * c \in Int
      BY <2>7
    <3>2. m * q = 2 * (h * q) /\ h * q \in Int
      BY <2>4
    <3>3. c = 2 * (h * q - e * c) /\ h * q - e * c \in Int
      BY <2>6, <3>1, <3>2
    <3> QED  BY <3>3
  <2>9. a * g = h * q
    <3>1. a * c = 2 * (a * g) /\ a * g \in Int
      BY <2>8
    <3>2. m * q = 2 * (h * q) /\ h * q \in Int
      BY <2>4
    <3> QED  BY <2>6, <3>1, <3>2
  <2>10. g \in Nat /\ (a * g) % h = 0
    <3>1. g \in Nat
      BY <2>8
    <3>2. a * g \in Int
      BY <3>1
    <3> QED  BY <2>5, <2>9, <3>1, <3>2, DividesIs
  <2>11. g % h = 0
    <3> SUFFICES ASSUME g % h # 0 PROVE FALSE
      OBVIOUS
    <3>1. \E x \in Nat : (a * x) % h = 0 /\ x % h # 0
      BY <2>10
    <3>2. h \in Wrong
      BY <2>4, <3>1
    <3> HIDE DEF Wrong
    <3> QED  BY <2>1, <2>5, <3>2
  <2>12. PICK r \in Int : g = h * r
    BY <2>5, <2>10, <2>11, DividesIs
  <2>13. c = m * r
    <3>1. 2 * (h * r) = (2 * h) * r
      BY <2>12
    <3> QED  BY <2>4, <2>8, <2>12, <3>1
  <2> QED  BY <2>2, <2>5, <2>13, DividesIs
<1> QED  BY <1>1
=============================================================================
