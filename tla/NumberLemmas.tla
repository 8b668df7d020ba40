---------------------------- MODULE NumberLemmas ----------------------------
(***************************************************************************)
(* Facts about numbers that the proofs share: remainders by a modulus that *)
(* is not known (the width of a counter, the size of a ring, the entries   *)
(* of a sector), the least element of a set of numbers, where a loop       *)
(* stops, and induction over its rounds.                                   *)
(***************************************************************************)
EXTENDS Integers, FiniteSetTheorems, TLAPS

-----------------------------------------------------------------------------
(* Remainders *)

\* Quotient and remainder are unique.
LEMMA ModUnique ==
  ASSUME NEW m \in Nat \ {0}, NEW q \in Int, NEW s \in 0 .. m - 1
  PROVE  (m * q + s) % m = s
<1> DEFINE b == m * q + s
           p == b \div m
           r == b % m
<1>1. b \in Int
  OBVIOUS
<1>2. b = m * p + r /\ r \in 0 .. m - 1 /\ p \in Int
  BY <1>1
<1>3. m * (q - p) = r - s /\ q - p \in Int
  BY <1>2
<1>4. ASSUME q - p >= 1 PROVE FALSE
  <2>1. m * (q - p) >= m
    BY <1>3, <1>4
  <2> QED BY <1>2, <1>3, <2>1
<1>5. ASSUME q - p <= -1 PROVE FALSE
  <2>1. m * (q - p) <= -m
    BY <1>3, <1>5
  <2> QED BY <1>2, <1>3, <2>1
<1>6. q - p = 0
  BY <1>3, <1>4, <1>5
<1> QED BY <1>2, <1>3, <1>6

\* A remainder may be taken before something is added.
LEMMA ModOfSum ==
  ASSUME NEW a \in Int, NEW k \in Int, NEW m \in Nat \ {0}
  PROVE  ((a % m) + k) % m = (a + k) % m
<1> DEFINE q == a \div m
           r == a % m
           p == (r + k) \div m
           s == (r + k) % m
<1>1. a = m * q + r /\ r \in 0 .. m - 1 /\ q \in Int
  OBVIOUS
<1>2. r + k \in Int
  BY <1>1
<1>3. r + k = m * p + s /\ s \in 0 .. m - 1 /\ p \in Int
  BY <1>2
<1>4. a + k = m * (q + p) + s /\ q + p \in Int
  <2> HIDE DEF q, r, p, s
  <2> QED BY <1>1, <1>3
<1> HIDE DEF q, r, p
<1>5. (a + k) % m = s
  BY <1>3, <1>4, ModUnique
<1> QED BY <1>5 DEF r

\* Two clocks that advance together keep their distance.
LEMMA ModDistance ==
  ASSUME NEW a \in Int, NEW k \in Int, NEW m \in Nat \ {0}
  PROVE  (((a - k) % m) + 1) % m = (((a + 1) % m) - k) % m
<1>1. \A x \in Int, y \in Int : ((x % m) + y) % m = (x + y) % m
  BY ModOfSum
<1>2. a - k \in Int /\ a + 1 \in Int /\ 1 \in Int /\ 0 - k \in Int
  OBVIOUS
<1>3. (((a - k) % m) + 1) % m = ((a - k) + 1) % m
  BY <1>1, <1>2, Zenon
<1>4. (((a + 1) % m) + (0 - k)) % m = ((a + 1) + (0 - k)) % m
  BY <1>1, <1>2, Zenon
<1>5. (a - k) + 1 = (a + 1) + (0 - k)
  OBVIOUS
<1>6. ((a + 1) % m) + (0 - k) = ((a + 1) % m) - k
  <2>1. (a + 1) % m \in Int
    OBVIOUS
  <2> QED BY <2>1
<1> QED BY <1>3, <1>4, <1>5, <1>6, Zenon

\* A ring of m cells keeps fewer than m consecutive positions apart.
LEMMA ModDistinct ==
  ASSUME NEW m \in Nat \ {0}, NEW a \in Int, NEW b \in Int, a < b, b - a < m
  PROVE  a % m # b % m
<1> SUFFICES ASSUME a % m = b % m PROVE FALSE
  OBVIOUS
<1> DEFINE p == a \div m
           q == b \div m
           r == a % m
<1>1. a = m * p + r /\ p \in Int /\ r \in Int
  OBVIOUS
<1>2. b = m * q + r /\ q \in Int
  OBVIOUS
<1> HIDE DEF p, q, r
<1>3. b - a = m * (q - p)
  BY <1>1, <1>2
<1>4. CASE q - p >= 1
  <2>1. m * (q - p) >= m
    BY <1>1, <1>2, <1>4
  <2> QED BY <1>3, <2>1
<1>5. CASE q - p <= 0
  <2>1. m * (q - p) <= 0
    BY <1>1, <1>2, <1>5
  <2> QED BY <1>3, <2>1
<1> QED BY <1>1, <1>2, <1>4, <1>5

\* A number below b * k, in units of b.
LEMMA DivBound ==
  ASSUME NEW b \in Nat \ {0}, NEW k \in Nat, NEW x \in Nat, x < b * k
  PROVE  x \div b \in 0 .. k - 1
<1> DEFINE q == x \div b
           r == x % b
<1>1. x = b * q + r /\ q \in Int /\ r \in 0 .. b - 1
  OBVIOUS
<1> HIDE DEF q, r
<1>2. CASE q >= k
  <2>1. b * q >= b * k
    BY <1>1, <1>2
  <2> QED BY <1>1, <2>1
<1>3. CASE q <= -1
  <2>1. b * q <= -b
    BY <1>1, <1>3
  <2> QED BY <1>1, <2>1
<1> QED BY <1>1, <1>2, <1>3 DEF q

\* A number is put together from its quotient and its remainder.
LEMMA DivMod ==
  ASSUME NEW x \in Int, NEW m \in Nat \ {0}
  PROVE  /\ ((x \div m) * m) + (x % m) = x
         /\ x % m \in 0 .. m - 1
<1> DEFINE q == x \div m
           r == x % m
<1>1. x = m * q + r /\ q \in Int /\ r \in 0 .. m - 1
  OBVIOUS
<1> HIDE DEF q, r
<1>2. q * m + r = x /\ r \in 0 .. m - 1
  BY <1>1
<1> QED BY <1>2 DEF q, r

\* A product of numbers that are not zero.
LEMMA Product ==
  ASSUME NEW a \in Nat \ {0}, NEW b \in Nat \ {0}
  PROVE  a * b \in Nat \ {0} /\ a * b >= a /\ a * b >= b
<1>1. a * b \in Int /\ a >= 1 /\ b >= 1
  OBVIOUS
<1>2. a * b >= a * 1
  BY <1>1
<1>3. a * b >= 1 * b
  BY <1>1
<1> QED BY <1>1, <1>2, <1>3

-----------------------------------------------------------------------------
(* Least elements *)

\* A set of numbers that is not empty has a least element.  The intervals 0 .. a
\* are ordered like their ends, and inclusion of finite sets is well-founded.
LEMMA Least ==
  ASSUME NEW A, A \subseteq Nat, A # {}
  PROVE  \E a \in A : \A b \in A : a <= b
<1> DEFINE T == {0 .. a : a \in A}
<1>1. IsWellFoundedOn(StrictSubsetOrdering(Nat), FiniteSubsetsOf(Nat))
  BY FS_StrictSubsetOrderingWellFounded
<1>2. T \subseteq FiniteSubsetsOf(Nat)
  <2>1. ASSUME NEW a \in A PROVE (0 .. a) \subseteq Nat /\ IsFiniteSet(0 .. a)
    BY FS_Interval
  <2> QED BY <2>1 DEF FiniteSubsetsOf
<1>3. T # {}
  OBVIOUS
<1>4. PICK x \in T : \A y \in T : ~ (<<y, x>> \in StrictSubsetOrdering(Nat))
  <2> HIDE DEF T
  <2> QED BY <1>1, <1>2, <1>3, WFMin
<1>5. PICK a \in A : x = 0 .. a
  OBVIOUS
<1>6. ASSUME NEW b \in A, b < a PROVE FALSE
  <2>1. (0 .. b) \subseteq (0 .. a) /\ (0 .. b) # (0 .. a)
    <3>1. a \in 0 .. a /\ a \notin 0 .. b
      BY <1>6
    <3> QED BY <1>6, <3>1
  <2>2. (0 .. b) \in T /\ (0 .. b) \subseteq Nat /\ (0 .. a) \subseteq Nat
    OBVIOUS
  <2> QED BY <2>1, <2>2, <1>4, <1>5 DEF StrictSubsetOrdering
<1> QED BY <1>6

\* Induction: what holds at the start and is handed on from each number to the next.
LEMMA Induction ==
  ASSUME NEW S, S \subseteq Nat, 0 \in S, \A n \in S : n + 1 \in S
  PROVE  S = Nat
<1> DEFINE A == Nat \ S
<1> SUFFICES ASSUME A # {} PROVE FALSE
  OBVIOUS
<1>1. PICK a \in A : \A b \in A : a <= b
  <2>1. A \subseteq Nat /\ A # {}
    OBVIOUS
  <2> HIDE DEF A
  <2> QED BY <2>1, Least
<1>2. a - 1 \in Nat /\ a - 1 \in S
  BY <1>1
<1>3. (a - 1) + 1 \in S
  BY <1>2
<1> QED BY <1>1, <1>3

\* A number is taken apart in one way only.
LEMMA DivModUnique ==
  ASSUME NEW m \in Nat \ {0}, NEW q \in Int, NEW s \in 0 .. m - 1, NEW x \in Int,
         x = (q * m) + s
  PROVE  x \div m = q /\ x % m = s
<1>1. x % m = s
  <2>1. (m * q + s) % m = s
    BY ModUnique
  <2>2. m * q + s = x
    OBVIOUS
  <2> QED BY <2>1, <2>2
<1> DEFINE p == x \div m
<1>2. ((p * m) + (x % m)) = x
  BY DivMod
<1>3. p \in Int
  OBVIOUS
<1> HIDE DEF p
<1>4. p * m = q * m
  <2>1. p * m \in Int /\ q * m \in Int
    BY <1>3
  <2> QED BY <1>1, <1>2, <2>1
<1>5. p = q
  <2>1. p + 1 <= q => (p + 1) * m <= q * m
    BY <1>3
  <2>2. q + 1 <= p => (q + 1) * m <= p * m
    BY <1>3
  <2>3. (p + 1) * m = (p * m) + m /\ (q + 1) * m = (q * m) + m
        /\ p * m \in Int /\ q * m \in Int
    BY <1>3
  <2> QED BY <1>3, <1>4, <2>1, <2>2, <2>3
<1> QED BY <1>1, <1>5 DEF p

\* Counting up: the next place of a row, or the first of the next row.
LEMMA NextPlace ==
  ASSUME NEW m \in Nat \ {0}, NEW x \in Nat
  PROVE  /\ x \div m \in Nat /\ x % m \in 0 .. m - 1
         /\ ((x \div m) * m) + (x % m) = x
         /\ (x % m) + 1 < m => (x + 1) \div m = x \div m /\ (x + 1) % m = (x % m) + 1
         /\ (x % m) + 1 = m => (x + 1) \div m = (x \div m) + 1 /\ (x + 1) % m = 0
<1> DEFINE q == x \div m
           r == x % m
<1>1. q \in Nat
  OBVIOUS
<1>2. ((q * m) + r) = x /\ r \in 0 .. m - 1
  <2>1. x \in Int /\ m \in Nat \ {0}
    OBVIOUS
  <2> QED BY <2>1, DivMod, Zenon
<1> HIDE DEF q, r
<1>3. q * m \in Nat /\ (q + 1) * m = (q * m) + m
  BY <1>1
<1>4. ASSUME r + 1 < m PROVE (x + 1) \div m = q /\ (x + 1) % m = r + 1
  <2>1. r + 1 \in 0 .. m - 1 /\ x + 1 = (q * m) + (r + 1) /\ x + 1 \in Int /\ q \in Int
    BY <1>1, <1>2, <1>3, <1>4
  <2> DEFINE y == x + 1
             s == r + 1
  <2>2. s \in 0 .. m - 1 /\ y = (q * m) + s /\ y \in Int /\ q \in Int
    BY <2>1
  <2> HIDE DEF y, s
  <2>3. y \div m = q /\ y % m = s
    BY <2>2, DivModUnique
  <2> QED BY <2>3 DEF y, s
<1>5. ASSUME r + 1 = m PROVE (x + 1) \div m = q + 1 /\ (x + 1) % m = 0
  <2>1. 0 \in 0 .. m - 1 /\ x + 1 = ((q + 1) * m) + 0 /\ x + 1 \in Int /\ q + 1 \in Int
    BY <1>1, <1>2, <1>3, <1>5
  <2> QED BY <2>1, DivModUnique
<1> QED BY <1>1, <1>2, <1>4, <1>5 DEF q, r
=============================================================================
