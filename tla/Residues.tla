------------------------------ MODULE Residues ------------------------------
(***************************************************************************)
(* Division with remainder, for the proofs about sets of the cache, words  *)
(* and addresses: every conversion of C to an unsigned type is a remainder *)
(* (MachineWords' Wrap), every right shift a quotient.                     *)
(***************************************************************************)
EXTENDS Integers, TLAPS

\* A multiple of n between -n and n is zero.
LEMMA SmallMultiple ==
  ASSUME NEW n \in Nat \ {0}, NEW m \in Int, -n < n * m, n * m < n PROVE m = 0
<1>1. CASE m >= 1
  <2>1. n * (m - 1) >= 0 /\ n * (m - 1) = n * m - n
    BY <1>1
  <2> QED
    BY <2>1
<1>2. CASE m <= -1
  <2>1. n * (-1 - m) >= 0 /\ n * (-1 - m) = -n - n * m
    BY <1>2
  <2> QED
    BY <2>1
<1> QED
  BY <1>1, <1>2

\* Quotient and remainder are what they are called.
LEMMA DivisionWithRemainder ==
  ASSUME NEW a \in Int, NEW n \in Nat \ {0}
  PROVE  a \div n \in Int /\ a % n \in 0 .. n - 1 /\ a = n * (a \div n) + (a % n)
OBVIOUS

\* There is only one way to divide with remainder.
LEMMA DivisionIsUnique ==
  ASSUME NEW a \in Int, NEW n \in Nat \ {0}, NEW q \in Int, NEW r \in 0 .. n - 1,
         a = n * q + r
  PROVE  a \div n = q /\ a % n = r
<1> DEFINE p == a \div n
           u == a % n
           m == p - q
<1>1. p \in Int /\ u \in 0 .. n - 1 /\ a = n * p + u
  BY DivisionWithRemainder
<1> HIDE DEF p, u
<1>2. m \in Int /\ n * m = r - u
  BY <1>1
<1>3. -n < n * m /\ n * m < n
  BY <1>1, <1>2
<1> HIDE DEF m
<1>4. m = 0
  BY <1>2, <1>3, SmallMultiple
<1>5. p = q /\ u = r
  BY <1>1, <1>4 DEF m
<1> QED
  BY <1>5 DEF p, u

\* A number below n is its own remainder.
LEMMA OwnResidue ==
  ASSUME NEW n \in Nat \ {0}, NEW r \in 0 .. n - 1 PROVE r % n = r /\ r \div n = 0
OBVIOUS

\* Numbers that differ by a multiple of n have the same remainder.
LEMMA SameResidue ==
  ASSUME NEW n \in Nat \ {0}, NEW a \in Int, NEW b \in Int, NEW k \in Int, a = b + n * k
  PROVE  a % n = b % n
<1> DEFINE q == b \div n
           r == b % n
<1>1. q \in Int /\ r \in 0 .. n - 1 /\ b = n * q + r
  BY DivisionWithRemainder
<1> HIDE DEF q, r
<1>2. q + k \in Int /\ a = n * (q + k) + r
  BY <1>1
<1>3. a % n = r
  BY <1>1, <1>2, DivisionIsUnique
<1> QED
  BY <1>3 DEF r

\* Reducing modulo a multiple first changes nothing.
LEMMA ResidueOfResidue ==
  ASSUME NEW a \in Int, NEW n \in Nat \ {0}, NEW d \in Nat \ {0}, n % d = 0
  PROVE  (a % n) % d = a % d
<1> DEFINE q == a \div n
           r == a % n
           c == n \div d
<1>1. q \in Int /\ r \in Int /\ a = n * q + r
  BY DivisionWithRemainder
<1>2. c \in Int /\ n = d * c
  BY DivisionWithRemainder
<1> HIDE DEF q, r, c
<1> DEFINE k == c * q
<1>3. k \in Int /\ a = r + d * k
  BY <1>1, <1>2
<1> HIDE DEF k
<1>4. a % d = r % d
  <2>1. d \in Nat \ {0} /\ r \in Int
    BY <1>1
  <2> QED
    BY <1>3, <2>1, SameResidue
<1> QED
  BY <1>4 DEF r

\* Reducing a sum, one of its terms may be reduced before.
LEMMA ResidueOfSum ==
  ASSUME NEW n \in Nat \ {0}, NEW a \in Int, NEW b \in Int
  PROVE  ((a % n) + b) % n = (a + b) % n
<1> DEFINE q == a \div n
           r == a % n
<1>1. q \in Int /\ r \in Int /\ a = n * q + r
  BY DivisionWithRemainder
<1> HIDE DEF q, r
<1>2. a + b = (r + b) + n * q /\ a + b \in Int /\ r + b \in Int
  BY <1>1
<1>3. (a + b) % n = (r + b) % n
  BY <1>1, <1>2, SameResidue
<1> QED
  BY <1>3 DEF r

\* The same for a product.
LEMMA ResidueOfProduct ==
  ASSUME NEW n \in Nat \ {0}, NEW a \in Int, NEW b \in Int
  PROVE  ((a % n) * b) % n = (a * b) % n
<1> DEFINE q == a \div n
           r == a % n
<1>1. q \in Int /\ r \in Int /\ a = n * q + r
  BY DivisionWithRemainder
<1> HIDE DEF q, r
<1>2. q * b \in Int /\ a * b = r * b + n * (q * b) /\ a * b \in Int /\ r * b \in Int
  BY <1>1
<1>3. (a * b) % n = (r * b) % n
  BY <1>1, <1>2, SameResidue
<1> QED
  BY <1>3 DEF r

\* Dividing the complement of a number gives the complement of its quotient:
\* an arithmetic shift of a negative number.
LEMMA QuotientOfComplement ==
  ASSUME NEW x \in Int, NEW n \in Nat \ {0}
  PROVE  (-1 - x) \div n = -1 - (x \div n)
<1> DEFINE q == x \div n
           r == x % n
           s == n - 1 - r
           y == -1 - x
<1>1. q \in Int /\ r \in 0 .. n - 1 /\ x = n * q + r
  BY DivisionWithRemainder
<1> HIDE DEF q, r
<1>2. s \in 0 .. n - 1 /\ y \in Int /\ -1 - q \in Int
  BY <1>1
<1>3. y = n * (-1 - q) + s
  BY <1>1
<1> HIDE DEF s, y
<1>4. y \div n = -1 - q
  BY <1>2, <1>3, DivisionIsUnique
<1> QED
  BY <1>4 DEF y, q

\* A quotient is no larger than the number divided.
LEMMA QuotientBound ==
  ASSUME NEW a \in Nat, NEW n \in Nat \ {0}
  PROVE  a \div n \in Nat /\ a \div n <= a /\ (n > 1 /\ a > 0 => 2 * (a \div n) <= a)
<1> DEFINE q == a \div n
           r == a % n
<1>1. q \in Int /\ r \in 0 .. n - 1 /\ a = n * q + r
  BY DivisionWithRemainder
<1> HIDE DEF q, r
<1>2. q >= 0
  <2>1. CASE q <= -1
    <3>1. n * (-1 - q) >= 0 /\ n * (-1 - q) = -n - n * q
      BY <1>1, <2>1
    <3> QED
      BY <1>1, <3>1
  <2> QED
    BY <1>1, <2>1
<1>3. n * q >= q
  <2>1. (n - 1) * q >= 0 /\ (n - 1) * q = n * q - q
    BY <1>1, <1>2
  <2> QED
    BY <1>1, <2>1
<1>4. n > 1 => n * q >= 2 * q
  <2>1. n > 1 => (n - 2) * q >= 0
    BY <1>1, <1>2
  <2>2. (n - 2) * q = n * q - 2 * q
    BY <1>1
  <2> QED
    BY <1>1, <2>1, <2>2
<1>5. q \in Nat /\ q <= a /\ (n > 1 /\ a > 0 => 2 * q <= a)
  BY <1>1, <1>2, <1>3, <1>4
<1> QED
  BY <1>5 DEF q

\* Reducing a sum or a difference, both terms may be reduced before.
LEMMA ResidueOfTerms ==
  ASSUME NEW n \in Nat \ {0}, NEW a \in Int, NEW b \in Int
  PROVE  (a + b) % n = ((a % n) + (b % n)) % n /\ (a - b) % n = ((a % n) - (b % n)) % n
<1> DEFINE qa == a \div n
           qb == b \div n
           r == a % n
           s == b % n
           x == a + b
           y == r + s
           v == a - b
           w == r - s
           k == qa + qb
           l == qa - qb
<1>1. /\ qa \in Int /\ qb \in Int /\ r \in Int /\ s \in Int
      /\ a = n * qa + r /\ b = n * qb + s
  BY DivisionWithRemainder
<1> HIDE DEF qa, qb, r, s
<1>2. k \in Int /\ x \in Int /\ y \in Int /\ l \in Int /\ v \in Int /\ w \in Int
  BY <1>1
<1>3. x = y + n * k
  BY <1>1
<1>4. v = w + n * l
  BY <1>1
<1> HIDE DEF x, y, v, w, k, l
<1>5. \A f, g, m \in Int : f = g + n * m => f % n = g % n
  BY SameResidue
<1>6. x % n = y % n /\ v % n = w % n
  BY <1>2, <1>3, <1>4, <1>5, Zenon
<1> QED
  BY <1>6 DEF x, y, v, w, r, s
=============================================================================
