-------------------------- MODULE ArithmeticLemmas --------------------------
(***************************************************************************)
(* Facts about division, remainders and induction that the proofs of the   *)
(* components share.  None of them is about the program.                   *)
(***************************************************************************)
EXTENDS Integers, WellFoundedInduction, TLAPS

\* A multiple of R strictly between -R and R is 0.
LEMMA SmallMultiple ==
  ASSUME NEW R \in Nat \ {0}, NEW k \in Int, -R < R * k, R * k < R
  PROVE  k = 0
<1>1. CASE k >= 1
  <2>1. R * k >= R
    BY <1>1
  <2> QED BY <2>1
<1>2. CASE k <= -1
  <2>1. R * k <= -R
    BY <1>2
  <2> QED BY <2>1
<1> QED BY <1>1, <1>2

\* Quotient and remainder.
LEMMA DivMod ==
  ASSUME NEW a \in Nat, NEW R \in Nat \ {0}
  PROVE  /\ a \div R \in Nat /\ a % R \in 0 .. R - 1
         /\ a = R * (a \div R) + (a % R)
OBVIOUS

\* They are unique.
LEMMA ModUnique ==
  ASSUME NEW a \in Nat, NEW R \in Nat \ {0}, NEW q \in Int,
         NEW r \in 0 .. R - 1, a = R * q + r
  PROVE  a % R = r
<1> DEFINE q2 == a \div R
           r2 == a % R
<1>1. q2 \in Nat /\ r2 \in 0 .. R - 1 /\ a = R * q2 + r2
  BY DivMod
<1> HIDE DEF q2, r2
<1>2. R * (q - q2) = R * q - R * q2 /\ R * q \in Int /\ R * q2 \in Int
  BY <1>1
<1>3. R * (q - q2) = r2 - r
  BY <1>1, <1>2
<1>4. q - q2 = 0
  <2>1. -R < R * (q - q2) /\ R * (q - q2) < R
    BY <1>1, <1>3
  <2>2. q - q2 \in Int
    BY <1>1
  <2> QED BY <2>1, <2>2, SmallMultiple
<1>5. R * (q - q2) = 0
  BY <1>4
<1>6. r2 = r
  BY <1>1, <1>3, <1>5
<1> QED BY <1>6 DEF r2

\* Numbers less than R apart have different remainders.
LEMMA ModDistinct ==
  ASSUME NEW a \in Nat, NEW b \in Nat, NEW R \in Nat \ {0}, b < a, a - b < R
  PROVE  a % R # b % R
<1> SUFFICES ASSUME a % R = b % R PROVE FALSE
  OBVIOUS
<1> DEFINE qa == a \div R
           qb == b \div R
           r == a % R
<1>1. /\ qa \in Nat /\ qb \in Nat /\ r \in 0 .. R - 1
      /\ a = R * qa + r /\ b = R * qb + r
  BY DivMod
<1> HIDE DEF qa, qb, r
<1>2. R * (qa - qb) = R * qa - R * qb /\ R * qa \in Int /\ R * qb \in Int
  BY <1>1
<1>3. R * (qa - qb) = a - b
  BY <1>1, <1>2
<1>4. qa - qb = 0
  <2>1. qa - qb \in Int
    BY <1>1
  <2> QED BY <1>3, <2>1, SmallMultiple
<1>5. R * (qa - qb) = 0
  BY <1>4
<1> QED BY <1>3, <1>5

\* The next sequence number: incrementing the remainder.
LEMMA ModSuccessor ==
  ASSUME NEW a \in Nat, NEW R \in Nat \ {0}
  PROVE  ((a % R) + 1) % R = (a + 1) % R
<1> DEFINE q == a \div R
           r == a % R
<1>1. q \in Nat /\ r \in 0 .. R - 1 /\ a = R * q + r
  BY DivMod
<1> HIDE DEF q, r
<1>2. CASE r + 1 < R
  <2>1. r + 1 \in 0 .. R - 1 /\ a + 1 = R * q + (r + 1) /\ r + 1 = R * 0 + (r + 1)
    BY <1>1, <1>2
  <2>2. (a + 1) % R = r + 1
    BY <1>1, <2>1, ModUnique
  <2>3. (r + 1) % R = r + 1
    BY <1>1, <2>1, ModUnique
  <2> QED BY <2>2, <2>3 DEF r
<1>3. CASE r + 1 = R
  <2>1. R * (q + 1) = R * q + R /\ R * q \in Int
    BY <1>1
  <2>2. a + 1 = R * (q + 1) + 0 /\ r + 1 = R * 1 + 0 /\ 0 \in 0 .. R - 1
    BY <1>1, <1>3, <2>1
  <2>3. (a + 1) % R = 0
    BY <1>1, <2>2, ModUnique
  <2>4. (r + 1) % R = 0
    BY <1>1, <2>2, ModUnique
  <2> QED BY <2>3, <2>4 DEF r
<1> QED BY <1>1, <1>2, <1>3

\* The quotient brackets the dividend.
LEMMA Quotient ==
  ASSUME NEW a \in Nat, NEW b \in Nat \ {0}
  PROVE  /\ a \div b \in Nat
         /\ (a \div b) * b <= a
         /\ a < (a \div b + 1) * b
<1> DEFINE q == a \div b
           r == a % b
<1>1. q \in Nat /\ r \in 0 .. b - 1 /\ a = b * q + r
  BY DivMod
<1> HIDE DEF q, r
<1>2. (q + 1) * b = b * q + b /\ q * b = b * q /\ b * q \in Nat
  BY <1>1
<1>3. q * b <= a /\ a < (q + 1) * b
  BY <1>1, <1>2
<1> QED BY <1>1, <1>3 DEF q

\* Two's complement: a number that fits is unchanged by being wrapped.
LEMMA WrapIdentity ==
  ASSUME NEW N \in Nat, NEW x \in 0 .. N
  PROVE  ((x + N + 1) % (2 * (N + 1))) - N - 1 = x
<1> DEFINE m == 2 * (N + 1)
           y == x + N + 1
<1>1. m \in Nat \ {0} /\ y \in 0 .. m - 1
  OBVIOUS
<1>2. y % m = y
  <2> HIDE DEF m, y
  <2> QED BY <1>1
<1> QED BY <1>2

\* Induction over the natural numbers, for a set rather than a predicate.
LEMMA SetInduction ==
  ASSUME NEW S, S \subseteq Nat, 0 \in S, \A n \in S : n + 1 \in S
  PROVE  \A n \in Nat : n \in S
<1> DEFINE T == Nat \ S
           R == OpToRel(<, Nat)
<1>1. IsWellFoundedOn(R, Nat)
  BY NatLessThanWellFounded, Zenon
<1>2. \A x, y \in Nat : x < y => <<x, y>> \in R
  BY Zenon DEF OpToRel
<1> HIDE DEF R
<1> SUFFICES ASSUME T # {} PROVE FALSE
  OBVIOUS
<1>3. PICK x \in T : \A y \in T : ~ (<<y, x>> \in R)
  BY <1>1, WFMin, Zenon
<1>4. x \in Nat /\ x # 0
  BY <1>3
<1>5. x - 1 \in Nat /\ x - 1 < x
  BY <1>4
<1>6. x - 1 \in S
  BY <1>2, <1>3, <1>4, <1>5, Zenon
<1>7. (x - 1) + 1 \in S
  BY <1>6
<1>8. (x - 1) + 1 = x
  BY <1>4
<1> QED BY <1>3, <1>7, <1>8
=============================================================================
