------------------------- MODULE PingChecksumProofs -------------------------
(***************************************************************************)
(* What TLAPS proves of PingChecksum: for a byte of any size, messages of  *)
(* any length whose sum fits a uint32_t, and hosts of either byte order.   *)
(***************************************************************************)
EXTENDS PingChecksum, SequenceTheorems, ArithmeticLemmas

\* The modulus of one's complement arithmetic.
Ones == U16 - 1

-----------------------------------------------------------------------------
(* Bytes and words.                                                        *)

\* The sizes of the types and how they relate.
LEMMA Sizes ==
  /\ Byte \in Nat \ {0} /\ Byte >= 2
  /\ U16 = Byte * Byte /\ U16 \in Nat \ {0} /\ U16 >= 4
  /\ Ones \in Nat \ {0} /\ Ones = U16 - 1
  /\ U32 = U16 * U16 /\ U32 \in Nat
<1>1. Byte \in Nat \ {0} /\ Byte >= 2
  BY ByteAssumption
<1>2. U16 = Byte * Byte /\ U16 \in Nat
  BY <1>1 DEF U16
<1>3. U16 >= 4
  BY <1>1, <1>2
<1>4. U32 = U16 * U16 /\ U32 \in Nat
  BY <1>2 DEF U32
<1> QED BY <1>1, <1>2, <1>3, <1>4 DEF Ones

\* Two bytes and the number they write, most significant first.
LEMMA Join ==
  ASSUME NEW a \in Bytes, NEW b \in Bytes
  PROVE  /\ Byte * a + b \in 0 .. Ones
         /\ (Byte * a + b) \div Byte = a
         /\ (Byte * a + b) % Byte = b
<1>1. a \in 0 .. Byte - 1 /\ b \in 0 .. Byte - 1
  BY DEF Bytes
<1> DEFINE w == Byte * a + b
<1>2. w \in Nat
  BY <1>1, Sizes
<1>3. w <= Ones
  <2>1. Byte * a <= Byte * (Byte - 1)
    BY <1>1, Sizes
  <2>2. Byte * (Byte - 1) = U16 - Byte
    BY Sizes
  <2>3. Byte * a \in Nat
    BY <1>1, Sizes
  <2> QED BY <1>1, <2>1, <2>2, <2>3, Sizes
<1>4. w % Byte = b
  BY <1>1, <1>2, Sizes, ModUnique
<1>5. w \div Byte = a
  <2> DEFINE q == w \div Byte
  <2>1. q \in Nat /\ w = Byte * q + b
    <3> HIDE DEF w
    <3>1. q \in Nat /\ w = Byte * q + (w % Byte)
      BY <1>2, Sizes, DivMod
    <3> QED BY <1>4, <3>1
  <2> HIDE DEF q
  <2>2. Byte * (q - a) = Byte * q - Byte * a /\ Byte * q \in Int /\ Byte * a \in Int
    BY <1>1, <2>1, Sizes
  <2>3. Byte * (q - a) = 0
    BY <1>1, <2>1, <2>2, Sizes
  <2>4. q - a \in Int
    BY <1>1, <2>1
  <2>5. q - a = 0
    BY <2>3, <2>4, Sizes, SmallMultiple
  <2>6. q = a
    BY <1>1, <2>1, <2>5
  <2> QED BY <2>6 DEF q
<1> QED BY <1>2, <1>3, <1>4, <1>5, Sizes

\* A word and the two bytes it is written with.
LEMMA Split ==
  ASSUME NEW w \in 0 .. Ones
  PROVE  /\ w \div Byte \in Bytes /\ w % Byte \in Bytes
         /\ w = Byte * (w \div Byte) + (w % Byte)
<1> DEFINE q == w \div Byte
           r == w % Byte
<1>1. q \in Nat /\ r \in 0 .. Byte - 1 /\ w = Byte * q + r
  <2>1. w \in Nat
    BY Sizes
  <2> QED BY <2>1, Sizes, DivMod
<1> HIDE DEF q, r
<1>2. q <= Byte - 1
  <2>1. SUFFICES ASSUME q >= Byte PROVE FALSE
    BY <1>1, Sizes
  <2>2. Byte * q >= Byte * Byte
    BY <1>1, <2>1, Sizes
  <2>3. Byte * q \in Nat
    BY <1>1, Sizes
  <2> QED BY <1>1, <2>2, <2>3, Sizes
<1>3. q \in Bytes /\ r \in Bytes
  BY <1>1, <1>2, Sizes DEF Bytes
<1> QED BY <1>1, <1>3 DEF q, r

\* memcpy() of two bytes into a word loses nothing ...
LEMMA WordBytes ==
  ASSUME NEW a \in Bytes, NEW b \in Bytes
  PROVE  /\ Word(a, b) \in 0 .. Ones
         /\ First(Word(a, b)) = a /\ Second(Word(a, b)) = b
<1>1. CASE endian = "little"
  <2>1. Word(a, b) = Byte * b + a
    BY <1>1, Sizes DEF Word, Bytes
  <2> QED BY <1>1, <2>1, Join DEF First, Second
<1>2. CASE endian # "little"
  BY <1>2, Join DEF Word, First, Second
<1> QED BY <1>1, <1>2

\* ... and neither does memcpy() of a word into two bytes.
LEMMA BytesWord ==
  ASSUME NEW w \in 0 .. Ones
  PROVE  /\ First(w) \in Bytes /\ Second(w) \in Bytes
         /\ Word(First(w), Second(w)) = w
<1>1. /\ w \div Byte \in Bytes /\ w % Byte \in Bytes
      /\ w = Byte * (w \div Byte) + (w % Byte)
  BY Split
<1>2. CASE endian = "little"
  <2>1. First(w) = w % Byte /\ Second(w) = w \div Byte
    BY <1>2 DEF First, Second
  <2>2. Word(First(w), Second(w)) = (w % Byte) + Byte * (w \div Byte)
    BY <1>2, <2>1 DEF Word
  <2>3. (w % Byte) + Byte * (w \div Byte) = Byte * (w \div Byte) + (w % Byte)
    BY <1>1, Sizes DEF Bytes
  <2> QED BY <1>1, <2>1, <2>2, <2>3
<1>3. CASE endian # "little"
  BY <1>1, <1>3 DEF First, Second, Word
<1> QED BY <1>2, <1>3

\* ~w inverts each byte.
LEMMA Complement ==
  ASSUME NEW w \in 0 .. Ones
  PROVE  /\ First(Ones - w) = Byte - 1 - First(w)
         /\ Second(Ones - w) = Byte - 1 - Second(w)
<1> DEFINE f == First(w)
           s == Second(w)
           nf == Byte - 1 - f
           ns == Byte - 1 - s
<1>1. f \in Bytes /\ s \in Bytes /\ Word(f, s) = w
  BY BytesWord
<1> HIDE DEF f, s
<1>2. nf \in Bytes /\ ns \in Bytes /\ f \in Int /\ s \in Int
  BY <1>1, Sizes DEF Bytes
<1>3. Byte * nf = U16 - Byte - Byte * f /\ Byte * ns = U16 - Byte - Byte * s
  BY <1>2, Sizes
<1>4. Byte * f \in Int /\ Byte * s \in Int
  BY <1>2, Sizes
<1>5. Word(nf, ns) = Ones - Word(f, s)
  <2> HIDE DEF nf, ns
  <2>1. nf = Byte - 1 - f /\ ns = Byte - 1 - s
    BY DEF nf, ns
  <2> QED BY <1>2, <1>3, <1>4, <2>1, Sizes DEF Word
<1>6. First(Word(nf, ns)) = nf /\ Second(Word(nf, ns)) = ns
  BY <1>2, WordBytes
<1>7. First(Ones - w) = nf /\ Second(Ones - w) = ns
  BY <1>1, <1>5, <1>6
<1> QED BY <1>7 DEF f, s

-----------------------------------------------------------------------------
(* One's complement sums.  RFC 1071 adds big-endian words; a little-endian *)
(* host adds the same words with their bytes exchanged, which multiplies   *)
(* every sum by Byte modulo Ones.                                          *)

Unit == IF endian = "little" THEN Byte ELSE 1

\* x, a sum of words as this host reads them, stands for the sum t of the
\* same words read in network order.
Agrees(x, t) == (x = 0 <=> t = 0) /\ \E j \in Int : Unit * x = t + Ones * j

\* A word as the host reads it.
LEMMA UnitWord ==
  ASSUME NEW a \in Bytes, NEW b \in Bytes
  PROVE  \E j \in Int : Unit * Word(a, b) = Byte * a + b + Ones * j
<1>1. a \in Nat /\ b \in Nat /\ Byte \in Nat
  BY Sizes DEF Bytes
<1>2. CASE endian = "little"
  <2>1. Unit = Byte /\ Word(a, b) = a + Byte * b
    BY <1>2 DEF Unit, Word
  <2>2. Byte * (a + Byte * b) = Byte * a + (Byte * Byte) * b
    BY <1>1
  <2>3. (Byte * Byte) * b = Ones * b + b
    BY <1>1, Sizes
  <2>4. Unit * Word(a, b) = Byte * a + b + Ones * b
    <3>1. Byte * a \in Nat /\ Ones * b \in Nat
      BY <1>1, Sizes
    <3> QED BY <1>1, <2>1, <2>2, <2>3, <3>1
  <2> QED BY <1>1, <2>4
<1>3. CASE endian # "little"
  <2>1. Unit * Word(a, b) = Byte * a + b + Ones * 0
    <3>1. Unit = 1 /\ Word(a, b) = Byte * a + b
      BY <1>3 DEF Unit, Word
    <3>2. Byte * a \in Nat /\ Ones * 0 = 0
      BY <1>1, Sizes
    <3> QED BY <1>1, <3>1, <3>2
  <2> QED BY <2>1
<1> QED BY <1>2, <1>3

\* A word is zero exactly when it is zero in network order.
LEMMA WordZero ==
  ASSUME NEW a \in Bytes, NEW b \in Bytes
  PROVE  Word(a, b) = 0 <=> Byte * a + b = 0
<1>1. a \in Nat /\ b \in Nat
  BY Sizes DEF Bytes
<1>2. /\ Byte * a \in Nat /\ (Byte * a = 0 <=> a = 0)
      /\ Byte * b \in Nat /\ (Byte * b = 0 <=> b = 0)
  BY <1>1, Sizes
<1> QED BY <1>1, <1>2 DEF Word

\* Adding a word keeps the agreement.
LEMMA AgreesAdd ==
  ASSUME NEW x \in Nat, NEW t \in Nat, NEW a \in Bytes, NEW b \in Bytes,
         Agrees(x, t)
  PROVE  Agrees(x + Word(a, b), t + (Byte * a + b))
<1> DEFINE w == Word(a, b)
           v == Byte * a + b
<1>1. PICK j \in Int : Unit * w = v + Ones * j
  BY UnitWord
<1>2. PICK k \in Int : Unit * x = t + Ones * k
  BY DEF Agrees
<1>3. w \in Nat /\ v \in Nat /\ (w = 0 <=> v = 0)
  BY WordBytes, WordZero, Join, Sizes
<1>4. Unit \in Nat
  BY Sizes DEF Unit
<1> HIDE DEF w, v
<1>5. Unit * (x + w) = Unit * x + Unit * w /\ Ones * (k + j) = Ones * k + Ones * j
  BY <1>3, <1>4, Sizes
<1>6. Ones * k \in Int /\ Ones * j \in Int
  BY Sizes
<1>7. Unit * (x + w) = (t + v) + Ones * (k + j)
  BY <1>1, <1>2, <1>3, <1>5, <1>6
<1>8. x + w = 0 <=> t + v = 0
  BY <1>3 DEF Agrees
<1>9. k + j \in Int
  OBVIOUS
<1>10. Agrees(x + w, t + v)
  BY <1>7, <1>8, <1>9 DEF Agrees
<1> QED BY <1>10 DEF w, v

\* Folding the carry back in keeps the agreement, and shrinks the sum.
LEMMA AgreesFold ==
  ASSUME NEW x \in Nat, NEW t \in Nat, Agrees(x, t)
  PROVE  /\ Agrees((x % U16) + (x \div U16), t)
         /\ (x % U16) + (x \div U16) \in Nat
         /\ (x % U16) + (x \div U16) <= x
<1> DEFINE h == x \div U16
           l == x % U16
<1>1. h \in Nat /\ l \in 0 .. U16 - 1 /\ x = U16 * h + l
  BY Sizes, DivMod
<1>2. PICK k \in Int : Unit * x = t + Ones * k
  BY DEF Agrees
<1>3. Unit \in Nat
  BY Sizes DEF Unit
<1> HIDE DEF h, l
<1>4. U16 * h = Ones * h + h /\ Ones * h \in Nat
  BY <1>1, Sizes
<1>5. x = Ones * h + (l + h) /\ l + h \in Nat
  BY <1>1, <1>4, Sizes
<1>6. Unit * x = Unit * (Ones * h) + Unit * (l + h)
  BY <1>3, <1>4, <1>5
<1>7. Unit * (Ones * h) = Ones * (Unit * h) /\ Unit * h \in Int
  BY <1>1, <1>3, Sizes
<1>8. Ones * (k - Unit * h) = Ones * k - Ones * (Unit * h)
  BY <1>7, Sizes
<1>9. Unit * (l + h) = t + Ones * (k - Unit * h)
  <2> DEFINE A == Unit * (l + h)
             B == Ones * k
             C == Ones * (Unit * h)
  <2>1. A \in Int /\ B \in Int /\ C \in Int
    BY <1>3, <1>5, <1>7, Sizes
  <2>2. t + B = C + A /\ Ones * (k - Unit * h) = B - C
    BY <1>2, <1>6, <1>7, <1>8, Zenon
  <2> HIDE DEF A, B, C
  <2>3. A = t + (B - C)
    BY <2>1, <2>2
  <2>4. A = t + Ones * (k - Unit * h)
    BY <2>2, <2>3, Zenon
  <2> QED BY <2>4 DEF A
<1>10. k - Unit * h \in Int
  BY <1>7
<1>11. l + h <= x
  BY <1>1, <1>4, <1>5
<1>12. l + h = 0 <=> x = 0
  <2>1. ASSUME l + h = 0 PROVE x = 0
    <3>1. h = 0 /\ l = 0
      BY <1>1, <2>1, Sizes
    <3>2. Ones * h = 0
      BY <3>1, Sizes
    <3> QED BY <1>5, <2>1, <3>2, Sizes
  <2>2. ASSUME x = 0 PROVE l + h = 0
    BY <1>5, <1>11, <2>2
  <2> QED BY <2>1, <2>2
<1>13. l + h = 0 <=> t = 0
  BY <1>12 DEF Agrees
<1>14. Agrees(l + h, t)
  BY <1>9, <1>10, <1>13 DEF Agrees
<1> QED BY <1>5, <1>11, <1>14 DEF h, l

\* The one's complement sum that stands for t, as in OnesSum.
Residue(t) == IF t = 0 THEN 0 ELSE ((t - 1) % Ones) + 1

\* It is t reduced modulo Ones, to a number other than 0 when t is not 0.
LEMMA ResidueType ==
  ASSUME NEW t \in Nat
  PROVE  /\ Residue(t) \in 0 .. Ones
         /\ t # 0 => /\ Residue(t) \in 1 .. Ones
                     /\ \E q \in Int : t = Ones * q + Residue(t)
<1>1. CASE t = 0
  BY <1>1, Sizes DEF Residue
<1>2. CASE t # 0
  <2> DEFINE r == (t - 1) % Ones
             q == (t - 1) \div Ones
  <2>1. t - 1 \in Nat
    BY <1>2
  <2>2. q \in Nat /\ r \in 0 .. Ones - 1 /\ t - 1 = Ones * q + r
    BY <2>1, Sizes, DivMod
  <2> HIDE DEF q, r
  <2>3. Residue(t) = r + 1
    BY <1>2 DEF Residue, r
  <2>4. Ones * q \in Int
    BY <2>2, Sizes
  <2>5. t = Ones * q + (r + 1)
    BY <2>2, <2>4, Sizes
  <2> QED BY <2>2, <2>3, <2>5, Sizes
<1> QED BY <1>1, <1>2

\* A folded sum is the RFC's, once its bytes are read in network order.
LEMMA AgreesFinal ==
  ASSUME NEW x \in 0 .. Ones, NEW t \in Nat, Agrees(x, t)
  PROVE  Byte * First(x) + Second(x) = Residue(t)
<1> DEFINE a == First(x)
           b == Second(x)
           y == Byte * a + b
<1>1. a \in Bytes /\ b \in Bytes /\ Word(a, b) = x
  BY BytesWord
<1>2. y \in 0 .. Ones /\ (x = 0 <=> y = 0)
  BY <1>1, Join, WordZero
<1>3. PICK j \in Int : Unit * x = y + Ones * j
  BY <1>1, UnitWord
<1>4. PICK k \in Int : Unit * x = t + Ones * k
  BY DEF Agrees
<1> HIDE DEF y
<1>5. CASE t = 0
  <2>1. y = 0
    BY <1>2, <1>5 DEF Agrees
  <2> QED BY <1>5, <2>1 DEF Residue, y
<1>6. CASE t # 0
  <2> DEFINE z == Residue(t)
  <2>1. z \in 1 .. Ones
    BY <1>6, ResidueType
  <2>2. PICK q \in Int : t = Ones * q + z
    BY <1>6, ResidueType
  <2>3. y \in 1 .. Ones
    BY <1>2, <1>6, Sizes DEF Agrees
  <2> HIDE DEF z
  <2>4. Ones * (q + k - j) = Ones * q + Ones * k - Ones * j
    BY Sizes
  <2>5. Ones * q \in Int /\ Ones * k \in Int /\ Ones * j \in Int
    BY Sizes
  <2>6. y - z = Ones * (q + k - j)
    BY <1>3, <1>4, <2>1, <2>2, <2>3, <2>4, <2>5, Sizes
  <2>7. q + k - j \in Int
    OBVIOUS
  <2>8. -Ones < y - z /\ y - z < Ones
    BY <2>1, <2>3, Sizes
  <2>9. q + k - j = 0
    BY <2>6, <2>7, <2>8, Sizes, SmallMultiple
  <2>10. y = z
    <3>1. Ones * (q + k - j) = 0
      BY <2>9, Sizes
    <3> QED BY <2>1, <2>3, <2>6, <3>1
  <2> QED BY <2>10 DEF y, z
<1> QED BY <1>5, <1>6
-----------------------------------------------------------------------------
(* The sum of a message, by induction over its bytes.                      *)

\* A message is a sequence of at least four bytes.
LEMMA MessageShape ==
  ASSUME NEW m \in Messages
  PROVE  /\ m \in Seq(Bytes) /\ Len(m) \in Lengths
         /\ Len(m) \in Nat /\ Len(m) >= 4
         /\ m \in [1 .. Len(m) -> Bytes] /\ DOMAIN m = 1 .. Len(m)
<1>1. PICK n \in Lengths : m \in [1 .. n -> Bytes]
  BY DEF Messages
<1>2. n \in Nat /\ n >= 4
  BY LengthAssumption
<1>3. m \in Seq(Bytes)
  BY <1>1, <1>2
<1>4. Len(m) = n
  BY <1>1, <1>2, <1>3
<1> QED BY <1>1, <1>2, <1>3, <1>4

\* A function of that shape is a message.
LEMMA ShapeMessage ==
  ASSUME NEW n \in Lengths, NEW f \in [1 .. n -> Bytes]
  PROVE  f \in Messages
BY DEF Messages

\* What byte k contributes.
Weighted(m, k) == IF k % 2 = 1 THEN Byte * m[k] ELSE m[k]

\* u holds the sums of the first n bytes of m.
SumsTo(u, m, n) ==
  /\ u \in [0 .. n -> Nat] /\ u[0] = 0
  /\ \A k \in 1 .. n : u[k] = u[k - 1] + Weighted(m, k)

\* Bytes contribute natural numbers.
LEMMA WeightedType ==
  ASSUME NEW m \in Messages, NEW k \in 1 .. Len(m)
  PROVE  Weighted(m, k) \in Nat
<1>1. m[k] \in Nat
  BY MessageShape, Sizes DEF Bytes
<1>2. Byte * m[k] \in Nat
  BY <1>1, Sizes
<1> QED BY <1>1, <1>2 DEF Weighted

\* The sums of every prefix exist.
LEMMA SumsExist ==
  ASSUME NEW m \in Messages
  PROVE  \E u : SumsTo(u, m, Len(m))
<1> DEFINE L == Len(m)
           S == {n \in Nat : n <= L => \E u : SumsTo(u, m, n)}
<1>1. L \in Nat
  BY MessageShape
<1>2. 0 \in S
  <2> DEFINE u == [k \in 0 .. 0 |-> 0]
  <2>1. SumsTo(u, m, 0)
    BY DEF SumsTo
  <2> QED BY <2>1
<1>3. ASSUME NEW n \in S PROVE n + 1 \in S
  <2> SUFFICES ASSUME n + 1 <= L PROVE \E u : SumsTo(u, m, n + 1)
    OBVIOUS
  <2>1. n \in Nat /\ n <= L
    BY <1>1
  <2>2. PICK u : SumsTo(u, m, n)
    BY <1>3, <2>1
  <2> DEFINE v == [k \in 0 .. n + 1 |->
                     IF k = n + 1 THEN u[n] + Weighted(m, n + 1) ELSE u[k]]
  <2>3. u \in [0 .. n -> Nat] /\ Weighted(m, n + 1) \in Nat
    BY <2>1, <2>2, WeightedType DEF SumsTo
  <2>4. v \in [0 .. n + 1 -> Nat]
    BY <2>1, <2>3
  <2>5. v[0] = 0
    BY <2>1, <2>2 DEF SumsTo
  <2>6. ASSUME NEW k \in 1 .. n + 1 PROVE v[k] = v[k - 1] + Weighted(m, k)
    <3>1. CASE k = n + 1
      BY <2>1, <3>1
    <3>2. CASE k \in 1 .. n
      <4>1. v[k] = u[k] /\ v[k - 1] = u[k - 1]
        BY <2>1, <3>2
      <4> QED BY <2>2, <3>2, <4>1 DEF SumsTo
    <3> QED BY <2>1, <3>1, <3>2
  <2> HIDE DEF v
  <2>7. SumsTo(v, m, n + 1)
    BY <2>4, <2>5, <2>6 DEF SumsTo
  <2> QED BY <2>7
<1> HIDE DEF S
<1>4. \A n \in Nat : n \in S
  <2>1. S \subseteq Nat
    BY DEF S
  <2> QED BY <1>2, <1>3, <2>1, SetInduction
<1>5. L \in S
  BY <1>1, <1>4
<1> QED BY <1>1, <1>5 DEF S

\* WordSum computes the last of them.
LEMMA WordSumIs ==
  ASSUME NEW m \in Messages, NEW u, SumsTo(u, m, Len(m))
  PROVE  WordSum(m) = u[Len(m)] /\ WordSum(m) \in Nat
<1> DEFINE L == Len(m)
           Def(h) == [k \in 0 .. L |-> IF k = 0 THEN 0
                                       ELSE h[k - 1] + Weighted(m, k)]
           g == CHOOSE h : h = Def(h)
<1>1. L \in Nat
  BY MessageShape
<1>2. WordSum(m) = g[L]
  BY Zenon DEF WordSum, Weighted
<1>3. u = Def(u)
  <2>1. u \in [0 .. L -> Nat] /\ u[0] = 0
    BY DEF SumsTo
  <2>2. \A k \in 1 .. L : u[k] = u[k - 1] + Weighted(m, k)
    BY DEF SumsTo
  <2> QED BY <1>1, <2>1, <2>2
<1>4. g = Def(g)
  BY <1>3, Zenon
<1> HIDE DEF g
<1> DEFINE S == {n \in Nat : n <= L => g[n] = u[n]}
<1>5. 0 \in S
  BY <1>1, <1>4 DEF SumsTo
<1>6. ASSUME NEW n \in S PROVE n + 1 \in S
  <2> SUFFICES ASSUME n + 1 <= L PROVE g[n + 1] = u[n + 1]
    OBVIOUS
  <2>1. n \in Nat /\ g[n] = u[n] /\ n + 1 \in 1 .. L /\ n + 1 # 0
    BY <1>1, <1>6
  <2>2. g[n + 1] = g[(n + 1) - 1] + Weighted(m, n + 1)
    BY <1>4, <2>1
  <2>3. u[n + 1] = u[(n + 1) - 1] + Weighted(m, n + 1)
    BY <2>1 DEF SumsTo
  <2>4. (n + 1) - 1 = n
    BY <2>1
  <2> QED BY <2>1, <2>2, <2>3, <2>4
<1> HIDE DEF S
<1>7. \A n \in Nat : n \in S
  <2>1. S \subseteq Nat
    BY DEF S
  <2> QED BY <1>5, <1>6, <2>1, SetInduction
<1>8. g[L] = u[L]
  BY <1>1, <1>7 DEF S
<1>9. u[L] \in Nat
  BY <1>1 DEF SumsTo
<1> QED BY <1>2, <1>8, <1>9

\* Changing one byte changes the sum by what that byte contributes.
LEMMA WordSumExcept ==
  ASSUME NEW m \in Messages, NEW k \in 1 .. Len(m), NEW b \in Bytes
  PROVE  LET n == [m EXCEPT ![k] = b]
         IN  /\ n \in Messages /\ Len(n) = Len(m)
             /\ WordSum(n) = WordSum(m) + (Weighted(n, k) - Weighted(m, k))
<1> DEFINE n == [m EXCEPT ![k] = b]
           L == Len(m)
           d == Weighted(n, k) - Weighted(m, k)
<1>1. L \in Nat /\ L \in Lengths /\ m \in [1 .. L -> Bytes] /\ m \in Seq(Bytes)
  BY MessageShape
<1>2. n \in [1 .. L -> Bytes] /\ n \in Messages
  BY <1>1, ShapeMessage
<1>3. Len(n) = L
  BY <1>1, ExceptSeq
<1>4. PICK u : SumsTo(u, m, L)
  BY SumsExist
<1>5. PICK v : SumsTo(v, n, L)
  BY <1>2, <1>3, SumsExist
<1>6. /\ Weighted(n, k) \in Nat /\ Weighted(m, k) \in Nat /\ d \in Int
      /\ \A j \in 1 .. L : j # k => Weighted(n, j) = Weighted(m, j)
  <2>1. Weighted(n, k) \in Nat /\ Weighted(m, k) \in Nat
    BY <1>2, <1>3, WeightedType
  <2>2. \A j \in 1 .. L : j # k => n[j] = m[j]
    BY <1>1
  <2> HIDE DEF n
  <2>3. \A j \in 1 .. L : j # k => Weighted(n, j) = Weighted(m, j)
    BY <2>2 DEF Weighted
  <2>4. d \in Int
    BY <2>1
  <2> QED BY <2>1, <2>3, <2>4
<1> HIDE DEF n
<1> DEFINE S == {j \in Nat : j <= L => v[j] = u[j] + (IF j < k THEN 0 ELSE d)}
<1>7. 0 \in S
  BY <1>1, <1>4, <1>5 DEF SumsTo
<1>8. ASSUME NEW j \in S PROVE j + 1 \in S
  <2> SUFFICES ASSUME j + 1 <= L
               PROVE  v[j + 1] = u[j + 1] + (IF j + 1 < k THEN 0 ELSE d)
    OBVIOUS
  <2>1. /\ j \in Nat /\ j + 1 \in 1 .. L /\ (j + 1) - 1 = j
        /\ v[j] = u[j] + (IF j < k THEN 0 ELSE d)
    BY <1>1, <1>8
  <2>2. u[j + 1] = u[j] + Weighted(m, j + 1) /\ u[j] \in Nat
    <3>1. u[j + 1] = u[(j + 1) - 1] + Weighted(m, j + 1)
      BY <1>4, <2>1 DEF SumsTo
    <3>2. u[j] \in Nat
      BY <1>1, <1>4, <2>1, SMTT(30) DEF SumsTo
    <3> QED BY <2>1, <3>1, <3>2
  <2>3. v[j + 1] = v[j] + Weighted(n, j + 1) /\ v[j] \in Nat
    <3>1. v[j + 1] = v[(j + 1) - 1] + Weighted(n, j + 1)
      BY <1>5, <2>1 DEF SumsTo
    <3>2. v[j] \in Nat
      BY <1>1, <1>5, <2>1, SMTT(30) DEF SumsTo
    <3> QED BY <2>1, <3>1, <3>2
  <2>4. Weighted(m, j + 1) \in Nat /\ Weighted(n, j + 1) \in Nat
    BY <1>2, <1>3, <2>1, WeightedType
  <2>5. CASE j + 1 = k
    <3>1. v[j] = u[j] + 0 /\ ~(j + 1 < k)
      BY <2>1, <2>5
    <3>2. d = Weighted(n, j + 1) - Weighted(m, j + 1)
      BY <2>5
    <3> HIDE DEF d
    <3> QED BY <2>2, <2>3, <2>4, <3>1, <3>2
  <2>6. CASE j + 1 # k
    <3>1. Weighted(n, j + 1) = Weighted(m, j + 1) /\ (j + 1 < k <=> j < k)
      BY <1>6, <2>1, <2>6
    <3> HIDE DEF d
    <3> QED BY <1>6, <2>1, <2>2, <2>3, <2>4, <3>1
  <2> QED BY <2>5, <2>6
<1> HIDE DEF S
<1>9. \A j \in Nat : j \in S
  <2>1. S \subseteq Nat
    BY DEF S
  <2> QED BY <1>7, <1>8, <2>1, SetInduction
<1>10. v[L] = u[L] + d
  BY <1>1, <1>9 DEF S
<1>11. WordSum(m) = u[L] /\ WordSum(n) = v[L]
  BY <1>2, <1>3, <1>4, <1>5, WordSumIs
<1> QED BY <1>2, <1>3, <1>10, <1>11 DEF n
-----------------------------------------------------------------------------
(* The checksum field.                                                     *)

\* m with the bytes a and b in the field.
WithField(m, a, b) == [m EXCEPT ![CK] = a, ![CK + 1] = b]

\* Writing the field changes the field and nothing else.
LEMMA FieldWritten ==
  ASSUME NEW m \in Messages, NEW a \in Bytes, NEW b \in Bytes
  PROVE  /\ WithField(m, a, b) \in Messages
         /\ Len(WithField(m, a, b)) = Len(m)
         /\ WithField(m, a, b)[CK] = a /\ WithField(m, a, b)[CK + 1] = b
         /\ \A j \in 1 .. Len(m) :
              j # CK /\ j # CK + 1 => WithField(m, a, b)[j] = m[j]
<1> DEFINE n == WithField(m, a, b)
           L == Len(m)
<1>1. /\ L \in Nat /\ L >= 4 /\ L \in Lengths /\ m \in [1 .. L -> Bytes]
  BY MessageShape
<1>2. CK = 3 /\ CK + 1 = 4 /\ CK \in 1 .. L /\ CK + 1 \in 1 .. L
  BY <1>1 DEF CK
<1>3. n \in [1 .. L -> Bytes]
  BY <1>1 DEF WithField
<1>4. n[CK] = a /\ n[CK + 1] = b
  BY <1>1, <1>2 DEF WithField
<1>5. \A j \in 1 .. L : j # CK /\ j # CK + 1 => n[j] = m[j]
  BY <1>1, <1>2 DEF WithField
<1> HIDE DEF n
<1>6. n \in Messages
  BY <1>1, <1>3, ShapeMessage
<1>7. Len(n) = L
  <2>1. DOMAIN n = 1 .. Len(n) /\ DOMAIN n = 1 .. L /\ Len(n) \in Nat
    BY <1>3, <1>6, MessageShape
  <2>2. L \in 1 .. Len(n)
    BY <1>1, <2>1
  <2>3. Len(n) \in 1 .. L
    BY <1>1, <2>1, <2>2
  <2>4. Len(n) \in Nat /\ L \in Nat
    BY <1>1, <2>1
  <2> QED BY <2>2, <2>3, <2>4
<1> QED BY <1>4, <1>5, <1>6, <1>7 DEF n

\* Messages with the same bytes are the same.
LEMMA SameBytes ==
  ASSUME NEW m \in Messages, NEW n \in Messages, Len(m) = Len(n),
         \A j \in 1 .. Len(m) : m[j] = n[j]
  PROVE  m = n
<1>1. m \in Seq(Bytes) /\ n \in Seq(Bytes)
  BY MessageShape
<1> QED BY <1>1, SeqEqual

\* The field can be written over.
LEMMA FieldTwice ==
  ASSUME NEW m \in Messages, NEW a \in Bytes, NEW b \in Bytes,
         NEW c \in Bytes, NEW d \in Bytes
  PROVE  WithField(WithField(m, a, b), c, d) = WithField(m, c, d)
<1> DEFINE n == WithField(m, a, b)
           x == WithField(n, c, d)
           y == WithField(m, c, d)
<1>1. /\ n \in Messages /\ Len(n) = Len(m)
      /\ \A j \in 1 .. Len(m) : j # CK /\ j # CK + 1 => n[j] = m[j]
  BY FieldWritten
<1> HIDE DEF n
<1>2. /\ x \in Messages /\ Len(x) = Len(n) /\ x[CK] = c /\ x[CK + 1] = d
      /\ \A j \in 1 .. Len(n) : j # CK /\ j # CK + 1 => x[j] = n[j]
  BY <1>1, FieldWritten
<1>3. /\ y \in Messages /\ Len(y) = Len(m) /\ y[CK] = c /\ y[CK + 1] = d
      /\ \A j \in 1 .. Len(m) : j # CK /\ j # CK + 1 => y[j] = m[j]
  BY FieldWritten
<1> HIDE DEF x, y
<1>4. \A j \in 1 .. Len(x) : x[j] = y[j]
  BY <1>1, <1>2, <1>3
<1>5. x = y
  BY <1>1, <1>2, <1>3, <1>4, SameBytes
<1> QED BY <1>5 DEF x, y, n

\* Writing what is there changes nothing.
LEMMA FieldSame ==
  ASSUME NEW m \in Messages
  PROVE  /\ m[CK] \in Bytes /\ m[CK + 1] \in Bytes
         /\ WithField(m, m[CK], m[CK + 1]) = m
<1> DEFINE a == m[CK]
           b == m[CK + 1]
           n == WithField(m, a, b)
<1>1. a \in Bytes /\ b \in Bytes
  <2>1. CK \in 1 .. Len(m) /\ CK + 1 \in 1 .. Len(m)
    BY MessageShape DEF CK
  <2> QED BY <2>1, MessageShape
<1> HIDE DEF a, b
<1>2. /\ n \in Messages /\ Len(n) = Len(m) /\ n[CK] = a /\ n[CK + 1] = b
      /\ \A j \in 1 .. Len(m) : j # CK /\ j # CK + 1 => n[j] = m[j]
  BY <1>1, FieldWritten
<1> HIDE DEF n
<1>3. \A j \in 1 .. Len(m) : n[j] = m[j]
  BY <1>2 DEF a, b
<1>4. n = m
  BY <1>2, <1>3, SameBytes
<1> QED BY <1>1, <1>4 DEF n, a, b

\* Clearing the field, in the reference and in the code.
LEMMA Cleared ==
  ASSUME NEW m \in Messages
  PROVE  /\ Zeroed(m) = WithField(m, 0, 0) /\ PutField(m, 0) = Zeroed(m)
         /\ Zeroed(m) \in Messages /\ Len(Zeroed(m)) = Len(m)
<1>1. 0 \in Bytes
  BY Sizes DEF Bytes
<1>2. First(0) = 0 /\ Second(0) = 0
  <2>1. Word(0, 0) = 0
    BY Sizes DEF Word
  <2> QED BY <1>1, <2>1, WordBytes
<1>3. Zeroed(m) = WithField(m, 0, 0) /\ PutField(m, 0) = WithField(m, 0, 0)
  BY <1>2 DEF Zeroed, PutField, WithField
<1> QED BY <1>1, <1>3, FieldWritten

\* The field does not count.
LEMMA ZeroedField ==
  ASSUME NEW m \in Messages, NEW a \in Bytes, NEW b \in Bytes
  PROVE  Zeroed(WithField(m, a, b)) = Zeroed(m)
<1>1. 0 \in Bytes
  BY Sizes DEF Bytes
<1>2. WithField(m, a, b) \in Messages
  BY FieldWritten
<1> QED BY <1>1, <1>2, Cleared, FieldTwice

\* The two bytes of the RFC's checksum, and the message that carries them.
LEMMA ChecksummedIs ==
  ASSUME NEW m \in Messages, NEW f \in Bytes, NEW g \in Bytes,
         Byte * f + g = Residue(WordSum(Zeroed(m)))
  PROVE  Checksummed(m) = WithField(m, Byte - 1 - f, Byte - 1 - g)
<1> DEFINE nf == Byte - 1 - f
           ng == Byte - 1 - g
           c == Ones - (Byte * f + g)
<1>1. OnesSum(Zeroed(m)) = Byte * f + g
  BY DEF OnesSum, Residue, Ones
<1>2. nf \in Bytes /\ ng \in Bytes /\ f \in Int /\ g \in Int
  BY Sizes DEF Bytes
<1>3. c = Byte * nf + ng
  <2>1. Byte * nf = U16 - Byte - Byte * f /\ Byte * f \in Int
    BY <1>2, Sizes
  <2> QED BY <1>2, <2>1, Sizes
<1>4. c \div Byte = nf /\ c % Byte = ng
  <2> HIDE DEF nf, ng, c
  <2> QED BY <1>2, <1>3, Join
<1>5. Checksummed(m) = WithField(m, c \div Byte, c % Byte)
  BY <1>1 DEF Checksummed, WithField, Ones
<1> QED BY <1>4, <1>5

\* The bytes a checksum is made of.
LEMMA ChecksumBytes ==
  ASSUME NEW m \in Messages
  PROVE  \E f, g \in Bytes :
           /\ Byte * f + g = Residue(WordSum(Zeroed(m)))
           /\ Checksummed(m) = WithField(m, Byte - 1 - f, Byte - 1 - g)
           /\ Byte - 1 - f \in Bytes /\ Byte - 1 - g \in Bytes
<1> DEFINE r == Residue(WordSum(Zeroed(m)))
<1>1. r \in 0 .. Ones
  BY Cleared, SumsExist, WordSumIs, ResidueType
<1>2. PICK f, g \in Bytes : Byte * f + g = r
  BY <1>1, Split
<1>3. Byte - 1 - f \in Bytes /\ Byte - 1 - g \in Bytes
  BY Sizes DEF Bytes
<1> QED BY <1>2, <1>3, ChecksummedIs

\* A message with its checksum is the message with some field.
LEMMA ChecksummedShape ==
  ASSUME NEW m \in Messages
  PROVE  /\ Checksummed(m) \in Messages /\ Len(Checksummed(m)) = Len(m)
         /\ Zeroed(Checksummed(m)) = Zeroed(m)
         /\ \E a, b \in Bytes : Checksummed(m) = WithField(m, a, b)
<1>1. PICK f, g \in Bytes :
        /\ Checksummed(m) = WithField(m, Byte - 1 - f, Byte - 1 - g)
        /\ Byte - 1 - f \in Bytes /\ Byte - 1 - g \in Bytes
  BY ChecksumBytes
<1> DEFINE nf == Byte - 1 - f
           ng == Byte - 1 - g
           n == WithField(m, nf, ng)
<1>2. nf \in Bytes /\ ng \in Bytes /\ Checksummed(m) = n
  BY <1>1
<1> HIDE DEF nf, ng
<1>3. n \in Messages /\ Len(n) = Len(m) /\ Zeroed(n) = Zeroed(m)
  BY <1>2, FieldWritten, ZeroedField
<1>4. \E a, b \in Bytes : n = WithField(m, a, b)
  BY <1>2
<1> HIDE DEF n
<1> QED BY <1>2, <1>3, <1>4

\* The checksum does not depend on what the field held ("whatever the previous
\* probe left there").
LEMMA ChecksumOverField ==
  ASSUME NEW m \in Messages, NEW a \in Bytes, NEW b \in Bytes
  PROVE  Checksummed(WithField(m, a, b)) = Checksummed(m)
<1> DEFINE c == WithField(m, a, b)
<1>1. c \in Messages /\ Zeroed(c) = Zeroed(m)
  BY FieldWritten, ZeroedField
<1>2. PICK f, g \in Bytes :
        /\ Byte * f + g = Residue(WordSum(Zeroed(m)))
        /\ Checksummed(m) = WithField(m, Byte - 1 - f, Byte - 1 - g)
        /\ Byte - 1 - f \in Bytes /\ Byte - 1 - g \in Bytes
  BY ChecksumBytes
<1> HIDE DEF c
<1>3. Checksummed(c) = WithField(c, Byte - 1 - f, Byte - 1 - g)
  BY <1>1, <1>2, ChecksummedIs
<1> QED BY <1>2, <1>3, FieldTwice DEF c

\* A message that carries its checksum verifies.
LEMMA IntactVerifies ==
  ASSUME NEW m \in Messages
  PROVE  Checksummed(Checksummed(m)) = Checksummed(m)
BY ChecksummedShape, ChecksumOverField

\* Sums less than Ones apart that reduce to the same residue are equal.
LEMMA ResidueInjective ==
  ASSUME NEW s \in Nat, NEW t \in Nat, Residue(s) = Residue(t),
         -Ones < s - t, s - t < Ones
  PROVE  s = t
<1>1. CASE s = 0 \/ t = 0
  BY <1>1, ResidueType, Sizes DEF Residue
<1>2. CASE s # 0 /\ t # 0
  <2> DEFINE z == Residue(s)
  <2>1. z \in 1 .. Ones
    BY <1>2, ResidueType
  <2>2. PICK q \in Int : s = Ones * q + z
    BY <1>2, ResidueType
  <2>3. PICK k \in Int : t = Ones * k + z
    BY <1>2, ResidueType
  <2> HIDE DEF z
  <2>4. Ones * (q - k) = Ones * q - Ones * k
    BY Sizes
  <2>5. Ones * q \in Int /\ Ones * k \in Int
    BY Sizes
  <2>6. s - t = Ones * (q - k)
    BY <2>1, <2>2, <2>3, <2>4, <2>5
  <2>7. q - k = 0
    <3>1. q - k \in Int
      OBVIOUS
    <3> QED BY <2>6, <3>1, Sizes, SmallMultiple
  <2>8. q = k
    BY <2>7
  <2> QED BY <2>2, <2>3, <2>8
<1> QED BY <1>1, <1>2

\* Two values of one byte contribute differently, by less than Ones.
LEMMA ByteMatters ==
  ASSUME NEW x \in Bytes, NEW y \in Bytes, x # y
  PROVE  /\ Byte * x # Byte * y
         /\ -Ones < Byte * x - Byte * y /\ Byte * x - Byte * y < Ones
         /\ -Ones < x - y /\ x - y < Ones
<1>1. x \in 0 .. Byte - 1 /\ y \in 0 .. Byte - 1
  BY DEF Bytes
<1>2. Byte * (x - y) = Byte * x - Byte * y
  BY <1>1, Sizes
<1>3. x - y <= Byte - 1 /\ y - x <= Byte - 1 /\ x - y \in Int
  BY <1>1, Sizes
<1>4. Byte * (Byte - 1) = U16 - Byte
  BY Sizes
<1>5. Byte * (x - y) <= Byte * (Byte - 1) /\ Byte * (y - x) <= Byte * (Byte - 1)
  BY <1>1, <1>3, Sizes
<1>6. Byte * (y - x) = Byte * y - Byte * x /\ Byte * x \in Int /\ Byte * y \in Int
  BY <1>1, Sizes
<1>7. -Ones < Byte * x - Byte * y /\ Byte * x - Byte * y < Ones
  BY <1>2, <1>4, <1>5, <1>6, Sizes
<1>8. Byte * x # Byte * y
  <2> SUFFICES ASSUME Byte * x = Byte * y PROVE FALSE
    OBVIOUS
  <2>1. Byte * (x - y) = 0
    BY <1>2, <1>6
  <2>2. x - y = 0
    BY <1>3, <2>1, Sizes, SmallMultiple
  <2> QED BY <1>1, <2>2
<1>9. -Ones < x - y /\ x - y < Ones
  <2>1. Byte <= Byte * Byte - 2
    BY Sizes
  <2> QED BY <1>1, <1>3, <2>1, Sizes
<1> QED BY <1>7, <1>8, <1>9

\* No message with one byte altered carries its checksum.
LEMMA DamageDetected ==
  ASSUME NEW m \in Messages, NEW w \in Damage(Checksummed(m))
  PROVE  w \in Messages /\ Checksummed(w) # w
<1> DEFINE c == Checksummed(m)
<1>1. c \in Messages /\ Checksummed(c) = c
  BY ChecksummedShape, IntactVerifies
<1>2. PICK k \in DOMAIN c, b \in Bytes : w = [c EXCEPT ![k] = b] /\ w # c
  BY DEF Damage
<1> HIDE DEF c
<1>3. /\ Len(c) \in Nat /\ Len(c) >= 4 /\ k \in 1 .. Len(c)
      /\ c \in [1 .. Len(c) -> Bytes]
  BY <1>1, MessageShape
<1>4. w \in Messages /\ Len(w) = Len(c)
  BY <1>1, <1>2, <1>3, WordSumExcept
<1>5. /\ w[k] = b /\ \A j \in 1 .. Len(c) : j # k => w[j] = c[j]
  BY <1>2, <1>3
<1>6. c[k] \in Bytes /\ c[k] # b
  <2>1. c[k] = b => w = c
    <3>1. c[k] = b => \A j \in 1 .. Len(w) : w[j] = c[j]
      BY <1>4, <1>5
    <3> QED BY <1>1, <1>4, <3>1, SameBytes
  <2> QED BY <1>2, <1>3, <2>1
<1>7. c[CK] \in Bytes /\ c[CK + 1] \in Bytes
  BY <1>1, FieldSame
<1>8. CASE k = CK \/ k = CK + 1
  <2> DEFINE a == w[CK]
             d == w[CK + 1]
             n == WithField(c, a, d)
  <2>1. a \in Bytes /\ d \in Bytes
    BY <1>4, FieldSame
  <2> HIDE DEF a, d
  <2>2. /\ n \in Messages /\ Len(n) = Len(c) /\ n[CK] = a /\ n[CK + 1] = d
        /\ \A j \in 1 .. Len(c) : j # CK /\ j # CK + 1 => n[j] = c[j]
    BY <1>1, <2>1, FieldWritten
  <2>3. Checksummed(n) = c
    BY <1>1, <2>1, ChecksumOverField
  <2> HIDE DEF n
  <2>4. \A j \in 1 .. Len(n) : n[j] = w[j]
    BY <1>5, <1>8, <2>2 DEF a, d
  <2>5. n = w
    BY <1>4, <2>2, <2>4, SameBytes
  <2> QED BY <1>2, <1>4, <2>3, <2>5
<1>9. CASE k # CK /\ k # CK + 1
  <2> SUFFICES ASSUME Checksummed(w) = w PROVE FALSE
    BY <1>4
  <2> DEFINE z == Zeroed(c)
             y == Zeroed(w)
  <2>0. 0 \in Bytes
    BY Sizes DEF Bytes
  <2>1. /\ z \in Messages /\ Len(z) = Len(c) /\ z[CK] = 0 /\ z[CK + 1] = 0
        /\ \A j \in 1 .. Len(c) : j # CK /\ j # CK + 1 => z[j] = c[j]
    <3> DEFINE n == WithField(c, 0, 0)
    <3>1. z = n
      BY <1>1, Cleared
    <3>2. /\ n \in Messages /\ Len(n) = Len(c) /\ n[CK] = 0 /\ n[CK + 1] = 0
          /\ \A j \in 1 .. Len(c) : j # CK /\ j # CK + 1 => n[j] = c[j]
      BY <1>1, <2>0, FieldWritten
    <3> HIDE DEF n, z
    <3> QED BY <1>4, <3>1, <3>2
  <2>2. /\ y \in Messages /\ Len(y) = Len(c) /\ y[CK] = 0 /\ y[CK + 1] = 0
        /\ \A j \in 1 .. Len(c) : j # CK /\ j # CK + 1 => y[j] = w[j]
    <3> DEFINE n == WithField(w, 0, 0)
    <3>1. y = n
      BY <1>4, Cleared
    <3>2. /\ n \in Messages /\ Len(n) = Len(w) /\ n[CK] = 0 /\ n[CK + 1] = 0
          /\ \A j \in 1 .. Len(w) : j # CK /\ j # CK + 1 => n[j] = w[j]
      BY <1>4, <2>0, FieldWritten
    <3> HIDE DEF n, y
    <3> QED BY <1>4, <3>1, <3>2
  <2>3. PICK f, g \in Bytes :
          /\ Byte * f + g = Residue(WordSum(z))
          /\ Checksummed(c) = WithField(c, Byte - 1 - f, Byte - 1 - g)
          /\ Byte - 1 - f \in Bytes /\ Byte - 1 - g \in Bytes
    BY <1>1, ChecksumBytes
  <2>4. PICK f2, g2 \in Bytes :
          /\ Byte * f2 + g2 = Residue(WordSum(y))
          /\ Checksummed(w) = WithField(w, Byte - 1 - f2, Byte - 1 - g2)
          /\ Byte - 1 - f2 \in Bytes /\ Byte - 1 - g2 \in Bytes
    BY <1>4, ChecksumBytes
  <2> HIDE DEF z, y
  <2>5. c[CK] = Byte - 1 - f /\ c[CK + 1] = Byte - 1 - g
    <3> DEFINE nf == Byte - 1 - f
               ng == Byte - 1 - g
               n == WithField(c, nf, ng)
    <3>1. nf \in Bytes /\ ng \in Bytes
      BY <1>1, <2>3
    <3>2. c = n
      BY <1>1, <2>3
    <3> HIDE DEF nf, ng
    <3>3. n[CK] = nf /\ n[CK + 1] = ng
      BY <1>1, <3>1, FieldWritten
    <3> HIDE DEF n
    <3>4. c[CK] = nf /\ c[CK + 1] = ng
      BY <3>2, <3>3
    <3> QED BY <3>4 DEF nf, ng
  <2>6. w[CK] = Byte - 1 - f2 /\ w[CK + 1] = Byte - 1 - g2
    <3> DEFINE nf == Byte - 1 - f2
               ng == Byte - 1 - g2
               n == WithField(w, nf, ng)
    <3>1. nf \in Bytes /\ ng \in Bytes
      BY <2>4
    <3>2. w = n
      BY <2>4
    <3> HIDE DEF nf, ng
    <3>3. n[CK] = nf /\ n[CK + 1] = ng
      BY <1>4, <3>1, FieldWritten
    <3> HIDE DEF n
    <3>4. w[CK] = nf /\ w[CK + 1] = ng
      BY <3>2, <3>3
    <3> QED BY <3>4 DEF nf, ng
  <2>7. f = f2 /\ g = g2
    <3>1. w[CK] = c[CK] /\ w[CK + 1] = c[CK + 1]
      <4>1. CK \in 1 .. Len(c) /\ CK + 1 \in 1 .. Len(c)
        BY <1>3 DEF CK
      <4> QED BY <1>5, <1>9, <4>1
    <3>2. f \in Int /\ g \in Int /\ f2 \in Int /\ g2 \in Int
      BY Sizes DEF Bytes
    <3> QED BY <2>5, <2>6, <3>1, <3>2, Sizes
  <2>8. Residue(WordSum(y)) = Residue(WordSum(z))
    BY <2>3, <2>4, <2>7
  <2> DEFINE x == [z EXCEPT ![k] = b]
  <2>9. y = x
    <3>1. x \in Messages /\ Len(x) = Len(z)
      BY <1>3, <2>1, WordSumExcept
    <3>2. z \in [1 .. Len(z) -> Bytes]
      BY <2>1, MessageShape
    <3>3. x[k] = b /\ \A j \in 1 .. Len(c) : j # k => x[j] = z[j]
      BY <1>3, <2>1, <3>2
    <3> HIDE DEF x
    <3>4. \A j \in 1 .. Len(y) : y[j] = x[j]
      BY <1>3, <1>5, <1>9, <2>1, <2>2, <3>3
    <3> QED BY <2>1, <2>2, <3>1, <3>4, SameBytes
  <2>10. WordSum(y) = WordSum(z) + (Weighted(y, k) - Weighted(z, k))
    BY <1>3, <2>1, <2>9, WordSumExcept
  <2>11. z[k] = c[k] /\ y[k] = b
    BY <1>3, <1>5, <1>9, <2>1, <2>2
  <2>12. /\ Weighted(y, k) # Weighted(z, k)
         /\ -Ones < Weighted(y, k) - Weighted(z, k)
         /\ Weighted(y, k) - Weighted(z, k) < Ones
    BY <1>6, <2>11, ByteMatters DEF Weighted
  <2>13. /\ WordSum(y) \in Nat /\ WordSum(z) \in Nat
         /\ Weighted(y, k) \in Nat /\ Weighted(z, k) \in Nat
    BY <1>3, <2>1, <2>2, SumsExist, WordSumIs, WeightedType
  <2>14. -Ones < WordSum(y) - WordSum(z) /\ WordSum(y) - WordSum(z) < Ones
    BY <2>10, <2>12, <2>13, Sizes
  <2>15. WordSum(y) = WordSum(z)
    BY <2>8, <2>13, <2>14, ResidueInjective
  <2> QED BY <2>10, <2>12, <2>13, <2>15
<1> QED BY <1>4, <1>8, <1>9

\* What the host stores from a folded sum is the RFC's checksum.
LEMMA StoredField ==
  ASSUME NEW m \in Messages, NEW x \in 0 .. Ones,
         Agrees(x, WordSum(Zeroed(m)))
  PROVE  /\ PutField(Zeroed(m), Ones - x) = Checksummed(m)
         /\ First(Ones - x) \in Bytes /\ Second(Ones - x) \in Bytes
         /\ Checksummed(m) = WithField(m, First(Ones - x), Second(Ones - x))
<1> DEFINE f == First(x)
           g == Second(x)
           nf == First(Ones - x)
           ng == Second(Ones - x)
<1>1. f \in Bytes /\ g \in Bytes
  BY BytesWord
<1>2. Byte * f + g = Residue(WordSum(Zeroed(m)))
  BY Cleared, SumsExist, WordSumIs, AgreesFinal
<1>3. nf = Byte - 1 - f /\ ng = Byte - 1 - g
  BY Complement
<1>4. nf \in Bytes /\ ng \in Bytes
  BY <1>1, <1>3, Sizes DEF Bytes
<1> HIDE DEF f, g
<1>5. Checksummed(m) = WithField(m, nf, ng)
  BY <1>1, <1>2, <1>3, ChecksummedIs
<1>6. PutField(Zeroed(m), Ones - x) = WithField(Zeroed(m), nf, ng)
  BY DEF PutField, WithField
<1> HIDE DEF nf, ng
<1>7. 0 \in Bytes
  BY Sizes DEF Bytes
<1>8. WithField(Zeroed(m), nf, ng) = WithField(m, nf, ng)
  BY <1>4, <1>7, Cleared, FieldTwice
<1> QED BY <1>4, <1>5, <1>6, <1>8 DEF nf, ng

\* checksum_ok() puts back the field it kept.
LEMMA FieldRestored ==
  ASSUME NEW m \in Messages
  PROVE  PutField(Zeroed(m), Word(m[CK], m[CK + 1])) = m
<1> DEFINE a == m[CK]
           b == m[CK + 1]
<1>1. a \in Bytes /\ b \in Bytes /\ WithField(m, a, b) = m
  BY FieldSame
<1> HIDE DEF a, b
<1>2. First(Word(a, b)) = a /\ Second(Word(a, b)) = b
  BY <1>1, WordBytes
<1>3. PutField(Zeroed(m), Word(a, b)) = WithField(Zeroed(m), a, b)
  BY <1>2 DEF PutField, WithField
<1>4. 0 \in Bytes
  BY Sizes DEF Bytes
<1>5. WithField(Zeroed(m), a, b) = WithField(m, a, b)
  BY <1>1, <1>4, Cleared, FieldTwice
<1> QED BY <1>1, <1>3, <1>5 DEF a, b

\* Comparing words compares messages.
LEMMA ComparisonDecides ==
  ASSUME NEW m \in Messages, NEW x \in 0 .. Ones,
         Agrees(x, WordSum(Zeroed(m)))
  PROVE  Ones - x = Word(m[CK], m[CK + 1]) <=> Checksummed(m) = m
<1>1. ASSUME Ones - x = Word(m[CK], m[CK + 1]) PROVE Checksummed(m) = m
  BY <1>1, StoredField, FieldRestored
<1>2. ASSUME Checksummed(m) = m PROVE Ones - x = Word(m[CK], m[CK + 1])
  <2> DEFINE nf == First(Ones - x)
             ng == Second(Ones - x)
             n == WithField(m, nf, ng)
  <2>1. nf \in Bytes /\ ng \in Bytes
    BY StoredField
  <2>2. n = m
    BY <1>2, StoredField
  <2>3. Ones - x \in 0 .. Ones
    BY Sizes
  <2>4. Word(nf, ng) = Ones - x
    BY <2>3, BytesWord
  <2> HIDE DEF nf, ng
  <2>5. n[CK] = nf /\ n[CK + 1] = ng
    BY <2>1, FieldWritten
  <2> HIDE DEF n
  <2>6. m[CK] = nf /\ m[CK + 1] = ng
    BY <2>2, <2>5
  <2> QED BY <2>4, <2>6
<1> QED BY <1>1, <1>2

-----------------------------------------------------------------------------
(* BufferRestored.                                                         *)

\* What the buffer holds: only the field differs from the message, and only
\* between the call of ft_checksum() and the return to its caller.
FieldInv ==
  /\ caller \in {"send_one", "checksum_ok"} /\ wire \in Messages
  /\ pc \in {"call", "words", "fold", "return", "done"}
  /\ caller = "checksum_ok" => (damaged <=> Checksummed(wire) # wire)
  /\ pc = "call" => buf = wire
  /\ pc \in {"words", "fold", "return"} =>
       buf = Zeroed(wire) /\ claimed = Word(wire[CK], wire[CK + 1])
  /\ pc = "done" /\ caller = "checksum_ok" => buf = wire

\* A caller starts from a message, damaged or not.
LEMMA FieldInit == Init => FieldInv
<1> SUFFICES ASSUME Init PROVE FieldInv
  OBVIOUS
<1>1. CASE caller = "send_one"
  <2>1. wire \in Messages
    BY <1>1 DEF Init
  <2> QED BY <1>1, <2>1 DEF Init, FieldInv
<1>2. CASE caller = "checksum_ok"
  <2>1. PICK x \in Messages :
          \/ damaged = FALSE /\ wire = Checksummed(Zeroed(x))
          \/ damaged = TRUE /\ wire \in Damage(Checksummed(Zeroed(x)))
    BY <1>2 DEF Init
  <2>2. Zeroed(x) \in Messages
    BY Cleared
  <2>3. wire \in Messages /\ (damaged <=> Checksummed(wire) # wire)
    <3>1. CASE damaged = FALSE /\ wire = Checksummed(Zeroed(x))
      BY <2>2, <3>1, ChecksummedShape, IntactVerifies
    <3>2. CASE damaged = TRUE /\ wire \in Damage(Checksummed(Zeroed(x)))
      BY <2>2, <3>2, DamageDetected
    <3> QED BY <2>1, <3>1, <3>2
  <2> QED BY <1>2, <2>3 DEF Init, FieldInv
<1> QED BY <1>1, <1>2 DEF Init

\* Every step keeps FieldInv.
LEMMA FieldStep == FieldInv /\ [Next]_vars => FieldInv'
<1> SUFFICES ASSUME FieldInv, [Next]_vars PROVE FieldInv'
  OBVIOUS
<1>1. CASE call
  <2>1. buf = wire /\ wire \in Messages
    BY <1>1 DEF call, FieldInv
  <2>2. buf' = Zeroed(wire)
    BY <1>1, <2>1, Cleared DEF call
  <2>3. claimed' = Word(wire[CK], wire[CK + 1])
    BY <1>1, <2>1 DEF call
  <2>4. Word(wire[CK], wire[CK + 1])' = Word(wire[CK], wire[CK + 1])
    BY <1>1 DEF call, Word
  <2>5. pc' = "words" /\ UNCHANGED <<caller, wire, damaged>>
    BY <1>1 DEF call
  <2> QED BY <2>2, <2>3, <2>4, <2>5 DEF FieldInv, Zeroed
<1>2. ASSUME UNCHANGED <<endian, caller, wire, damaged, buf, claimed>>,
             pc \in {"words", "fold"}, pc' \in {"words", "fold", "return"}
      PROVE  FieldInv'
  <2>1. Word(wire[CK], wire[CK + 1])' = Word(wire[CK], wire[CK + 1])
    BY <1>2 DEF Word
  <2>2. /\ Zeroed(wire)' = Zeroed(wire)
        /\ Checksummed(wire)' = Checksummed(wire)
    BY <1>2
  <2> QED BY <1>2, <2>1, <2>2 DEF FieldInv
<1>3. CASE add_word
  BY <1>2, <1>3 DEF add_word
<1>4. CASE add_last
  BY <1>2, <1>4 DEF add_last
<1>5. CASE fold
  BY <1>2, <1>5 DEF fold
<1>6. CASE verify
  <2>1. /\ buf = Zeroed(wire) /\ claimed = Word(wire[CK], wire[CK + 1])
        /\ wire \in Messages
    BY <1>6 DEF verify, FieldInv
  <2>2. buf' = wire
    BY <1>6, <2>1, FieldRestored DEF verify
  <2>3. pc' = "done" /\ UNCHANGED <<caller, wire, damaged>>
    BY <1>6 DEF verify
  <2> QED BY <2>2, <2>3 DEF FieldInv
<1>7. CASE store
  <2>1. pc' = "done" /\ caller = "send_one" /\ UNCHANGED <<caller, wire, damaged>>
    BY <1>7 DEF store
  <2> QED BY <2>1 DEF FieldInv
<1>8. CASE UNCHANGED vars
  <2>1. Word(wire[CK], wire[CK + 1])' = Word(wire[CK], wire[CK + 1])
    BY <1>8 DEF vars, Word
  <2>2. /\ Zeroed(wire)' = Zeroed(wire)
        /\ Checksummed(wire)' = Checksummed(wire)
    BY <1>8 DEF vars
  <2> QED BY <1>8, <2>1, <2>2 DEF vars, FieldInv
<1> QED BY <1>1, <1>3, <1>4, <1>5, <1>6, <1>7, <1>8 DEF Next

\* checksum_ok() leaves every message as it found it, intact or damaged, so
\* that the ICMP-error path reads what was received.
THEOREM BufferIsRestored == Spec => []BufferRestored
<1>1. FieldInv => BufferRestored
  BY DEF FieldInv, BufferRestored
<1> QED BY FieldInit, FieldStep, <1>1, PTL DEF Spec
-----------------------------------------------------------------------------
(* SumFits, SentAsRFC1071 and AcceptsExactlyIntact.                        *)

\* x stands for the bytes of m before byte q.
PrefixAgrees(m, x, q) ==
  \A u : SumsTo(u, m, Len(m)) => Agrees(x, u[q - 1])

\* Nothing is added at first.
LEMMA PrefixStart ==
  ASSUME NEW m
  PROVE  PrefixAgrees(m, 0, 1)
<1> SUFFICES ASSUME NEW u, SumsTo(u, m, Len(m)) PROVE Agrees(0, u[0])
  BY DEF PrefixAgrees
<1>1. u[0] = 0
  BY DEF SumsTo
<1>2. Unit * 0 = 0 + Ones * 0
  BY Sizes DEF Unit
<1> QED BY <1>1, <1>2 DEF Agrees

\* A word of the message moves two bytes on.
LEMMA PrefixWord ==
  ASSUME NEW m \in Messages, NEW x \in Nat, NEW q \in Nat,
         q >= 1, q % 2 = 1, q + 1 <= Len(m), PrefixAgrees(m, x, q)
  PROVE  /\ Word(m[q], m[q + 1]) \in 0 .. Ones
         /\ PrefixAgrees(m, x + Word(m[q], m[q + 1]), q + 2)
<1> DEFINE a == m[q]
           b == m[q + 1]
<1>1. Len(m) \in Nat /\ q \in 1 .. Len(m) /\ q + 1 \in 1 .. Len(m)
  BY MessageShape
<1>2. a \in Bytes /\ b \in Bytes
  BY <1>1, MessageShape
<1>3. Weighted(m, q) = Byte * a /\ Weighted(m, q + 1) = b
  <2>1. (q + 1) % 2 # 1
    OBVIOUS
  <2> QED BY <2>1 DEF Weighted
<1>4. ASSUME NEW u, SumsTo(u, m, Len(m))
      PROVE  Agrees(x + Word(a, b), u[(q + 2) - 1])
  <2>1. u[q] = u[q - 1] + Weighted(m, q) /\ u[q - 1] \in Nat
    BY <1>1, <1>4 DEF SumsTo
  <2>2. u[q + 1] = u[(q + 1) - 1] + Weighted(m, q + 1) /\ (q + 1) - 1 = q
    BY <1>1, <1>4 DEF SumsTo
  <2>3. Byte * a \in Nat /\ b \in Nat
    BY <1>2, Sizes DEF Bytes
  <2> DEFINE t == u[q - 1]
  <2>4. u[q + 1] = t + (Byte * a + b)
    BY <1>3, <2>1, <2>2, <2>3
  <2>5. Agrees(x, t)
    BY <1>4 DEF PrefixAgrees
  <2>6. (q + 2) - 1 = q + 1
    OBVIOUS
  <2> HIDE DEF a, b, t
  <2>7. t \in Nat
    BY <2>1 DEF t
  <2>8. Agrees(x + Word(a, b), t + (Byte * a + b))
    BY <1>2, <2>5, <2>7, AgreesAdd
  <2> QED BY <2>4, <2>6, <2>8
<1>5. Word(a, b) \in 0 .. Ones
  <2> HIDE DEF a, b
  <2> QED BY <1>2, WordBytes
<1> QED BY <1>4, <1>5 DEF PrefixAgrees

\* After the last word the sum stands for the message.
LEMMA PrefixEnd ==
  ASSUME NEW m \in Messages, NEW x \in Nat, PrefixAgrees(m, x, Len(m) + 1)
  PROVE  Agrees(x, WordSum(m))
<1>1. PICK u : SumsTo(u, m, Len(m))
  BY SumsExist
<1>2. (Len(m) + 1) - 1 = Len(m)
  BY MessageShape
<1>3. Agrees(x, u[Len(m)])
  BY <1>1, <1>2 DEF PrefixAgrees
<1> QED BY <1>1, <1>3, WordSumIs

\* So it does with an odd byte put into a zeroed word.
LEMMA PrefixLast ==
  ASSUME NEW m \in Messages, NEW x \in Nat, Len(m) % 2 = 1,
         PrefixAgrees(m, x, Len(m))
  PROVE  /\ Word(m[Len(m)], 0) \in 0 .. Ones
         /\ Agrees(x + Word(m[Len(m)], 0), WordSum(m))
<1> DEFINE L == Len(m)
           a == m[L]
<1>1. L \in Nat /\ L \in 1 .. L /\ a \in Bytes /\ 0 \in Bytes
  <2>1. L \in Nat /\ L \in 1 .. L /\ m \in [1 .. L -> Bytes]
    BY MessageShape
  <2>2. 0 \in Bytes
    BY Sizes DEF Bytes
  <2> QED BY <2>1, <2>2
<1>2. PICK u : SumsTo(u, m, L)
  BY SumsExist
<1>3. u[L] = u[L - 1] + Byte * a /\ u[L - 1] \in Nat
  <2>1. Weighted(m, L) = Byte * a
    BY DEF Weighted
  <2> QED BY <1>1, <1>2, <2>1 DEF SumsTo
<1> DEFINE t == u[L - 1]
<1>4. Agrees(x, t)
  BY <1>2 DEF PrefixAgrees
<1>5. Byte * a \in Nat
  BY <1>1, Sizes DEF Bytes
<1> HIDE DEF a, t
<1>6. t \in Nat /\ u[L] = t + (Byte * a + 0)
  BY <1>3, <1>5 DEF t
<1>7. Agrees(x + Word(a, 0), t + (Byte * a + 0)) /\ Word(a, 0) \in 0 .. Ones
  BY <1>1, <1>4, <1>6, AgreesAdd, WordBytes
<1>8. WordSum(m) = u[L]
  BY <1>2, WordSumIs
<1> QED BY <1>6, <1>7, <1>8 DEF a

\* Words that a length still holds.
WordsLeft(n) == (n + 1) \div 2

\* A word taken leaves one less.
LEMMA LeftWords ==
  ASSUME NEW n \in Nat
  PROVE  /\ WordsLeft(n) \in Nat /\ WordsLeft(0) = 0 /\ WordsLeft(1) = 1
         /\ n > 1 => WordsLeft(n) = WordsLeft(n - 2) + 1 /\ WordsLeft(n - 2) \in Nat
         /\ n <= 2 * U16 => WordsLeft(n) <= U16
BY Sizes DEF WordsLeft

\* x and the n words to come fit in a uint32_t.
Room(x, n) == x + n * Ones < U32

\* Adding a word uses up the room for one.
LEMMA RoomAdd ==
  ASSUME NEW x \in Nat, NEW n \in Nat, NEW w \in 0 .. Ones, Room(x, n + 1)
  PROVE  Room(x + w, n) /\ (x + w) % U32 = x + w /\ x + w \in Nat
<1> DEFINE t == n * Ones
           y == x + w
<1>1. (n + 1) * Ones = t + Ones /\ t \in Nat
  BY Sizes
<1>2. Room(y, n)
  <2> HIDE DEF t
  <2>1. y + t < U32
    BY <1>1, Sizes DEF Room
  <2> QED BY <2>1 DEF Room, t
<1>3. y \in 0 .. U32 - 1 /\ y \in Nat
  <2> HIDE DEF t
  <2> QED BY <1>1, Sizes DEF Room
<1>4. y % U32 = y
  <2> HIDE DEF y
  <2> QED BY <1>3, Sizes
<1> QED BY <1>2, <1>3, <1>4

\* A smaller sum, or fewer words, leaves as much room.
LEMMA RoomLess ==
  ASSUME NEW x \in Nat, NEW y \in Nat, NEW n \in Nat, NEW k \in Nat,
         y <= x, k <= n, Room(x, n)
  PROVE  Room(y, k)
<1>1. k * Ones <= n * Ones /\ k * Ones \in Nat /\ n * Ones \in Nat
  BY Sizes
<1> QED BY <1>1, Sizes DEF Room

\* There is room for a message of 2 * U16 bytes, and a word more.
LEMMA RoomAtCall ==
  ASSUME NEW n \in Nat, n <= U16
  PROVE  Room(0, n + 1)
<1>1. (n + 1) * Ones <= (U16 + 1) * Ones
  BY Sizes
<1>2. (U16 + 1) * Ones = U32 - 1
  BY Sizes
<1>3. (n + 1) * Ones \in Nat
  BY Sizes
<1> QED BY <1>1, <1>2, <1>3, Sizes DEF Room

\* The sum at every step of ft_checksum(): within its uint32_t and in step
\* with the RFC's over the bytes taken so far; and what its callers end with.
SumInv ==
  /\ sum \in Nat /\ len \in Nat /\ p \in Nat
  /\ Room(sum, WordsLeft(len))
  /\ pc = "call" => sum = 0 /\ len = 0
  /\ pc = "words" => /\ p >= 1 /\ p % 2 = 1 /\ p + len = Len(buf) + 1
                     /\ PrefixAgrees(buf, sum, p)
                     /\ Room(sum, WordsLeft(len) + 1)
  /\ pc \in {"fold", "return"} => Agrees(sum, WordSum(buf))
  /\ pc = "return" => sum <= Ones
  /\ pc = "done" /\ caller = "send_one" => buf = Checksummed(wire)
  /\ pc = "done" /\ caller = "checksum_ok" => (ok <=> Checksummed(wire) = wire)

\* A call starts from nothing.
LEMMA SumInit == Init => SumInv
<1> SUFFICES ASSUME Init PROVE SumInv
  OBVIOUS
<1>1. pc = "call" /\ sum = 0 /\ len = 0 /\ p = 1
  BY DEF Init
<1>2. Room(0, WordsLeft(0))
  <2>1. WordsLeft(0) = 0 /\ 0 * Ones = 0 /\ U32 > 0
    BY LeftWords, Sizes
  <2> QED BY <2>1 DEF Room
<1> QED BY <1>1, <1>2 DEF SumInv

\* Every step keeps SumInv, given messages of at most 2 * U16 bytes.
LEMMA SumStep ==
  ASSUME \A n \in Lengths : n <= 2 * U16
  PROVE  FieldInv /\ SumInv /\ [Next]_vars => SumInv'
<1> SUFFICES ASSUME FieldInv, SumInv, [Next]_vars PROVE SumInv'
  OBVIOUS
<1>1. CASE call
  <2>1. /\ buf' = Zeroed(wire) /\ Zeroed(wire) \in Messages
        /\ Len(Zeroed(wire)) = Len(wire) /\ len' = Len(wire)
        /\ Len(wire) \in Lengths /\ Len(wire) \in Nat
    <3>1. buf = wire /\ wire \in Messages
      BY <1>1 DEF call, FieldInv
    <3> QED BY <1>1, <3>1, Cleared, MessageShape DEF call
  <2>2. pc' = "words" /\ p' = 1 /\ sum' = 0
    BY <1>1 DEF call
  <2>3. WordsLeft(len') \in Nat /\ WordsLeft(len') <= U16
    BY <2>1, LeftWords
  <2>4. Room(0, WordsLeft(len') + 1)
    BY <2>3, RoomAtCall
  <2>5. Room(0, WordsLeft(len'))
    BY <2>3, <2>4, RoomLess
  <2>6. PrefixAgrees(buf, sum, p)'
    <3>1. PrefixAgrees(buf', 0, 1)
      BY PrefixStart
    <3>2. endian' = endian
      BY <1>1 DEF call
    <3> QED BY <2>2, <3>1, <3>2 DEF PrefixAgrees, SumsTo, Weighted, Agrees, Unit
  <2>7. (p + len = Len(buf) + 1)' /\ p' >= 1 /\ p' % 2 = 1
    BY <2>1, <2>2
  <2> QED BY <2>1, <2>2, <2>4, <2>5, <2>6, <2>7 DEF SumInv
<1>2. CASE add_word
  <2>1. /\ pc = "words" /\ pc' = "words" /\ len > 1
        /\ UNCHANGED <<endian, caller, wire, buf>>
        /\ sum' = (sum + Word(buf[p], buf[p + 1])) % U32
        /\ p' = p + 2 /\ len' = len - 2
    BY <1>2 DEF add_word
  <2>2. /\ sum \in Nat /\ len \in Nat /\ p \in Nat /\ p >= 1 /\ p % 2 = 1
        /\ p + len = Len(buf) + 1 /\ PrefixAgrees(buf, sum, p)
        /\ Room(sum, WordsLeft(len) + 1)
    BY <2>1 DEF SumInv
  <2>3. buf \in Messages /\ Len(buf) \in Nat
    BY <2>1, Cleared, MessageShape DEF FieldInv
  <2> DEFINE w == Word(buf[p], buf[p + 1])
             k == WordsLeft(len - 2)
  <2>4. p + 1 <= Len(buf)
    BY <2>1, <2>2, <2>3
  <2>5. w \in 0 .. Ones /\ PrefixAgrees(buf, sum + w, p + 2)
    BY <2>2, <2>3, <2>4, PrefixWord
  <2>6. k \in Nat /\ WordsLeft(len) = k + 1
    BY <2>1, <2>2, LeftWords
  <2> HIDE DEF w, k
  <2>7. Room(sum + w, k + 1) /\ (sum + w) % U32 = sum + w /\ sum + w \in Nat
    BY <2>2, <2>5, <2>6, RoomAdd
  <2>8. sum' = sum + w
    BY <2>1, <2>7 DEF w
  <2>9. Room(sum + w, k)
    BY <2>6, <2>7, RoomLess
  <2>10. PrefixAgrees(buf, sum, p)'
    <3>1. PrefixAgrees(buf, sum', p')
      BY <2>1, <2>5, <2>8
    <3> QED BY <2>1, <3>1 DEF PrefixAgrees, SumsTo, Weighted, Agrees, Unit
  <2>11. WordsLeft(len') = k
    BY <2>1 DEF k
  <2>12. /\ len' \in Nat /\ p' \in Nat /\ p' >= 1 /\ p' % 2 = 1
         /\ (p + len = Len(buf) + 1)'
    BY <2>1, <2>2, <2>3
  <2> QED BY <2>1, <2>7, <2>8, <2>9, <2>10, <2>11, <2>12 DEF SumInv
<1>3. CASE add_last
  <2>1. /\ pc = "words" /\ pc' = "fold" /\ len <= 1
        /\ UNCHANGED <<endian, caller, wire, buf, p, len>>
        /\ sum' = IF len = 1 THEN (sum + Word(buf[p], 0)) % U32 ELSE sum
    BY <1>3 DEF add_last
  <2>2. /\ sum \in Nat /\ len \in Nat /\ p \in Nat /\ p >= 1 /\ p % 2 = 1
        /\ p + len = Len(buf) + 1 /\ PrefixAgrees(buf, sum, p)
        /\ Room(sum, WordsLeft(len) + 1) /\ Room(sum, WordsLeft(len))
    BY <2>1 DEF SumInv
  <2>3. buf \in Messages /\ Len(buf) \in Nat
    BY <2>1, Cleared, MessageShape DEF FieldInv
  <2>4. /\ sum' \in Nat /\ Room(sum', WordsLeft(len))
        /\ Agrees(sum', WordSum(buf))
    <3>1. CASE len = 0
      <4>1. p = Len(buf) + 1 /\ sum' = sum
        BY <2>1, <2>2, <2>3, <3>1
      <4> QED BY <2>2, <2>3, <4>1, PrefixEnd
    <3>2. CASE len = 1
      <4>1. p = Len(buf) /\ sum' = (sum + Word(buf[p], 0)) % U32
        BY <2>1, <2>2, <2>3, <3>2
      <4> DEFINE w == Word(buf[p], 0)
                 k == WordsLeft(len)
      <4>2. w \in 0 .. Ones /\ Agrees(sum + w, WordSum(buf))
        BY <2>2, <2>3, <4>1, PrefixLast
      <4>3. k \in Nat
        BY <2>2, LeftWords
      <4> HIDE DEF w
      <4>4. /\ Room(sum + w, k) /\ (sum + w) % U32 = sum + w
            /\ sum + w \in Nat
        <5>1. Room(sum, k + 1)
          BY <2>2
        <5> HIDE DEF k
        <5> QED BY <2>2, <4>2, <4>3, <5>1, RoomAdd
      <4>5. sum' = sum + w
        BY <4>1, <4>4 DEF w
      <4> QED BY <4>2, <4>4, <4>5
    <3> QED BY <2>1, <2>2, <3>1, <3>2
  <2>5. Agrees(sum, WordSum(buf))'
    <3>1. WordSum(buf)' = WordSum(buf) /\ endian' = endian
      BY <2>1
    <3> QED BY <2>4, <3>1 DEF Agrees, Unit
  <2>6. WordsLeft(len') = WordsLeft(len)
    BY <2>1
  <2> QED BY <2>1, <2>2, <2>4, <2>5, <2>6 DEF SumInv
<1>4. CASE fold
  <2>1. /\ pc = "fold" /\ UNCHANGED <<endian, caller, wire, buf, p, len>>
        /\ sum \in Nat /\ len \in Nat /\ p \in Nat
        /\ Room(sum, WordsLeft(len)) /\ Agrees(sum, WordSum(buf))
    BY <1>4 DEF fold, SumInv
  <2>2. buf \in Messages /\ WordSum(buf) \in Nat
    <3>1. buf \in Messages
      BY <2>1, Cleared DEF FieldInv
    <3> QED BY <3>1, SumsExist, WordSumIs
  <2>3. \/ sum' = (sum % U16) + (sum \div U16) /\ pc' = "fold"
        \/ pc' = "return" /\ sum' = sum /\ sum < U16
    BY <1>4, <2>1, Sizes DEF fold
  <2>4. sum' \in Nat /\ sum' <= sum /\ Agrees(sum', WordSum(buf))
    BY <2>1, <2>2, <2>3, AgreesFold
  <2>5. WordsLeft(len') = WordsLeft(len) /\ WordsLeft(len) \in Nat
    BY <2>1, LeftWords
  <2>6. Room(sum', WordsLeft(len))
    BY <2>1, <2>4, <2>5, RoomLess
  <2>7. Agrees(sum, WordSum(buf))'
    <3>1. WordSum(buf)' = WordSum(buf) /\ endian' = endian
      BY <2>1
    <3> QED BY <2>4, <3>1 DEF Agrees, Unit
  <2>8. pc' = "return" => sum' <= Ones
    BY <2>1, <2>3, Sizes
  <2>9. pc' \in {"fold", "return"}
    BY <2>3
  <2> QED BY <2>1, <2>4, <2>5, <2>6, <2>7, <2>8, <2>9 DEF SumInv
<1>5. ASSUME pc = "return"
      PROVE  /\ wire \in Messages /\ sum \in 0 .. Ones
             /\ buf = Zeroed(wire) /\ claimed = Word(wire[CK], wire[CK + 1])
             /\ Agrees(sum, WordSum(Zeroed(wire))) /\ Result = Ones - sum
  <2>1. sum \in Nat /\ sum <= Ones /\ Agrees(sum, WordSum(buf))
    BY <1>5 DEF SumInv
  <2>2. sum \in 0 .. Ones
    BY <2>1, Sizes
  <2>3. wire \in Messages /\ buf = Zeroed(wire)
        /\ claimed = Word(wire[CK], wire[CK + 1])
    BY <1>5 DEF FieldInv
  <2> QED BY <2>1, <2>2, <2>3 DEF Result, Ones
<1>6. CASE verify
  <2>1. /\ pc = "return" /\ pc' = "done" /\ caller = "checksum_ok"
        /\ UNCHANGED <<caller, wire, p, len, sum>> /\ ok' = (Result = claimed)
    BY <1>6 DEF verify
  <2>2. Ones - sum = Word(wire[CK], wire[CK + 1]) <=> Checksummed(wire) = wire
    BY <1>5, <2>1, ComparisonDecides
  <2>3. ok' <=> Checksummed(wire) = wire
    <3>1. Result = claimed <=> Ones - sum = Word(wire[CK], wire[CK + 1])
      BY <1>5, <2>1
    <3> QED BY <2>1, <2>2, <3>1
  <2>4. Checksummed(wire)' = Checksummed(wire)
    BY <2>1
  <2> QED BY <2>1, <2>3, <2>4 DEF SumInv
<1>7. CASE store
  <2>1. /\ pc = "return" /\ pc' = "done" /\ caller = "send_one"
        /\ UNCHANGED <<caller, wire, p, len, sum>>
        /\ buf' = PutField(buf, Result)
    BY <1>7 DEF store
  <2>2. buf' = Checksummed(wire)
    <3>1. PutField(Zeroed(wire), Ones - sum) = Checksummed(wire)
      BY <1>5, <2>1, StoredField
    <3> QED BY <1>5, <2>1, <3>1
  <2>3. Checksummed(wire)' = Checksummed(wire)
    BY <2>1
  <2> QED BY <2>1, <2>2, <2>3 DEF SumInv
<1>8. CASE UNCHANGED vars
  <2>1. UNCHANGED <<endian, caller, wire, buf, p, len, sum, pc, ok>>
    BY <1>8 DEF vars
  <2>2. /\ Checksummed(wire)' = Checksummed(wire)
        /\ WordSum(buf)' = WordSum(buf)
    BY <2>1
  <2>3. /\ PrefixAgrees(buf, sum, p)' <=> PrefixAgrees(buf, sum, p)
        /\ Agrees(sum, WordSum(buf))' <=> Agrees(sum, WordSum(buf))
    BY <2>1, <2>2 DEF PrefixAgrees, SumsTo, Weighted, Agrees, Unit
  <2> QED BY <2>1, <2>2, <2>3 DEF SumInv
<1> QED BY <1>1, <1>2, <1>3, <1>4, <1>6, <1>7, <1>8 DEF Next

\* The 32-bit sum of ft_checksum() never overflows and the loop never reads
\* past the message, for any message of at most 2 * U16 bytes: 131072, twice
\* what an IP datagram can hold.
THEOREM SumNeverOverflows ==
  ASSUME \A n \in Lengths : n <= 2 * U16
  PROVE  Spec => []SumFits
<1>1. SumInv => SumFits
  BY DEF SumInv, SumFits, Room, WordsLeft, Ones
<1> QED BY FieldInit, FieldStep, SumInit, SumStep, <1>1, PTL DEF Spec

\* What send_one() stores is the RFC 1071 checksum in network order, on hosts
\* of either byte order, for odd lengths, and whatever the field held.
THEOREM SentChecksumIsRFC1071 ==
  ASSUME \A n \in Lengths : n <= 2 * U16
  PROVE  Spec => []SentAsRFC1071
<1>1. SumInv => SentAsRFC1071
  BY DEF SumInv, SentAsRFC1071
<1> QED BY FieldInit, FieldStep, SumInit, SumStep, <1>1, PTL DEF Spec

\* checksum_ok() accepts every message sent with the RFC's checksum and none
\* in which one byte was altered.
THEOREM OneByteIsNoticed ==
  ASSUME \A n \in Lengths : n <= 2 * U16
  PROVE  Spec => []AcceptsExactlyIntact
<1>1. FieldInv /\ SumInv => AcceptsExactlyIntact
  BY DEF FieldInv, SumInv, AcceptsExactlyIntact
<1> QED BY FieldInit, FieldStep, SumInit, SumStep, <1>1, PTL DEF Spec
=============================================================================
