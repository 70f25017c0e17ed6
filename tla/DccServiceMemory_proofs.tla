---------------------- MODULE DccServiceMemory_proofs -----------------------
(***************************************************************************)
(* What the tasks of DccServiceTasks know of the decoder's CVs, for every  *)
(* decoder, CV width and number of starts and lost acknowledgements: that  *)
(* success is true, that undisturbed tasks are exact and that a write      *)
(* keeps the other bits.                                                   *)
(*                                                                         *)
(* The invariant, TaskInv, says for each state of each task which packets  *)
(* the operation in progress is (Asked, Left), what an answer to them      *)
(* means (Answer) and, while nothing disturbs, what the task has learned   *)
(* so far (Knows).                                                         *)
(***************************************************************************)
EXTENDS DccServiceTasks_proofs, FiniteSetTheorems, WellFoundedInduction

(***************************************************************************)
(* Powers of two and the bits of a value.                                  *)
(***************************************************************************)
\* 2^n counts the subsets of n things.
LEMMA PowSubsets ==
  ASSUME NEW n \in Nat
  PROVE  /\ 2^n = Cardinality(SUBSET (1..n)) /\ IsFiniteSet(SUBSET (1..n))
         /\ 2^n \in Nat \ {0}
<1>1. IsFiniteSet(1..n) /\ Cardinality(1..n) = n
  BY FS_Interval
<1>2. 2^n = Cardinality(SUBSET (1..n)) /\ IsFiniteSet(SUBSET (1..n))
  BY <1>1, FS_SUBSET
<1>3. Cardinality(SUBSET (1..n)) \in Nat /\ Cardinality(SUBSET (1..n)) # 0
  BY <1>2, FS_CardinalityType, FS_EmptySet, {} \in SUBSET (1..n)
<1> QED
  BY <1>2, <1>3

LEMMA PowZero == 2^0 = 1
<1>1. SUBSET (1..0) = {{}}
  OBVIOUS
<1>2. Cardinality({{}}) = 1
  BY FS_Singleton
<1> QED
  BY <1>1, <1>2, PowSubsets

LEMMA PowStep ==
  ASSUME NEW n \in Nat
  PROVE  2^(n+1) = 2 * 2^n
<1> DEFINE m == n + 1
           A == SUBSET (1..n)
           B == {T \cup {m} : T \in A}
           f == [T \in A |-> T \cup {m}]
<1>0. m \in Nat /\ m \notin 1..n /\ 1..m = (1..n) \cup {m}
  OBVIOUS
<1>a. IsFiniteSet(A) /\ Cardinality(A) = 2^n /\ 2^n \in Nat
  BY PowSubsets
<1>b. Cardinality(SUBSET (1..m)) = 2^m
  BY <1>0, PowSubsets
<1> HIDE DEF m
<1>1. SUBSET (1..m) = A \cup B
  <2>1. ASSUME NEW T \in SUBSET (1..m), m \in T
        PROVE  T \in B
    <3>1. T \ {m} \in A
      BY <1>0
    <3>2. T = (T \ {m}) \cup {m}
      BY <2>1
    <3> QED
      BY <3>1, <3>2
  <2>2. ASSUME NEW T \in SUBSET (1..m), m \notin T
        PROVE  T \in A
    BY <1>0, <2>2
  <2>3. A \cup B \subseteq SUBSET (1..m)
    BY <1>0
  <2> QED
    BY <2>1, <2>2, <2>3
<1>2. A \cap B = {}
  BY <1>0
<1>3. f \in Bijection(A, B)
  <2>1. f \in [A -> B] /\ \A T \in A : f[T] = T \cup {m}
    OBVIOUS
  <2>2. ASSUME NEW S \in A, NEW T \in A, S \cup {m} = T \cup {m}
        PROVE  S = T
    <3>1. m \notin S /\ m \notin T
      BY <1>0
    <3> QED
      BY <2>2, <3>1
  <2>3. \A S, T \in A : f[S] = f[T] => S = T
    BY <2>1, <2>2
  <2>4. \A y \in B : \E x \in A : f[x] = y
    OBVIOUS
  <2> HIDE DEF A, B, f
  <2> QED
    BY <2>1, <2>3, <2>4 DEF Bijection, Injection, Surjection, IsInjective
<1>4. Cardinality(B) = Cardinality(A) /\ IsFiniteSet(B)
  <2>1. ExistsBijection(A, B)
    BY <1>3 DEF ExistsBijection
  <2> HIDE DEF A, B, f
  <2> QED
    BY <2>1, <1>a, FS_Bijection
<1>5. Cardinality(A \cup B) = Cardinality(A) + Cardinality(B) - 0
  <2>2. Cardinality(A \cap B) = 0
    BY <1>2, FS_EmptySet
  <2> HIDE DEF A, B, f
  <2> QED
    BY <1>a, <1>4, <2>2, FS_Union
<1>6. 2^m = Cardinality(A) + Cardinality(B) - 0
  <2> HIDE DEF A, B, f
  <2> QED
    BY <1>b, <1>1, <1>5
<1>7. 2^m = 2 * 2^n
  <2> DEFINE x == 2^n
             y == 2^m
             k == Cardinality(B)
  <2>1. x \in Nat /\ k = x /\ y = x + k - 0
    BY <1>a, <1>4, <1>6
  <2> HIDE DEF x, y, k
  <2>2. y = 2 * x
    BY <2>1
  <2> QED
    BY <2>2 DEF x, y
<1> QED
  BY <1>7 DEF m

LEMMA PowSum ==
  ASSUME NEW a \in Nat, NEW b \in Nat
  PROVE  2^(a + b) = 2^a * 2^b
<1> DEFINE S == {n \in Nat : 2^(a + n) # 2^a * 2^n}
<1> SUFFICES ASSUME S # {} PROVE FALSE
  OBVIOUS
<1>1. PICK n \in S : \A k \in Nat : k < n => k \notin S
  <2> DEFINE R == {ss \in Nat \X Nat : ss[1] < ss[2]}
  <2>1. IsWellFoundedOn(R, Nat)
    BY NatLessThanWellFounded DEF OpToRel
  <2>2. S \subseteq Nat
    OBVIOUS
  <2>3. \A y, x \in Nat : <<y, x>> \in R <=> y < x
    OBVIOUS
  <2> HIDE DEF R, S
  <2>4. PICK x \in S : \A y \in S : ~ (<<y, x>> \in R)
    BY <2>1, <2>2, WFMin
  <2> QED
    BY <2>2, <2>3, <2>4
<1>2. n # 0
  <2>1. \A p \in Nat : p * 1 = p
    OBVIOUS
  <2>a. 2^a \in Nat
    BY PowSubsets
  <2>2. 2^a \in Nat /\ a + 0 = a
    BY <2>a
  <2>3. 2^(a + 0) = 2^a * 2^0
    BY <2>1, <2>2, PowZero
  <2> QED
    BY <2>3
<1>3. n - 1 \in Nat /\ n - 1 < n /\ a + (n - 1) \in Nat
  BY <1>2
<1>4. 2^(a + (n - 1)) = 2^a * 2^(n - 1)
  BY <1>1, <1>3
<1>5. 2^((a + (n - 1)) + 1) = 2 * 2^(a + (n - 1)) /\ 2^((n - 1) + 1) = 2 * 2^(n - 1)
  BY <1>3, PowStep
<1>6. (a + (n - 1)) + 1 = a + n /\ (n - 1) + 1 = n
  OBVIOUS
<1>7. \A p, q \in Nat : 2 * (p * q) = p * (2 * q)
  OBVIOUS
<1>8. 2^a \in Nat /\ 2^(n - 1) \in Nat
  BY <1>3, PowSubsets
<1>9. 2 * (2^a * 2^(n - 1)) = 2^a * (2 * 2^(n - 1))
  BY <1>7, <1>8
<1> QED
  BY <1>1, <1>4, <1>5, <1>6, <1>9

\* Division with remainder.
LEMMA DivMod ==
  ASSUME NEW a \in Nat, NEW P \in Nat \ {0}
  PROVE  /\ a \div P \in Nat /\ (a % P) \in 0..P - 1
         /\ a = (a \div P) * P + (a % P)
OBVIOUS

LEMMA DivUnique ==
  ASSUME NEW P \in Nat \ {0}, NEW q \in Nat, NEW r \in 0..P - 1
  PROVE  (q * P + r) \div P = q
<1> DEFINE a == q * P + r
           k == a \div P
           s == a % P
<1>1. a \in Nat
  OBVIOUS
<1> HIDE DEF a
<1>2. k \in Nat /\ s \in 0..P - 1 /\ a = k * P + s
  BY <1>1, DivMod
<1>3. a = q * P + r
  BY DEF a
<1> HIDE DEF k, s
<1>4. ASSUME k < q PROVE FALSE
  <2>1. (k + 1) * P <= q * P
    BY <1>2, <1>4
  <2>2. (k + 1) * P = k * P + P
    BY <1>2
  <2> QED
    BY <2>1, <2>2, <1>2, <1>3
<1>5. ASSUME q < k PROVE FALSE
  <2>1. (q + 1) * P <= k * P
    BY <1>2, <1>5
  <2>2. (q + 1) * P = q * P + P
    BY <1>2
  <2> QED
    BY <2>1, <2>2, <1>2, <1>3
<1> QED
  BY <1>2, <1>4, <1>5 DEF k, a

\* Dividing twice is dividing by the product.
LEMMA DivTwice ==
  ASSUME NEW a \in Nat, NEW P \in Nat \ {0}, NEW Q \in Nat \ {0}
  PROVE  a \div (P * Q) = (a \div P) \div Q
<1> DEFINE k == a \div P
           r == a % P
           l == k \div Q
           s == k % Q
<1>1. k \in Nat /\ r \in 0..P - 1 /\ a = k * P + r
  BY DivMod
<1> HIDE DEF k, r
<1>2. l \in Nat /\ s \in 0..Q - 1 /\ k = l * Q + s
  BY <1>1, DivMod
<1> HIDE DEF l, s
<1>3. P * Q \in Nat \ {0}
  OBVIOUS
<1>4. a = l * (P * Q) + (s * P + r)
  BY <1>1, <1>2
<1>5. s * P + r \in 0..P * Q - 1
  <2>1. (s + 1) * P <= Q * P
    BY <1>2
  <2>2. (s + 1) * P = s * P + P /\ Q * P = P * Q /\ s * P \in Nat
    BY <1>2
  <2> QED
    BY <1>1, <1>3, <2>1, <2>2
<1>6. a \div (P * Q) = l
  <2> DEFINE M == P * Q
             t == s * P + r
  <2>1. M \in Nat \ {0} /\ t \in 0..M - 1 /\ a = l * M + t
    BY <1>3, <1>4, <1>5
  <2> HIDE DEF M, t
  <2>2. a \div M = l
    BY <1>2, <2>1, DivUnique
  <2> QED
    BY <2>2 DEF M
<1> QED
  BY <1>6 DEF l, k

\* A value, and the same value with another bit b, around that bit.
AroundBit(v, b, x) ==
  \E h \in Nat, r \in 0..2^b - 1 :
    /\ BitOf(v, b) \in {0, 1}
    /\ v = (2 * h + BitOf(v, b)) * 2^b + r
    /\ WithBit(v, b, x) = (2 * h + x) * 2^b + r

LEMMA WithBitSplit ==
  ASSUME NEW v \in Nat, NEW b \in Nat, NEW x \in {0, 1}
  PROVE  AroundBit(v, b, x)
<1> DEFINE P == 2^b
           q == v \div P
           r == v % P
           h == q \div 2
           o == q % 2
<1>1. P \in Nat \ {0}
  BY PowSubsets
<1>2. BitOf(v, b) = o /\ WithBit(v, b, x) = v + (x - o) * P
  BY DEF BitOf, WithBit
<1> HIDE DEF P
<1>3. q \in Nat /\ r \in 0..P - 1 /\ v = q * P + r
  BY <1>1, DivMod
<1> HIDE DEF q, r
<1>4. h \in Nat /\ o \in {0, 1} /\ q = 2 * h + o
  BY <1>3
<1> HIDE DEF h, o
<1>5. v + (x - o) * P = (2 * h + x) * P + r
  <2>1. v + (x - o) * P = (q + (x - o)) * P + r
    BY <1>1, <1>3, <1>4
  <2>2. q + (x - o) = 2 * h + x
    BY <1>3, <1>4
  <2> QED
    BY <2>1, <2>2
<1>6. v = (2 * h + o) * P + r
  BY <1>3, <1>4
<1>7. h \in Nat /\ r \in 0..P - 1
  BY <1>3, <1>4
<1> QED
  BY <1>2, <1>4, <1>5, <1>6, <1>7 DEF P, AroundBit

\* The bit is set, the others are what they were, and the value keeps its width.
LEMMA WithBitSame ==
  ASSUME NEW v \in Nat, NEW b \in Nat, NEW x \in {0, 1}
  PROVE  WithBit(v, b, x) \in Nat /\ BitOf(WithBit(v, b, x), b) = x
<1> DEFINE P == 2^b
           w == WithBit(v, b, x)
<1>1. P \in Nat \ {0}
  BY PowSubsets
<1>s. AroundBit(v, b, x)
  BY WithBitSplit
<1>2. PICK h \in Nat, r \in 0..P - 1 : w = (2 * h + x) * P + r
  BY <1>s DEF AroundBit
<1>3. BitOf(w, b) = (w \div P) % 2
  BY DEF BitOf
<1> HIDE DEF P, w
<1>4. 2 * h + x \in Nat /\ (2 * h + x) % 2 = x
  OBVIOUS
<1>5. w \div P = 2 * h + x
  BY <1>1, <1>2, <1>4, DivUnique
<1>6. w \in Nat
  <2> DEFINE k == 2 * h + x
  <2>1. k \in Nat /\ w = k * P + r
    BY <1>2, <1>4
  <2> HIDE DEF k
  <2> QED
    BY <1>1, <2>1
<1> QED
  BY <1>3, <1>4, <1>5, <1>6 DEF w

LEMMA WithBitAbove ==
  ASSUME NEW v \in Nat, NEW b \in Nat, NEW x \in {0, 1}, NEW c \in Nat, b < c
  PROVE  BitOf(WithBit(v, b, x), c) = BitOf(v, c)
<1> DEFINE P == 2^b
           G == 2^(c - (b + 1))
           D == P * 2
           w == WithBit(v, b, x)
<1>0. c - (b + 1) \in Nat
  OBVIOUS
<1>1. P \in Nat \ {0} /\ G \in Nat \ {0}
  BY <1>0, PowSubsets
<1>2. 2^c = D * G
  <2>1. b + 1 \in Nat /\ c - (b + 1) \in Nat /\ (b + 1) + (c - (b + 1)) = c
    OBVIOUS
  <2>2. 2^c = 2^(b + 1) * G
    BY <2>1, PowSum
  <2>3. 2^(b + 1) = 2 * P
    BY PowStep
  <2>4. 2 * P = D
    BY <1>1
  <2> QED
    BY <2>2, <2>3, <2>4
<1>s. AroundBit(v, b, x)
  BY WithBitSplit
<1>3. PICK h \in Nat, r \in 0..P - 1 :
        /\ BitOf(v, b) \in {0, 1}
        /\ v = (2 * h + BitOf(v, b)) * P + r
        /\ w = (2 * h + x) * P + r
  BY <1>s DEF AroundBit
<1>4. w \in Nat
  BY WithBitSame
<1>5. D \in Nat \ {0}
  BY <1>1
<1> HIDE DEF P, G, w
<1>6. ASSUME NEW y \in {0, 1}
      PROVE  ((2 * h + y) * P + r) \div D = h
  <2> DEFINE s == y * P + r
  <2>1. s \in 0..D - 1
    <3>1. CASE y = 0
      BY <1>1, <3>1
    <3>2. CASE y = 1
      BY <1>1, <3>2
    <3> QED
      BY <3>1, <3>2
  <2>2. (2 * h + y) * P + r = h * D + s
    BY <1>1
  <2> HIDE DEF s, D
  <2> QED
    BY <1>5, <2>1, <2>2, DivUnique
<1>7. v \div D = h /\ w \div D = h
  BY <1>3, <1>6
<1>8. v \div (D * G) = h \div G /\ w \div (D * G) = h \div G
  <2> HIDE DEF D
  <2> QED
    BY <1>1, <1>4, <1>5, <1>7, DivTwice
<1> QED
  BY <1>2, <1>8 DEF BitOf, w

LEMMA WithBitBelow ==
  ASSUME NEW v \in Nat, NEW b \in Nat, NEW x \in {0, 1}, NEW c \in Nat, c < b
  PROVE  BitOf(WithBit(v, b, x), c) = BitOf(v, c)
<1> DEFINE P == 2^b
           M == 2^c
           G == 2^(b - (c + 1))
           w == WithBit(v, b, x)
<1>0. b - (c + 1) \in Nat
  OBVIOUS
<1>1. M \in Nat \ {0} /\ G \in Nat \ {0}
  BY <1>0, PowSubsets
<1>2. P = (2 * M) * G
  <2>1. c + 1 \in Nat /\ b - (c + 1) \in Nat /\ (c + 1) + (b - (c + 1)) = b
    OBVIOUS
  <2>2. P = 2^(c + 1) * G
    BY <2>1, PowSum
  <2>3. 2^(c + 1) = 2 * M
    BY PowStep
  <2> QED
    BY <2>2, <2>3
<1>s. AroundBit(v, b, x)
  BY WithBitSplit
<1>3. PICK h \in Nat, r \in 0..P - 1 :
        /\ BitOf(v, b) \in {0, 1}
        /\ v = (2 * h + BitOf(v, b)) * P + r
        /\ w = (2 * h + x) * P + r
  BY <1>s DEF AroundBit
<1> HIDE DEF P, M, G, w
<1>4. r \in Nat
  BY <1>1, <1>2
<1> DEFINE q == r \div M
           s == r % M
<1>5. q \in Nat /\ s \in 0..M - 1 /\ r = q * M + s
  BY <1>1, <1>4, DivMod
<1> HIDE DEF q, s
<1>6. ASSUME NEW y \in {0, 1}
      PROVE  (((2 * h + y) * P + r) \div M) % 2 = q % 2
  <2> DEFINE k == (2 * h + y) * G
             n == 2 * k + q
  <2>1. k \in Nat
    BY <1>1
  <2>2. (2 * h + y) * P + r = (2 * k) * M + r
    BY <1>1, <1>2
  <2> HIDE DEF k
  <2>3. (2 * k) * M + r = n * M + s
    BY <1>1, <1>5, <2>1
  <2>4. n \in Nat /\ n % 2 = q % 2
    BY <1>5, <2>1
  <2> HIDE DEF n
  <2>5. (n * M + s) \div M = n
    BY <1>1, <1>5, <2>4, DivUnique
  <2> QED
    BY <2>2, <2>3, <2>4, <2>5
<1> QED
  BY <1>3, <1>6 DEF BitOf, w, M

LEMMA WithBitWidth ==
  ASSUME NEW n \in Nat, NEW v \in 0..2^n - 1, NEW b \in 0..n - 1, NEW x \in {0, 1}
  PROVE  WithBit(v, b, x) \in 0..2^n - 1
<1> DEFINE P == 2^b
           G == 2^(n - (b + 1))
           D == P * 2
           w == WithBit(v, b, x)
<1>0. n - (b + 1) \in Nat /\ b \in Nat
  OBVIOUS
<1>1. P \in Nat \ {0} /\ G \in Nat \ {0}
  BY <1>0, PowSubsets
<1>2. 2^n = D * G
  <2>1. b + 1 \in Nat /\ n - (b + 1) \in Nat /\ (b + 1) + (n - (b + 1)) = n
    OBVIOUS
  <2>2. 2^n = 2^(b + 1) * G
    BY <2>1, PowSum
  <2>3. 2^(b + 1) = 2 * P
    BY PowStep
  <2>4. 2 * P = D
    BY <1>1
  <2> QED
    BY <2>2, <2>3, <2>4
<1>3. v \in Nat /\ v < D * G
  BY <1>1, <1>2
<1>s. AroundBit(v, b, x)
  BY <1>0, <1>3, WithBitSplit
<1>4. PICK h \in Nat, r \in 0..P - 1 :
        /\ BitOf(v, b) \in {0, 1}
        /\ v = (2 * h + BitOf(v, b)) * P + r
        /\ w = (2 * h + x) * P + r
  BY <1>s DEF AroundBit
<1>5. w \in Nat
  BY <1>3, WithBitSame
<1> HIDE DEF P, G, w
<1>6. h < G
  <2> SUFFICES ASSUME h >= G PROVE FALSE
    BY <1>1
  <2>1. (2 * h + BitOf(v, b)) * P >= (2 * h) * P
    BY <1>1, <1>4
  <2>2. (2 * h) * P >= (2 * G) * P /\ (2 * G) * P = D * G
    BY <1>1
  <2> QED
    BY <1>1, <1>3, <1>4, <2>1, <2>2
<1>7. w < D * G
  <2>1. (2 * h + x) * P + r < (2 * h + 2) * P
    <3>1. CASE x = 0
      BY <1>1, <3>1
    <3>2. CASE x = 1
      BY <1>1, <3>2
    <3> QED
      BY <3>1, <3>2
  <2>2. (2 * h + 2) * P <= (2 * G) * P /\ (2 * G) * P = D * G
    BY <1>1, <1>6
  <2> QED
    BY <1>1, <1>4, <1>5, <2>1, <2>2
<1> QED
  BY <1>2, <1>5, <1>7 DEF w

LEMMA PowGrows ==
  ASSUME NEW a \in Nat, NEW b \in Nat, a <= b
  PROVE  2^a <= 2^b
<1>1. b - a \in Nat /\ a + (b - a) = b
  OBVIOUS
<1>2. 2^b = 2^a * 2^(b - a)
  BY <1>1, PowSum
<1>3. 2^a \in Nat \ {0} /\ 2^(b - a) \in Nat \ {0}
  BY <1>1, PowSubsets
<1>4. \A p, q \in Nat \ {0} : p <= p * q
  OBVIOUS
<1> QED
  BY <1>2, <1>3, <1>4

\* The low bits of a value: none, one more, and all.
LEMMA LowBits ==
  ASSUME NEW v \in Nat
  PROVE  /\ v % 2^0 = 0
         /\ \A b \in Nat : v % 2^(b + 1) = (v % 2^b) + BitOf(v, b) * 2^b
         /\ \A b \in Nat : v < 2^b => v % 2^b = v
         /\ \A b \in Nat : v % 2^b \in Nat /\ BitOf(v, b) \in {0, 1}
<1>1. v % 2^0 = 0
  BY PowZero
<1>2. ASSUME NEW b \in Nat
      PROVE  v % 2^(b + 1) = (v % 2^b) + BitOf(v, b) * 2^b
  <2> DEFINE P == 2^b
             q == v \div P
             r == v % P
             h == q \div 2
             o == q % 2
             D == 2 * P
             s == o * P + r
             k == v \div D
             t == v % D
  <2>1. P \in Nat \ {0}
    BY PowSubsets
  <2>2. 2^(b + 1) = D
    BY PowStep
  <2>3. BitOf(v, b) = o
    BY DEF BitOf
  <2> HIDE DEF P
  <2>4. q \in Nat /\ r \in 0..P - 1 /\ v = q * P + r
    BY <2>1, DivMod
  <2> HIDE DEF q, r
  <2>5. h \in Nat /\ o \in {0, 1} /\ q = 2 * h + o
    BY <2>4
  <2> HIDE DEF h, o
  <2>6. v = h * D + s
    BY <2>1, <2>4, <2>5
  <2>7. s \in 0..D - 1
    <3>1. CASE o = 0
      BY <2>1, <2>4, <3>1
    <3>2. CASE o = 1
      BY <2>1, <2>4, <3>2
    <3> QED
      BY <2>5, <3>1, <3>2
  <2>8. D \in Nat \ {0}
    BY <2>1
  <2>9. v \div D = h
    <3> HIDE DEF D, s
    <3> QED
      BY <2>5, <2>6, <2>7, <2>8, DivUnique
  <2>10. t = s
    <3>1. k \in Nat /\ t \in 0..D - 1 /\ v = k * D + t
      <4> HIDE DEF D
      <4> QED
        BY <2>8, DivMod
    <3>2. k = h
      BY <2>9
    <3> HIDE DEF k, t, D, s
    <3> QED
      BY <2>5, <2>6, <2>7, <2>8, <3>1, <3>2
  <2> QED
    <3>1. v % D = o * P + r
      BY <2>10
    <3>2. o * P \in Nat /\ r \in Nat
      BY <2>1, <2>4, <2>5
    <3>3. v % D = r + o * P
      BY <3>1, <3>2
    <3> QED
      BY <2>2, <2>3, <3>3 DEF P, r
<1>3. ASSUME NEW b \in Nat, v < 2^b
      PROVE  v % 2^b = v
  <2> DEFINE P == 2^b
  <2>1. P \in Nat \ {0} /\ v < P
    BY <1>3, PowSubsets
  <2> HIDE DEF P
  <2>2. v % P = v
    BY <2>1
  <2> QED
    BY <2>2 DEF P
<1>4. ASSUME NEW b \in Nat
      PROVE  v % 2^b \in Nat /\ BitOf(v, b) \in {0, 1}
  <2> DEFINE P == 2^b
  <2>1. P \in Nat \ {0}
    BY PowSubsets
  <2> HIDE DEF P
  <2>2. v % P \in Nat /\ v \div P \in Nat
    BY <2>1, DivMod
  <2>3. (v \div P) % 2 \in {0, 1}
    BY <2>2
  <2> QED
    BY <2>2, <2>3 DEF P, BitOf
<1> QED
  BY <1>1, <1>2, <1>3, <1>4

LEMMA ByteFacts ==
  /\ Bits \in Nat /\ Bits >= 2 /\ AddressBits \in 1..Bits
  /\ 2^Bits \in Nat /\ ByteMax \in Nat /\ ByteMax >= 1 /\ Byte = 0..ByteMax
  /\ ByteMax + 1 = 2^Bits /\ AddressMax \in 1..ByteMax
<1>1. Bits \in Nat /\ Bits >= 2 /\ AddressBits \in 1..Bits /\ AddressBits \in Nat
  BY BitsAssumption
<1>2. 2^Bits \in Nat /\ 2^AddressBits \in Nat
  BY <1>1, PowSubsets
<1>3. 2^AddressBits <= 2^Bits
  BY <1>1, PowGrows
<1>4. 2^1 = 2
  BY PowZero, PowStep, 0 + 1 = 1
<1>5. 2 <= 2^AddressBits
  <2>1. 1 \in Nat /\ 1 <= AddressBits
    BY <1>1
  <2>2. 2^1 <= 2^AddressBits
    BY <1>1, <2>1, PowGrows
  <2> QED
    BY <1>4, <2>2
<1> QED
  BY <1>1, <1>2, <1>3, <1>5 DEF ByteMax, Byte, AddressMax
-----------------------------------------------------------------------------
(***************************************************************************)
(* The inductive invariant.                                                *)
(***************************************************************************)
\* Contexts a task may be given, with what their data must satisfy.
LegalDirect(c) ==
  /\ c.cv \in CVs
  /\ c.state \in {"READ_CV", "READ_BIT", "READ_BIT_CONFIRM", "WRITE_BIT",
                  "WRITE_BIT_VERIFY"} => c.bit < Bits
  /\ c.state = "READ_CV" => c.value < 2^c.bit

LegalBytes(t, c) ==
  /\ c.cv \in CVs /\ c.bit < Bits /\ c.scan <= ScanLast(t)
  /\ t = "address" => c.cv = 1
  /\ t = "register" => IF c.state = "FACTORY_RESET" THEN c.cv = 8
                       ELSE c.register = CvToRegister(c.cv)
  /\ c.state \in {"WRITE_BIT_WRITE", "WRITE_BIT_VERIFY"} =>
       c.value = WithBit(c.scan, c.bit, c.bit_value)

LegalDetect(c) ==
  /\ c.state = "READ_DIRECT" => c.bit < Bits /\ c.value + 2^(c.bit + 1) <= 2^Bits
  /\ c.state = "PROBE_ADDRESS_SCAN" => c.scan <= AddressMax

Legal(t, c) ==
  /\ c \in Context /\ c.state \in StatesOf(t)
  /\ t = "direct" => LegalDirect(c)
  /\ t \in WholeByteTasks => LegalBytes(t, c)
  /\ t = "detect" => LegalDetect(c)

ScannedStates == {"READ_CV", "READ_BIT_READ_BYTE", "WRITE_BIT_READ_BYTE"}

\* The packets a task in this context waits for.
DirectAsked(c) ==
  CASE c.state = "READ_CV"          -> DirectVerifyBit(c.cv, c.bit, 1)
    [] c.state = "WRITE_CV"         -> DirectWriteByte(c.cv, c.value)
    [] c.state = "READ_BIT"         -> DirectVerifyBit(c.cv, c.bit, 1)
    [] c.state = "READ_BIT_CONFIRM" -> DirectVerifyBit(c.cv, c.bit, 0)
    [] c.state = "WRITE_BIT"        -> DirectWriteBit(c.cv, c.bit, c.bit_value)
    [] c.state = "WRITE_BIT_VERIFY" -> DirectVerifyBit(c.cv, c.bit, c.bit_value)
    [] OTHER                        -> DirectVerifyByte(c.cv, c.value)

BytesAsked(t, c) ==
  CASE c.state \in ScannedStates                   -> VerifyOf(t, c, c.scan)
    [] c.state \in {"WRITE_CV", "WRITE_BIT_WRITE"} -> WriteOf(t, c, c.value)
    [] c.state = "FACTORY_RESET"                   -> RegisterWrite(8, FactoryValue)
    [] OTHER                                       -> VerifyOf(t, c, c.value)

DetectAsked(c) ==
  CASE c.state = "PROBE_DIRECT_0"     -> DirectVerifyBit(DetectCv, DetectBit, 0)
    [] c.state = "PROBE_DIRECT_1"     -> DirectVerifyBit(DetectCv, DetectBit, 1)
    [] c.state = "READ_DIRECT"        -> DirectVerifyBit(DetectCv, c.bit, 1)
    [] c.state = "PROBE_PAGED_VERIFY" -> PagedVerify(DetectCv, c.value)
    [] c.state = "PROBE_PAGED_SCAN"   -> PagedVerify(DetectCv, c.scan)
    [] c.state = "PROBE_REGISTER_VERIFY" -> RegisterVerify(DetectRegister, c.value)
    [] c.state = "PROBE_REGISTER_SCAN"   -> RegisterVerify(DetectRegister, c.scan)
    [] OTHER                             -> AddressVerify(c.scan)

Asked(t, c) == IF t = "direct" THEN DirectAsked(c)
               ELSE IF t = "detect" THEN DetectAsked(c) ELSE BytesAsked(t, c)

\* A decoder that hears page writes is on the page.
OnPage(g) == supports \cap {"registers", "address"} # {} => page = g

\* The packets that are left: all of them, or the access on the page selected.
Left(asked, packets) ==
  \/ packets = asked
  \/ /\ Len(asked) = 2 /\ packets = <<asked[2]>>
     /\ OnPage(asked[1].value)

\* What the decoder answers to a command that writes nothing.
Writing == {"WRITE_CV", "WRITE_BIT", "WRITE_BIT_WRITE"}

DirectAnswer(c) ==
  /\ "direct" \in supports
  /\ c.state \in {"READ_CV", "READ_BIT"} => BitOf(memory[c.cv], c.bit) = 1
  /\ c.state \in {"READ_CV_VERIFY", "WRITE_CV_VERIFY"} => memory[c.cv] = c.value
  /\ c.state = "READ_BIT_CONFIRM" => BitOf(memory[c.cv], c.bit) = 0
  /\ c.state = "WRITE_BIT_VERIFY" => BitOf(memory[c.cv], c.bit) = c.bit_value

BytesAnswer(t, c) ==
  /\ Works(t, c.cv)
  /\ c.state \in ScannedStates => memory[c.cv] = c.scan
  /\ c.state \in {"WRITE_CV_VERIFY", "WRITE_BIT_VERIFY", "VERIFY_VALUE"} =>
       memory[c.cv] = c.value

DetectAnswer(c) ==
  /\ c.state \in {"PROBE_DIRECT_0", "PROBE_DIRECT_1", "READ_DIRECT"} =>
       Works("direct", 8)
  /\ c.state = "PROBE_DIRECT_0" => BitOf(memory[8], DetectBit) = 0
  /\ c.state = "PROBE_DIRECT_1" => BitOf(memory[8], DetectBit) = 1
  /\ c.state = "READ_DIRECT"    => BitOf(memory[8], c.bit) = 1
  /\ c.state \in {"PROBE_PAGED_VERIFY", "PROBE_PAGED_SCAN"} => Works("paged", 8)
  /\ c.state \in {"PROBE_REGISTER_VERIFY", "PROBE_REGISTER_SCAN"} =>
       Works("register", 8)
  /\ c.state \in {"PROBE_PAGED_VERIFY", "PROBE_REGISTER_VERIFY"} =>
       memory[8] = c.value
  /\ c.state \in {"PROBE_PAGED_SCAN", "PROBE_REGISTER_SCAN"} => memory[8] = c.scan
  /\ c.state = "PROBE_ADDRESS_SCAN" => Works("address", 1) /\ memory[1] = c.scan

Answer(t, c) ==
  /\ t = "direct" => DirectAnswer(c)
  /\ t \in WholeByteTasks => BytesAnswer(t, c)
  /\ t = "detect" => DetectAnswer(c)

ModesWork(c) == \A m \in c.modes : Works(m, IF m = "address" THEN 1 ELSE 8)

\* What is written back is what was read, but for one bit.
ReadBack(t, c) ==
  t \in WholeByteTasks /\ c.state = "WRITE_BIT_WRITE" => memory[c.cv] = c.scan

\* What a task has learned when every acknowledgement was heard.
DirectKnows(c) ==
  "direct" \in supports =>
    /\ c.state = "READ_CV" => c.value = memory[c.cv] % 2^c.bit
    /\ c.state = "READ_CV_VERIFY" => c.value = memory[c.cv]
    /\ c.state = "READ_BIT_CONFIRM" => BitOf(memory[c.cv], c.bit) # 1

NotBelow(v, first, last) == \A w \in first..last - 1 : v # w

BytesKnows(t, c) ==
  c.state \in ScannedStates /\ Works(t, c.cv) =>
    NotBelow(memory[c.cv], ScanFirst(t), c.scan)

\* The modes looked for so far are those the decoder has.
Sure(c, modes) == c.modes = Detectable \cap modes

DetectKnows(c) ==
  /\ c.value_known => c.value = memory[8]
  /\ c.state \in {"PROBE_DIRECT_0", "PROBE_DIRECT_1", "READ_DIRECT"} => ~c.value_known
  /\ c.state \in {"PROBE_PAGED_VERIFY", "PROBE_REGISTER_VERIFY"} => c.value_known
  /\ c.state \in {"PROBE_DIRECT_0", "PROBE_DIRECT_1"} => c.modes = {}
  /\ c.state = "PROBE_DIRECT_1" /\ "direct" \in supports =>
       BitOf(memory[8], DetectBit) # 0
  /\ c.state = "READ_DIRECT" =>
       /\ Sure(c, {"direct"}) /\ "direct" \in supports
       /\ memory[8] = c.value + (memory[8] % 2^(c.bit + 1))
  /\ c.state \in {"PROBE_PAGED_VERIFY", "PROBE_PAGED_SCAN"} => Sure(c, {"direct"})
  /\ c.state = "PROBE_PAGED_SCAN" /\ Works("paged", 8) =>
       NotBelow(memory[8], 0, c.scan)
  /\ c.state \in {"PROBE_REGISTER_VERIFY", "PROBE_REGISTER_SCAN"} =>
       Sure(c, {"direct", "paged"})
  /\ c.state = "PROBE_REGISTER_SCAN" /\ Works("register", 8) =>
       NotBelow(memory[8], 0, c.scan)
  /\ c.state = "PROBE_ADDRESS_SCAN" =>
       /\ Sure(c, {"direct", "paged", "register"})
       /\ Works("address", 1) => NotBelow(memory[1], 1, c.scan)

Knows(t, c) ==
  /\ t = "direct" => DirectKnows(c)
  /\ t \in WholeByteTasks => BytesKnows(t, c)
  /\ t = "detect" => DetectKnows(c)

Contexts == \A t \in Tasks : \A c \in {task[t]} :
  Active(t) => Legal(t, c) /\ ModesWork(c)

\* The operation in progress is what its task asked for, over or not.
Operation ==
  /\ op = [owner |-> op.owner, context |-> op.context, packets |-> op.packets]
  /\ op # NoOp => \A t \in {op.owner} : \A c \in {op.context} :
       Legal(t, c) /\ Left(Asked(t, c), op.packets) /\ ReadBack(t, c)

\* A task is about to act on a result of its own.
Waiting == at \in {"called", "progress"} /\ owner = Turn

Results == Waiting => \A t \in {Turn} : \A c \in {task[t]} :
  /\ Asked(t, c) # Refused
  /\ result = "SUCCESS" /\ c.state \notin Writing => Answer(t, c)
  /\ result = "SUCCESS" /\ c.state = "FACTORY_RESET" => memory = FactoryDefaults

MemoryInv == OwnerInv /\ TypeOK /\ Contexts /\ Operation /\ Results /\ SuccessIsTrue

\* Nothing has come between the task and its results.
Quiet == ~disturbed => \A t \in Tasks : \A c \in {task[t]} : Active(t) =>
  /\ in_service_mode /\ \A u \in Tasks : Active(u) => u = t
  /\ op # NoOp => Waits(t)
  /\ Knows(t, c)

Denials == ~disturbed /\ Waiting /\ result # "SUCCESS" =>
  \A t \in {Turn} : \A c \in {task[t]} : c.state \notin Writing => ~Answer(t, c)

ExactInv == Quiet /\ Denials /\ UndisturbedIsExact

TaskInv == MemoryInv /\ ExactInv
-----------------------------------------------------------------------------
(***************************************************************************)
(* The packets, and what the decoder makes of them.                        *)
(***************************************************************************)
LEMMA DirectPacket ==
  ASSUME NEW c, Legal("direct", c), NEW p, Left(DirectAsked(c), <<p>>)
  PROVE  p = CASE c.state = "READ_CV"          -> Packet("verify_bit", c.cv, c.bit, 1)
               [] c.state = "WRITE_CV"         -> Packet("write_byte", c.cv, 0, c.value)
               [] c.state = "READ_BIT"         -> Packet("verify_bit", c.cv, c.bit, 1)
               [] c.state = "READ_BIT_CONFIRM" -> Packet("verify_bit", c.cv, c.bit, 0)
               [] c.state = "WRITE_BIT"        ->
                    Packet("write_bit", c.cv, c.bit, c.bit_value)
               [] c.state = "WRITE_BIT_VERIFY" ->
                    Packet("verify_bit", c.cv, c.bit, c.bit_value)
               [] OTHER                        -> Packet("verify_byte", c.cv, 0, c.value)
<1>1. ASSUME NEW q, Left(<<q>>, <<p>>)
      PROVE  p = q
  BY <1>1 DEF Left
<1>2. CASE c.state = "READ_CV" \/ c.state = "READ_BIT"
  BY <1>1, <1>2 DEF DirectAsked, DirectVerifyBit
<1>3. CASE c.state = "WRITE_CV"
  BY <1>1, <1>3 DEF DirectAsked, DirectWriteByte
<1>4. CASE c.state = "READ_BIT_CONFIRM"
  BY <1>1, <1>4 DEF DirectAsked, DirectVerifyBit
<1>5. CASE c.state = "WRITE_BIT"
  BY <1>1, <1>5 DEF DirectAsked, DirectWriteBit
<1>6. CASE c.state = "WRITE_BIT_VERIFY"
  BY <1>1, <1>6 DEF DirectAsked, DirectVerifyBit
<1>7. CASE c.state = "READ_CV_VERIFY" \/ c.state = "WRITE_CV_VERIFY"
  BY <1>1, <1>7 DEF DirectAsked, DirectVerifyByte
<1> QED
  BY <1>2, <1>3, <1>4, <1>5, <1>6, <1>7 DEF Legal, StatesOf

\* An access to a CV through the registers: p is what follows the page, and
\* reaches the CV when the decoder has heard the page.
Reaches(p, kind, cv, v) ==
  /\ p.kind = kind /\ p.value = v /\ ~IsPageWrite(p)
  /\ supports \cap {"registers", "address"} # {} => Target(p) = cv

LEMMA PagedReaches ==
  ASSUME NEW cv \in CVs, NEW v, NEW kind \in {"register_write", "register_verify"},
         NEW p, Left(PagedAccess(kind, cv, v), <<p>>)
  PROVE  Reaches(p, kind, cv, v)
<1> DEFINE g == PageOf(cv)
           r == DataRegisterOf(cv)
<1>1. cv \in 1..1024
  BY DecoderAssumption
<1>2. r \in 1..4 /\ 4 * ((g - 1) % Pages) + r = cv
  BY <1>1 DEF PageOf, DataRegisterOf, Pages
<1> HIDE DEF g, r
<1>3. PagedAccess(kind, cv, v) = <<SelectPage(g), RegisterPacket(kind, r, v)>>
  BY DEF PagedAccess, g, r
<1>4. p = RegisterPacket(kind, r, v) /\ OnPage(g)
  BY <1>3 DEF Left, SelectPage, RegisterPacket, Packet
<1>5. p.kind = kind /\ p.value = v /\ p.target = r
  BY <1>4 DEF RegisterPacket, Packet
<1>6. Target(p) = RegisterCv(r)
  BY <1>5 DEF Target
<1>7. page = g => RegisterCv(r) = cv
  BY <1>2 DEF RegisterCv
<1>8. ~IsPageWrite(p)
  BY <1>2, <1>5 DEF IsPageWrite, PageRegister
<1> QED
  BY <1>4, <1>5, <1>6, <1>7, <1>8 DEF Reaches, OnPage

\* Page 1 holds the registers themselves.
LEMMA RegisterReaches ==
  ASSUME NEW r, NEW v, NEW kind \in {"register_write", "register_verify"},
         NEW p, Left(RegisterAccess(kind, r, v), <<p>>), r # PageRegister
  PROVE  Reaches(p, kind, IF r = 5 THEN 29 ELSE r, v)
<1>1. RegisterAccess(kind, r, v) # <<>>
  BY DEF Left
<1>2. /\ r \in 1..8
      /\ RegisterAccess(kind, r, v) = <<SelectPage(1), RegisterPacket(kind, r, v)>>
  BY <1>1 DEF RegisterAccess, Refused
<1>3. p = RegisterPacket(kind, r, v) /\ OnPage(1)
  BY <1>2 DEF Left, SelectPage, RegisterPacket, Packet
<1>4. p.kind = kind /\ p.value = v /\ p.target = r
  BY <1>3 DEF RegisterPacket, Packet
<1>5. Target(p) = RegisterCv(r)
  BY <1>4 DEF Target
<1>6. page = 1 => RegisterCv(r) = IF r = 5 THEN 29 ELSE r
  BY <1>2 DEF RegisterCv, Pages
<1>7. ~IsPageWrite(p)
  BY <1>4 DEF IsPageWrite
<1> QED
  BY <1>3, <1>4, <1>5, <1>6, <1>7 DEF Reaches, OnPage

LEMMA AddressReaches ==
  ASSUME NEW a, NEW kind \in {"register_write", "register_verify"},
         NEW p, Left(AddressAccess(kind, a), <<p>>)
  PROVE  Reaches(p, kind, 1, a)
<1>1. AddressAccess(kind, a) # <<>>
  BY DEF Left
<1>2. AddressAccess(kind, a) = RegisterAccess(kind, 1, a)
  BY <1>1 DEF AddressAccess, RegisterAccess, Refused
<1> QED
  BY <1>2, RegisterReaches DEF PageRegister

BytesKind(c) == IF c.state \in {"WRITE_CV", "WRITE_BIT_WRITE", "FACTORY_RESET"}
                THEN "register_write" ELSE "register_verify"

BytesValue(c) == IF c.state \in ScannedStates THEN c.scan
                 ELSE IF c.state = "FACTORY_RESET" THEN FactoryValue ELSE c.value

\* Every packet of a task that handles whole bytes is one access.
BytesAccess(t, c) ==
  CASE t = "paged"    -> PagedAccess(BytesKind(c), c.cv, BytesValue(c))
    [] t = "register" -> RegisterAccess(BytesKind(c),
                           IF c.state = "FACTORY_RESET" THEN 8 ELSE c.register,
                           BytesValue(c))
    [] t = "address"  -> AddressAccess(BytesKind(c), BytesValue(c))

LEMMA BytesAskedIs ==
  ASSUME NEW t \in WholeByteTasks, NEW c, c.state \in StatesOf(t)
  PROVE  BytesAsked(t, c) = BytesAccess(t, c)
<1>1. CASE t = "paged"
  BY <1>1
  DEF BytesAsked, BytesAccess, BytesKind, BytesValue, WriteOf, VerifyOf, PagedWrite,
      PagedVerify, StatesOf, ScanStates, ScannedStates
<1>2. CASE t = "register"
  BY <1>2
  DEF BytesAsked, BytesAccess, BytesKind, BytesValue, WriteOf, VerifyOf,
      RegisterWrite, RegisterVerify, StatesOf, ScanStates, ScannedStates
<1>3. CASE t = "address"
  BY <1>3
  DEF BytesAsked, BytesAccess, BytesKind, BytesValue, WriteOf, VerifyOf,
      AddressWrite, AddressVerify, StatesOf, ScanStates, ScannedStates
<1> QED
  BY <1>1, <1>2, <1>3 DEF WholeByteTasks

LEMMA BytesPacket ==
  ASSUME NEW t \in WholeByteTasks, NEW c, Legal(t, c), NEW p,
         Left(BytesAsked(t, c), <<p>>)
  PROVE  Reaches(p, BytesKind(c), c.cv, BytesValue(c))
<1>1. LegalBytes(t, c) /\ c.cv \in CVs /\ c.state \in StatesOf(t)
  BY DEF Legal, LegalBytes
<1>2. Left(BytesAccess(t, c), <<p>>)
  BY <1>1, BytesAskedIs
<1>3. BytesKind(c) \in {"register_write", "register_verify"}
  BY DEF BytesKind
<1>4. CASE t = "paged"
  <2>1. Left(PagedAccess(BytesKind(c), c.cv, BytesValue(c)), <<p>>)
    BY <1>2, <1>4 DEF BytesAccess
  <2> QED
    BY <1>1, <1>3, <2>1, PagedReaches
<1>5. CASE t = "register"
  <2> DEFINE r == IF c.state = "FACTORY_RESET" THEN 8 ELSE c.register
             k == BytesKind(c)
             v == BytesValue(c)
  <2>1. Left(RegisterAccess(k, r, v), <<p>>)
    BY <1>2, <1>5 DEF BytesAccess
  <2>2. c.cv \in 1..1024
    <3>1. \A x \in CVs : x \in 1..1024
      BY DecoderAssumption
    <3>2. PICK x \in CVs : x = c.cv
      BY <1>1
    <3>3. x \in 1..1024
      BY <3>1
    <3> QED
      BY <3>2, <3>3
  <2>3. r # PageRegister
    BY <1>1, <1>5, <2>2 DEF LegalBytes, CvToRegister, PageRegister
  <2>4. RegisterAccess(k, r, v) # <<>>
    BY <2>1 DEF Left
  <2>5. r \in 1..8
    <3> HIDE DEF r, k, v
    <3> QED
      BY <2>4 DEF RegisterAccess, Refused
  <2>6. (IF r = 5 THEN 29 ELSE r) = c.cv
    BY <1>1, <1>5, <2>2, <2>5 DEF LegalBytes, CvToRegister
  <2>7. Reaches(p, k, IF r = 5 THEN 29 ELSE r, v)
    <3> HIDE DEF r, k, v
    <3>1. k \in {"register_write", "register_verify"}
      BY <1>3 DEF k
    <3> QED
      BY <2>1, <2>3, <3>1, RegisterReaches
  <2> QED
    BY <2>6, <2>7
<1>6. CASE t = "address"
  <2>1. Left(AddressAccess(BytesKind(c), BytesValue(c)), <<p>>) /\ c.cv = 1
    BY <1>1, <1>2, <1>6 DEF BytesAccess, LegalBytes
  <2> QED
    BY <1>3, <2>1, AddressReaches
<1> QED
  BY <1>4, <1>5, <1>6 DEF WholeByteTasks

LEMMA DetectPacket ==
  ASSUME NEW c, Legal("detect", c), NEW p, Left(DetectAsked(c), <<p>>)
  PROVE  /\ c.state = "PROBE_DIRECT_0" => p = Packet("verify_bit", 8, DetectBit, 0)
         /\ c.state = "PROBE_DIRECT_1" => p = Packet("verify_bit", 8, DetectBit, 1)
         /\ c.state = "READ_DIRECT" => p = Packet("verify_bit", 8, c.bit, 1)
         /\ c.state \in {"PROBE_PAGED_VERIFY", "PROBE_REGISTER_VERIFY"} =>
              Reaches(p, "register_verify", 8, c.value)
         /\ c.state \in {"PROBE_PAGED_SCAN", "PROBE_REGISTER_SCAN"} =>
              Reaches(p, "register_verify", 8, c.scan)
         /\ c.state = "PROBE_ADDRESS_SCAN" => Reaches(p, "register_verify", 1, c.scan)
<1>1. ASSUME NEW q, Left(<<q>>, <<p>>)
      PROVE  p = q
  BY <1>1 DEF Left
<1>2. 8 \in CVs
  BY DecoderAssumption
<1>3. CASE c.state \in {"PROBE_DIRECT_0", "PROBE_DIRECT_1", "READ_DIRECT"}
  BY <1>1, <1>3 DEF DetectAsked, DirectVerifyBit, DetectCv
<1>4. CASE c.state \in {"PROBE_PAGED_VERIFY", "PROBE_PAGED_SCAN"}
  <2> DEFINE v == IF c.state = "PROBE_PAGED_VERIFY" THEN c.value ELSE c.scan
  <2>1. Left(PagedAccess("register_verify", 8, v), <<p>>)
    BY <1>4 DEF DetectAsked, PagedVerify, DetectCv
  <2>2. Reaches(p, "register_verify", 8, v)
    <3> HIDE DEF v
    <3> QED
      BY <1>2, <2>1, PagedReaches
  <2> QED
    BY <1>4, <2>2
<1>5. CASE c.state \in {"PROBE_REGISTER_VERIFY", "PROBE_REGISTER_SCAN"}
  <2> DEFINE v == IF c.state = "PROBE_REGISTER_VERIFY" THEN c.value ELSE c.scan
  <2>1. Left(RegisterAccess("register_verify", 8, v), <<p>>)
    BY <1>5 DEF DetectAsked, RegisterVerify, DetectRegister
  <2>2. Reaches(p, "register_verify", IF 8 = 5 THEN 29 ELSE 8, v)
    <3> HIDE DEF v
    <3>1. 8 # PageRegister
      BY DEF PageRegister
    <3> QED
      BY <2>1, <3>1, RegisterReaches
  <2> QED
    BY <1>5, <2>2
<1>6. CASE c.state = "PROBE_ADDRESS_SCAN"
  <2>1. Left(AddressAccess("register_verify", c.scan), <<p>>)
    BY <1>6 DEF DetectAsked, AddressVerify
  <2>2. Reaches(p, "register_verify", 1, c.scan)
    BY <2>1, AddressReaches
  <2> QED
    BY <1>6, <2>2
<1> QED
  BY <1>3, <1>4, <1>5, <1>6 DEF Legal, StatesOf

\* The decoder answers through its registers.
LEMMA RegisterAnswer ==
  ASSUME NEW p, NEW cv \in CVs, NEW v, NEW kind \in {"register_write", "register_verify"},
         Reaches(p, kind, cv, v)
  PROVE  /\ kind = "register_verify" =>
              /\ ~Writes(p)
              /\ Acknowledges(p) <=> Works("register", cv) /\ memory[cv] = v
         /\ kind = "register_write" =>
              /\ Writes(p) <=> Acknowledges(p)
              /\ Acknowledges(p) <=> Works("register", cv)
              /\ Written(p) = v
              /\ Writes(p) => Target(p) = cv
<1>1. /\ p.kind = kind /\ p.value = v /\ ~IsPageWrite(p)
      /\ supports \cap {"registers", "address"} # {} => Target(p) = cv
  BY DEF Reaches
<1>2. Understands(p) <=> \/ "registers" \in supports
                         \/ "address" \in supports /\ Target(p) = 1
  BY <1>1 DEF Understands
<1>3. Understands(p) <=> Works("register", cv)
  BY <1>1, <1>2 DEF Works
<1>4. Understands(p) => Target(p) = cv
  BY <1>1, <1>2
<1>5. CASE kind = "register_verify"
  <2>1. Acknowledges(p) <=> Understands(p) /\ Target(p) \in CVs /\ memory[Target(p)] = v
    BY <1>1, <1>5 DEF Acknowledges
  <2>2. ~Writes(p)
    BY <1>1, <1>5 DEF Writes
  <2> QED
    BY <1>3, <1>4, <1>5, <2>1, <2>2
<1>6. CASE kind = "register_write"
  <2>1. Acknowledges(p) <=> Understands(p) /\ Target(p) \in CVs
    BY <1>1, <1>6 DEF Acknowledges
  <2>2. /\ Writes(p) <=> Acknowledges(p)
        /\ Written(p) = v
    BY <1>1, <1>6 DEF Writes, Written
  <2> QED
    BY <1>3, <1>4, <1>6, <2>1, <2>2
<1> QED
  BY <1>5, <1>6

LEMMA DirectAnswers ==
  ASSUME NEW kind \in {"write_byte", "verify_byte", "write_bit", "verify_bit"},
         NEW cv \in CVs, NEW b, NEW v
  PROVE  LET p == Packet(kind, cv, b, v)
         IN /\ ~IsPageWrite(p) /\ Target(p) = cv
            /\ Writes(p) <=> Acknowledges(p) /\ kind \in {"write_byte", "write_bit"}
            /\ Written(p) = IF kind = "write_bit" THEN WithBit(memory[cv], b, v) ELSE v
            /\ Acknowledges(p) <=>
                 /\ "direct" \in supports
                 /\ kind = "verify_bit"  => BitOf(memory[cv], b) = v
                 /\ kind = "verify_byte" => memory[cv] = v
<1> DEFINE p == Packet(kind, cv, b, v)
<1>1. p.kind = kind /\ p.target = cv /\ p.bit = b /\ p.value = v
  BY DEF Packet
<1> HIDE DEF p
<1>2. ~IsPageWrite(p) /\ Target(p) = cv
  BY <1>1 DEF IsPageWrite, Target
<1>3. Understands(p) <=> "direct" \in supports
  BY <1>1, <1>2 DEF Understands, IsPageWrite
<1>4. Acknowledges(p) <=>
        /\ "direct" \in supports
        /\ kind = "verify_bit"  => BitOf(memory[cv], b) = v
        /\ kind = "verify_byte" => memory[cv] = v
  BY <1>1, <1>2, <1>3 DEF Acknowledges
<1>5. Writes(p) <=> Acknowledges(p) /\ kind \in {"write_byte", "write_bit"}
  BY <1>1 DEF Writes
<1>6. Written(p) = IF kind = "write_bit" THEN WithBit(memory[cv], b, v) ELSE v
  BY <1>1, <1>2 DEF Written
<1> QED
  BY <1>2, <1>4, <1>5, <1>6 DEF p

\* What a command writes, where it goes.
WrittenBy(c) == IF c.state = "WRITE_BIT" THEN WithBit(memory[c.cv], c.bit, c.bit_value)
                ELSE BytesValue(c)

Stores == Writing \cup {"FACTORY_RESET"}

\* A command of a task: its answer is the decoder's, and what it writes
\* goes to the CV of the task.
Serves(t, c, p) ==
  /\ ~IsPageWrite(p)
  /\ c.state \notin Writing => (Acknowledges(p) <=> Answer(t, c))
  /\ c.state \notin Stores  => ~Writes(p)
  /\ c.state \in Stores =>
       /\ Writes(p) <=> Acknowledges(p)
       /\ Writes(p) => Target(p) = c.cv /\ Written(p) = WrittenBy(c)

LEMMA DirectServes ==
  ASSUME NEW c, Legal("direct", c), NEW p, Left(DirectAsked(c), <<p>>)
  PROVE  Serves("direct", c, p)
<1>1. c.cv \in CVs
  BY DEF Legal, LegalDirect
<1>2. Answer("direct", c) <=> DirectAnswer(c)
  BY DEF Answer, WholeByteTasks
<1>3. CASE c.state = "READ_CV" \/ c.state = "READ_BIT"
  <2>1. p = Packet("verify_bit", c.cv, c.bit, 1)
    BY <1>3, DirectPacket
  <2>2. /\ ~IsPageWrite(p) /\ ~Writes(p)
        /\ Acknowledges(p) <=> "direct" \in supports /\ BitOf(memory[c.cv], c.bit) = 1
    BY <1>1, <2>1, DirectAnswers
  <2> QED
    BY <1>2, <1>3, <2>2 DEF Serves, DirectAnswer, Stores, Writing
<1>4. CASE c.state = "READ_BIT_CONFIRM"
  <2>1. p = Packet("verify_bit", c.cv, c.bit, 0)
    BY <1>4, DirectPacket
  <2>2. /\ ~IsPageWrite(p) /\ ~Writes(p)
        /\ Acknowledges(p) <=> "direct" \in supports /\ BitOf(memory[c.cv], c.bit) = 0
    BY <1>1, <2>1, DirectAnswers
  <2> QED
    BY <1>2, <1>4, <2>2 DEF Serves, DirectAnswer, Stores, Writing
<1>5. CASE c.state = "WRITE_BIT_VERIFY"
  <2>1. p = Packet("verify_bit", c.cv, c.bit, c.bit_value)
    BY <1>5, DirectPacket
  <2>2. /\ ~IsPageWrite(p) /\ ~Writes(p)
        /\ Acknowledges(p) <=> /\ "direct" \in supports
                               /\ BitOf(memory[c.cv], c.bit) = c.bit_value
    BY <1>1, <2>1, DirectAnswers
  <2> QED
    BY <1>2, <1>5, <2>2 DEF Serves, DirectAnswer, Stores, Writing
<1>6. CASE c.state = "READ_CV_VERIFY" \/ c.state = "WRITE_CV_VERIFY"
  <2>1. p = Packet("verify_byte", c.cv, 0, c.value)
    BY <1>6, DirectPacket
  <2>2. /\ ~IsPageWrite(p) /\ ~Writes(p)
        /\ Acknowledges(p) <=> "direct" \in supports /\ memory[c.cv] = c.value
    BY <1>1, <2>1, DirectAnswers
  <2> QED
    BY <1>2, <1>6, <2>2 DEF Serves, DirectAnswer, Stores, Writing
<1>7. CASE c.state = "WRITE_CV"
  <2>1. p = Packet("write_byte", c.cv, 0, c.value)
    BY <1>7, DirectPacket
  <2>2. /\ ~IsPageWrite(p) /\ Target(p) = c.cv /\ Written(p) = c.value
        /\ Writes(p) <=> Acknowledges(p)
    BY <1>1, <2>1, DirectAnswers
  <2>3. WrittenBy(c) = c.value
    BY <1>7 DEF WrittenBy, BytesValue, ScannedStates
  <2> QED
    BY <1>7, <2>2, <2>3 DEF Serves, Stores, Writing
<1>8. CASE c.state = "WRITE_BIT"
  <2>1. p = Packet("write_bit", c.cv, c.bit, c.bit_value)
    BY <1>8, DirectPacket
  <2>2. /\ ~IsPageWrite(p) /\ Target(p) = c.cv
        /\ Written(p) = WithBit(memory[c.cv], c.bit, c.bit_value)
        /\ Writes(p) <=> Acknowledges(p)
    BY <1>1, <2>1, DirectAnswers
  <2>3. WrittenBy(c) = WithBit(memory[c.cv], c.bit, c.bit_value)
    BY <1>8 DEF WrittenBy
  <2> QED
    BY <1>8, <2>2, <2>3 DEF Serves, Stores, Writing
<1> QED
  BY <1>3, <1>4, <1>5, <1>6, <1>7, <1>8 DEF Legal, StatesOf

LEMMA WorksByRegister ==
  ASSUME NEW t \in WholeByteTasks, NEW c, Legal(t, c)
  PROVE  Works(t, c.cv) <=> Works("register", c.cv)
BY DEF WholeByteTasks, Works, Legal, LegalBytes

LEMMA BytesServes ==
  ASSUME NEW t \in WholeByteTasks, NEW c, Legal(t, c), NEW p,
         Left(BytesAsked(t, c), <<p>>)
  PROVE  Serves(t, c, p)
<1>1. c.cv \in CVs /\ c.state \in StatesOf(t)
  BY DEF Legal, LegalBytes
<1>2. Answer(t, c) <=> BytesAnswer(t, c)
  BY DEF Answer, WholeByteTasks
<1>3. Reaches(p, BytesKind(c), c.cv, BytesValue(c))
  BY BytesPacket
<1>4. ~IsPageWrite(p)
  BY <1>3 DEF Reaches
<1>5. CASE c.state \in {"WRITE_CV", "WRITE_BIT_WRITE", "FACTORY_RESET"}
  <2>1. BytesKind(c) = "register_write"
    BY <1>5 DEF BytesKind
  <2>2. /\ Writes(p) <=> Acknowledges(p)
        /\ Acknowledges(p) <=> Works("register", c.cv)
        /\ Written(p) = BytesValue(c)
        /\ Writes(p) => Target(p) = c.cv
    BY <1>1, <1>3, <2>1, RegisterAnswer
  <2>3. WrittenBy(c) = BytesValue(c)
    BY <1>5 DEF WrittenBy
  <2>4. c.state = "FACTORY_RESET" => (Answer(t, c) <=> Works(t, c.cv))
    BY <1>2 DEF BytesAnswer, ScannedStates
  <2> QED
    BY <1>4, <1>5, <2>2, <2>3, <2>4, WorksByRegister DEF Serves, Stores, Writing
<1>6. CASE c.state \notin {"WRITE_CV", "WRITE_BIT_WRITE", "FACTORY_RESET"}
  <2>1. BytesKind(c) = "register_verify"
    BY <1>6 DEF BytesKind
  <2>2. /\ ~Writes(p)
        /\ Acknowledges(p) <=> Works("register", c.cv) /\ memory[c.cv] = BytesValue(c)
    BY <1>1, <1>3, <2>1, RegisterAnswer
  <2>3. c.state \in ScannedStates \cup {"WRITE_CV_VERIFY", "WRITE_BIT_VERIFY",
                                       "VERIFY_VALUE"}
    BY <1>1, <1>6 DEF WholeByteTasks, StatesOf, ScanStates, ScannedStates
  <2>4. BytesAnswer(t, c) <=> Works(t, c.cv) /\ memory[c.cv] = BytesValue(c)
    BY <2>3 DEF BytesAnswer, BytesValue, ScannedStates
  <2>5. c.state \notin Stores
    BY <2>3 DEF Stores, Writing, ScannedStates
  <2> QED
    BY <1>2, <1>4, <2>2, <2>4, <2>5, WorksByRegister DEF Serves
<1> QED
  BY <1>5, <1>6

LEMMA DetectServes ==
  ASSUME NEW c, Legal("detect", c), NEW p, Left(DetectAsked(c), <<p>>)
  PROVE  Serves("detect", c, p)
<1>1. {1, 8} \subseteq CVs
  BY DecoderAssumption
<1>2. Answer("detect", c) <=> DetectAnswer(c)
  BY DEF Answer, WholeByteTasks
<1>3. c.state \in StatesOf("detect") /\ c.state \notin Stores
  BY DEF Legal, StatesOf, Stores, Writing
<1>4. Works("direct", 8) <=> "direct" \in supports
  BY DEF Works
<1>5. /\ Works("paged", 8) <=> Works("register", 8)
      /\ Works("address", 1) <=> Works("register", 1)
  BY DEF Works
<1>6. CASE c.state \in {"PROBE_DIRECT_0", "PROBE_DIRECT_1", "READ_DIRECT"}
  <2> DEFINE b == IF c.state = "READ_DIRECT" THEN c.bit ELSE DetectBit
             x == IF c.state = "PROBE_DIRECT_0" THEN 0 ELSE 1
  <2>1. p = Packet("verify_bit", 8, b, x)
    BY <1>6, DetectPacket
  <2>2. DetectAnswer(c) <=> "direct" \in supports /\ BitOf(memory[8], b) = x
    BY <1>4, <1>6 DEF DetectAnswer
  <2> HIDE DEF b, x
  <2>3. /\ ~IsPageWrite(p) /\ ~Writes(p)
        /\ Acknowledges(p) <=> "direct" \in supports /\ BitOf(memory[8], b) = x
    BY <1>1, <2>1, DirectAnswers
  <2> QED
    BY <1>2, <1>3, <2>2, <2>3 DEF Serves
<1>7. CASE c.state \in {"PROBE_PAGED_VERIFY", "PROBE_REGISTER_VERIFY",
                        "PROBE_PAGED_SCAN", "PROBE_REGISTER_SCAN"}
  <2> DEFINE v == IF c.state \in {"PROBE_PAGED_VERIFY", "PROBE_REGISTER_VERIFY"}
                  THEN c.value ELSE c.scan
  <2>1. Reaches(p, "register_verify", 8, v)
    BY <1>7, DetectPacket
  <2>2. DetectAnswer(c) <=> Works("register", 8) /\ memory[8] = v
    BY <1>5, <1>7 DEF DetectAnswer
  <2> HIDE DEF v
  <2>3. ~IsPageWrite(p) /\ ~Writes(p)
    BY <1>1, <2>1, RegisterAnswer DEF Reaches
  <2>4. Acknowledges(p) <=> Works("register", 8) /\ memory[8] = v
    BY <1>1, <2>1, RegisterAnswer
  <2> QED
    BY <1>2, <1>3, <2>2, <2>3, <2>4 DEF Serves
<1>8. CASE c.state = "PROBE_ADDRESS_SCAN"
  <2>1. Reaches(p, "register_verify", 1, c.scan)
    BY <1>8, DetectPacket
  <2>2. DetectAnswer(c) <=> Works("register", 1) /\ memory[1] = c.scan
    BY <1>5, <1>8 DEF DetectAnswer
  <2>3. ~IsPageWrite(p) /\ ~Writes(p)
    BY <1>1, <2>1, RegisterAnswer DEF Reaches
  <2>4. Acknowledges(p) <=> Works("register", 1) /\ memory[1] = c.scan
    BY <1>1, <2>1, RegisterAnswer
  <2> QED
    BY <1>2, <1>3, <2>2, <2>3, <2>4 DEF Serves
<1> QED
  BY <1>3, <1>6, <1>7, <1>8 DEF StatesOf

LEMMA CommandServes ==
  ASSUME NEW t \in Tasks, NEW c, Legal(t, c), NEW p, Left(Asked(t, c), <<p>>)
  PROVE  Serves(t, c, p)
<1>1. CASE t = "direct"
  BY <1>1, DirectServes DEF Asked
<1>2. CASE t = "detect"
  BY <1>2, DetectServes DEF Asked
<1>3. CASE t \in WholeByteTasks
  <2>1. Asked(t, c) = BytesAsked(t, c)
    BY <1>3 DEF Asked, WholeByteTasks
  <2> QED
    BY <1>3, <2>1, BytesServes
<1> QED
  BY <1>1, <1>2, <1>3 DEF Tasks, WholeByteTasks
-----------------------------------------------------------------------------
(***************************************************************************)
(* A task's handler: from a result that is true it comes to a context it   *)
(* may wait in, or to a report that is true; and when nothing has come     *)
(* between, to all that can be known, or to exactly what can be done.      *)
(***************************************************************************)
Exact(t, c, res) ==
  IF t = "detect"
  THEN c.modes = Detectable /\ res = (IF c.modes = {} THEN "NO_ACK" ELSE "SUCCESS")
  ELSE (res = "SUCCESS") <=> (Works(t, c.cv) /\ Attainable(t, c))

Told(t, c, res, v) == [task |-> t, owner |-> owner, context |-> c, result |-> res,
                       value |-> v, disturbed |-> disturbed]

Final(t, c, res, v) ==
  /\ c \in Context /\ v \in Byte
  /\ res \in {"SUCCESS", "NO_ACK", "VERIFY_FAIL", "ERROR"}
  /\ res = "SUCCESS" => Holds(Told(t, c, res, v))
  /\ ~disturbed => Exact(t, c, res)

Good(t, d) ==
  /\ Legal(t, d) /\ ModesWork(d) /\ ReadBack(t, d)
  /\ ~disturbed => Knows(t, d) /\ (Asked(t, d) # Refused \/ Exact(t, d, "BUSY"))

Follows(t) ==
  \/ \E d : Good(t, d) /\ Continue(t, d, Asked(t, d))
  \/ \E d, res, v : Final(t, d, res, v) /\ Complete(t, d, res, v)

Ready(t, c) ==
  /\ Legal(t, c) /\ ModesWork(c) /\ Asked(t, c) # Refused
  /\ memory \in [CVs -> Byte]
  /\ Acked /\ c.state \notin Writing => Answer(t, c)
  /\ Acked /\ c.state = "FACTORY_RESET" => memory = FactoryDefaults
  /\ ~disturbed => /\ Knows(t, c)
                   /\ ~Acked /\ c.state \notin Writing => ~Answer(t, c)

LEMMA ToContinue ==
  ASSUME NEW t, NEW d, NEW packets, Good(t, d), packets = Asked(t, d),
         Continue(t, d, packets)
  PROVE  Follows(t)
BY DEF Follows

LEMMA ToComplete ==
  ASSUME NEW t, NEW d, NEW res, NEW v, Final(t, d, res, v), Complete(t, d, res, v)
  PROVE  Follows(t)
BY DEF Follows

LEMMA DirectGood ==
  ASSUME NEW d, d \in Context, d.state \in StatesOf("direct"), LegalDirect(d),
         ModesWork(d), ~disturbed => DirectKnows(d)
  PROVE  Good("direct", d)
<1>1. Legal("direct", d)
  BY DEF Legal, WholeByteTasks
<1>2. Asked("direct", d) # Refused
  BY DEF Asked, DirectAsked, DirectVerifyBit, DirectWriteByte, DirectWriteBit,
         DirectVerifyByte, Refused, StatesOf
<1>3. ReadBack("direct", d)
  BY DEF ReadBack, WholeByteTasks
<1>4. ~disturbed => Knows("direct", d)
  BY DEF Knows, WholeByteTasks
<1> QED
  BY <1>1, <1>2, <1>3, <1>4 DEF Good

LEMMA FollowReadCv ==
  ASSUME NEW c, Ready("direct", c), c.state = "READ_CV", AdvanceReadCv(c)
  PROVE  Follows("direct")
<1> DEFINE v == IF Acked THEN c.value + 2^c.bit ELSE c.value
           n == c.bit + 1
           found == [c EXCEPT !.value = IF Acked THEN @ + 2^c.bit ELSE @,
                              !.any_ack = @ \/ Acked, !.bit = @ + 1]
           last == Go(found, "READ_CV_VERIFY")
           m == memory[c.cv]
<1>1. /\ c \in Context /\ c.cv \in CVs /\ c.bit \in 0..Bits - 1 /\ c.bit < Bits
      /\ c.value \in Byte /\ c.value \in Nat /\ c.value < 2^c.bit /\ Bits \in Nat
      /\ memory \in [CVs -> Byte] /\ ModesWork(c)
  BY ByteFacts DEF Ready, Legal, LegalDirect, Context
<1>2. n \in 1..Bits /\ n \in Nat /\ c.bit \in Nat
  BY <1>1
<1>3. 2^c.bit \in Nat /\ 2^n = 2 * 2^c.bit /\ 2^n \in Nat /\ 2^n <= 2^Bits
  BY <1>1, <1>2, PowStep, PowSubsets, PowGrows
<1>4. v \in Nat /\ v < 2^n /\ v \in Byte
  <2> DEFINE P == 2^c.bit
             Q == 2^n
  <2>1. P \in Nat /\ Q = 2 * P /\ Q <= ByteMax + 1 /\ c.value \in Nat /\ c.value < P
    BY <1>1, <1>3, ByteFacts
  <2>2. v = IF Acked THEN c.value + P ELSE c.value
    OBVIOUS
  <2> HIDE DEF P, Q, v
  <2>3. v \in Nat /\ v < Q
    BY <2>1, <2>2
  <2> QED
    BY <2>1, <2>3, ByteFacts DEF Q
<1>5. /\ found.state = "READ_CV" /\ found.cv = c.cv /\ found.value = v
      /\ found.bit = n /\ found.modes = c.modes /\ found \in Context
  <2>1. (c.any_ack \/ Acked) \in BOOLEAN
    OBVIOUS
  <2>2. found = [[[c EXCEPT !.value = v] EXCEPT !.any_ack = c.any_ack \/ Acked]
                   EXCEPT !.bit = n]
    BY <1>1 DEF Context
  <2>3. n \in 0..Bits
    BY <1>2
  <2> HIDE DEF v, n, found
  <2> QED
    BY <1>1, <1>4, <2>1, <2>2, <2>3 DEF Context
<1>6. /\ last.state = "READ_CV_VERIFY" /\ last.cv = c.cv /\ last.value = v
      /\ last.modes = c.modes /\ last \in Context
  <2> HIDE DEF found, v
  <2> QED
    BY <1>5 DEF Context, Go, States
<1>7. ~disturbed /\ "direct" \in supports => v = m % 2^n
  <2> SUFFICES ASSUME ~disturbed, "direct" \in supports PROVE v = m % 2^n
    OBVIOUS
  <2>1. c.value = m % 2^c.bit /\ (~Acked => ~DirectAnswer(c)) /\ (Acked => DirectAnswer(c))
    BY DEF Ready, Knows, DirectKnows, Answer, Writing, WholeByteTasks
  <2>2. Acked <=> BitOf(m, c.bit) = 1
    BY <2>1 DEF DirectAnswer
  <2>3. m \in Nat
    BY <1>1, ByteFacts
  <2>4. m % 2^n = (m % 2^c.bit) + BitOf(m, c.bit) * 2^c.bit /\ BitOf(m, c.bit) \in {0, 1}
    BY <1>2, <2>3, LowBits
  <2> DEFINE P == 2^c.bit
             k == BitOf(m, c.bit)
             l == m % 2^c.bit
             h == m % 2^n
  <2>5. P \in Nat /\ c.value = l /\ c.value \in Nat /\ (Acked <=> k = 1) /\ k \in {0, 1}
        /\ h = l + k * P /\ v = IF Acked THEN c.value + P ELSE c.value
    BY <1>1, <1>3, <2>1, <2>2, <2>4
  <2> HIDE DEF P, k, l, h, v
  <2>6. v = h
    BY <2>5
  <2> QED
    BY <2>6 DEF h
<1>8. CASE found.bit = Bits
  <2>1. Continue("direct", last, DirectVerifyByte(c.cv, v))
    BY <1>5, <1>8 DEF AdvanceReadCv
  <2>2. ~disturbed /\ "direct" \in supports => v = m
    <3>1. n = Bits
      BY <1>5, <1>8
    <3>2. m \in Nat /\ m < 2^n
      BY <1>1, <3>1, ByteFacts
    <3>3. m % 2^n = m
      BY <1>2, <3>2, LowBits
    <3> QED
      BY <1>7, <3>3
  <2> HIDE DEF last, v, m, found
  <2>3. LegalDirect(last)
    BY <1>1, <1>6 DEF LegalDirect
  <2>4. ModesWork(last)
    BY <1>1, <1>6 DEF ModesWork
  <2>5. ~disturbed => DirectKnows(last)
    BY <1>6, <2>2 DEF DirectKnows, m
  <2>6. Asked("direct", last) = DirectVerifyByte(c.cv, v)
    BY <1>6 DEF Asked, DirectAsked
  <2>7. Good("direct", last)
    BY <1>6, <2>3, <2>4, <2>5, DirectGood DEF StatesOf
  <2> QED
    BY <2>1, <2>6, <2>7, ToContinue
<1>9. CASE found.bit # Bits
  <2>1. Continue("direct", found, DirectVerifyBit(c.cv, n, 1))
    BY <1>5, <1>9 DEF AdvanceReadCv
  <2>2. n < Bits
    BY <1>1, <1>2, <1>5, <1>9
  <2> HIDE DEF v, m, found, n
  <2>3. LegalDirect(found)
    BY <1>1, <1>4, <1>5, <2>2 DEF LegalDirect
  <2>4. ModesWork(found)
    BY <1>1, <1>5 DEF ModesWork
  <2>5. ~disturbed => DirectKnows(found)
    BY <1>5, <1>7 DEF DirectKnows, m
  <2>6. Asked("direct", found) = DirectVerifyBit(c.cv, n, 1)
    BY <1>5 DEF Asked, DirectAsked
  <2>7. Good("direct", found)
    BY <1>5, <2>3, <2>4, <2>5, DirectGood DEF StatesOf
  <2> QED
    BY <2>1, <2>6, <2>7, ToContinue
<1> QED
  BY <1>8, <1>9
LEMMA HoldsCases ==
  ASSUME NEW t, NEW c, NEW res, NEW v
  PROVE  /\ ReadsByte(c.state) /\ memory[c.cv] = v => Holds(Told(t, c, res, v))
         /\ ReadsBit(c.state) /\ BitOf(memory[c.cv], c.bit) = v =>
              Holds(Told(t, c, res, v))
         /\ WritesByte(c.state) /\ memory[c.cv] = c.value => Holds(Told(t, c, res, v))
         /\ WritesBit(c.state) /\ BitOf(memory[c.cv], c.bit) = c.bit_value =>
              Holds(Told(t, c, res, v))
         /\ c.state = "FACTORY_RESET" /\ memory = FactoryDefaults =>
              Holds(Told(t, c, res, v))
         /\ c.state \in StatesOf("detect") /\ c.modes # {} /\ ModesWork(c) =>
              Holds(Told(t, c, res, v))
<1> DEFINE r == Told(t, c, res, v)
<1>1. r.context = c /\ r.value = v
  BY DEF Told
<1> HIDE DEF r
<1>2. ReadsByte(c.state) /\ memory[c.cv] = v => Holds(r)
  BY <1>1 DEF Holds, ReadsByte, ReadsBit, WritesByte, WritesBit
<1>3. ReadsBit(c.state) /\ BitOf(memory[c.cv], c.bit) = v => Holds(r)
  BY <1>1 DEF Holds, ReadsByte, ReadsBit, WritesByte, WritesBit
<1>4. WritesByte(c.state) /\ memory[c.cv] = c.value => Holds(r)
  BY <1>1 DEF Holds, ReadsByte, ReadsBit, WritesByte, WritesBit
<1>5. WritesBit(c.state) /\ BitOf(memory[c.cv], c.bit) = c.bit_value => Holds(r)
  BY <1>1 DEF Holds, ReadsByte, ReadsBit, WritesByte, WritesBit
<1>6. c.state = "FACTORY_RESET" /\ memory = FactoryDefaults => Holds(r)
  BY <1>1 DEF Holds, ReadsByte, ReadsBit, WritesByte, WritesBit
<1>7. c.state \in StatesOf("detect") /\ c.modes # {} /\ ModesWork(c) => Holds(r)
  BY <1>1
  DEF Holds, ReadsByte, ReadsBit, WritesByte, WritesBit, StatesOf, ModesWork
<1> QED
  BY <1>2, <1>3, <1>4, <1>5, <1>6, <1>7 DEF r

LEMMA AttainableCases ==
  ASSUME NEW t, NEW c
  PROVE  /\ ReadsByte(c.state) \/ ReadsBit(c.state) =>
              (Attainable(t, c) <=> Scanned(t, memory[c.cv]))
         /\ WritesByte(c.state) => (Attainable(t, c) <=> memory[c.cv] = c.value)
         /\ WritesBit(c.state) /\ t = "direct" =>
              (Attainable(t, c) <=> BitOf(memory[c.cv], c.bit) = c.bit_value)
         /\ WritesBit(c.state) /\ t # "direct" =>
              (Attainable(t, c) <=> /\ Scanned(t, memory[c.cv])
                                    /\ memory[c.cv] = c.value)
         /\ c.state = "FACTORY_RESET" => Attainable(t, c)
<1>1. ReadsByte(c.state) \/ ReadsBit(c.state) =>
        (Attainable(t, c) <=> Scanned(t, memory[c.cv]))
  BY DEF Attainable, Scanned, ReadsByte, ReadsBit, WritesByte, WritesBit
<1>2. WritesByte(c.state) => (Attainable(t, c) <=> memory[c.cv] = c.value)
  BY DEF Attainable, Scanned, ReadsByte, ReadsBit, WritesByte, WritesBit
<1>3. WritesBit(c.state) /\ t = "direct" =>
        (Attainable(t, c) <=> BitOf(memory[c.cv], c.bit) = c.bit_value)
  BY DEF Attainable, Scanned, ReadsByte, ReadsBit, WritesByte, WritesBit
<1>4. WritesBit(c.state) /\ t # "direct" =>
        (Attainable(t, c) <=> Scanned(t, memory[c.cv]) /\ memory[c.cv] = c.value)
  BY DEF Attainable, Scanned, ReadsByte, ReadsBit, WritesByte, WritesBit
<1>5. c.state = "FACTORY_RESET" => Attainable(t, c)
  BY DEF Attainable, Scanned, ReadsByte, ReadsBit, WritesByte, WritesBit
<1> QED
  BY <1>1, <1>2, <1>3, <1>4, <1>5

LEMMA GoContext ==
  ASSUME NEW c \in Context, NEW s \in States
  PROVE  /\ Go(c, s) \in Context /\ Go(c, s).state = s
         /\ Go(c, s).cv = c.cv /\ Go(c, s).register = c.register
         /\ Go(c, s).bit = c.bit /\ Go(c, s).bit_value = c.bit_value
         /\ Go(c, s).value = c.value /\ Go(c, s).scan = c.scan
         /\ Go(c, s).modes = c.modes /\ Go(c, s).value_known = c.value_known
BY DEF Context, Go

\* A step of direct mode that only changes the state.
LEMMA DirectGoes ==
  ASSUME NEW c, Ready("direct", c), NEW s \in StatesOf("direct"),
         s \notin {"READ_CV", "READ_CV_VERIFY"},
         s \in {"READ_BIT_CONFIRM", "WRITE_BIT_VERIFY"} => c.bit < Bits,
         ~disturbed => DirectKnows(Go(c, s)),
         s # "READ_BIT" /\ s # "WRITE_BIT"
  PROVE  Good("direct", Go(c, s))
<1>1. c \in Context /\ ModesWork(c) /\ c.cv \in CVs
  BY DEF Ready, Legal, LegalDirect
<1>2. s \in States
  BY DEF StatesOf, States
<1> DEFINE d == Go(c, s)
<1>3. /\ d \in Context /\ d.state = s /\ d.cv = c.cv /\ d.bit = c.bit
      /\ d.modes = c.modes
  BY <1>1, <1>2, GoContext
<1> HIDE DEF d
<1>4. LegalDirect(d)
  BY <1>1, <1>3 DEF LegalDirect
<1>5. ModesWork(d)
  BY <1>1, <1>3 DEF ModesWork
<1>6. ~disturbed => DirectKnows(d)
  BY DEF d
<1>7. Good("direct", d)
  BY <1>3, <1>4, <1>5, <1>6, DirectGood
<1> QED
  BY <1>7 DEF d

LEMMA DirectFinal ==
  ASSUME NEW c, Ready("direct", c), NEW res, NEW v \in Byte,
         res \in {"SUCCESS", "NO_ACK", "VERIFY_FAIL", "ERROR"},
         res = "SUCCESS" => Holds(Told("direct", c, res, v)),
         ~disturbed => Exact("direct", c, res)
  PROVE  Final("direct", c, res, v)
BY DEF Final, Ready, Legal

LEMMA DirectFollows ==
  ASSUME NEW c, Ready("direct", c), DirectPrimitiveComplete(c)
  PROVE  Follows("direct")
<1>1. /\ c \in Context /\ c.cv \in CVs /\ c.value \in Byte /\ c.bit_value \in {0, 1}
      /\ LegalDirect(c) /\ c.state \in StatesOf("direct")
  BY DEF Ready, Legal, LegalDirect, Context, Bit
<1>2. 0 \in Byte /\ 1 \in Byte /\ c.bit_value \in Byte
  BY <1>1, ByteFacts
<1>3. /\ Acked /\ c.state \notin Writing => DirectAnswer(c)
      /\ ~disturbed /\ ~Acked /\ c.state \notin Writing => ~DirectAnswer(c)
      /\ ~disturbed => DirectKnows(c)
  BY DEF Ready, Answer, Knows, WholeByteTasks
<1>4. Works("direct", c.cv) <=> "direct" \in supports
  BY DEF Works
<1>5. CASE c.state = "READ_CV"
  BY <1>5, FollowReadCv DEF DirectPrimitiveComplete
<1>6. CASE c.state = "READ_CV_VERIFY"
  <2>1. Attainable("direct", c)
    BY <1>6, AttainableCases DEF ReadsByte, Scanned
  <2>2. Acked => memory[c.cv] = c.value /\ "direct" \in supports
    BY <1>3, <1>6 DEF DirectAnswer, Writing
  <2>3. ~Acked /\ ~disturbed => "direct" \notin supports
    BY <1>3, <1>6 DEF DirectAnswer, DirectKnows, Writing
  <2>4. Acked => Final("direct", c, "SUCCESS", c.value)
    <3>1. Acked => Holds(Told("direct", c, "SUCCESS", c.value))
      BY <1>6, <2>2, HoldsCases DEF ReadsByte
    <3> QED
      BY <1>1, <1>4, <2>1, <2>2, <3>1, DirectFinal DEF Exact
  <2>5. ~Acked => Final("direct", c, "VERIFY_FAIL", c.value)
    BY <1>1, <1>4, <2>3, DirectFinal DEF Exact
  <2>6. ~Acked => Final("direct", c, "NO_ACK", 0)
    BY <1>2, <1>4, <2>3, DirectFinal DEF Exact
  <2>7. AdvanceReadCvVerify(c)
    BY <1>6 DEF DirectPrimitiveComplete
  <2>8. \/ Acked /\ Complete("direct", c, "SUCCESS", c.value)
        \/ ~Acked /\ Complete("direct", c, "VERIFY_FAIL", c.value)
        \/ ~Acked /\ Complete("direct", c, "NO_ACK", 0)
    BY <2>7 DEF AdvanceReadCvVerify
  <2> QED
    BY <2>4, <2>5, <2>6, <2>8, ToComplete
<1>7. CASE c.state = "WRITE_CV"
  <2>1. Continue("direct", Go(c, "WRITE_CV_VERIFY"), DirectVerifyByte(c.cv, c.value))
    BY <1>7 DEF DirectPrimitiveComplete
  <2> DEFINE d == Go(c, "WRITE_CV_VERIFY")
  <2>2. d.state = "WRITE_CV_VERIFY" /\ d.cv = c.cv /\ d.value = c.value
    BY <1>1, GoContext DEF States
  <2>3. Asked("direct", d) = DirectVerifyByte(c.cv, c.value)
    BY <2>2 DEF Asked, DirectAsked
  <2>4. Good("direct", d)
    <3>1. DirectKnows(d)
      BY <2>2 DEF DirectKnows
    <3> QED
      BY <3>1, DirectGoes DEF StatesOf
  <2> QED
    BY <2>1, <2>3, <2>4, ToContinue
<1>8. CASE c.state = "WRITE_CV_VERIFY"
  <2> DEFINE res == IF Acked THEN "SUCCESS" ELSE "VERIFY_FAIL"
  <2>1. Complete("direct", c, res, c.value)
    BY <1>8 DEF DirectPrimitiveComplete, Verified
  <2>2. Attainable("direct", c) <=> memory[c.cv] = c.value
    BY <1>8, AttainableCases DEF WritesByte
  <2>3. Acked => memory[c.cv] = c.value /\ "direct" \in supports
    BY <1>3, <1>8 DEF DirectAnswer, Writing
  <2>4. ~Acked /\ ~disturbed => ~("direct" \in supports /\ memory[c.cv] = c.value)
    BY <1>3, <1>8 DEF DirectAnswer, Writing
  <2>5. res = "SUCCESS" => Holds(Told("direct", c, res, c.value))
    BY <1>8, <2>3, HoldsCases DEF WritesByte
  <2>6. ~disturbed => Exact("direct", c, res)
    BY <1>4, <2>2, <2>3, <2>4 DEF Exact
  <2>7. Final("direct", c, res, c.value)
    BY <1>1, <2>5, <2>6, DirectFinal
  <2> QED
    BY <2>1, <2>7, ToComplete
<1>9. CASE c.state = "READ_BIT"
  <2>1. AdvanceReadBit(c)
    BY <1>9 DEF DirectPrimitiveComplete
  <2>2. CASE Acked
    <3>1. Complete("direct", c, "SUCCESS", 1)
      BY <2>1, <2>2 DEF AdvanceReadBit
    <3>2. "direct" \in supports /\ BitOf(memory[c.cv], c.bit) = 1
      BY <1>3, <1>9, <2>2 DEF DirectAnswer, Writing
    <3>3. Holds(Told("direct", c, "SUCCESS", 1))
      BY <1>9, <3>2, HoldsCases DEF ReadsBit
    <3>4. Attainable("direct", c)
      BY <1>9, AttainableCases DEF ReadsBit, Scanned
    <3>5. Final("direct", c, "SUCCESS", 1)
      BY <1>2, <1>4, <3>2, <3>3, <3>4, DirectFinal DEF Exact
    <3> QED
      BY <3>1, <3>5, ToComplete
  <2>3. CASE ~Acked
    <3> DEFINE d == Go(c, "READ_BIT_CONFIRM")
    <3>1. Continue("direct", d, DirectVerifyBit(c.cv, c.bit, 0))
      BY <2>1, <2>3 DEF AdvanceReadBit
    <3>2. d.state = "READ_BIT_CONFIRM" /\ d.cv = c.cv /\ d.bit = c.bit
      BY <1>1, GoContext DEF States
    <3>3. Asked("direct", d) = DirectVerifyBit(c.cv, c.bit, 0)
      BY <3>2 DEF Asked, DirectAsked
    <3>4. ~disturbed => DirectKnows(d)
      BY <1>3, <1>9, <2>3, <3>2 DEF DirectKnows, DirectAnswer, Writing
    <3>5. c.bit < Bits
      BY <1>1, <1>9 DEF LegalDirect
    <3>6. Good("direct", d)
      BY <3>4, <3>5, DirectGoes DEF StatesOf
    <3> QED
      BY <3>1, <3>3, <3>6, ToContinue
  <2> QED
    BY <2>2, <2>3
<1>10. CASE c.state = "READ_BIT_CONFIRM"
  <2> DEFINE res == IF Acked THEN "SUCCESS" ELSE "NO_ACK"
  <2>1. Complete("direct", c, res, 0)
    BY <1>10 DEF DirectPrimitiveComplete, AdvanceReadBitConfirm
  <2>2. Attainable("direct", c)
    BY <1>10, AttainableCases DEF ReadsBit, Scanned
  <2>3. Acked => "direct" \in supports /\ BitOf(memory[c.cv], c.bit) = 0
    BY <1>3, <1>10 DEF DirectAnswer, Writing
  <2>4. BitOf(memory[c.cv], c.bit) \in {0, 1}
    <3>1. memory[c.cv] \in Nat /\ c.bit \in Nat
      BY <1>1, ByteFacts DEF Ready, Context
    <3> QED
      BY <3>1, LowBits
  <2>5. ~Acked /\ ~disturbed => "direct" \notin supports
    BY <1>3, <1>10, <2>4 DEF DirectAnswer, DirectKnows, Writing
  <2>6. res = "SUCCESS" => Holds(Told("direct", c, res, 0))
    BY <1>10, <2>3, HoldsCases DEF ReadsBit
  <2>7. ~disturbed => Exact("direct", c, res)
    BY <1>4, <2>2, <2>3, <2>5 DEF Exact
  <2>8. Final("direct", c, res, 0)
    BY <1>2, <2>6, <2>7, DirectFinal
  <2> QED
    BY <2>1, <2>8, ToComplete
<1>11. CASE c.state = "WRITE_BIT"
  <2> DEFINE d == Go(c, "WRITE_BIT_VERIFY")
  <2>1. Continue("direct", d, DirectVerifyBit(c.cv, c.bit, c.bit_value))
    BY <1>11 DEF DirectPrimitiveComplete
  <2>2. /\ d.state = "WRITE_BIT_VERIFY" /\ d.cv = c.cv /\ d.bit = c.bit
        /\ d.bit_value = c.bit_value
    BY <1>1, GoContext DEF States
  <2>3. Asked("direct", d) = DirectVerifyBit(c.cv, c.bit, c.bit_value)
    BY <2>2 DEF Asked, DirectAsked
  <2>4. DirectKnows(d) /\ c.bit < Bits
    BY <1>1, <1>11, <2>2 DEF DirectKnows, LegalDirect
  <2>5. Good("direct", d)
    BY <2>4, DirectGoes DEF StatesOf
  <2> QED
    BY <2>1, <2>3, <2>5, ToContinue
<1>12. CASE c.state = "WRITE_BIT_VERIFY"
  <2> DEFINE res == IF Acked THEN "SUCCESS" ELSE "VERIFY_FAIL"
  <2>1. Complete("direct", c, res, c.bit_value)
    BY <1>12 DEF DirectPrimitiveComplete, Verified
  <2>2. Attainable("direct", c) <=> BitOf(memory[c.cv], c.bit) = c.bit_value
    BY <1>12, AttainableCases DEF WritesBit
  <2>3. Acked => "direct" \in supports /\ BitOf(memory[c.cv], c.bit) = c.bit_value
    BY <1>3, <1>12 DEF DirectAnswer, Writing
  <2>4. ~Acked /\ ~disturbed =>
          ~("direct" \in supports /\ BitOf(memory[c.cv], c.bit) = c.bit_value)
    BY <1>3, <1>12 DEF DirectAnswer, Writing
  <2>5. res = "SUCCESS" => Holds(Told("direct", c, res, c.bit_value))
    BY <1>12, <2>3, HoldsCases DEF WritesBit
  <2>6. ~disturbed => Exact("direct", c, res)
    BY <1>4, <2>2, <2>3, <2>4 DEF Exact
  <2>7. Final("direct", c, res, c.bit_value)
    BY <1>2, <2>5, <2>6, DirectFinal
  <2> QED
    BY <2>1, <2>7, ToComplete
<1> QED
  BY <1>1, <1>5, <1>6, <1>7, <1>8, <1>9, <1>10, <1>11, <1>12 DEF StatesOf
\* When a task that handles whole bytes finds its primitive refused.
LEMMA BytesRefused ==
  ASSUME NEW t \in WholeByteTasks, NEW c, c.state \in StatesOf(t)
  PROVE  /\ t = "paged" => Asked(t, c) # Refused
         /\ t = "register" =>
              (Asked(t, c) # Refused <=>
                 (IF c.state = "FACTORY_RESET" THEN 8 ELSE c.register) \in 1..8)
         /\ t = "address" => (Asked(t, c) # Refused <=> BytesValue(c) \in 1..AddressMax)
<1>1. Asked(t, c) = BytesAccess(t, c)
  BY BytesAskedIs DEF Asked, WholeByteTasks
<1>2. ASSUME t = "paged" PROVE Asked(t, c) # Refused
  BY <1>1, <1>2 DEF BytesAccess, PagedAccess, Refused
<1>3. ASSUME t = "register"
      PROVE  Asked(t, c) # Refused <=>
               (IF c.state = "FACTORY_RESET" THEN 8 ELSE c.register) \in 1..8
  <2> DEFINE r == IF c.state = "FACTORY_RESET" THEN 8 ELSE c.register
  <2>1. Asked(t, c) = RegisterAccess(BytesKind(c), r, BytesValue(c))
    BY <1>1, <1>3 DEF BytesAccess
  <2> HIDE DEF r
  <2>2. Asked(t, c) # Refused <=> r \in 1..8
    BY <2>1 DEF RegisterAccess, Refused
  <2> QED
    BY <2>2 DEF r
<1>4. ASSUME t = "address"
      PROVE  Asked(t, c) # Refused <=> BytesValue(c) \in 1..AddressMax
  <2>1. Asked(t, c) = AddressAccess(BytesKind(c), BytesValue(c))
    BY <1>1, <1>4 DEF BytesAccess
  <2> QED
    BY <2>1 DEF AddressAccess, Refused
<1> QED
  BY <1>2, <1>3, <1>4

LEMMA BytesGood ==
  ASSUME NEW t \in WholeByteTasks, NEW d, d \in Context, d.state \in StatesOf(t),
         LegalBytes(t, d), ModesWork(d),
         d.state = "WRITE_BIT_WRITE" => memory[d.cv] = d.scan,
         ~disturbed => /\ BytesKnows(t, d)
                       /\ Asked(t, d) # Refused \/ Exact(t, d, "BUSY")
  PROVE  Good(t, d)
BY DEF Good, Legal, ReadBack, Knows, WholeByteTasks

\* What is known where a byte task's handler begins.
LEMMA BytesReady ==
  ASSUME NEW t \in WholeByteTasks, NEW c, Ready(t, c)
  PROVE  /\ c \in Context /\ c.state \in StatesOf(t) /\ LegalBytes(t, c) /\ ModesWork(c)
         /\ c.cv \in CVs /\ memory[c.cv] \in 0..ByteMax /\ c.bit \in 0..Bits - 1
         /\ c.bit_value \in {0, 1} /\ c.bit_value \in Byte /\ 0 \in Byte
         /\ c.value \in Byte /\ c.scan \in 0..ByteMax /\ c.scan <= ScanLast(t)
         /\ Acked /\ c.state \notin Writing => BytesAnswer(t, c)
         /\ ~disturbed => /\ BytesKnows(t, c)
                          /\ ~Acked /\ c.state \notin Writing => ~BytesAnswer(t, c)
         /\ Asked(t, c) # Refused
         /\ t = "address" => BytesValue(c) \in 1..AddressMax
         /\ t = "register" /\ c.state # "FACTORY_RESET" => c.register \in 1..8
<1>1. /\ c \in Context /\ c.state \in StatesOf(t) /\ LegalBytes(t, c) /\ ModesWork(c)
      /\ memory \in [CVs -> Byte] /\ Asked(t, c) # Refused
      /\ Acked /\ c.state \notin Writing => BytesAnswer(t, c)
      /\ ~disturbed => /\ BytesKnows(t, c)
                       /\ ~Acked /\ c.state \notin Writing => ~BytesAnswer(t, c)
  BY DEF Ready, Legal, Answer, Knows, WholeByteTasks
<1>2. /\ c.cv \in CVs /\ memory[c.cv] \in Byte /\ c.scan <= ScanLast(t)
      /\ c.bit < Bits
  BY <1>1 DEF LegalBytes
<1>3. /\ c.bit \in 0..Bits /\ c.bit_value \in {0, 1} /\ c.value \in Byte
      /\ c.scan \in Byte
  BY <1>1 DEF Context, Bit
<1>4. Byte = 0..ByteMax /\ 0 \in Byte /\ c.bit_value \in Byte
  BY <1>3, ByteFacts
<1>5. c.bit \in 0..Bits - 1
  BY <1>2, <1>3, ByteFacts
<1>6. /\ t = "address" => BytesValue(c) \in 1..AddressMax
      /\ t = "register" /\ c.state # "FACTORY_RESET" => c.register \in 1..8
  BY <1>1, BytesRefused
<1> QED
  BY <1>1, <1>2, <1>3, <1>4, <1>5, <1>6

LEMMA BytesFinal ==
  ASSUME NEW t \in WholeByteTasks, NEW c \in Context, NEW res, NEW v \in Byte,
         res \in {"SUCCESS", "NO_ACK", "VERIFY_FAIL", "ERROR"},
         res = "SUCCESS" => Holds(Told(t, c, res, v)),
         ~disturbed => ((res = "SUCCESS") <=> (Works(t, c.cv) /\ Attainable(t, c)))
  PROVE  Final(t, c, res, v)
BY DEF Final, Exact, WholeByteTasks

\* The scan goes on to the next value, or ends when there is none.
LEMMA ScanFollows ==
  ASSUME NEW t \in WholeByteTasks, NEW c, Ready(t, c), c.state \in ScannedStates,
         NEW found, found /\ Acked => Follows(t), AdvanceScan(t, c, found)
  PROVE  Follows(t)
<1>1. /\ c \in Context /\ c.state \in StatesOf(t) /\ LegalBytes(t, c) /\ ModesWork(c)
      /\ c.cv \in CVs /\ memory[c.cv] \in 0..ByteMax
      /\ c.scan \in 0..ByteMax /\ c.scan <= ScanLast(t) /\ 0 \in Byte
      /\ ~disturbed => /\ BytesKnows(t, c)
                       /\ ~Acked /\ c.state \notin Writing => ~BytesAnswer(t, c)
      /\ t = "register" /\ c.state # "FACTORY_RESET" => c.register \in 1..8
  BY BytesReady
<1>2. c.state \notin Writing /\ c.state # "FACTORY_RESET"
  BY DEF ScannedStates, Writing
<1>3. ScanLast(t) \in 0..ByteMax /\ ScanFirst(t) \in {0, 1}
      /\ (t = "address" => ScanFirst(t) = 1 /\ ScanLast(t) = AddressMax)
      /\ (t # "address" => ScanFirst(t) = 0 /\ ScanLast(t) = ByteMax)
  BY ByteFacts DEF ScanLast, ScanFirst
<1>4. ASSUME ~disturbed, ~Acked, Works(t, c.cv)
      PROVE  NotBelow(memory[c.cv], ScanFirst(t), c.scan + 1)
  <2>1. NotBelow(memory[c.cv], ScanFirst(t), c.scan)
    BY <1>1, <1>4 DEF BytesKnows
  <2>2. memory[c.cv] # c.scan
    BY <1>1, <1>2, <1>4 DEF BytesAnswer, ScannedStates
  <2> QED
    BY <1>1, <1>3, <2>1, <2>2 DEF NotBelow
<1>5. CASE Acked
  BY <1>5 DEF AdvanceScan
<1>6. CASE ~Acked /\ c.scan = ScanLast(t)
  <2>1. Complete(t, c, "ERROR", 0)
    BY <1>6 DEF AdvanceScan
  <2>2. ~disturbed => ~(Works(t, c.cv) /\ Attainable(t, c))
    <3> SUFFICES ASSUME ~disturbed, Works(t, c.cv), Attainable(t, c) PROVE FALSE
      OBVIOUS
    <3>1. memory[c.cv] \notin ScanFirst(t)..ScanLast(t)
      BY <1>1, <1>3, <1>4, <1>6 DEF NotBelow
    <3>2. t # "direct" /\ (ReadsByte(c.state) \/ ReadsBit(c.state) \/ WritesBit(c.state))
      BY DEF WholeByteTasks, ScannedStates, ReadsByte, ReadsBit, WritesBit
    <3>3. Scanned(t, memory[c.cv])
      BY <3>2, AttainableCases
    <3> QED
      BY <1>1, <1>3, <3>1, <3>3 DEF Scanned
  <2>3. Final(t, c, "ERROR", 0)
    BY <1>1, <2>2, BytesFinal
  <2> QED
    BY <2>1, <2>3, ToComplete
<1>7. CASE ~Acked /\ c.scan # ScanLast(t)
  <2> DEFINE n == c.scan + 1
             d == [c EXCEPT !.scan = n]
  <2>1. Continue(t, d, VerifyOf(t, c, n))
    BY <1>1, <1>7 DEF AdvanceScan, Context
  <2>2. n \in 0..ByteMax /\ n \in 1..ScanLast(t) /\ n \in Byte
    BY <1>1, <1>3, <1>7, ByteFacts
  <2>3. /\ d \in Context /\ d.state = c.state /\ d.cv = c.cv /\ d.register = c.register
        /\ d.bit = c.bit /\ d.scan = n /\ d.modes = c.modes
    <3> HIDE DEF n
    <3> QED
      BY <1>1, <2>2 DEF Context
  <2> HIDE DEF d, n
  <2>4. Asked(t, d) = VerifyOf(t, c, n)
    <3>1. d.state \in ScannedStates
      BY <2>3
    <3>2. Asked(t, d) = VerifyOf(t, d, n)
      BY <2>3, <3>1 DEF WholeByteTasks, Asked, BytesAsked, ScannedStates
    <3>3. VerifyOf(t, d, n) = VerifyOf(t, c, n)
      BY <2>3 DEF WholeByteTasks, VerifyOf
    <3> QED
      BY <3>2, <3>3
  <2>5. LegalBytes(t, d)
    BY <1>1, <2>2, <2>3 DEF LegalBytes, ScannedStates
  <2>6. ModesWork(d)
    BY <1>1, <2>3 DEF ModesWork
  <2>7. ~disturbed => BytesKnows(t, d)
    BY <1>4, <1>7, <2>3 DEF BytesKnows, n
  <2>8. Asked(t, d) # Refused
    <3>1. BytesValue(d) = n
      BY <2>3 DEF BytesValue
    <3> QED
      BY <1>1, <1>2, <1>3, <2>2, <2>3, <3>1, BytesRefused DEF WholeByteTasks
  <2>9. Good(t, d)
    BY <1>1, <1>2, <2>3, <2>5, <2>6, <2>7, <2>8, BytesGood DEF Writing
  <2> QED
    BY <2>1, <2>4, <2>9, ToContinue
<1> QED
  BY <1>5, <1>6, <1>7

LEMMA FoundFollows ==
  ASSUME NEW t \in WholeByteTasks, NEW c, Ready(t, c),
         c.state \in {"READ_CV", "READ_BIT_READ_BYTE"}, Acked, ReportFoundValue(t, c)
  PROVE  Follows(t)
<1> DEFINE v == IF c.state = "READ_BIT_READ_BYTE" THEN BitOf(c.scan, c.bit) ELSE c.scan
<1>1. /\ c \in Context /\ c.scan \in 0..ByteMax /\ c.bit \in 0..Bits - 1
      /\ (c.state \notin Writing => BytesAnswer(t, c))
      /\ (t = "address" => BytesValue(c) \in 1..AddressMax)
  BY BytesReady
<1>2. Works(t, c.cv) /\ memory[c.cv] = c.scan
  BY <1>1 DEF BytesAnswer, ScannedStates, Writing
<1>3. v \in Byte
  <2>1. c.scan \in Nat /\ c.bit \in Nat
    BY <1>1, ByteFacts
  <2>2. BitOf(c.scan, c.bit) \in {0, 1}
    BY <2>1, LowBits
  <2> QED
    BY <1>1, <2>2, ByteFacts
<1>4. Complete(t, c, "SUCCESS", v)
  BY DEF ReportFoundValue
<1>5. Holds(Told(t, c, "SUCCESS", v))
  <2>1. CASE c.state = "READ_CV"
    BY <1>2, <2>1, HoldsCases DEF ReadsByte
  <2>2. CASE c.state = "READ_BIT_READ_BYTE"
    BY <1>2, <2>2, HoldsCases DEF ReadsBit
  <2> QED
    BY <2>1, <2>2
<1>6. Attainable(t, c)
  <2>1. BytesValue(c) = c.scan
    BY DEF BytesValue, ScannedStates
  <2>2. Scanned(t, memory[c.cv])
    BY <1>1, <1>2, <2>1 DEF Scanned
  <2> QED
    BY <2>2, AttainableCases DEF ReadsByte, ReadsBit
<1> HIDE DEF v
<1>7. Final(t, c, "SUCCESS", v)
  BY <1>1, <1>2, <1>3, <1>5, <1>6, BytesFinal
<1> QED
  BY <1>4, <1>7, ToComplete

\* Read-modify-write: what was read, with one bit changed.
LEMMA WriteBitFollows ==
  ASSUME NEW t \in WholeByteTasks, NEW c, Ready(t, c),
         c.state = "WRITE_BIT_READ_BYTE", Acked, BeginWriteBit(t, c)
  PROVE  Follows(t)
<1> DEFINE w == WithBit(c.scan, c.bit, c.bit_value)
           d == [c EXCEPT !.state = "WRITE_BIT_WRITE", !.value = w]
<1>1. /\ c \in Context /\ c.state \in StatesOf(t) /\ LegalBytes(t, c) /\ ModesWork(c)
      /\ c.scan \in 0..ByteMax /\ c.bit \in 0..Bits - 1 /\ c.bit_value \in {0, 1}
      /\ (c.state \notin Writing => BytesAnswer(t, c))
      /\ (t = "address" => BytesValue(c) \in 1..AddressMax)
      /\ (t = "register" /\ c.state # "FACTORY_RESET" => c.register \in 1..8)
  BY BytesReady
<1>2. Works(t, c.cv) /\ memory[c.cv] = c.scan
  BY <1>1 DEF BytesAnswer, ScannedStates, Writing
<1>3. w \in Byte
  <2>1. c.scan \in 0..2^Bits - 1 /\ Bits \in Nat
    BY <1>1, ByteFacts
  <2>2. w \in 0..2^Bits - 1
    BY <1>1, <2>1, WithBitWidth
  <2> QED
    BY <2>2, ByteFacts
<1>4. Continue(t, d, WriteOf(t, c, w))
  BY DEF BeginWriteBit
<1>5. /\ d \in Context /\ d.state = "WRITE_BIT_WRITE" /\ d.cv = c.cv
      /\ d.register = c.register /\ d.bit = c.bit /\ d.bit_value = c.bit_value
      /\ d.value = w /\ d.scan = c.scan /\ d.modes = c.modes
  <2> HIDE DEF w
  <2> QED
    BY <1>1, <1>3 DEF Context, States
<1> HIDE DEF d
<1>6. d.state \in StatesOf(t)
  BY <1>5, ScanStatesOf DEF ScanStates
<1>7. Asked(t, d) = WriteOf(t, c, w)
  <2> HIDE DEF w
  <2> QED
    BY <1>5 DEF WholeByteTasks, Asked, BytesAsked, WriteOf, ScannedStates
<1>8. LegalBytes(t, d)
  BY <1>1, <1>5 DEF LegalBytes
<1>9. ModesWork(d)
  BY <1>1, <1>5 DEF ModesWork
<1>10. BytesKnows(t, d)
  BY <1>5 DEF BytesKnows, ScannedStates
<1>11. Asked(t, d) # Refused \/ Exact(t, d, "BUSY")
  <2>1. BytesValue(d) = w
    <3> HIDE DEF w
    <3> QED
      BY <1>5 DEF BytesValue, ScannedStates
  <2> HIDE DEF w
  <2>2. t \in {"paged", "register"} => Asked(t, d) # Refused
    BY <1>1, <1>5, <1>6, BytesRefused
  <2>3. CASE t = "address" /\ w \in 1..AddressMax
    BY <1>6, <2>1, <2>3, BytesRefused
  <2>4. CASE t = "address" /\ w \notin 1..AddressMax
    <3>1. BytesValue(c) = c.scan
      BY DEF BytesValue, ScannedStates
    <3>2. memory[d.cv] # d.value
      BY <1>1, <1>2, <1>5, <2>4, <3>1
    <3>3. ~Attainable(t, d)
      BY <1>5, <2>4, <3>2, AttainableCases DEF WritesBit
    <3> QED
      BY <2>4, <3>3 DEF Exact
  <2> QED
    BY <2>2, <2>3, <2>4 DEF WholeByteTasks
<1>12. Good(t, d)
  BY <1>2, <1>5, <1>6, <1>8, <1>9, <1>10, <1>11, BytesGood
<1> QED
  BY <1>4, <1>7, <1>12, ToContinue

\* What was written is verified.
LEMMA VerifyFollows ==
  ASSUME NEW t \in WholeByteTasks, NEW c, Ready(t, c),
         c.state \in {"WRITE_CV", "WRITE_BIT_WRITE"},
         NEW s, s = (IF c.state = "WRITE_CV" THEN "WRITE_CV_VERIFY"
                     ELSE "WRITE_BIT_VERIFY"),
         Continue(t, Go(c, s), VerifyOf(t, c, c.value))
  PROVE  Follows(t)
<1> DEFINE d == Go(c, s)
<1>1. /\ c \in Context /\ c.state \in StatesOf(t) /\ LegalBytes(t, c) /\ ModesWork(c)
      /\ (t = "address" => BytesValue(c) \in 1..AddressMax)
      /\ (t = "register" /\ c.state # "FACTORY_RESET" => c.register \in 1..8)
  BY BytesReady
<1>2. s \in States /\ s \in ScanStates /\ s \notin ScannedStates
      /\ s \in {"WRITE_CV_VERIFY", "WRITE_BIT_VERIFY"}
  BY DEF States, ScanStates, ScannedStates
<1>3. /\ d \in Context /\ d.state = s /\ d.cv = c.cv /\ d.register = c.register
      /\ d.bit = c.bit /\ d.bit_value = c.bit_value /\ d.value = c.value
      /\ d.scan = c.scan /\ d.modes = c.modes
  BY <1>1, <1>2, GoContext
<1>4. Continue(t, d, VerifyOf(t, c, c.value))
  OBVIOUS
<1> HIDE DEF d
<1>5. d.state \in StatesOf(t)
  BY <1>2, <1>3, ScanStatesOf
<1>6. Asked(t, d) = VerifyOf(t, c, c.value)
  BY <1>2, <1>3 DEF WholeByteTasks, Asked, BytesAsked, VerifyOf, ScannedStates
<1>7. LegalBytes(t, d)
  BY <1>1, <1>2, <1>3 DEF LegalBytes
<1>8. ModesWork(d)
  BY <1>1, <1>3 DEF ModesWork
<1>9. BytesKnows(t, d)
  BY <1>2, <1>3 DEF BytesKnows
<1>10. Asked(t, d) # Refused
  <2>1. BytesValue(d) = c.value /\ BytesValue(c) = c.value
    BY <1>2, <1>3 DEF BytesValue, ScannedStates
  <2> QED
    BY <1>1, <1>2, <1>3, <1>5, <2>1, BytesRefused DEF WholeByteTasks
<1>11. Good(t, d)
  BY <1>2, <1>3, <1>5, <1>7, <1>8, <1>9, <1>10, BytesGood
<1> QED
  BY <1>4, <1>6, <1>11, ToContinue

\* The last step of a write, or a value the application asked to verify.
LEMMA VerifiedFollows ==
  ASSUME NEW t \in WholeByteTasks, NEW c, Ready(t, c),
         c.state \in {"WRITE_CV_VERIFY", "WRITE_BIT_VERIFY", "VERIFY_VALUE"},
         NEW v \in Byte, Verified(t, c, v)
  PROVE  Follows(t)
<1> DEFINE res == IF Acked THEN "SUCCESS" ELSE "VERIFY_FAIL"
<1>1. /\ c \in Context /\ LegalBytes(t, c) /\ c.scan \in 0..ByteMax
      /\ c.bit \in 0..Bits - 1 /\ c.bit_value \in {0, 1}
      /\ Acked /\ c.state \notin Writing => BytesAnswer(t, c)
      /\ ~disturbed /\ ~Acked /\ c.state \notin Writing => ~BytesAnswer(t, c)
      /\ (t = "address" => BytesValue(c) \in 1..AddressMax)
  BY BytesReady
<1>2. Complete(t, c, res, v)
  BY DEF Verified
<1>3. /\ Acked => Works(t, c.cv) /\ memory[c.cv] = c.value
      /\ ~Acked /\ ~disturbed => ~(Works(t, c.cv) /\ memory[c.cv] = c.value)
  BY <1>1 DEF BytesAnswer, ScannedStates, Writing
<1>4. CASE c.state # "WRITE_BIT_VERIFY"
  <2>1. WritesByte(c.state)
    BY <1>4 DEF WritesByte
  <2>2. Attainable(t, c) <=> memory[c.cv] = c.value
    BY <2>1, AttainableCases
  <2>3. res = "SUCCESS" => Holds(Told(t, c, res, v))
    BY <1>3, <2>1, HoldsCases
  <2>4. Final(t, c, res, v)
    BY <1>1, <1>3, <2>2, <2>3, BytesFinal
  <2> QED
    BY <1>2, <2>4, ToComplete
<1>5. CASE c.state = "WRITE_BIT_VERIFY"
  <2>1. WritesBit(c.state) /\ t # "direct"
    BY <1>5 DEF WritesBit, WholeByteTasks
  <2>2. BytesValue(c) = c.value
    BY <1>5 DEF BytesValue, ScannedStates
  <2>3. Attainable(t, c) <=> memory[c.cv] = c.value
    BY <1>1, <2>1, <2>2, AttainableCases DEF Scanned
  <2>4. BitOf(c.value, c.bit) = c.bit_value
    <3>1. c.value = WithBit(c.scan, c.bit, c.bit_value)
      BY <1>1, <1>5 DEF LegalBytes
    <3>2. c.scan \in Nat /\ c.bit \in Nat /\ c.bit_value \in {0, 1}
      BY <1>1, ByteFacts
    <3>3. BitOf(WithBit(c.scan, c.bit, c.bit_value), c.bit) = c.bit_value
      BY <3>2, WithBitSame
    <3> QED
      BY <3>1, <3>3, Zenon
  <2>5. res = "SUCCESS" => Holds(Told(t, c, res, v))
    BY <1>3, <2>1, <2>4, HoldsCases
  <2>6. Final(t, c, res, v)
    BY <1>1, <1>3, <2>3, <2>5, BytesFinal
  <2> QED
    BY <1>2, <2>6, ToComplete
<1> QED
  BY <1>4, <1>5

LEMMA BytesFollow ==
  ASSUME NEW t \in WholeByteTasks, NEW c, Ready(t, c), c.state \in ScanStates,
         PagedPrimitiveComplete(t, c)
  PROVE  Follows(t)
<1>1. CASE c.state \in {"READ_CV", "READ_BIT_READ_BYTE"}
  <2>1. AdvanceScan(t, c, ReportFoundValue(t, c))
    BY <1>1 DEF PagedPrimitiveComplete
  <2>2. ReportFoundValue(t, c) /\ Acked => Follows(t)
    BY <1>1, FoundFollows
  <2> QED
    BY <1>1, <2>1, <2>2, ScanFollows DEF ScannedStates
<1>2. CASE c.state = "WRITE_BIT_READ_BYTE"
  <2>1. AdvanceScan(t, c, BeginWriteBit(t, c))
    BY <1>2 DEF PagedPrimitiveComplete
  <2>2. BeginWriteBit(t, c) /\ Acked => Follows(t)
    BY <1>2, WriteBitFollows
  <2> QED
    BY <1>2, <2>1, <2>2, ScanFollows DEF ScannedStates
<1>3. CASE c.state = "WRITE_CV"
  <2>1. Continue(t, Go(c, "WRITE_CV_VERIFY"), VerifyOf(t, c, c.value))
    BY <1>3 DEF PagedPrimitiveComplete
  <2> QED
    BY <1>3, <2>1, VerifyFollows
<1>4. CASE c.state = "WRITE_BIT_WRITE"
  <2>1. Continue(t, Go(c, "WRITE_BIT_VERIFY"), VerifyOf(t, c, c.value))
    BY <1>4 DEF PagedPrimitiveComplete
  <2> QED
    BY <1>4, <2>1, VerifyFollows
<1>5. CASE c.state \in {"WRITE_CV_VERIFY", "WRITE_BIT_VERIFY"}
  <2>1. c.value \in Byte /\ c.bit_value \in Byte
    BY BytesReady
  <2>2. Verified(t, c, c.value) \/ Verified(t, c, c.bit_value)
    BY <1>5 DEF PagedPrimitiveComplete
  <2> QED
    BY <1>5, <2>1, <2>2, VerifiedFollows
<1> QED
  BY <1>1, <1>2, <1>3, <1>4, <1>5 DEF ScanStates

LEMMA RegisterFollows ==
  ASSUME NEW c, Ready("register", c), RegisterPrimitiveComplete(c)
  PROVE  Follows("register")
<1>1. "register" \in WholeByteTasks /\ c.state \in StatesOf("register")
  BY DEF WholeByteTasks, Ready, Legal
<1>2. CASE c.state = "FACTORY_RESET"
  <2> DEFINE res == IF Acked THEN "SUCCESS" ELSE "NO_ACK"
  <2>1. Complete("register", c, res, 0)
    BY <1>2 DEF RegisterPrimitiveComplete
  <2>2. /\ c \in Context /\ 0 \in Byte
        /\ Acked /\ c.state \notin Writing => BytesAnswer("register", c)
        /\ ~disturbed /\ ~Acked /\ c.state \notin Writing => ~BytesAnswer("register", c)
    BY <1>1, BytesReady
  <2>3. /\ Acked => Works("register", c.cv)
        /\ ~Acked /\ ~disturbed => ~Works("register", c.cv)
    BY <1>2, <2>2 DEF BytesAnswer, ScannedStates, Writing
  <2>4. Acked => memory = FactoryDefaults
    BY <1>2 DEF Ready
  <2>5. res = "SUCCESS" => Holds(Told("register", c, res, 0))
    BY <1>2, <2>4, HoldsCases
  <2>6. Attainable("register", c)
    BY <1>2, AttainableCases
  <2>7. Final("register", c, res, 0)
    BY <1>1, <2>2, <2>3, <2>5, <2>6, BytesFinal
  <2> QED
    BY <2>1, <2>7, ToComplete
<1>3. CASE c.state = "VERIFY_VALUE"
  <2>1. Verified("register", c, c.value) /\ c.value \in Byte
    BY <1>1, <1>3, BytesReady DEF RegisterPrimitiveComplete
  <2> QED
    BY <1>1, <1>3, <2>1, VerifiedFollows
<1>4. CASE c.state \in ScanStates
  <2>1. PagedPrimitiveComplete("register", c)
    BY <1>4 DEF RegisterPrimitiveComplete, ScanStates
  <2> QED
    BY <1>1, <1>4, <2>1, BytesFollow
<1> QED
  BY <1>1, <1>2, <1>3, <1>4 DEF StatesOf

LEMMA AddressFollows ==
  ASSUME NEW c, Ready("address", c), AddressPrimitiveComplete(c)
  PROVE  Follows("address")
<1>1. "address" \in WholeByteTasks /\ c.state \in StatesOf("address")
  BY DEF WholeByteTasks, Ready, Legal
<1>2. CASE c.state = "VERIFY_VALUE"
  <2>1. Verified("address", c, c.value) /\ c.value \in Byte
    BY <1>1, <1>2, BytesReady DEF AddressPrimitiveComplete
  <2> QED
    BY <1>1, <1>2, <2>1, VerifiedFollows
<1>3. CASE c.state \in ScanStates
  <2>1. PagedPrimitiveComplete("address", c)
    BY <1>3 DEF AddressPrimitiveComplete, ScanStates
  <2> QED
    BY <1>1, <1>3, <2>1, BytesFollow
<1> QED
  BY <1>1, <1>2, <1>3 DEF StatesOf

LEMMA PagedFollows ==
  ASSUME NEW c, Ready("paged", c), PagedPrimitiveComplete("paged", c)
  PROVE  Follows("paged")
<1>1. "paged" \in WholeByteTasks /\ c.state \in ScanStates
  BY DEF WholeByteTasks, Ready, Legal, StatesOf
<1> QED
  BY <1>1, BytesFollow
-----------------------------------------------------------------------------
\* Mode detection: where its handler begins.
LEMMA DetectReady ==
  ASSUME NEW c, Ready("detect", c)
  PROVE  /\ c \in Context /\ c.state \in StatesOf("detect") /\ LegalDetect(c)
         /\ ModesWork(c) /\ memory[8] \in 0..ByteMax /\ memory[1] \in 0..ByteMax
         /\ c.value \in 0..ByteMax /\ c.scan \in 0..ByteMax /\ c.bit \in 0..Bits
         /\ Acked => DetectAnswer(c)
         /\ ~disturbed => DetectKnows(c) /\ (~Acked => ~DetectAnswer(c))
<1>1. c \in Context /\ c.state \in StatesOf("detect") /\ LegalDetect(c) /\ ModesWork(c)
  BY DEF Ready, Legal
<1>2. memory \in [CVs -> Byte] /\ {1, 8} \subseteq CVs
  BY DecoderAssumption DEF Ready
<1>3. c.value \in Byte /\ c.scan \in Byte /\ c.bit \in 0..Bits
  BY <1>1 DEF Context
<1>4. c.state \notin Writing
  BY <1>1 DEF StatesOf, Writing
<1>5. /\ Acked => DetectAnswer(c)
      /\ ~disturbed => DetectKnows(c) /\ (~Acked => ~DetectAnswer(c))
  BY <1>4 DEF Ready, Answer, Knows, WholeByteTasks
<1> QED
  BY <1>1, <1>2, <1>3, <1>5, ByteFacts

LEMMA DetectGood ==
  ASSUME NEW d, d \in Context, d.state \in StatesOf("detect"), LegalDetect(d),
         ModesWork(d), ~disturbed => DetectKnows(d),
         d.state = "PROBE_ADDRESS_SCAN" => d.scan \in 1..AddressMax
  PROVE  Good("detect", d)
<1>1. Legal("detect", d)
  BY DEF Legal, WholeByteTasks
<1>2. ReadBack("detect", d)
  BY DEF ReadBack, WholeByteTasks
<1>3. ~disturbed => Knows("detect", d)
  BY DEF Knows, WholeByteTasks
<1>4. \A v : DirectVerifyBit(DetectCv, d.bit, v) # Refused
             /\ DirectVerifyBit(DetectCv, DetectBit, v) # Refused
             /\ PagedVerify(DetectCv, v) # Refused
             /\ RegisterVerify(DetectRegister, v) # Refused
  BY DEF DirectVerifyBit, PagedVerify, PagedAccess, RegisterVerify, RegisterAccess,
         DetectRegister, Refused
<1>5. d.scan \in 1..AddressMax => AddressVerify(d.scan) # Refused
  BY DEF AddressVerify, AddressAccess, Refused
<1>6. DetectAsked(d) # Refused
  BY <1>4, <1>5 DEF DetectAsked, StatesOf
<1> QED
  BY <1>1, <1>2, <1>3, <1>6 DEF Good, Asked

\* The modes that can be found, and one more of them looked for.
LEMMA DetectableModes ==
  /\ "direct" \in Detectable <=> Works("direct", 8)
  /\ "paged" \in Detectable <=> Works("paged", 8)
  /\ "register" \in Detectable <=> Works("register", 8)
  /\ "address" \in Detectable <=> Works("address", 1) /\ memory[1] \in 1..AddressMax
  /\ Detectable \subseteq {"direct", "paged", "register", "address"}
BY DEF Detectable, Modes

LEMMA SureMore ==
  ASSUME NEW c, NEW d, NEW M, NEW mode, Sure(c, M),
         d.modes = IF mode \in Detectable THEN c.modes \cup {mode} ELSE c.modes
  PROVE  Sure(d, M \cup {mode})
BY DEF Sure

LEMMA FoundContext ==
  ASSUME NEW c \in Context, NEW mode \in Modes, ModesWork(c),
         Works(mode, IF mode = "address" THEN 1 ELSE 8)
  PROVE  LET d == Found(c, mode)
         IN /\ d \in Context /\ ModesWork(d) /\ d.modes = c.modes \cup {mode}
            /\ d.state = c.state /\ d.value = c.value /\ d.bit = c.bit
            /\ d.scan = c.scan /\ d.value_known = c.value_known
<1> DEFINE d == Found(c, mode)
<1>1. /\ d \in Context /\ d.modes = c.modes \cup {mode}
      /\ d.state = c.state /\ d.value = c.value /\ d.bit = c.bit
      /\ d.scan = c.scan /\ d.value_known = c.value_known
  BY DEF Found, Context
<1> HIDE DEF d
<1>2. ModesWork(d)
  BY <1>1 DEF ModesWork
<1> QED
  BY <1>1, <1>2 DEF d

LEMMA FoundByScanContext ==
  ASSUME NEW c \in Context, NEW mode \in Modes, ModesWork(c),
         Works(mode, IF mode = "address" THEN 1 ELSE 8)
  PROVE  LET d == FoundByScan(c, mode)
         IN /\ d \in Context /\ ModesWork(d) /\ d.modes = c.modes \cup {mode}
            /\ d.value = c.scan /\ d.value_known = TRUE
<1> DEFINE e == Found(c, mode)
           d == FoundByScan(c, mode)
<1>1. e \in Context /\ ModesWork(e) /\ e.modes = c.modes \cup {mode}
  BY FoundContext
<1>2. d = [e EXCEPT !.value = c.scan, !.value_known = TRUE] /\ c.scan \in Byte
  BY DEF FoundByScan, Context
<1> HIDE DEF d, e
<1>3. /\ d \in Context /\ d.modes = e.modes /\ d.value = c.scan /\ d.value_known = TRUE
  BY <1>1, <1>2 DEF Context
<1>4. ModesWork(d)
  BY <1>1, <1>3 DEF ModesWork
<1> QED
  BY <1>1, <1>3, <1>4 DEF d

\* The probes that follow one another, begun with what is known by then.
LEMMA PagedBegins ==
  ASSUME NEW c \in Context, ModesWork(c), BeginPaged(c),
         ~disturbed => Sure(c, {"direct"}) /\ (c.value_known => c.value = memory[8])
  PROVE  Follows("detect")
<1>1. CASE c.value_known
  <2> DEFINE d == Go(c, "PROBE_PAGED_VERIFY")
  <2>1. Continue("detect", d, PagedVerify(DetectCv, c.value))
    BY <1>1 DEF BeginPaged
  <2>2. /\ d \in Context /\ d.state = "PROBE_PAGED_VERIFY" /\ d.value = c.value
        /\ d.modes = c.modes /\ d.value_known = c.value_known
    BY GoContext DEF States
  <2> HIDE DEF d
  <2>3. Asked("detect", d) = PagedVerify(DetectCv, c.value)
    BY <2>2 DEF Asked, DetectAsked
  <2>4. LegalDetect(d) /\ ModesWork(d) /\ d.state \in StatesOf("detect")
    BY <2>2 DEF LegalDetect, ModesWork, StatesOf
  <2>5. ~disturbed => DetectKnows(d)
    BY <1>1, <2>2 DEF DetectKnows, Sure
  <2>6. Good("detect", d)
    BY <2>2, <2>4, <2>5, DetectGood
  <2> QED
    BY <2>1, <2>3, <2>6, ToContinue
<1>2. CASE ~c.value_known
  <2> DEFINE d == [c EXCEPT !.state = "PROBE_PAGED_SCAN", !.scan = 0]
  <2>1. Continue("detect", d, PagedVerify(DetectCv, 0))
    BY <1>2 DEF BeginPaged
  <2>2. /\ d \in Context /\ d.state = "PROBE_PAGED_SCAN" /\ d.value = c.value
        /\ d.modes = c.modes /\ d.value_known = c.value_known /\ d.scan = 0
    <3>1. 0 \in Byte
      BY ByteFacts
    <3> QED
      BY <3>1 DEF Context, States
  <2> HIDE DEF d
  <2>3. Asked("detect", d) = PagedVerify(DetectCv, 0)
    BY <2>2 DEF Asked, DetectAsked
  <2>4. LegalDetect(d) /\ ModesWork(d) /\ d.state \in StatesOf("detect")
    BY <2>2 DEF LegalDetect, ModesWork, StatesOf
  <2>5. ~disturbed => DetectKnows(d)
    BY <1>2, <2>2 DEF DetectKnows, Sure, NotBelow
  <2>6. Good("detect", d)
    BY <2>2, <2>4, <2>5, DetectGood
  <2> QED
    BY <2>1, <2>3, <2>6, ToContinue
<1> QED
  BY <1>1, <1>2

LEMMA RegisterBegins ==
  ASSUME NEW c \in Context, ModesWork(c), BeginRegister(c),
         ~disturbed => /\ Sure(c, {"direct", "paged"})
                       /\ c.value_known => c.value = memory[8]
  PROVE  Follows("detect")
<1>1. CASE c.value_known
  <2> DEFINE d == Go(c, "PROBE_REGISTER_VERIFY")
  <2>1. Continue("detect", d, RegisterVerify(DetectRegister, c.value))
    BY <1>1 DEF BeginRegister
  <2>2. /\ d \in Context /\ d.state = "PROBE_REGISTER_VERIFY" /\ d.value = c.value
        /\ d.modes = c.modes /\ d.value_known = c.value_known
    BY GoContext DEF States
  <2> HIDE DEF d
  <2>3. Asked("detect", d) = RegisterVerify(DetectRegister, c.value)
    BY <2>2 DEF Asked, DetectAsked
  <2>4. LegalDetect(d) /\ ModesWork(d) /\ d.state \in StatesOf("detect")
    BY <2>2 DEF LegalDetect, ModesWork, StatesOf
  <2>5. ~disturbed => DetectKnows(d)
    BY <1>1, <2>2 DEF DetectKnows, Sure
  <2>6. Good("detect", d)
    BY <2>2, <2>4, <2>5, DetectGood
  <2> QED
    BY <2>1, <2>3, <2>6, ToContinue
<1>2. CASE ~c.value_known
  <2> DEFINE d == [c EXCEPT !.state = "PROBE_REGISTER_SCAN", !.scan = 0]
  <2>1. Continue("detect", d, RegisterVerify(DetectRegister, 0))
    BY <1>2 DEF BeginRegister
  <2>2. /\ d \in Context /\ d.state = "PROBE_REGISTER_SCAN" /\ d.value = c.value
        /\ d.modes = c.modes /\ d.value_known = c.value_known /\ d.scan = 0
    <3>1. 0 \in Byte
      BY ByteFacts
    <3> QED
      BY <3>1 DEF Context, States
  <2> HIDE DEF d
  <2>3. Asked("detect", d) = RegisterVerify(DetectRegister, 0)
    BY <2>2 DEF Asked, DetectAsked
  <2>4. LegalDetect(d) /\ ModesWork(d) /\ d.state \in StatesOf("detect")
    BY <2>2 DEF LegalDetect, ModesWork, StatesOf
  <2>5. ~disturbed => DetectKnows(d)
    BY <1>2, <2>2 DEF DetectKnows, Sure, NotBelow
  <2>6. Good("detect", d)
    BY <2>2, <2>4, <2>5, DetectGood
  <2> QED
    BY <2>1, <2>3, <2>6, ToContinue
<1> QED
  BY <1>1, <1>2

LEMMA AddressBegins ==
  ASSUME NEW c \in Context, ModesWork(c), BeginAddress(c),
         ~disturbed => /\ Sure(c, {"direct", "paged", "register"})
                       /\ c.value_known => c.value = memory[8]
  PROVE  Follows("detect")
<1> DEFINE d == [c EXCEPT !.state = "PROBE_ADDRESS_SCAN", !.scan = 1]
<1>1. Continue("detect", d, AddressVerify(1))
  BY DEF BeginAddress
<1>2. /\ d \in Context /\ d.state = "PROBE_ADDRESS_SCAN" /\ d.value = c.value
      /\ d.modes = c.modes /\ d.value_known = c.value_known /\ d.scan = 1
  <2>1. 1 \in Byte
    BY ByteFacts
  <2> QED
    BY <2>1 DEF Context, States
<1> HIDE DEF d
<1>3. Asked("detect", d) = AddressVerify(1)
  BY <1>2 DEF Asked, DetectAsked
<1>4. /\ LegalDetect(d) /\ ModesWork(d) /\ d.state \in StatesOf("detect")
      /\ d.scan \in 1..AddressMax
  BY <1>2, ByteFacts DEF LegalDetect, ModesWork, StatesOf
<1>5. ~disturbed => DetectKnows(d)
  BY <1>2 DEF DetectKnows, Sure, NotBelow
<1>6. Good("detect", d)
  BY <1>2, <1>4, <1>5, DetectGood
<1> QED
  BY <1>1, <1>3, <1>6, ToContinue

LEMMA DetectFinishes ==
  ASSUME NEW c \in Context, ModesWork(c), c.state \in StatesOf("detect"), Finish(c),
         ~disturbed => Sure(c, {"direct", "paged", "register", "address"})
  PROVE  Follows("detect")
<1> DEFINE res == IF c.modes = {} THEN "NO_ACK" ELSE "SUCCESS"
<1>1. Complete("detect", c, res, 0)
  BY DEF Finish
<1>2. res = "SUCCESS" => Holds(Told("detect", c, res, 0))
  BY HoldsCases
<1>3. ~disturbed => Exact("detect", c, res)
  BY DetectableModes DEF Exact, Sure
<1>4. Final("detect", c, res, 0)
  BY <1>2, <1>3, ByteFacts DEF Final
<1> QED
  BY <1>1, <1>4, ToComplete

\* Direct mode reads CV 8 from its highest bit down.
LEMMA DirectReadBegins ==
  ASSUME NEW c \in Context, ModesWork(c), Works("direct", 8), NEW x \in {0, 1},
         NEW v, v = x * 2^DetectBit, BeginDirectRead(FoundDirect(c, v)),
         memory[8] \in 0..ByteMax,
         ~disturbed => /\ c.modes = {} /\ ~c.value_known
                       /\ BitOf(memory[8], DetectBit) = x
  PROVE  Follows("detect")
<1> DEFINE P == 2^DetectBit
           b == DetectBit - 1
           e == Found(c, "direct")
           f == FoundDirect(c, v)
           d == [f EXCEPT !.state = "READ_DIRECT", !.bit = b]
<1>1. /\ DetectBit \in Nat /\ b \in 0..Bits /\ b < Bits /\ b + 1 = DetectBit
      /\ DetectBit + 1 = Bits
  BY ByteFacts DEF DetectBit
<1>2. P \in Nat \ {0} /\ 2^Bits = 2 * P /\ ByteMax + 1 = 2^Bits /\ 2^(b + 1) = P
  BY <1>1, PowSubsets, PowStep, ByteFacts
<1>3. v \in Nat /\ v <= ByteMax /\ v + P <= 2^Bits /\ v \in Byte
  <2> HIDE DEF P
  <2>1. v = x * P
    BY DEF P
  <2>2. v = 0 \/ v = P
    BY <1>2, <2>1
  <2>3. v \in Nat /\ v <= ByteMax /\ v + P <= 2^Bits
    BY <1>2, <2>2, ByteFacts
  <2> QED
    BY <2>3, ByteFacts
<1>4. /\ e \in Context /\ ModesWork(e) /\ e.modes = c.modes \cup {"direct"}
      /\ e.value_known = c.value_known
  BY FoundContext DEF Modes
<1>5. f = [e EXCEPT !.value = v]
  BY DEF FoundDirect
<1> HIDE DEF e, f
<1>6. /\ f \in Context /\ f.modes = e.modes /\ f.value = v
      /\ f.value_known = c.value_known
  BY <1>3, <1>4, <1>5 DEF Context
<1>7. Continue("detect", d, DirectVerifyBit(DetectCv, b, 1))
  BY DEF BeginDirectRead, f
<1>8. /\ d \in Context /\ d.state = "READ_DIRECT" /\ d.bit = b /\ d.value = v
      /\ d.modes = e.modes /\ d.value_known = c.value_known
  <2> HIDE DEF b
  <2> QED
    BY <1>1, <1>6 DEF Context, States
<1> HIDE DEF d
<1>9. Asked("detect", d) = DirectVerifyBit(DetectCv, b, 1)
  BY <1>8 DEF Asked, DetectAsked
<1>10. d.state \in StatesOf("detect") /\ ModesWork(d)
  BY <1>4, <1>8 DEF StatesOf, ModesWork
<1>11. LegalDetect(d)
  <2> HIDE DEF b, P
  <2> QED
    BY <1>1, <1>2, <1>3, <1>8 DEF LegalDetect
<1>12. ~disturbed => DetectKnows(d)
  <2> SUFFICES ASSUME ~disturbed PROVE DetectKnows(d)
    OBVIOUS
  <2>1. Sure(d, {"direct"})
    BY <1>4, <1>8, DetectableModes DEF Sure
  <2>2. "direct" \in supports
    BY DEF Works
  <2>3. memory[8] = v + (memory[8] % 2^(b + 1))
    <3> DEFINE m == memory[8]
               r == m % P
    <3>1. m \in Nat /\ m < 2^Bits /\ Bits \in Nat
      BY <1>2, ByteFacts
    <3>2. m % 2^Bits = m
      BY <3>1, LowBits
    <3>3. m % 2^(DetectBit + 1) = (m % 2^DetectBit) + BitOf(m, DetectBit) * 2^DetectBit
      BY <1>1, <3>1, LowBits
    <3>4. m % 2^DetectBit \in Nat
      BY <1>1, <3>1, LowBits
    <3>5. m = r + x * P /\ r \in Nat /\ v = x * P /\ v \in Nat
      BY <1>1, <1>3, <3>2, <3>3, <3>4
    <3>6. m = v + r
      <4> HIDE DEF r, m, P
      <4> QED
        BY <3>5
    <3> QED
      BY <1>2, <3>6
  <2> HIDE DEF b, P
  <2> QED
    BY <1>8, <2>1, <2>2, <2>3 DEF DetectKnows
<1>13. Good("detect", d)
  BY <1>8, <1>10, <1>11, <1>12, DetectGood
<1> QED
  BY <1>7, <1>9, <1>13, ToContinue

LEMMA ReadDirectFollows ==
  ASSUME NEW c, Ready("detect", c), c.state = "READ_DIRECT", ReadDirect(c)
  PROVE  Follows("detect")
<1> DEFINE m == memory[8]
           P == 2^c.bit
           v == IF Acked THEN c.value + 2^c.bit ELSE c.value
           read == [c EXCEPT !.value = IF Acked THEN @ + 2^c.bit ELSE @]
<1>1. /\ c \in Context /\ LegalDetect(c) /\ ModesWork(c) /\ m \in 0..ByteMax
      /\ c.value \in 0..ByteMax /\ c.bit \in 0..Bits
      /\ (Acked => DetectAnswer(c))
      /\ ~disturbed => DetectKnows(c) /\ (~Acked => ~DetectAnswer(c))
  BY DetectReady
<1>2. c.bit \in Nat /\ c.bit < Bits /\ c.value + 2^(c.bit + 1) <= 2^Bits
  BY <1>1, ByteFacts DEF LegalDetect
<1>3. P \in Nat \ {0} /\ 2^(c.bit + 1) = 2 * P /\ 2^Bits = ByteMax + 1 /\ 2^Bits \in Nat
  BY <1>2, PowSubsets, PowStep, ByteFacts
<1>4. v \in Nat /\ v + P <= 2^Bits /\ v \in Byte
  <2> HIDE DEF P
  <2>1. c.value \in Nat /\ c.value + 2 * P <= 2^Bits
    BY <1>1, <1>2, <1>3, ByteFacts
  <2>2. v = c.value \/ v = c.value + P
    BY DEF P
  <2> HIDE DEF v
  <2>3. v \in Nat /\ v + P <= 2^Bits
    BY <1>3, <2>1, <2>2
  <2> QED
    BY <1>3, <2>3, ByteFacts
<1>5. read = [c EXCEPT !.value = v]
  BY <1>1 DEF Context
<1> HIDE DEF read
<1>6. /\ read \in Context /\ read.state = "READ_DIRECT" /\ read.value = v
      /\ read.bit = c.bit /\ read.modes = c.modes /\ read.value_known = c.value_known
  <2> HIDE DEF v
  <2> QED
    BY <1>1, <1>4, <1>5 DEF Context
<1>7. ASSUME ~disturbed
      PROVE  m = v + (m % 2^c.bit) /\ Sure(c, {"direct"}) /\ "direct" \in supports
             /\ ~c.value_known
  <2>1. DetectKnows(c) /\ (~Acked => ~DetectAnswer(c)) /\ (Acked => DetectAnswer(c))
    BY <1>1, <1>7
  <2>2. /\ Sure(c, {"direct"}) /\ "direct" \in supports /\ ~c.value_known
        /\ m = c.value + (m % 2^(c.bit + 1))
    BY <2>1 DEF DetectKnows
  <2>3. Acked <=> BitOf(m, c.bit) = 1
    BY <2>1, <2>2 DEF DetectAnswer, Works
  <2>4. m \in Nat
    BY <1>1, ByteFacts
  <2>5. /\ m % 2^(c.bit + 1) = (m % 2^c.bit) + BitOf(m, c.bit) * 2^c.bit
        /\ BitOf(m, c.bit) \in {0, 1} /\ m % 2^c.bit \in Nat
    BY <1>2, <2>4, LowBits
  <2>6. m = v + (m % 2^c.bit)
    <3> DEFINE r == m % 2^c.bit
               k == BitOf(m, c.bit)
    <3>1. /\ m = c.value + (r + k * P) /\ k \in {0, 1} /\ r \in Nat
          /\ v = (IF Acked THEN c.value + P ELSE c.value)
          /\ c.value \in Nat /\ (Acked <=> k = 1)
      BY <1>1, <2>2, <2>3, <2>5, ByteFacts
    <3> HIDE DEF r, k, P, v, m
    <3>2. m = v + r
      BY <1>3, <3>1
    <3> QED
      BY <3>2 DEF r
  <2> QED
    BY <2>2, <2>6
<1>8. CASE c.bit = 0
  <2> DEFINE d == [read EXCEPT !.value_known = TRUE]
  <2>1. BeginPaged(d)
    BY <1>8 DEF ReadDirect, read
  <2>2. d \in Context /\ d.value = v /\ d.modes = c.modes /\ d.value_known
    <3> HIDE DEF v
    <3> QED
      BY <1>6 DEF Context
  <2> HIDE DEF d
  <2>3. ModesWork(d)
    BY <1>1, <2>2 DEF ModesWork
  <2>4. ~disturbed => v = m
    <3> SUFFICES ASSUME ~disturbed PROVE v = m
      OBVIOUS
    <3>1. m \in Nat
      BY <1>1, ByteFacts
    <3>2. m % 2^c.bit = 0
      BY <1>8, <3>1, LowBits
    <3>3. m = v + 0
      BY <1>7, <3>2
    <3> HIDE DEF v, m
    <3> QED
      BY <1>4, <3>3
  <2>5. ~disturbed => Sure(d, {"direct"}) /\ (d.value_known => d.value = memory[8])
    BY <1>7, <2>2, <2>4 DEF Sure
  <2> QED
    BY <2>1, <2>2, <2>3, <2>5, PagedBegins
<1>9. CASE c.bit # 0
  <2> DEFINE b == c.bit - 1
             d == [read EXCEPT !.bit = @ - 1]
  <2>1. Continue("detect", d, DirectVerifyBit(DetectCv, b, 1))
    BY <1>9 DEF ReadDirect, read
  <2>2. b \in 0..Bits /\ b < Bits /\ b + 1 = c.bit
    <3>1. Bits \in Nat
      BY ByteFacts
    <3> QED
      BY <1>2, <1>9, <3>1
  <2>3. d = [read EXCEPT !.bit = b]
    BY <1>6 DEF Context
  <2> HIDE DEF b, d
  <2>4. /\ d \in Context /\ d.state = "READ_DIRECT" /\ d.value = v
        /\ d.bit = b /\ d.modes = c.modes /\ d.value_known = c.value_known
    <3> HIDE DEF v
    <3> QED
      BY <1>6, <2>2, <2>3 DEF Context
  <2>5. Asked("detect", d) = DirectVerifyBit(DetectCv, b, 1)
    BY <2>4 DEF Asked, DetectAsked
  <2>6. d.state \in StatesOf("detect") /\ ModesWork(d)
    BY <1>1, <2>4 DEF StatesOf, ModesWork
  <2>7. LegalDetect(d)
    <3>1. v + 2^(b + 1) <= 2^Bits
      BY <1>4, <2>2
    <3> HIDE DEF v
    <3> QED
      BY <2>2, <2>4, <3>1 DEF LegalDetect
  <2>8. ~disturbed => DetectKnows(d)
    <3> SUFFICES ASSUME ~disturbed PROVE DetectKnows(d)
      OBVIOUS
    <3>1. memory[8] = v + (memory[8] % 2^(b + 1))
      BY <1>7, <2>2
    <3> HIDE DEF v
    <3> QED
      BY <1>7, <2>4, <3>1 DEF DetectKnows, Sure
  <2>9. Good("detect", d)
    BY <2>4, <2>6, <2>7, <2>8, DetectGood
  <2> QED
    BY <2>1, <2>5, <2>9, ToContinue
<1> QED
  BY <1>8, <1>9

\* The scans: an answer, the end, or the next value.
LEMMA ProbeScanNext ==
  ASSUME NEW c, Ready("detect", c), ~Acked,
         NEW s \in {"PROBE_PAGED_SCAN", "PROBE_REGISTER_SCAN", "PROBE_ADDRESS_SCAN"},
         c.state = s, NEW last, last = IF s = "PROBE_ADDRESS_SCAN" THEN AddressMax
                                       ELSE ByteMax,
         c.scan # last,
         NEW packets, Continue("detect", [c EXCEPT !.scan = @ + 1], packets),
         packets = CASE s = "PROBE_PAGED_SCAN"    -> PagedVerify(DetectCv, c.scan + 1)
                     [] s = "PROBE_REGISTER_SCAN" ->
                          RegisterVerify(DetectRegister, c.scan + 1)
                     [] s = "PROBE_ADDRESS_SCAN"  -> AddressVerify(c.scan + 1)
  PROVE  Follows("detect")
<1> DEFINE n == c.scan + 1
           d == [c EXCEPT !.scan = @ + 1]
<1>1. /\ c \in Context /\ LegalDetect(c) /\ ModesWork(c)
      /\ memory[8] \in 0..ByteMax /\ memory[1] \in 0..ByteMax
      /\ c.scan \in 0..ByteMax
      /\ ~disturbed => DetectKnows(c) /\ ~DetectAnswer(c)
  BY DetectReady
<1>2. /\ n \in 0..ByteMax /\ n \in Byte
      /\ s = "PROBE_ADDRESS_SCAN" => n \in 1..AddressMax
  <2>1. s = "PROBE_ADDRESS_SCAN" => c.scan <= AddressMax
    BY <1>1 DEF LegalDetect
  <2> QED
    BY <1>1, <2>1, ByteFacts
<1>3. d = [c EXCEPT !.scan = n]
  BY <1>1 DEF Context
<1> HIDE DEF d
<1>4. /\ d \in Context /\ d.state = s /\ d.scan = n /\ d.modes = c.modes
      /\ d.value = c.value /\ d.value_known = c.value_known
  <2> HIDE DEF n
  <2> QED
    BY <1>1, <1>2, <1>3 DEF Context
<1>5. Asked("detect", d) = packets
  <2> HIDE DEF n
  <2>1. Asked("detect", d) = DetectAsked(d)
    BY DEF Asked
  <2>2. CASE s = "PROBE_PAGED_SCAN"
    BY <1>4, <2>1, <2>2 DEF DetectAsked, n
  <2>3. CASE s = "PROBE_REGISTER_SCAN"
    BY <1>4, <2>1, <2>3 DEF DetectAsked, n
  <2>4. CASE s = "PROBE_ADDRESS_SCAN"
    BY <1>4, <2>1, <2>4 DEF DetectAsked, n
  <2> QED
    BY <2>2, <2>3, <2>4
<1>6. /\ LegalDetect(d) /\ ModesWork(d) /\ d.state \in StatesOf("detect")
      /\ d.state = "PROBE_ADDRESS_SCAN" => d.scan \in 1..AddressMax
  <2>1. s = "PROBE_ADDRESS_SCAN" => n <= AddressMax
    BY <1>2
  <2> HIDE DEF n
  <2> QED
    BY <1>1, <1>2, <1>4, <2>1 DEF LegalDetect, ModesWork, StatesOf
<1>7. ~disturbed => DetectKnows(d)
  <2> SUFFICES ASSUME ~disturbed PROVE DetectKnows(d)
    OBVIOUS
  <2>1. DetectKnows(c) /\ ~DetectAnswer(c)
    BY <1>1
  <2>2. ASSUME NEW v \in 0..ByteMax, NEW first \in {0, 1},
               NotBelow(v, first, c.scan), v # c.scan
        PROVE  NotBelow(v, first, n)
    BY <1>1, <2>2, ByteFacts DEF NotBelow
  <2>3. c.value_known => c.value = memory[8]
    BY <2>1 DEF DetectKnows
  <2> HIDE DEF n
  <2>4. CASE s = "PROBE_PAGED_SCAN"
    <3>1. Works("paged", 8) => NotBelow(memory[8], 0, c.scan) /\ memory[8] # c.scan
      BY <2>1, <2>4 DEF DetectKnows, DetectAnswer
    <3>2. Works("paged", 8) => NotBelow(memory[8], 0, n)
      BY <1>1, <2>2, <3>1
    <3>3. Sure(d, {"direct"})
      BY <1>4, <2>1, <2>4 DEF DetectKnows, Sure
    <3> QED
      BY <1>4, <2>3, <2>4, <3>2, <3>3 DEF DetectKnows
  <2>5. CASE s = "PROBE_REGISTER_SCAN"
    <3>1. Works("register", 8) => NotBelow(memory[8], 0, c.scan) /\ memory[8] # c.scan
      BY <2>1, <2>5 DEF DetectKnows, DetectAnswer
    <3>2. Works("register", 8) => NotBelow(memory[8], 0, n)
      BY <1>1, <2>2, <3>1
    <3>3. Sure(d, {"direct", "paged"})
      BY <1>4, <2>1, <2>5 DEF DetectKnows, Sure
    <3> QED
      BY <1>4, <2>3, <2>5, <3>2, <3>3 DEF DetectKnows
  <2>6. CASE s = "PROBE_ADDRESS_SCAN"
    <3>1. Works("address", 1) => NotBelow(memory[1], 1, c.scan) /\ memory[1] # c.scan
      BY <2>1, <2>6 DEF DetectKnows, DetectAnswer
    <3>2. Works("address", 1) => NotBelow(memory[1], 1, n)
      BY <1>1, <2>2, <3>1
    <3>3. Sure(d, {"direct", "paged", "register"})
      BY <1>4, <2>1, <2>6 DEF DetectKnows, Sure
    <3> QED
      BY <1>4, <2>3, <2>6, <3>2, <3>3 DEF DetectKnows
  <2> QED
    BY <2>4, <2>5, <2>6
<1>8. Good("detect", d)
  BY <1>4, <1>6, <1>7, DetectGood
<1>9. Continue("detect", d, packets)
  BY DEF d
<1> QED
  BY <1>5, <1>8, <1>9, ToContinue

LEMMA PagedProbeFollows ==
  ASSUME NEW c, Ready("detect", c),
         \/ c.state = "PROBE_PAGED_VERIFY"
            /\ BeginRegister(IF Acked THEN Found(c, "paged") ELSE c)
         \/ c.state = "PROBE_PAGED_SCAN" /\ ProbePagedScan(c)
  PROVE  Follows("detect")
<1>1. /\ c \in Context /\ ModesWork(c) /\ memory[8] \in 0..ByteMax
      /\ c.scan \in 0..ByteMax
      /\ (Acked => DetectAnswer(c))
      /\ ~disturbed => DetectKnows(c) /\ (~Acked => ~DetectAnswer(c))
  BY DetectReady
<1>2. ~disturbed => Sure(c, {"direct"}) /\ (c.value_known => c.value = memory[8])
  BY <1>1 DEF DetectKnows
<1>3. /\ Acked => Works("paged", 8)
      /\ Acked /\ c.state = "PROBE_PAGED_SCAN" => memory[8] = c.scan
  BY <1>1 DEF DetectAnswer
<1>4. ASSUME NEW d, d.modes = IF Works("paged", 8) THEN c.modes \cup {"paged"}
                              ELSE c.modes, ~disturbed
      PROVE  Sure(d, {"direct", "paged"})
  <2>1. {"direct"} \cup {"paged"} = {"direct", "paged"}
    OBVIOUS
  <2>2. d.modes = IF "paged" \in Detectable THEN c.modes \cup {"paged"} ELSE c.modes
    BY <1>4, DetectableModes
  <2>3. Sure(d, {"direct"} \cup {"paged"})
    BY <1>2, <1>4, <2>2, SureMore
  <2> QED
    BY <2>1, <2>3
<1>5. CASE Acked /\ c.state = "PROBE_PAGED_VERIFY"
  <2> DEFINE d == Found(c, "paged")
  <2>1. BeginRegister(d)
    BY <1>5
  <2>2. /\ d \in Context /\ ModesWork(d) /\ d.modes = c.modes \cup {"paged"}
        /\ d.value = c.value /\ d.value_known = c.value_known
    BY <1>1, <1>3, <1>5, FoundContext DEF Modes
  <2> HIDE DEF d
  <2>3. ~disturbed => /\ Sure(d, {"direct", "paged"})
                      /\ d.value_known => d.value = memory[8]
    BY <1>2, <1>3, <1>4, <1>5, <2>2
  <2> QED
    BY <2>1, <2>2, <2>3, RegisterBegins
<1>6. CASE ~Acked /\ c.state = "PROBE_PAGED_VERIFY"
  <2>1. BeginRegister(c)
    BY <1>6
  <2>2. ~disturbed => ~Works("paged", 8)
    BY <1>1, <1>6 DEF DetectKnows, DetectAnswer
  <2>3. ~disturbed => Sure(c, {"direct", "paged"})
    BY <1>4, <2>2
  <2> QED
    BY <1>1, <1>2, <2>1, <2>3, RegisterBegins
<1>7. CASE Acked /\ c.state = "PROBE_PAGED_SCAN"
  <2> DEFINE d == FoundByScan(c, "paged")
  <2>1. BeginRegister(d)
    BY <1>7 DEF ProbePagedScan
  <2>2. /\ d \in Context /\ ModesWork(d) /\ d.modes = c.modes \cup {"paged"}
        /\ d.value = c.scan
    BY <1>1, <1>3, <1>7, FoundByScanContext DEF Modes
  <2> HIDE DEF d
  <2>3. ~disturbed => /\ Sure(d, {"direct", "paged"})
                      /\ d.value_known => d.value = memory[8]
    BY <1>3, <1>4, <1>7, <2>2
  <2> QED
    BY <2>1, <2>2, <2>3, RegisterBegins
<1>8. CASE ~Acked /\ c.state = "PROBE_PAGED_SCAN" /\ c.scan = ByteMax
  <2>1. BeginRegister(c)
    BY <1>8 DEF ProbePagedScan
  <2>2. ~disturbed => ~Works("paged", 8)
    <3> SUFFICES ASSUME ~disturbed, Works("paged", 8) PROVE FALSE
      OBVIOUS
    <3>1. NotBelow(memory[8], 0, ByteMax) /\ memory[8] # ByteMax
      BY <1>1, <1>8 DEF DetectKnows, DetectAnswer
    <3> QED
      BY <1>1, <3>1, ByteFacts DEF NotBelow
  <2>3. ~disturbed => Sure(c, {"direct", "paged"})
    BY <1>4, <2>2
  <2> QED
    BY <1>1, <1>2, <2>1, <2>3, RegisterBegins
<1>9. CASE ~Acked /\ c.state = "PROBE_PAGED_SCAN" /\ c.scan # ByteMax
  <2>1. Continue("detect", [c EXCEPT !.scan = @ + 1], PagedVerify(DetectCv, c.scan + 1))
    BY <1>9 DEF ProbePagedScan
  <2> QED
    BY <1>9, <2>1, ProbeScanNext
<1> QED
  BY <1>5, <1>6, <1>7, <1>8, <1>9

LEMMA RegisterProbeFollows ==
  ASSUME NEW c, Ready("detect", c),
         \/ c.state = "PROBE_REGISTER_VERIFY"
            /\ BeginAddress(IF Acked THEN Found(c, "register") ELSE c)
         \/ c.state = "PROBE_REGISTER_SCAN" /\ ProbeRegisterScan(c)
  PROVE  Follows("detect")
<1> DEFINE M == {"direct", "paged"}
           N == {"direct", "paged", "register"}
<1>1. /\ c \in Context /\ ModesWork(c) /\ memory[8] \in 0..ByteMax
      /\ c.scan \in 0..ByteMax
      /\ (Acked => DetectAnswer(c))
      /\ ~disturbed => DetectKnows(c) /\ (~Acked => ~DetectAnswer(c))
  BY DetectReady
<1>2. ~disturbed => Sure(c, M) /\ (c.value_known => c.value = memory[8])
  BY <1>1 DEF DetectKnows
<1>3. /\ Acked => Works("register", 8)
      /\ Acked /\ c.state = "PROBE_REGISTER_SCAN" => memory[8] = c.scan
  BY <1>1 DEF DetectAnswer
<1>4. ASSUME NEW d, d.modes = IF Works("register", 8) THEN c.modes \cup {"register"}
                              ELSE c.modes, ~disturbed
      PROVE  Sure(d, N)
  <2>1. M \cup {"register"} = N
    OBVIOUS
  <2>2. d.modes = IF "register" \in Detectable THEN c.modes \cup {"register"}
                  ELSE c.modes
    BY <1>4, DetectableModes
  <2> HIDE DEF M, N
  <2>3. Sure(d, M \cup {"register"})
    BY <1>2, <1>4, <2>2, SureMore
  <2> QED
    BY <2>1, <2>3
<1>5. CASE Acked /\ c.state = "PROBE_REGISTER_VERIFY"
  <2> DEFINE d == Found(c, "register")
  <2>1. BeginAddress(d)
    BY <1>5
  <2>2. /\ d \in Context /\ ModesWork(d) /\ d.modes = c.modes \cup {"register"}
        /\ d.value = c.value /\ d.value_known = c.value_known
    BY <1>1, <1>3, <1>5, FoundContext DEF Modes
  <2> HIDE DEF d
  <2>3. ~disturbed => Sure(d, N) /\ (d.value_known => d.value = memory[8])
    BY <1>2, <1>3, <1>4, <1>5, <2>2
  <2> QED
    BY <2>1, <2>2, <2>3, AddressBegins
<1>6. CASE ~Acked /\ c.state = "PROBE_REGISTER_VERIFY"
  <2>1. BeginAddress(c)
    BY <1>6
  <2>2. ~disturbed => ~Works("register", 8)
    BY <1>1, <1>6 DEF DetectKnows, DetectAnswer
  <2>3. ~disturbed => Sure(c, N)
    BY <1>4, <2>2
  <2> QED
    BY <1>1, <1>2, <2>1, <2>3, AddressBegins
<1>7. CASE Acked /\ c.state = "PROBE_REGISTER_SCAN"
  <2> DEFINE d == FoundByScan(c, "register")
  <2>1. BeginAddress(d)
    BY <1>7 DEF ProbeRegisterScan
  <2>2. /\ d \in Context /\ ModesWork(d) /\ d.modes = c.modes \cup {"register"}
        /\ d.value = c.scan
    BY <1>1, <1>3, <1>7, FoundByScanContext DEF Modes
  <2> HIDE DEF d
  <2>3. ~disturbed => Sure(d, N) /\ (d.value_known => d.value = memory[8])
    BY <1>3, <1>4, <1>7, <2>2
  <2> QED
    BY <2>1, <2>2, <2>3, AddressBegins
<1>8. CASE ~Acked /\ c.state = "PROBE_REGISTER_SCAN" /\ c.scan = ByteMax
  <2>1. BeginAddress(c)
    BY <1>8 DEF ProbeRegisterScan
  <2>2. ~disturbed => ~Works("register", 8)
    <3> SUFFICES ASSUME ~disturbed, Works("register", 8) PROVE FALSE
      OBVIOUS
    <3>1. NotBelow(memory[8], 0, ByteMax) /\ memory[8] # ByteMax
      BY <1>1, <1>8 DEF DetectKnows, DetectAnswer
    <3> QED
      BY <1>1, <3>1, ByteFacts DEF NotBelow
  <2>3. ~disturbed => Sure(c, N)
    BY <1>4, <2>2
  <2> QED
    BY <1>1, <1>2, <2>1, <2>3, AddressBegins
<1>9. CASE ~Acked /\ c.state = "PROBE_REGISTER_SCAN" /\ c.scan # ByteMax
  <2>1. Continue("detect", [c EXCEPT !.scan = @ + 1],
                 RegisterVerify(DetectRegister, c.scan + 1))
    BY <1>9 DEF ProbeRegisterScan
  <2> QED
    BY <1>9, <2>1, ProbeScanNext
<1> QED
  BY <1>5, <1>6, <1>7, <1>8, <1>9

LEMMA AddressProbeFollows ==
  ASSUME NEW c, Ready("detect", c), c.state = "PROBE_ADDRESS_SCAN", ProbeAddressScan(c)
  PROVE  Follows("detect")
<1> DEFINE M == {"direct", "paged", "register"}
           N == {"direct", "paged", "register", "address"}
<1>1. /\ c \in Context /\ ModesWork(c) /\ memory[1] \in 0..ByteMax
      /\ c.scan \in 0..ByteMax /\ c.state \in StatesOf("detect")
      /\ (Acked => DetectAnswer(c))
      /\ ~disturbed => DetectKnows(c) /\ (~Acked => ~DetectAnswer(c))
  BY DetectReady
<1>2. ~disturbed => Sure(c, M)
  BY <1>1 DEF DetectKnows
<1>3. Acked => Works("address", 1) /\ memory[1] = c.scan
  BY <1>1 DEF DetectAnswer
<1>4. ASSUME NEW d, d.modes = IF "address" \in Detectable THEN c.modes \cup {"address"}
                              ELSE c.modes, ~disturbed
      PROVE  Sure(d, N)
  <2>1. M \cup {"address"} = N
    OBVIOUS
  <2> HIDE DEF M, N
  <2>3. Sure(d, M \cup {"address"})
    BY <1>2, <1>4, SureMore
  <2> QED
    BY <2>1, <2>3
<1>5. c.scan \in 1..AddressMax
  <2>1. Asked("detect", c) # Refused
    BY DEF Ready
  <2>2. Asked("detect", c) = AddressVerify(c.scan)
    BY DEF Asked, DetectAsked
  <2> QED
    BY <2>1, <2>2 DEF AddressVerify, AddressAccess
<1>6. CASE Acked
  <2> DEFINE d == Found(c, "address")
  <2>1. Finish(d)
    BY <1>6 DEF ProbeAddressScan
  <2>2. /\ d \in Context /\ ModesWork(d) /\ d.modes = c.modes \cup {"address"}
        /\ d.state = c.state
    BY <1>1, <1>3, <1>6, FoundContext DEF Modes
  <2> HIDE DEF d
  <2>3. ~disturbed => Sure(d, N)
    BY <1>3, <1>4, <1>5, <1>6, <2>2, DetectableModes
  <2> QED
    BY <1>1, <2>1, <2>2, <2>3, DetectFinishes
<1>7. CASE ~Acked /\ c.scan = AddressMax
  <2>1. Finish(c)
    BY <1>7 DEF ProbeAddressScan
  <2>2. ~disturbed => "address" \notin Detectable
    <3> SUFFICES ASSUME ~disturbed, Works("address", 1), memory[1] \in 1..AddressMax
                 PROVE  FALSE
      BY DetectableModes
    <3>1. NotBelow(memory[1], 1, AddressMax) /\ memory[1] # AddressMax
      BY <1>1, <1>7 DEF DetectKnows, DetectAnswer
    <3> QED
      BY <1>1, <3>1, ByteFacts DEF NotBelow
  <2>3. ~disturbed => Sure(c, N)
    BY <1>4, <2>2
  <2> QED
    BY <1>1, <2>1, <2>3, DetectFinishes
<1>8. CASE ~Acked /\ c.scan # AddressMax
  <2>1. Continue("detect", [c EXCEPT !.scan = @ + 1], AddressVerify(c.scan + 1))
    BY <1>8 DEF ProbeAddressScan
  <2> QED
    BY <1>8, <2>1, ProbeScanNext
<1> QED
  BY <1>6, <1>7, <1>8

LEMMA DirectProbeFollows ==
  ASSUME NEW c, Ready("detect", c),
         \/ c.state = "PROBE_DIRECT_0" /\ ProbeDirect0(c)
         \/ c.state = "PROBE_DIRECT_1" /\ ProbeDirect1(c)
  PROVE  Follows("detect")
<1>1. /\ c \in Context /\ ModesWork(c) /\ memory[8] \in 0..ByteMax
      /\ (Acked => DetectAnswer(c))
      /\ ~disturbed => DetectKnows(c) /\ (~Acked => ~DetectAnswer(c))
  BY DetectReady
<1>2. ~disturbed => c.modes = {} /\ ~c.value_known
  BY <1>1 DEF DetectKnows
<1>3. BitOf(memory[8], DetectBit) \in {0, 1}
  <2>1. memory[8] \in Nat /\ DetectBit \in Nat
    BY <1>1, ByteFacts DEF DetectBit
  <2> QED
    BY <2>1, LowBits
<1>4. 2^DetectBit \in Nat
  <2>1. DetectBit \in Nat
    BY ByteFacts DEF DetectBit
  <2> QED
    BY <2>1, PowSubsets
<1>5. CASE Acked /\ c.state = "PROBE_DIRECT_0"
  <2>1. BeginDirectRead(FoundDirect(c, 0))
    BY <1>5 DEF ProbeDirect0
  <2>2. Works("direct", 8) /\ BitOf(memory[8], DetectBit) = 0
    BY <1>1, <1>5 DEF DetectAnswer
  <2>3. 0 = 0 * 2^DetectBit
    BY <1>4
  <2> QED
    BY <1>1, <1>2, <2>1, <2>2, <2>3, DirectReadBegins
<1>6. CASE ~Acked /\ c.state = "PROBE_DIRECT_0"
  <2> DEFINE d == Go(c, "PROBE_DIRECT_1")
  <2>1. Continue("detect", d, DirectVerifyBit(DetectCv, DetectBit, 1))
    BY <1>6 DEF ProbeDirect0
  <2>2. /\ d \in Context /\ d.state = "PROBE_DIRECT_1" /\ d.value = c.value
        /\ d.modes = c.modes /\ d.value_known = c.value_known
    BY <1>1, GoContext DEF States
  <2> HIDE DEF d
  <2>3. Asked("detect", d) = DirectVerifyBit(DetectCv, DetectBit, 1)
    BY <2>2 DEF Asked, DetectAsked
  <2>4. LegalDetect(d) /\ ModesWork(d) /\ d.state \in StatesOf("detect")
    BY <1>1, <2>2 DEF LegalDetect, ModesWork, StatesOf
  <2>5. ~disturbed /\ "direct" \in supports => BitOf(memory[8], DetectBit) # 0
    BY <1>1, <1>6 DEF DetectAnswer, Works
  <2>6. ~disturbed => DetectKnows(d)
    BY <1>2, <2>2, <2>5 DEF DetectKnows
  <2>7. Good("detect", d)
    BY <2>2, <2>4, <2>6, DetectGood
  <2> QED
    BY <2>1, <2>3, <2>7, ToContinue
<1>7. CASE Acked /\ c.state = "PROBE_DIRECT_1"
  <2>1. BeginDirectRead(FoundDirect(c, 2^DetectBit))
    BY <1>7 DEF ProbeDirect1
  <2>2. Works("direct", 8) /\ BitOf(memory[8], DetectBit) = 1
    BY <1>1, <1>7 DEF DetectAnswer
  <2>3. 2^DetectBit = 1 * 2^DetectBit
    BY <1>4
  <2> QED
    BY <1>1, <1>2, <2>1, <2>2, <2>3, DirectReadBegins
<1>8. CASE ~Acked /\ c.state = "PROBE_DIRECT_1"
  <2>1. BeginPaged(c)
    BY <1>8 DEF ProbeDirect1
  <2>2. ~disturbed => "direct" \notin supports
    BY <1>1, <1>3, <1>8 DEF DetectKnows, DetectAnswer, Works
  <2>3. ~disturbed => Sure(c, {"direct"})
    BY <1>2, <2>2, DetectableModes DEF Sure, Works
  <2> QED
    BY <1>1, <1>2, <2>1, <2>3, PagedBegins
<1> QED
  BY <1>5, <1>6, <1>7, <1>8

LEMMA DetectFollows ==
  ASSUME NEW c, Ready("detect", c), DetectPrimitiveComplete(c)
  PROVE  Follows("detect")
<1>1. CASE c.state = "PROBE_DIRECT_0"
  BY <1>1, DirectProbeFollows DEF DetectPrimitiveComplete
<1>2. CASE c.state = "PROBE_DIRECT_1"
  BY <1>2, DirectProbeFollows DEF DetectPrimitiveComplete
<1>3. CASE c.state = "READ_DIRECT"
  BY <1>3, ReadDirectFollows DEF DetectPrimitiveComplete
<1>4. CASE c.state = "PROBE_PAGED_VERIFY"
  BY <1>4, PagedProbeFollows DEF DetectPrimitiveComplete
<1>5. CASE c.state = "PROBE_PAGED_SCAN"
  BY <1>5, PagedProbeFollows DEF DetectPrimitiveComplete
<1>6. CASE c.state = "PROBE_REGISTER_VERIFY"
  BY <1>6, RegisterProbeFollows DEF DetectPrimitiveComplete
<1>7. CASE c.state = "PROBE_REGISTER_SCAN"
  BY <1>7, RegisterProbeFollows DEF DetectPrimitiveComplete
<1>8. CASE c.state = "PROBE_ADDRESS_SCAN"
  BY <1>8, AddressProbeFollows DEF DetectPrimitiveComplete
<1> QED
  BY <1>1, <1>2, <1>3, <1>4, <1>5, <1>6, <1>7, <1>8, DetectReady DEF StatesOf
-----------------------------------------------------------------------------
(***************************************************************************)
(* A task that acts on another's result while its own operation is under   *)
(* way: whatever it makes of the result, it is over.                       *)
(***************************************************************************)
LEMMA IdleContext == Idle \in Context /\ 0 \in Byte /\ 1 \in Byte
<1>1. 0 \in Byte /\ 1 \in Byte /\ Bits \in Nat
  BY ByteFacts
<1> QED
  BY <1>1 DEF Idle, Context, States, Bit

Stops(t) ==
  \E d \in Context, v \in Byte,
     res \in {"SUCCESS", "NO_ACK", "VERIFY_FAIL", "ERROR", "BUSY"} :
       Complete(t, d, res, v)

LEMMA ToStop ==
  ASSUME NEW t, NEW d \in Context, NEW v \in Byte,
         NEW res \in {"SUCCESS", "NO_ACK", "VERIFY_FAIL", "ERROR", "BUSY"},
         Complete(t, d, res, v)
  PROVE  Stops(t)
BY DEF Stops

LEMMA RefusedStops ==
  ASSUME op # NoOp, NEW t, NEW d \in Context, NEW packets, Continue(t, d, packets)
  PROVE  Stops(t)
<1>1. Complete(t, d, "BUSY", 0)
  BY DEF Continue, Accepts
<1> QED
  BY <1>1, IdleContext, ToStop

LEMMA GoStops ==
  ASSUME op # NoOp, NEW t, NEW c \in Context, NEW s \in States, NEW packets,
         Continue(t, Go(c, s), packets)
  PROVE  Stops(t)
BY GoContext, RefusedStops

LEMMA VerifiedStops ==
  ASSUME NEW t, NEW c \in Context, NEW v \in Byte, Verified(t, c, v)
  PROVE  Stops(t)
<1>1. \/ Complete(t, c, "SUCCESS", v)
      \/ Complete(t, c, "VERIFY_FAIL", v)
  BY DEF Verified
<1> QED
  BY <1>1, ToStop

LEMMA ReadCvStops ==
  ASSUME op # NoOp, NEW c, Legal("direct", c), c.state = "READ_CV", AdvanceReadCv(c)
  PROVE  Stops("direct")
<1> DEFINE v == IF Acked THEN c.value + 2^c.bit ELSE c.value
           n == c.bit + 1
           found == [c EXCEPT !.value = IF Acked THEN @ + 2^c.bit ELSE @,
                              !.any_ack = @ \/ Acked, !.bit = @ + 1]
<1>1. /\ c \in Context /\ c.bit \in 0..Bits - 1 /\ c.bit \in Nat /\ Bits \in Nat
      /\ c.value \in Nat /\ c.value \in Byte /\ c.value < 2^c.bit
  BY ByteFacts DEF Legal, LegalDirect, Context
<1>2. n \in 0..Bits /\ n \in Nat /\ n <= Bits
  BY <1>1
<1>3. 2^c.bit \in Nat /\ 2^n = 2 * 2^c.bit /\ 2^n \in Nat /\ 2^n <= 2^Bits
  BY <1>1, <1>2, PowStep, PowSubsets, PowGrows
<1>4. v \in Byte
  <2> DEFINE P == 2^c.bit
             Q == 2^n
  <2>1. P \in Nat /\ Q = 2 * P /\ Q <= ByteMax + 1 /\ c.value \in Nat /\ c.value < P
    BY <1>1, <1>3, ByteFacts
  <2>2. v = IF Acked THEN c.value + P ELSE c.value
    OBVIOUS
  <2> HIDE DEF P, Q, v
  <2>3. v \in Nat /\ v <= ByteMax
    BY <2>1, <2>2, ByteFacts
  <2> QED
    BY <2>3, ByteFacts
<1>5. found \in Context
  <2>1. (c.any_ack \/ Acked) \in BOOLEAN
    OBVIOUS
  <2>2. found = [[[c EXCEPT !.value = v] EXCEPT !.any_ack = c.any_ack \/ Acked]
                   EXCEPT !.bit = n]
    BY <1>1 DEF Context
  <2> HIDE DEF v, n, found
  <2> QED
    BY <1>1, <1>2, <1>4, <2>1, <2>2 DEF Context
<1>6. \/ Continue("direct", Go(found, "READ_CV_VERIFY"),
                  DirectVerifyByte(c.cv, found.value))
      \/ Continue("direct", found, DirectVerifyBit(c.cv, found.bit, 1))
  BY DEF AdvanceReadCv
<1> HIDE DEF found
<1> QED
  BY <1>5, <1>6, GoStops, RefusedStops DEF States

LEMMA DirectStops ==
  ASSUME op # NoOp, NEW c, Legal("direct", c), DirectPrimitiveComplete(c)
  PROVE  Stops("direct")
<1>1. /\ c \in Context /\ c.value \in Byte /\ c.bit_value \in Byte
      /\ c.state \in StatesOf("direct") /\ 0 \in Byte /\ 1 \in Byte
  BY IdleContext DEF Legal, Context, Bit
<1>2. CASE c.state = "READ_CV"
  BY <1>2, ReadCvStops DEF DirectPrimitiveComplete
<1>3. CASE c.state = "READ_CV_VERIFY"
  BY <1>1, <1>3, ToStop DEF DirectPrimitiveComplete, AdvanceReadCvVerify
<1>4. CASE c.state = "WRITE_CV"
  BY <1>1, <1>4, GoStops DEF DirectPrimitiveComplete, States
<1>5. CASE c.state \in {"WRITE_CV_VERIFY", "WRITE_BIT_VERIFY"}
  BY <1>1, <1>5, VerifiedStops DEF DirectPrimitiveComplete
<1>6. CASE c.state = "READ_BIT"
  BY <1>1, <1>6, ToStop, GoStops DEF DirectPrimitiveComplete, AdvanceReadBit, States
<1>7. CASE c.state = "READ_BIT_CONFIRM"
  <2>1. \/ Complete("direct", c, "SUCCESS", 0)
        \/ Complete("direct", c, "NO_ACK", 0)
    BY <1>7 DEF DirectPrimitiveComplete, AdvanceReadBitConfirm
  <2> QED
    BY <1>1, <2>1, ToStop
<1>8. CASE c.state = "WRITE_BIT"
  BY <1>1, <1>8, GoStops DEF DirectPrimitiveComplete, States
<1> QED
  BY <1>1, <1>2, <1>3, <1>4, <1>5, <1>6, <1>7, <1>8 DEF StatesOf

LEMMA ScanStops ==
  ASSUME op # NoOp, NEW t \in WholeByteTasks, NEW c, Legal(t, c),
         c.state \in ScannedStates,
         NEW found, found => Stops(t), AdvanceScan(t, c, found)
  PROVE  Stops(t)
<1>1. /\ c \in Context /\ c.scan \in 0..ByteMax /\ c.scan <= ScanLast(t)
      /\ 0 \in Byte /\ ScanLast(t) \in 0..ByteMax /\ Byte = 0..ByteMax
  BY ByteFacts DEF Legal, LegalBytes, Context, ScanLast
<1>2. CASE Acked
  BY <1>2 DEF AdvanceScan
<1>3. CASE ~Acked /\ c.scan = ScanLast(t)
  BY <1>1, <1>3, ToStop DEF AdvanceScan
<1>4. CASE ~Acked /\ c.scan # ScanLast(t)
  <2> DEFINE n == c.scan + 1
             d == [c EXCEPT !.scan = n]
  <2>1. Continue(t, d, VerifyOf(t, c, n))
    BY <1>1, <1>4 DEF AdvanceScan, Context
  <2>2. n \in Byte
    BY <1>1, <1>4, ByteFacts
  <2>3. d \in Context
    <3> HIDE DEF n
    <3> QED
      BY <1>1, <2>2 DEF Context
  <2> HIDE DEF d, n
  <2> QED
    BY <2>1, <2>3, RefusedStops
<1> QED
  BY <1>2, <1>3, <1>4

LEMMA BytesStop ==
  ASSUME op # NoOp, NEW t \in WholeByteTasks, NEW c, Legal(t, c),
         c.state \in ScanStates, PagedPrimitiveComplete(t, c)
  PROVE  Stops(t)
<1>1. /\ c \in Context /\ c.value \in Byte /\ c.bit_value \in Byte /\ c.scan \in Byte
      /\ c.scan \in 0..2^Bits - 1 /\ c.bit \in 0..Bits - 1 /\ c.bit \in Nat
      /\ c.scan \in Nat /\ Bits \in Nat /\ c.bit_value \in {0, 1}
  BY IdleContext, ByteFacts DEF Legal, LegalBytes, Context, Bit
<1>2. ReportFoundValue(t, c) => Stops(t)
  <2>1. BitOf(c.scan, c.bit) \in Byte
    <3>1. BitOf(c.scan, c.bit) \in {0, 1}
      BY <1>1, LowBits
    <3> QED
      BY <3>1, IdleContext
  <2>2. ReportFoundValue(t, c) =>
          \/ Complete(t, c, "SUCCESS", BitOf(c.scan, c.bit))
          \/ Complete(t, c, "SUCCESS", c.scan)
    BY DEF ReportFoundValue
  <2> QED
    BY <1>1, <2>1, <2>2, ToStop
<1>3. BeginWriteBit(t, c) => Stops(t)
  <2> DEFINE w == WithBit(c.scan, c.bit, c.bit_value)
             d == [c EXCEPT !.state = "WRITE_BIT_WRITE", !.value = w]
  <2>1. w \in Byte
    <3>1. w \in 0..2^Bits - 1
      BY <1>1, WithBitWidth
    <3> QED
      BY <3>1, ByteFacts
  <2>2. BeginWriteBit(t, c) => Continue(t, d, WriteOf(t, c, w))
    BY DEF BeginWriteBit
  <2>3. d \in Context
    <3> HIDE DEF w
    <3> QED
      BY <1>1, <2>1 DEF Context, States
  <2> HIDE DEF d, w
  <2> QED
    BY <2>2, <2>3, RefusedStops
<1>4. CASE c.state \in {"READ_CV", "READ_BIT_READ_BYTE"}
  <2>1. AdvanceScan(t, c, ReportFoundValue(t, c))
    BY <1>4 DEF PagedPrimitiveComplete
  <2> QED
    BY <1>2, <1>4, <2>1, ScanStops DEF ScannedStates
<1>5. CASE c.state = "WRITE_BIT_READ_BYTE"
  <2>1. AdvanceScan(t, c, BeginWriteBit(t, c))
    BY <1>5 DEF PagedPrimitiveComplete
  <2> QED
    BY <1>3, <1>5, <2>1, ScanStops DEF ScannedStates
<1>6. CASE c.state = "WRITE_CV"
  BY <1>1, <1>6, GoStops DEF PagedPrimitiveComplete, States
<1>7. CASE c.state = "WRITE_BIT_WRITE"
  BY <1>1, <1>7, GoStops DEF PagedPrimitiveComplete, States
<1>8. CASE c.state = "WRITE_CV_VERIFY"
  BY <1>1, <1>8, VerifiedStops DEF PagedPrimitiveComplete
<1>9. CASE c.state = "WRITE_BIT_VERIFY"
  BY <1>1, <1>9, VerifiedStops DEF PagedPrimitiveComplete
<1> QED
  BY <1>4, <1>5, <1>6, <1>7, <1>8, <1>9 DEF ScanStates

LEMMA RegisterStops ==
  ASSUME op # NoOp, NEW c, Legal("register", c), RegisterPrimitiveComplete(c)
  PROVE  Stops("register")
<1>1. c \in Context /\ c.value \in Byte /\ c.state \in StatesOf("register") /\ 0 \in Byte
  BY IdleContext DEF Legal, Context
<1>2. CASE c.state = "FACTORY_RESET"
  <2>1. \/ Complete("register", c, "SUCCESS", 0)
        \/ Complete("register", c, "NO_ACK", 0)
    BY <1>2 DEF RegisterPrimitiveComplete
  <2> QED
    BY <1>1, <2>1, ToStop
<1>3. CASE c.state = "VERIFY_VALUE"
  BY <1>1, <1>3, VerifiedStops DEF RegisterPrimitiveComplete
<1>4. CASE c.state \notin {"FACTORY_RESET", "VERIFY_VALUE"}
  <2>1. PagedPrimitiveComplete("register", c)
    BY <1>4 DEF RegisterPrimitiveComplete
  <2>2. c.state \in ScanStates /\ "register" \in WholeByteTasks
    BY <1>1, <1>4 DEF StatesOf, WholeByteTasks
  <2> QED
    BY <2>1, <2>2, BytesStop
<1> QED
  BY <1>2, <1>3, <1>4

LEMMA AddressStops ==
  ASSUME op # NoOp, NEW c, Legal("address", c), AddressPrimitiveComplete(c)
  PROVE  Stops("address")
<1>1. c \in Context /\ c.value \in Byte /\ c.state \in StatesOf("address")
  BY DEF Legal, Context
<1>2. CASE c.state = "VERIFY_VALUE"
  BY <1>1, <1>2, VerifiedStops DEF AddressPrimitiveComplete
<1>3. CASE c.state # "VERIFY_VALUE"
  <2>1. PagedPrimitiveComplete("address", c)
    BY <1>3 DEF AddressPrimitiveComplete
  <2>2. c.state \in ScanStates /\ "address" \in WholeByteTasks
    BY <1>1, <1>3 DEF StatesOf, WholeByteTasks
  <2> QED
    BY <2>1, <2>2, BytesStop
<1> QED
  BY <1>2, <1>3

\* The probes of detection, with whatever context they are begun in.
LEMMA ProbesStop ==
  ASSUME op # NoOp, NEW c \in Context,
         BeginDirectRead(c) \/ BeginPaged(c) \/ BeginRegister(c) \/ BeginAddress(c)
           \/ Finish(c)
  PROVE  Stops("detect")
<1>1. 0 \in Byte /\ 1 \in Byte /\ DetectBit - 1 \in 0..Bits
  BY ByteFacts DEF DetectBit
<1>2. CASE BeginDirectRead(c)
  <2>1. [c EXCEPT !.state = "READ_DIRECT", !.bit = DetectBit - 1] \in Context
    BY <1>1 DEF Context, States
  <2> QED
    BY <1>2, <2>1, RefusedStops DEF BeginDirectRead
<1>3. CASE BeginPaged(c)
  <2>1. [c EXCEPT !.state = "PROBE_PAGED_SCAN", !.scan = 0] \in Context
    BY <1>1 DEF Context, States
  <2> QED
    BY <1>3, <2>1, GoStops, RefusedStops DEF BeginPaged, States
<1>4. CASE BeginRegister(c)
  <2>1. [c EXCEPT !.state = "PROBE_REGISTER_SCAN", !.scan = 0] \in Context
    BY <1>1 DEF Context, States
  <2> QED
    BY <1>4, <2>1, GoStops, RefusedStops DEF BeginRegister, States
<1>5. CASE BeginAddress(c)
  <2>1. [c EXCEPT !.state = "PROBE_ADDRESS_SCAN", !.scan = 1] \in Context
    BY <1>1 DEF Context, States
  <2> QED
    BY <1>5, <2>1, RefusedStops DEF BeginAddress
<1>6. CASE Finish(c)
  <2>1. \/ Complete("detect", c, "NO_ACK", 0)
        \/ Complete("detect", c, "SUCCESS", 0)
    BY <1>6 DEF Finish
  <2> QED
    BY <1>1, <2>1, ToStop
<1> QED
  BY <1>2, <1>3, <1>4, <1>5, <1>6

LEMMA FoundTyped ==
  ASSUME NEW c \in Context
  PROVE  /\ \A mode \in Modes : Found(c, mode) \in Context
         /\ \A mode \in Modes : FoundByScan(c, mode) \in Context
         /\ \A v \in Byte : FoundDirect(c, v) \in Context
         /\ \A v \in Byte : [c EXCEPT !.value = v] \in Context
         /\ \A b \in 0..Bits : [c EXCEPT !.bit = b] \in Context
         /\ \A v \in Byte : [c EXCEPT !.scan = v] \in Context
         /\ [c EXCEPT !.value_known = TRUE] \in Context
<1>1. /\ \A v \in Byte : [c EXCEPT !.value = v] \in Context
      /\ \A b \in 0..Bits : [c EXCEPT !.bit = b] \in Context
      /\ \A v \in Byte : [c EXCEPT !.scan = v] \in Context
      /\ [c EXCEPT !.value_known = TRUE] \in Context
  BY DEF Context
<1>2. \A mode \in Modes : Found(c, mode) \in Context
  BY DEF Context, Found
<1>3. ASSUME NEW mode \in Modes
      PROVE  FoundByScan(c, mode) \in Context
  <2>1. PICK e : e = Found(c, mode) /\ e \in Context /\ c.scan \in Byte
    BY <1>2 DEF Context
  <2>2. FoundByScan(c, mode) = [e EXCEPT !.value = c.scan, !.value_known = TRUE]
    BY <2>1 DEF FoundByScan
  <2> QED
    BY <2>1, <2>2 DEF Context
<1>4. ASSUME NEW v \in Byte
      PROVE  FoundDirect(c, v) \in Context
  <2>1. PICK e : e = Found(c, "direct") /\ e \in Context
    BY <1>2 DEF Modes
  <2>2. FoundDirect(c, v) = [e EXCEPT !.value = v]
    BY <2>1 DEF FoundDirect
  <2> QED
    BY <2>1, <2>2 DEF Context
<1> QED
  BY <1>1, <1>2, <1>3, <1>4

LEMMA ReadDirectStops ==
  ASSUME op # NoOp, NEW c, Legal("detect", c), c.state = "READ_DIRECT", ReadDirect(c)
  PROVE  Stops("detect")
<1> DEFINE v == IF Acked THEN c.value + 2^c.bit ELSE c.value
           read == [c EXCEPT !.value = IF Acked THEN @ + 2^c.bit ELSE @]
<1>1. /\ c \in Context /\ c.bit \in Nat /\ c.bit < Bits /\ c.bit \in 0..Bits
      /\ c.value \in Nat /\ c.value \in Byte
      /\ c.value + 2^(c.bit + 1) <= 2^Bits /\ Bits \in Nat
  BY ByteFacts DEF Legal, LegalDetect, Context
<1>2. 2^c.bit \in Nat \ {0} /\ 2^(c.bit + 1) = 2 * 2^c.bit /\ 2^Bits = ByteMax + 1
  BY <1>1, PowSubsets, PowStep, ByteFacts
<1>3. v \in Byte
  <2> DEFINE P == 2^c.bit
  <2>1. c.value \in Nat /\ P \in Nat \ {0} /\ c.value + 2 * P <= ByteMax + 1
    BY <1>1, <1>2
  <2>2. v = c.value \/ v = c.value + P
    OBVIOUS
  <2> HIDE DEF P, v
  <2>3. v \in Nat /\ v <= ByteMax
    BY <2>1, <2>2, ByteFacts
  <2> QED
    BY <2>3, ByteFacts
<1>4. read \in Context /\ read.bit = c.bit
  <2>1. read = [c EXCEPT !.value = v]
    BY <1>1 DEF Context
  <2> HIDE DEF v
  <2> QED
    BY <1>1, <1>3, <2>1 DEF Context
<1>5. \/ BeginPaged([read EXCEPT !.value_known = TRUE])
      \/ /\ c.bit # 0
         /\ Continue("detect", [read EXCEPT !.bit = @ - 1],
                     DirectVerifyBit(DetectCv, c.bit - 1, 1))
  BY DEF ReadDirect
<1> HIDE DEF read
<1>6. [read EXCEPT !.value_known = TRUE] \in Context
  BY <1>4, FoundTyped
<1>7. c.bit # 0 => [read EXCEPT !.bit = @ - 1] \in Context
  <2>1. c.bit # 0 => c.bit - 1 \in 0..Bits
    BY <1>1
  <2>2. [read EXCEPT !.bit = @ - 1] = [read EXCEPT !.bit = c.bit - 1]
    BY <1>4
  <2> QED
    BY <1>4, <2>1, <2>2, FoundTyped
<1> QED
  BY <1>5, <1>6, <1>7, ProbesStop, RefusedStops

LEMMA DetectStops ==
  ASSUME op # NoOp, NEW c, Legal("detect", c), DetectPrimitiveComplete(c)
  PROVE  Stops("detect")
<1>1. /\ c \in Context /\ c.state \in StatesOf("detect") /\ c.scan \in 0..ByteMax
      /\ 0 \in Byte /\ Byte = 0..ByteMax
      /\ c.state = "PROBE_ADDRESS_SCAN" => c.scan <= AddressMax
  BY ByteFacts DEF Legal, LegalDetect, Context
<1>2. 2^DetectBit \in Byte
  <2>1. DetectBit \in Nat /\ DetectBit + 1 = Bits
    BY ByteFacts DEF DetectBit
  <2>2. 2^DetectBit \in Nat \ {0} /\ 2^Bits = 2 * 2^DetectBit
    BY <2>1, PowSubsets, PowStep
  <2> DEFINE P == 2^DetectBit
  <2> HIDE DEF P
  <2>3. P \in Nat \ {0} /\ ByteMax + 1 = 2 * P
    BY <2>2, ByteFacts DEF P
  <2>4. P \in 0..ByteMax
    BY <2>3, ByteFacts
  <2> QED
    BY <2>4, ByteFacts DEF P
<1>3. /\ FoundDirect(c, 0) \in Context /\ FoundDirect(c, 2^DetectBit) \in Context
      /\ \A mode \in Modes : Found(c, mode) \in Context /\ FoundByScan(c, mode) \in Context
  BY <1>1, <1>2, FoundTyped
<1>4. /\ c.scan # ByteMax => [c EXCEPT !.scan = @ + 1] \in Context
      /\ c.state = "PROBE_ADDRESS_SCAN" /\ c.scan # AddressMax =>
           [c EXCEPT !.scan = @ + 1] \in Context
  <2>1. [c EXCEPT !.scan = @ + 1] = [c EXCEPT !.scan = c.scan + 1]
    BY <1>1 DEF Context
  <2>2. /\ c.scan # ByteMax => c.scan + 1 \in Byte
        /\ c.state = "PROBE_ADDRESS_SCAN" /\ c.scan # AddressMax => c.scan + 1 \in Byte
    BY <1>1, ByteFacts
  <2> QED
    BY <1>1, <2>1, <2>2, FoundTyped
<1>5. CASE c.state = "PROBE_DIRECT_0"
  BY <1>1, <1>3, <1>5, ProbesStop, GoStops DEF DetectPrimitiveComplete, ProbeDirect0, States
<1>6. CASE c.state = "PROBE_DIRECT_1"
  BY <1>1, <1>3, <1>6, ProbesStop DEF DetectPrimitiveComplete, ProbeDirect1
<1>7. CASE c.state = "READ_DIRECT"
  BY <1>7, ReadDirectStops DEF DetectPrimitiveComplete
<1>8. CASE c.state = "PROBE_PAGED_VERIFY"
  <2>1. BeginRegister(Found(c, "paged")) \/ BeginRegister(c)
    BY <1>8 DEF DetectPrimitiveComplete
  <2> QED
    BY <1>1, <1>3, <2>1, ProbesStop DEF Modes
<1>9. CASE c.state = "PROBE_REGISTER_VERIFY"
  <2>1. BeginAddress(Found(c, "register")) \/ BeginAddress(c)
    BY <1>9 DEF DetectPrimitiveComplete
  <2> QED
    BY <1>1, <1>3, <2>1, ProbesStop DEF Modes
<1>10. CASE c.state = "PROBE_PAGED_SCAN"
  <2>1. \/ BeginRegister(FoundByScan(c, "paged")) \/ BeginRegister(c)
        \/ /\ c.scan # ByteMax
           /\ Continue("detect", [c EXCEPT !.scan = @ + 1],
                       PagedVerify(DetectCv, c.scan + 1))
    BY <1>10 DEF DetectPrimitiveComplete, ProbePagedScan
  <2> QED
    BY <1>1, <1>3, <1>4, <2>1, ProbesStop, RefusedStops DEF Modes
<1>11. CASE c.state = "PROBE_REGISTER_SCAN"
  <2>1. \/ BeginAddress(FoundByScan(c, "register")) \/ BeginAddress(c)
        \/ /\ c.scan # ByteMax
           /\ Continue("detect", [c EXCEPT !.scan = @ + 1],
                       RegisterVerify(DetectRegister, c.scan + 1))
    BY <1>11 DEF DetectPrimitiveComplete, ProbeRegisterScan
  <2> QED
    BY <1>1, <1>3, <1>4, <2>1, ProbesStop, RefusedStops DEF Modes
<1>12. CASE c.state = "PROBE_ADDRESS_SCAN"
  <2>1. \/ Finish(Found(c, "address")) \/ Finish(c)
        \/ /\ c.scan # AddressMax
           /\ Continue("detect", [c EXCEPT !.scan = @ + 1], AddressVerify(c.scan + 1))
    BY <1>12 DEF DetectPrimitiveComplete, ProbeAddressScan
  <2> QED
    BY <1>1, <1>3, <1>4, <1>12, <2>1, ProbesStop, RefusedStops DEF Modes
<1> QED
  BY <1>1, <1>5, <1>6, <1>7, <1>8, <1>9, <1>10, <1>11, <1>12 DEF StatesOf
-----------------------------------------------------------------------------
(***************************************************************************)
(* The steps.                                                              *)
(***************************************************************************)
\* A task waits for one packet, or for two of which the first sets the page.
LEMMA AskedShape ==
  ASSUME NEW t \in Tasks, NEW c, Legal(t, c)
  PROVE  /\ Len(Asked(t, c)) \in 0..2
         /\ Len(Asked(t, c)) = 1 => \E q : Asked(t, c) = <<q>>
         /\ Len(Asked(t, c)) = 2 =>
              \E g \in 0..Pages - 1 : \E q : Asked(t, c) = <<SelectPage(g), q>>
<1> DEFINE Shaped(s) == \/ s = <<>> \/ \E q : s = <<q>>
                        \/ \E g \in 0..Pages - 1 : \E q : s = <<SelectPage(g), q>>
<1>1. \A kind, cv, v : cv \in CVs => Shaped(PagedAccess(kind, cv, v))
  <2> SUFFICES ASSUME NEW kind, NEW cv \in CVs, NEW v
               PROVE  Shaped(PagedAccess(kind, cv, v))
    OBVIOUS
  <2>1. PageOf(cv) \in 0..Pages - 1
    BY DecoderAssumption DEF PageOf, Pages
  <2> QED
    BY <2>1 DEF PagedAccess
<1>2. 1 \in 0..Pages - 1
  BY DEF Pages
<1>3. \A kind, r, v : Shaped(RegisterAccess(kind, r, v))
  BY <1>2 DEF RegisterAccess, Refused
<1>4. \A kind, a : Shaped(AddressAccess(kind, a))
  BY <1>2 DEF AddressAccess, Refused
<1>5. ASSUME t = "direct" PROVE Shaped(Asked(t, c))
  <2>1. DirectAsked(c) = <<Head(DirectAsked(c))>>
    BY <1>5 DEF DirectAsked, DirectVerifyBit, DirectWriteByte, DirectWriteBit,
                DirectVerifyByte, Legal, StatesOf
  <2> QED
    BY <1>5, <2>1 DEF Asked
<1>6. ASSUME t \in WholeByteTasks PROVE Shaped(Asked(t, c))
  <2>1. Asked(t, c) = BytesAccess(t, c) /\ c.cv \in CVs
    BY <1>6, BytesAskedIs DEF Asked, WholeByteTasks, Legal, LegalBytes
  <2>2. Shaped(BytesAccess(t, c))
    <3> HIDE DEF Shaped
    <3> QED
      BY <1>1, <1>3, <1>4, <1>6, <2>1 DEF BytesAccess, WholeByteTasks
  <2> QED
    BY <2>1, <2>2
<1>7. ASSUME t = "detect" PROVE Shaped(Asked(t, c))
  <2>1. Asked(t, c) = DetectAsked(c) /\ 8 \in CVs /\ DetectCv = 8
    BY <1>7, DecoderAssumption DEF Asked, DetectCv
  <2>2. \A b, x : Shaped(DirectVerifyBit(DetectCv, b, x))
    BY DEF DirectVerifyBit
  <2>3. Shaped(DetectAsked(c))
    <3> HIDE DEF Shaped
    <3> QED
      BY <1>1, <1>3, <1>4, <1>7, <2>1, <2>2
      DEF DetectAsked, PagedVerify, RegisterVerify, AddressVerify, Legal, StatesOf
  <2> QED
    BY <2>1, <2>3
<1> HIDE DEF Shaped
<1>8. Shaped(Asked(t, c))
  BY <1>5, <1>6, <1>7 DEF Tasks, WholeByteTasks
<1> QED
  BY <1>8 DEF Shaped

\* What is said of a decoder that has not changed.
LEMMA SameDecoder ==
  ASSUME memory' = memory, supports' = supports
  PROVE  /\ \A c : ModesWork(c)' <=> ModesWork(c)
         /\ \A t, c : ReadBack(t, c)' <=> ReadBack(t, c)
         /\ \A t, c : Answer(t, c)' <=> Answer(t, c)
         /\ \A t, c : Knows(t, c)' <=> Knows(t, c)
<1>1. \A c : ModesWork(c)' <=> ModesWork(c)
  BY DEF ModesWork, Works
<1>2. \A t, c : ReadBack(t, c)' <=> ReadBack(t, c)
  BY DEF ReadBack
<1>3. \A c : DirectAnswer(c)' <=> DirectAnswer(c)
  BY DEF DirectAnswer
<1>4. \A t, c : BytesAnswer(t, c)' <=> BytesAnswer(t, c)
  BY DEF BytesAnswer, Works
<1>5. \A c : DetectAnswer(c)' <=> DetectAnswer(c)
  BY DEF DetectAnswer, Works
<1>6. \A t, c : Answer(t, c)' <=> Answer(t, c)
  BY <1>3, <1>4, <1>5 DEF Answer
<1>7. \A c : DirectKnows(c)' <=> DirectKnows(c)
  BY DEF DirectKnows
<1>8. \A t, c : BytesKnows(t, c)' <=> BytesKnows(t, c)
  BY DEF BytesKnows, Works
<1>9. Detectable' = Detectable
  BY DEF Detectable, Works
<1>10. \A c : DetectKnows(c)' <=> DetectKnows(c)
  BY <1>9 DEF DetectKnows, Sure, Works
<1>11. \A t, c : Knows(t, c)' <=> Knows(t, c)
  BY <1>7, <1>8, <1>10 DEF Knows
<1> QED
  BY <1>1, <1>2, <1>6, <1>11

\* A report that is true of the decoder as it is.
LEMMA ReportTrue ==
  ASSUME memory' = memory, supports' = supports, NEW r, report' = r,
         r.owner = r.task /\ r.result = "SUCCESS" => Holds(r),
         r.owner = r.task /\ ~r.disturbed => Exact(r.task, r.context, r.result)
  PROVE  SuccessIsTrue' /\ UndisturbedIsExact'
<1>1. Holds(r)' <=> Holds(r)
  BY DEF Holds, Works
<1>2. SuccessIsTrue'
  BY <1>1 DEF SuccessIsTrue, Holds
<1>3. Detectable' = Detectable
  BY DEF Detectable, Works
<1>4. \A t, c : Attainable(t, c)' <=> Attainable(t, c)
  BY DEF Attainable, Scanned
<1>5. \A t, cv : Works(t, cv)' <=> Works(t, cv)
  BY DEF Works
<1>6. UndisturbedIsExact'
  BY <1>3, <1>4, <1>5 DEF UndisturbedIsExact, Exact
<1> QED
  BY <1>2, <1>6

LEMMA InvInit == Init => TaskInv
<1> SUFFICES ASSUME Init PROVE TaskInv
  OBVIOUS
<1>1. OwnerInv
  BY OwnerInit
<1>2. \A t \in Tasks : task[t] = Idle /\ ~Active(t)
  BY IdleShape DEF Init, Active
<1>3. TypeOK
  <2>1. task \in [Tasks -> Context] /\ report.context \in Context /\ report.value \in Byte
    BY IdleContext DEF Init, NoReport
  <2>2. /\ memory \in [CVs -> Byte] /\ supports \in Decoders
        /\ starts \in 0..MaxStarts /\ lost \in 0..MaxLost /\ page \in 0..Pages - 1
    BY DecoderAssumption, BoundsAssumption DEF Init, Pages
  <2>3. op.owner = "none" /\ Len(op.packets) = 0 /\ op.context \in Context
    BY IdleContext DEF Init, NoOp
  <2>4. in_service_mode \in BOOLEAN /\ running \in BOOLEAN /\ disturbed \in BOOLEAN
    BY DEF Init
  <2>5. report.task = "none" /\ report.owner = "none" /\ report.result = "NO_ACK"
    BY DEF Init, NoReport
  <2>6. /\ at \in {"main", "called", "progress", "complete"} /\ turn \in 1..5
        /\ result \in {"SUCCESS", "NO_ACK"} /\ owner \in Tasks \cup {"none"}
    BY DEF Init
  <2> QED
    BY <2>1, <2>2, <2>3, <2>4, <2>5, <2>6 DEF TypeOK
<1>4. Contexts /\ Operation /\ Results /\ SuccessIsTrue
  BY <1>2
  DEF Init, Contexts, Operation, Results, SuccessIsTrue, Waiting, NoOp
<1>5. Quiet /\ Denials /\ UndisturbedIsExact
  BY <1>2 DEF Init, Quiet, Denials, UndisturbedIsExact, Waiting
<1> QED
  BY <1>1, <1>3, <1>4, <1>5 DEF TaskInv, MemoryInv, ExactInv

\* A context as the programming calls hand it over.
Begins(t, c) ==
  /\ Legal(t, c) /\ c.modes = {} /\ c.state # "WRITE_BIT_WRITE"
  /\ memory \in [CVs -> Byte] => Knows(t, c)

LEMMA DirectBegins ==
  ASSUME NEW c \in Context, c.cv \in CVs, c.bit < Bits, c.modes = {},
         c.state \in {"READ_CV", "WRITE_CV", "READ_BIT", "WRITE_BIT"},
         c.state = "READ_CV" => c.bit = 0 /\ c.value = 0
  PROVE  Begins("direct", c)
<1>0. c.state = "READ_CV" => c.value < 2^c.bit
  <2> SUFFICES ASSUME c.state = "READ_CV" PROVE c.value < 2^c.bit
    OBVIOUS
  <2>1. c.value = 0 /\ 2^c.bit = 1
    BY PowZero
  <2> QED
    BY <2>1
<1>1. LegalDirect(c)
  BY <1>0 DEF LegalDirect
<1>2. Legal("direct", c)
  BY <1>1 DEF Legal, StatesOf, WholeByteTasks
<1>3. ASSUME memory \in [CVs -> Byte]
      PROVE  DirectKnows(c)
  <2>1. memory[c.cv] \in Nat
    BY <1>3, ByteFacts
  <2>2. c.state = "READ_CV" => c.value = memory[c.cv] % 2^c.bit
    <3> SUFFICES ASSUME c.state = "READ_CV"
                 PROVE  c.value = memory[c.cv] % 2^c.bit
      OBVIOUS
    <3>1. memory[c.cv] % 2^0 = 0
      BY <2>1, LowBits
    <3>2. c.bit = 0 /\ c.value = 0
      OBVIOUS
    <3> QED
      BY <3>1, <3>2, Zenon
  <2> QED
    BY <2>2 DEF DirectKnows
<1> QED
  BY <1>2, <1>3 DEF Begins, Knows, WholeByteTasks

LEMMA BytesBegin ==
  ASSUME NEW t \in WholeByteTasks, NEW c \in Context, c.cv \in CVs, c.bit < Bits,
         c.modes = {}, c.state \in StatesOf(t),
         c.state \in ScannedStates \cup {"WRITE_CV", "VERIFY_VALUE", "FACTORY_RESET"},
         c.state \in ScannedStates => c.scan = ScanFirst(t),
         c.scan \in {0, ScanFirst(t)},
         t = "address" => c.cv = 1,
         t = "register" => IF c.state = "FACTORY_RESET" THEN c.cv = 8
                           ELSE c.register = CvToRegister(c.cv)
  PROVE  Begins(t, c)
<1>1. c.scan <= ScanLast(t)
  BY ByteFacts DEF ScanFirst, ScanLast
<1>2. LegalBytes(t, c)
  BY <1>1 DEF LegalBytes, ScannedStates
<1>3. Legal(t, c)
  BY <1>2 DEF Legal, WholeByteTasks
<1>4. BytesKnows(t, c)
  BY DEF BytesKnows, NotBelow, ScanFirst
<1> QED
  BY <1>3, <1>4 DEF Begins, Knows, WholeByteTasks, ScannedStates

\* A context in all its fields but those of detection.
Given(c, s, cv, r, b, x, v, n) ==
  /\ c \in Context /\ c.state = s /\ c.cv = cv /\ c.register = r /\ c.bit = b
  /\ c.bit_value = x /\ c.value = v /\ c.scan = n /\ c.modes = {} /\ c.bit < Bits

SetCv(c, w)       == [c EXCEPT !.cv = w]
SetRegister(c, w) == [c EXCEPT !.register = w]
SetBit(c, w)      == [c EXCEPT !.bit = w]
SetBitValue(c, w) == [c EXCEPT !.bit_value = w]
SetValue(c, w)    == [c EXCEPT !.value = w]
SetScan(c, w)     == [c EXCEPT !.scan = w]

LEMMA GivenFresh ==
  ASSUME NEW s \in States
  PROVE  Given(Fresh(s), s, 0, 0, 0, 0, 0, 0)
<1>1. Fresh(s) \in Context /\ Fresh(s).state = s
  BY IdleContext, GoContext DEF Fresh
<1>2. /\ Fresh(s).cv = 0 /\ Fresh(s).register = 0 /\ Fresh(s).bit = 0
      /\ Fresh(s).bit_value = 0 /\ Fresh(s).value = 0 /\ Fresh(s).scan = 0
      /\ Fresh(s).modes = {}
  BY DEF Fresh, Go, Idle
<1> QED
  BY <1>1, <1>2, ByteFacts DEF Given

LEMMA GivenMore ==
  ASSUME NEW c, NEW s, NEW cv, NEW r, NEW b, NEW x, NEW v, NEW n,
         Given(c, s, cv, r, b, x, v, n)
  PROVE  /\ \A w \in CVs : Given(SetCv(c, w), s, w, r, b, x, v, n)
         /\ \A w \in 0..8 : Given(SetRegister(c, w), s, cv, w, b, x, v, n)
         /\ \A w \in 0..Bits - 1 : Given(SetBit(c, w), s, cv, r, w, x, v, n)
         /\ \A w \in Bit : Given(SetBitValue(c, w), s, cv, r, b, w, v, n)
         /\ \A w \in Byte : Given(SetValue(c, w), s, cv, r, b, x, w, n)
         /\ \A w \in Byte : Given(SetScan(c, w), s, cv, r, b, x, v, w)
<1>b. \A w \in 0..Bits - 1 : w \in 0..Bits /\ w < Bits
  BY ByteFacts
<1>1. ASSUME NEW w \in CVs
      PROVE  Given(SetCv(c, w), s, w, r, b, x, v, n)
  BY DEF Given, SetCv, Context
<1>2. ASSUME NEW w \in 0..8
      PROVE  Given(SetRegister(c, w), s, cv, w, b, x, v, n)
  BY DEF Given, SetRegister, Context
<1>3. ASSUME NEW w \in 0..Bits - 1
      PROVE  Given(SetBit(c, w), s, cv, r, w, x, v, n)
  BY <1>b DEF Given, SetBit, Context
<1>4. ASSUME NEW w \in Bit
      PROVE  Given(SetBitValue(c, w), s, cv, r, b, w, v, n)
  BY DEF Given, SetBitValue, Context
<1>5. ASSUME NEW w \in Byte
      PROVE  Given(SetValue(c, w), s, cv, r, b, x, w, n)
  BY DEF Given, SetValue, Context
<1>6. ASSUME NEW w \in Byte
      PROVE  Given(SetScan(c, w), s, cv, r, b, x, v, w)
  BY DEF Given, SetScan, Context
<1> QED
  BY <1>1, <1>2, <1>3, <1>4, <1>5, <1>6

\* A task begins, with what its context asks for.
Started(t) == \E c : Begins(t, c) /\ Start(t, c, Asked(t, c))

LEMMA ToStart ==
  ASSUME NEW t, NEW c, Begins(t, c), NEW packets, packets = Asked(t, c),
         Start(t, c, packets)
  PROVE  Started(t)
BY DEF Started

\* The calls of direct mode.
LEMMA DirectStarts ==
  ASSUME NEW cv \in CVs, NEW b \in 0..Bits - 1, NEW x \in Bit, NEW v \in Byte,
         \/ DirectReadCv(cv)
         \/ DirectWriteCv(cv, v)
         \/ DirectReadBit(cv, b)
         \/ DirectWriteBitOf(cv, b, x)
  PROVE  Started("direct")
<1>0. 0 \in Byte /\ 1 \in Byte /\ 0 \in Bit /\ 0 \in 0..8 /\ 0 \in 0..Bits - 1
  BY ByteFacts DEF Bit
<1>1. CASE DirectReadCv(cv)
  <2> DEFINE c == SetCv(Fresh("READ_CV"), cv)
  <2>1. Start("direct", c, DirectVerifyBit(cv, 0, 1))
    BY <1>1 DEF DirectReadCv, SetCv
  <2>2. "READ_CV" \in States
    BY DEF States
  <2>3. Given(c, "READ_CV", cv, 0, 0, 0, 0, 0)
    BY <1>0, <2>2, GivenFresh, GivenMore
  <2> HIDE DEF c
  <2>4. Begins("direct", c)
    BY <2>3, DirectBegins DEF Given
  <2>5. Asked("direct", c) = DirectVerifyBit(cv, 0, 1)
    BY <2>3 DEF Given, Asked, DirectAsked
  <2> QED
    BY <2>1, <2>4, <2>5, ToStart
<1>2. CASE DirectWriteCv(cv, v)
  <2> DEFINE c == SetValue(SetCv(Fresh("WRITE_CV"), cv), v)
  <2>1. Start("direct", c, DirectWriteByte(cv, v))
    BY <1>2 DEF DirectWriteCv, SetCv, SetValue
  <2>2. "WRITE_CV" \in States
    BY DEF States
  <2>3. Given(c, "WRITE_CV", cv, 0, 0, 0, v, 0)
    BY <1>0, <2>2, GivenFresh, GivenMore
  <2> HIDE DEF c
  <2>4. Begins("direct", c)
    BY <2>3, DirectBegins DEF Given
  <2>5. Asked("direct", c) = DirectWriteByte(cv, v)
    BY <2>3 DEF Given, Asked, DirectAsked
  <2> QED
    BY <2>1, <2>4, <2>5, ToStart
<1>3. CASE DirectReadBit(cv, b)
  <2> DEFINE c == SetBit(SetCv(Fresh("READ_BIT"), cv), b)
  <2>1. Start("direct", c, DirectVerifyBit(cv, b, 1))
    BY <1>3 DEF DirectReadBit, SetCv, SetBit
  <2>2. "READ_BIT" \in States
    BY DEF States
  <2>3. Given(c, "READ_BIT", cv, 0, b, 0, 0, 0)
    BY <1>0, <2>2, GivenFresh, GivenMore
  <2> HIDE DEF c
  <2>4. Begins("direct", c)
    BY <2>3, DirectBegins DEF Given
  <2>5. Asked("direct", c) = DirectVerifyBit(cv, b, 1)
    BY <2>3 DEF Given, Asked, DirectAsked
  <2> QED
    BY <2>1, <2>4, <2>5, ToStart
<1>4. CASE DirectWriteBitOf(cv, b, x)
  <2> DEFINE c == SetBitValue(SetBit(SetCv(Fresh("WRITE_BIT"), cv), b), x)
  <2>1. Start("direct", c, DirectWriteBit(cv, b, x))
    BY <1>4 DEF DirectWriteBitOf, SetCv, SetBit, SetBitValue
  <2>2. "WRITE_BIT" \in States
    BY DEF States
  <2>3. Given(c, "WRITE_BIT", cv, 0, b, x, 0, 0)
    BY <1>0, <2>2, GivenFresh, GivenMore
  <2> HIDE DEF c
  <2>4. Begins("direct", c)
    BY <2>3, DirectBegins DEF Given
  <2>5. Asked("direct", c) = DirectWriteBit(cv, b, x)
    BY <2>3 DEF Given, Asked, DirectAsked
  <2> QED
    BY <2>1, <2>4, <2>5, ToStart
<1> QED
  BY <1>1, <1>2, <1>3, <1>4

\* The calls of paged mode.
LEMMA PagedStarts ==
  ASSUME NEW cv \in CVs, NEW b \in 0..Bits - 1, NEW x \in Bit, NEW v \in Byte,
         \/ PagedReadCv(cv)
         \/ PagedWriteCv(cv, v)
         \/ PagedReadBit(cv, b)
         \/ PagedWriteBit(cv, b, x)
  PROVE  Started("paged")
<1>0. 0 \in Byte /\ 1 \in Byte /\ 0 \in Bit /\ 0 \in 0..8 /\ 0 \in 0..Bits - 1
  BY ByteFacts DEF Bit
<1>1. CASE PagedReadCv(cv)
  <2> DEFINE c == SetCv(Fresh("READ_CV"), cv)
  <2>1. Start("paged", c, PagedVerify(cv, 0))
    BY <1>1 DEF PagedReadCv, SetCv
  <2>2. "READ_CV" \in States
    BY DEF States
  <2>3. Given(c, "READ_CV", cv, 0, 0, 0, 0, 0)
    BY <1>0, <2>2, GivenFresh, GivenMore
  <2> HIDE DEF c
  <2>4. Begins("paged", c)
    BY <1>0, <2>3, BytesBegin
    DEF Given, WholeByteTasks, StatesOf, ScanStates, ScannedStates, ScanFirst
  <2>5. Asked("paged", c) = PagedVerify(cv, 0)
    BY <2>3 DEF Given, Asked, BytesAsked, VerifyOf, WriteOf, ScannedStates
  <2> QED
    BY <2>1, <2>4, <2>5, ToStart
<1>2. CASE PagedWriteCv(cv, v)
  <2> DEFINE c == SetValue(SetCv(Fresh("WRITE_CV"), cv), v)
  <2>1. Start("paged", c, PagedWrite(cv, v))
    BY <1>2 DEF PagedWriteCv, SetCv, SetValue
  <2>2. "WRITE_CV" \in States
    BY DEF States
  <2>3. Given(c, "WRITE_CV", cv, 0, 0, 0, v, 0)
    BY <1>0, <2>2, GivenFresh, GivenMore
  <2> HIDE DEF c
  <2>4. Begins("paged", c)
    BY <1>0, <2>3, BytesBegin
    DEF Given, WholeByteTasks, StatesOf, ScanStates, ScannedStates, ScanFirst
  <2>5. Asked("paged", c) = PagedWrite(cv, v)
    BY <2>3 DEF Given, Asked, BytesAsked, VerifyOf, WriteOf, ScannedStates
  <2> QED
    BY <2>1, <2>4, <2>5, ToStart
<1>3. CASE PagedReadBit(cv, b)
  <2> DEFINE c == SetBit(SetCv(Fresh("READ_BIT_READ_BYTE"), cv), b)
  <2>1. Start("paged", c, PagedVerify(cv, 0))
    BY <1>3 DEF PagedReadBit, SetCv, SetBit
  <2>2. "READ_BIT_READ_BYTE" \in States
    BY DEF States
  <2>3. Given(c, "READ_BIT_READ_BYTE", cv, 0, b, 0, 0, 0)
    BY <1>0, <2>2, GivenFresh, GivenMore
  <2> HIDE DEF c
  <2>4. Begins("paged", c)
    BY <1>0, <2>3, BytesBegin
    DEF Given, WholeByteTasks, StatesOf, ScanStates, ScannedStates, ScanFirst
  <2>5. Asked("paged", c) = PagedVerify(cv, 0)
    BY <2>3 DEF Given, Asked, BytesAsked, VerifyOf, WriteOf, ScannedStates
  <2> QED
    BY <2>1, <2>4, <2>5, ToStart
<1>4. CASE PagedWriteBit(cv, b, x)
  <2> DEFINE c == SetBitValue(SetBit(SetCv(Fresh("WRITE_BIT_READ_BYTE"), cv), b), x)
  <2>1. Start("paged", c, PagedVerify(cv, 0))
    BY <1>4 DEF PagedWriteBit, SetCv, SetBit, SetBitValue
  <2>2. "WRITE_BIT_READ_BYTE" \in States
    BY DEF States
  <2>3. Given(c, "WRITE_BIT_READ_BYTE", cv, 0, b, x, 0, 0)
    BY <1>0, <2>2, GivenFresh, GivenMore
  <2> HIDE DEF c
  <2>4. Begins("paged", c)
    BY <1>0, <2>3, BytesBegin
    DEF Given, WholeByteTasks, StatesOf, ScanStates, ScannedStates, ScanFirst
  <2>5. Asked("paged", c) = PagedVerify(cv, 0)
    BY <2>3 DEF Given, Asked, BytesAsked, VerifyOf, WriteOf, ScannedStates
  <2> QED
    BY <2>1, <2>4, <2>5, ToStart
<1> QED
  BY <1>1, <1>2, <1>3, <1>4

\* The calls of register mode.
LEMMA RegisterStarts ==
  ASSUME NEW cv \in CVs, NEW b \in 0..Bits - 1, NEW x \in Bit, NEW v \in Byte,
         \/ RegisterReadCv(cv)
         \/ RegisterWriteCv(cv, v)
         \/ RegisterVerifyValue(cv, v)
         \/ RegisterReadBit(cv, b)
         \/ RegisterWriteBit(cv, b, x)
         \/ RegisterFactoryReset
  PROVE  Started("register")
<1>0. 0 \in Byte /\ 1 \in Byte /\ 0 \in Bit /\ 0 \in 0..8 /\ 0 \in 0..Bits - 1
  BY ByteFacts DEF Bit
<1> DEFINE r == CvToRegister(cv)
<1>cv. r \in 0..8 /\ 8 \in CVs
  BY DecoderAssumption DEF CvToRegister
<1>1. CASE RegisterReadCv(cv)
  <2> DEFINE c == SetRegister(SetCv(Fresh("READ_CV"), cv), r)
  <2>1. Start("register", c, RegisterVerify(r, 0))
    BY <1>1 DEF RegisterReadCv, InRegister, SetCv, SetRegister
  <2>2. "READ_CV" \in States
    BY DEF States
  <2>3. Given(c, "READ_CV", cv, r, 0, 0, 0, 0)
    BY <1>0, <1>cv, <2>2, GivenFresh, GivenMore
  <2> HIDE DEF c
  <2>4. Begins("register", c)
    BY <1>0, <1>cv, <2>3, BytesBegin
    DEF Given, WholeByteTasks, StatesOf, ScanStates, ScannedStates, ScanFirst
  <2>5. Asked("register", c) = RegisterVerify(r, 0)
    BY <2>3 DEF Given, Asked, BytesAsked, VerifyOf, WriteOf, ScannedStates
  <2> QED
    BY <2>1, <2>4, <2>5, ToStart
<1>2. CASE RegisterWriteCv(cv, v)
  <2> DEFINE c == SetValue(SetRegister(SetCv(Fresh("WRITE_CV"), cv), r), v)
  <2>1. Start("register", c, RegisterWrite(r, v))
    BY <1>2 DEF RegisterWriteCv, InRegister, SetCv, SetRegister, SetValue
  <2>2. "WRITE_CV" \in States
    BY DEF States
  <2>3. Given(c, "WRITE_CV", cv, r, 0, 0, v, 0)
    BY <1>0, <1>cv, <2>2, GivenFresh, GivenMore
  <2> HIDE DEF c
  <2>4. Begins("register", c)
    BY <1>0, <1>cv, <2>3, BytesBegin
    DEF Given, WholeByteTasks, StatesOf, ScanStates, ScannedStates, ScanFirst
  <2>5. Asked("register", c) = RegisterWrite(r, v)
    BY <2>3 DEF Given, Asked, BytesAsked, VerifyOf, WriteOf, ScannedStates
  <2> QED
    BY <2>1, <2>4, <2>5, ToStart
<1>3. CASE RegisterVerifyValue(cv, v)
  <2> DEFINE c == SetValue(SetRegister(SetCv(Fresh("VERIFY_VALUE"), cv), r), v)
  <2>1. Start("register", c, RegisterVerify(r, v))
    BY <1>3 DEF RegisterVerifyValue, InRegister, SetCv, SetRegister, SetValue
  <2>2. "VERIFY_VALUE" \in States
    BY DEF States
  <2>3. Given(c, "VERIFY_VALUE", cv, r, 0, 0, v, 0)
    BY <1>0, <1>cv, <2>2, GivenFresh, GivenMore
  <2> HIDE DEF c
  <2>4. Begins("register", c)
    BY <1>0, <1>cv, <2>3, BytesBegin
    DEF Given, WholeByteTasks, StatesOf, ScanStates, ScannedStates, ScanFirst
  <2>5. Asked("register", c) = RegisterVerify(r, v)
    BY <2>3 DEF Given, Asked, BytesAsked, VerifyOf, WriteOf, ScannedStates
  <2> QED
    BY <2>1, <2>4, <2>5, ToStart
<1>4. CASE RegisterReadBit(cv, b)
  <2> DEFINE c == SetBit(SetRegister(SetCv(Fresh("READ_BIT_READ_BYTE"), cv), r), b)
  <2>1. Start("register", c, RegisterVerify(r, 0))
    BY <1>4 DEF RegisterReadBit, InRegister, SetCv, SetRegister, SetBit
  <2>2. "READ_BIT_READ_BYTE" \in States
    BY DEF States
  <2>3. Given(c, "READ_BIT_READ_BYTE", cv, r, b, 0, 0, 0)
    BY <1>0, <1>cv, <2>2, GivenFresh, GivenMore
  <2> HIDE DEF c
  <2>4. Begins("register", c)
    BY <1>0, <1>cv, <2>3, BytesBegin
    DEF Given, WholeByteTasks, StatesOf, ScanStates, ScannedStates, ScanFirst
  <2>5. Asked("register", c) = RegisterVerify(r, 0)
    BY <2>3 DEF Given, Asked, BytesAsked, VerifyOf, WriteOf, ScannedStates
  <2> QED
    BY <2>1, <2>4, <2>5, ToStart
<1>5. CASE RegisterWriteBit(cv, b, x)
  <2> DEFINE c == SetBitValue(SetBit(SetRegister(SetCv(Fresh("WRITE_BIT_READ_BYTE"), cv), r), b), x)
  <2>1. Start("register", c, RegisterVerify(r, 0))
    BY <1>5 DEF RegisterWriteBit, InRegister, SetCv, SetRegister, SetBit, SetBitValue
  <2>2. "WRITE_BIT_READ_BYTE" \in States
    BY DEF States
  <2>3. Given(c, "WRITE_BIT_READ_BYTE", cv, r, b, x, 0, 0)
    <3> DEFINE d == SetBit(SetRegister(SetCv(Fresh("WRITE_BIT_READ_BYTE"), cv), r), b)
    <3>1. Given(d, "WRITE_BIT_READ_BYTE", cv, r, b, 0, 0, 0)
      BY <1>0, <1>cv, <2>2, GivenFresh, GivenMore
    <3> HIDE DEF d
    <3>2. Given(SetBitValue(d, x), "WRITE_BIT_READ_BYTE", cv, r, b, x, 0, 0)
      BY <1>0, <1>cv, <3>1, GivenMore
    <3> QED
      BY <3>2 DEF d
  <2> HIDE DEF c
  <2>4. Begins("register", c)
    BY <1>0, <1>cv, <2>3, BytesBegin
    DEF Given, WholeByteTasks, StatesOf, ScanStates, ScannedStates, ScanFirst
  <2>5. Asked("register", c) = RegisterVerify(r, 0)
    BY <2>3 DEF Given, Asked, BytesAsked, VerifyOf, WriteOf, ScannedStates
  <2> QED
    BY <2>1, <2>4, <2>5, ToStart
<1>6. CASE RegisterFactoryReset
  <2> DEFINE c == SetCv(Fresh("FACTORY_RESET"), 8)
  <2>1. Start("register", c, RegisterWrite(8, FactoryValue))
    BY <1>6 DEF RegisterFactoryReset, SetCv
  <2>2. "FACTORY_RESET" \in States
    BY DEF States
  <2>3. Given(c, "FACTORY_RESET", 8, 0, 0, 0, 0, 0)
    BY <1>0, <1>cv, <2>2, GivenFresh, GivenMore
  <2> HIDE DEF c
  <2>4. Begins("register", c)
    BY <1>0, <1>cv, <2>3, BytesBegin
    DEF Given, WholeByteTasks, StatesOf, ScanStates, ScannedStates, ScanFirst
  <2>5. Asked("register", c) = RegisterWrite(8, FactoryValue)
    BY <2>3 DEF Given, Asked, BytesAsked, VerifyOf, WriteOf, ScannedStates
  <2> QED
    BY <2>1, <2>4, <2>5, ToStart
<1> QED
  BY <1>1, <1>2, <1>3, <1>4, <1>5, <1>6

\* The calls of address mode.
LEMMA AddressStarts ==
  ASSUME NEW b \in 0..Bits - 1, NEW x \in Bit, NEW v \in Byte,
         \/ AddressRead
         \/ AddressWriteValue(v)
         \/ AddressVerifyValue(v)
         \/ AddressReadBit(b)
         \/ AddressWriteBit(b, x)
  PROVE  Started("address")
<1>0. 0 \in Byte /\ 1 \in Byte /\ 0 \in Bit /\ 0 \in 0..8 /\ 0 \in 0..Bits - 1
  BY ByteFacts DEF Bit
<1>cv. 1 \in CVs
  BY DecoderAssumption
<1>1. CASE AddressRead
  <2> DEFINE c == SetScan(SetCv(Fresh("READ_CV"), 1), 1)
  <2>1. Start("address", c, AddressVerify(1))
    BY <1>1 DEF AddressRead, OfCv1, SetCv, SetScan
  <2>2. "READ_CV" \in States
    BY DEF States
  <2>3. Given(c, "READ_CV", 1, 0, 0, 0, 0, 1)
    BY <1>0, <1>cv, <2>2, GivenFresh, GivenMore
  <2> HIDE DEF c
  <2>4. Begins("address", c)
    BY <1>0, <1>cv, <2>3, BytesBegin
    DEF Given, WholeByteTasks, StatesOf, ScanStates, ScannedStates, ScanFirst
  <2>5. Asked("address", c) = AddressVerify(1)
    BY <2>3 DEF Given, Asked, BytesAsked, VerifyOf, WriteOf, ScannedStates
  <2> QED
    BY <2>1, <2>4, <2>5, ToStart
<1>2. CASE AddressWriteValue(v)
  <2> DEFINE c == SetValue(SetCv(Fresh("WRITE_CV"), 1), v)
  <2>1. Start("address", c, AddressWrite(v))
    BY <1>2 DEF AddressWriteValue, OfCv1, SetCv, SetValue
  <2>2. "WRITE_CV" \in States
    BY DEF States
  <2>3. Given(c, "WRITE_CV", 1, 0, 0, 0, v, 0)
    BY <1>0, <1>cv, <2>2, GivenFresh, GivenMore
  <2> HIDE DEF c
  <2>4. Begins("address", c)
    BY <1>0, <1>cv, <2>3, BytesBegin
    DEF Given, WholeByteTasks, StatesOf, ScanStates, ScannedStates, ScanFirst
  <2>5. Asked("address", c) = AddressWrite(v)
    BY <2>3 DEF Given, Asked, BytesAsked, VerifyOf, WriteOf, ScannedStates
  <2> QED
    BY <2>1, <2>4, <2>5, ToStart
<1>3. CASE AddressVerifyValue(v)
  <2> DEFINE c == SetValue(SetCv(Fresh("VERIFY_VALUE"), 1), v)
  <2>1. Start("address", c, AddressVerify(v))
    BY <1>3 DEF AddressVerifyValue, OfCv1, SetCv, SetValue
  <2>2. "VERIFY_VALUE" \in States
    BY DEF States
  <2>3. Given(c, "VERIFY_VALUE", 1, 0, 0, 0, v, 0)
    BY <1>0, <1>cv, <2>2, GivenFresh, GivenMore
  <2> HIDE DEF c
  <2>4. Begins("address", c)
    BY <1>0, <1>cv, <2>3, BytesBegin
    DEF Given, WholeByteTasks, StatesOf, ScanStates, ScannedStates, ScanFirst
  <2>5. Asked("address", c) = AddressVerify(v)
    BY <2>3 DEF Given, Asked, BytesAsked, VerifyOf, WriteOf, ScannedStates
  <2> QED
    BY <2>1, <2>4, <2>5, ToStart
<1>4. CASE AddressReadBit(b)
  <2> DEFINE c == SetScan(SetBit(SetCv(Fresh("READ_BIT_READ_BYTE"), 1), b), 1)
  <2>1. Start("address", c, AddressVerify(1))
    BY <1>4 DEF AddressReadBit, OfCv1, SetCv, SetBit, SetScan
  <2>2. "READ_BIT_READ_BYTE" \in States
    BY DEF States
  <2>3. Given(c, "READ_BIT_READ_BYTE", 1, 0, b, 0, 0, 1)
    BY <1>0, <1>cv, <2>2, GivenFresh, GivenMore
  <2> HIDE DEF c
  <2>4. Begins("address", c)
    BY <1>0, <1>cv, <2>3, BytesBegin
    DEF Given, WholeByteTasks, StatesOf, ScanStates, ScannedStates, ScanFirst
  <2>5. Asked("address", c) = AddressVerify(1)
    BY <2>3 DEF Given, Asked, BytesAsked, VerifyOf, WriteOf, ScannedStates
  <2> QED
    BY <2>1, <2>4, <2>5, ToStart
<1>5. CASE AddressWriteBit(b, x)
  <2> DEFINE c == SetScan(SetBitValue(SetBit(SetCv(Fresh("WRITE_BIT_READ_BYTE"), 1), b), x), 1)
  <2>1. Start("address", c, AddressVerify(1))
    BY <1>5 DEF AddressWriteBit, OfCv1, SetCv, SetBit, SetBitValue, SetScan
  <2>2. "WRITE_BIT_READ_BYTE" \in States
    BY DEF States
  <2>3. Given(c, "WRITE_BIT_READ_BYTE", 1, 0, b, x, 0, 1)
    <3> DEFINE d == SetBitValue(SetBit(SetCv(Fresh("WRITE_BIT_READ_BYTE"), 1), b), x)
    <3>1. Given(d, "WRITE_BIT_READ_BYTE", 1, 0, b, x, 0, 0)
      BY <1>0, <1>cv, <2>2, GivenFresh, GivenMore
    <3> HIDE DEF d
    <3>2. Given(SetScan(d, 1), "WRITE_BIT_READ_BYTE", 1, 0, b, x, 0, 1)
      BY <1>0, <1>cv, <3>1, GivenMore
    <3> QED
      BY <3>2 DEF d
  <2> HIDE DEF c
  <2>4. Begins("address", c)
    BY <1>0, <1>cv, <2>3, BytesBegin
    DEF Given, WholeByteTasks, StatesOf, ScanStates, ScannedStates, ScanFirst
  <2>5. Asked("address", c) = AddressVerify(1)
    BY <2>3 DEF Given, Asked, BytesAsked, VerifyOf, WriteOf, ScannedStates
  <2> QED
    BY <2>1, <2>4, <2>5, ToStart
<1> QED
  BY <1>1, <1>2, <1>3, <1>4, <1>5

\* Detection begins with a probe of one bit.
LEMMA DetectStarts ==
  ASSUME DetectMode
  PROVE  Started("detect")
<1> DEFINE c == Fresh("PROBE_DIRECT_0")
<1>1. Start("detect", c, DirectVerifyBit(DetectCv, DetectBit, 0))
  BY DEF DetectMode
<1>2. c.value_known = FALSE
  BY DEF Fresh, Go, Idle
<1>3. Given(c, "PROBE_DIRECT_0", 0, 0, 0, 0, 0, 0)
  BY GivenFresh DEF States
<1> HIDE DEF c
<1>4. Legal("detect", c) /\ c.state = "PROBE_DIRECT_0" /\ c.modes = {}
  BY <1>3 DEF Given, Legal, LegalDetect, StatesOf, WholeByteTasks
<1>5. DetectKnows(c)
  BY <1>2, <1>4 DEF DetectKnows
<1>6. Begins("detect", c)
  BY <1>4, <1>5 DEF Begins, Knows, WholeByteTasks
<1>7. Asked("detect", c) = DirectVerifyBit(DetectCv, DetectBit, 0)
  BY <1>4 DEF Asked, DetectAsked
<1> QED
  BY <1>1, <1>6, <1>7, ToStart

\* Every call of the application begins a task, or is refused.
LEMMA StartsBegin ==
  ASSUME StartTask
  PROVE  starts < MaxStarts /\ \E t \in Tasks : Started(t)
<1>1. starts < MaxStarts
  BY DEF StartTask
<1>2. Values \subseteq Byte /\ 0 \in Byte /\ 0 \in Bit /\ 0 \in 0..Bits - 1 /\ 1 \in CVs
  BY DecoderAssumption, ByteFacts DEF Bit
<1>3. {"direct", "paged", "register", "address", "detect"} \subseteq Tasks
  BY DEF Tasks
<1>4. ASSUME NEW cv \in CVs
      PROVE  /\ (DirectReadCv(cv) => Started("direct"))
             /\ \A v \in Byte : DirectWriteCv(cv, v) => Started("direct")
             /\ \A b \in 0..Bits - 1 : DirectReadBit(cv, b) => Started("direct")
             /\ \A b \in 0..Bits - 1 : \A x \in Bit : DirectWriteBitOf(cv, b, x) => Started("direct")
  BY <1>2, DirectStarts
<1>5. ASSUME NEW cv \in CVs
      PROVE  /\ (PagedReadCv(cv) => Started("paged"))
             /\ \A v \in Byte : PagedWriteCv(cv, v) => Started("paged")
             /\ \A b \in 0..Bits - 1 : PagedReadBit(cv, b) => Started("paged")
             /\ \A b \in 0..Bits - 1 : \A x \in Bit : PagedWriteBit(cv, b, x) => Started("paged")
  BY <1>2, PagedStarts
<1>6. ASSUME NEW cv \in CVs
      PROVE  /\ (RegisterReadCv(cv) => Started("register"))
             /\ (RegisterFactoryReset => Started("register"))
             /\ \A v \in Byte : RegisterWriteCv(cv, v) => Started("register")
             /\ \A v \in Byte : RegisterVerifyValue(cv, v) => Started("register")
             /\ \A b \in 0..Bits - 1 : RegisterReadBit(cv, b) => Started("register")
             /\ \A b \in 0..Bits - 1 : \A x \in Bit : RegisterWriteBit(cv, b, x) => Started("register")
  BY <1>2, RegisterStarts
<1>7. /\ (AddressRead => Started("address"))
      /\ \A v \in Byte : AddressWriteValue(v) => Started("address")
      /\ \A v \in Byte : AddressVerifyValue(v) => Started("address")
      /\ \A b \in 0..Bits - 1 : AddressReadBit(b) => Started("address")
      /\ \A b \in 0..Bits - 1 : \A x \in Bit : AddressWriteBit(b, x) => Started("address")
  BY <1>2, AddressStarts
<1>8. RegisterFactoryReset => Started("register")
  BY <1>2, <1>6
<1>9. \/ \E cv \in CVs :
           \/ DirectReadCv(cv)
           \/ \E v \in Values : DirectWriteCv(cv, v)
           \/ \E b \in 0..Bits - 1 :
                DirectReadBit(cv, b) \/ \E x \in Bit : DirectWriteBitOf(cv, b, x)
      \/ \E cv \in CVs :
           \/ PagedReadCv(cv)
           \/ \E v \in Values : PagedWriteCv(cv, v)
           \/ \E b \in 0..Bits - 1 :
                PagedReadBit(cv, b) \/ \E x \in Bit : PagedWriteBit(cv, b, x)
      \/ \E cv \in CVs :
           \/ RegisterReadCv(cv)
           \/ \E v \in Values : RegisterWriteCv(cv, v) \/ RegisterVerifyValue(cv, v)
           \/ \E b \in 0..Bits - 1 :
                RegisterReadBit(cv, b) \/ \E x \in Bit : RegisterWriteBit(cv, b, x)
      \/ AddressRead
      \/ \E v \in Values : AddressWriteValue(v) \/ AddressVerifyValue(v)
      \/ \E b \in 0..Bits - 1 :
           AddressReadBit(b) \/ \E x \in Bit : AddressWriteBit(b, x)
      \/ RegisterFactoryReset \/ DetectMode
  BY Zenon DEF StartTask
<1>10. \/ Started("direct") \/ Started("paged") \/ Started("register")
       \/ Started("address") \/ Started("detect")
  <2>1. \A v \in Values : v \in Byte
    BY <1>2
  <2> QED
    BY <1>4, <1>5, <1>6, <1>7, <1>8, <1>9, <2>1, DetectStarts, Zenon
<1> QED
  BY <1>1, <1>3, <1>10, Zenon

\* A report that was true of a decoder that has not changed.
LEMMA ReportKept ==
  ASSUME memory' = memory, supports' = supports, report' = report,
         at' = "complete" => at = "complete", SuccessIsTrue, UndisturbedIsExact
  PROVE  SuccessIsTrue' /\ UndisturbedIsExact'
<1>1. CASE at' # "complete"
  BY <1>1 DEF SuccessIsTrue, UndisturbedIsExact
<1>2. CASE at' = "complete"
  <2>1. \A r : Holds(r)' <=> Holds(r)
    BY DEF Holds, Works
  <2>2. Detectable' = Detectable
    BY DEF Detectable, Works
  <2>3. \A t, c : Attainable(t, c)' <=> Attainable(t, c)
    BY DEF Attainable, Scanned
  <2>4. \A t, cv : Works(t, cv)' <=> Works(t, cv)
    BY DEF Works
  <2>5. PICK r : r = report
    OBVIOUS
  <2>6. report' = r
    BY <2>5
  <2>7. SuccessIsTrue'
    BY <1>2, <2>1, <2>5, <2>6 DEF SuccessIsTrue
  <2>8. UndisturbedIsExact'
    BY <1>2, <2>2, <2>3, <2>4, <2>5, <2>6 DEF UndisturbedIsExact
  <2> QED
    BY <2>7, <2>8
<1> QED
  BY <1>1, <1>2

\* A call that is accepted.
LEMMA StartStep ==
  ASSUME TaskInv, OwnerInv', NEW t \in Tasks, NEW c, Begins(t, c),
         Start(t, c, Asked(t, c)), starts < MaxStarts
  PROVE  TaskInv'
<1> DEFINE packets == Asked(t, c)
<1>0. /\ OwnerInv /\ TypeOK /\ Contexts /\ Operation /\ Results
      /\ SuccessIsTrue /\ Quiet /\ Denials /\ UndisturbedIsExact
  BY DEF TaskInv, MemoryInv, ExactInv
<1>1. /\ at' = at /\ turn' = turn /\ result' = result /\ owner' = owner
      /\ report' = report /\ memory' = memory /\ page' = page /\ supports' = supports
      /\ in_service_mode' = in_service_mode /\ running' = running
  BY DEF Start, call, core, decoder
<1>2. /\ task' = [task EXCEPT ![t] = c]
      /\ op' = [owner |-> t, context |-> c, packets |-> packets]
      /\ op = NoOp /\ in_service_mode /\ task[t].state = "IDLE" /\ at # "called"
      /\ starts' = starts + 1 /\ disturbed' = Busy
      /\ lost' = IF Busy THEN lost ELSE 0
  BY DEF Start, Accepts, Begin, ApplicationCalls
<1>3. /\ op'.owner = t /\ op'.context = c /\ op'.packets = packets
      /\ op' = [owner |-> op'.owner, context |-> op'.context, packets |-> op'.packets]
  BY <1>2
<1>4. Legal(t, c) /\ c.modes = {} /\ c.state # "WRITE_BIT_WRITE" /\ Knows(t, c)
  BY <1>0 DEF Begins, TypeOK
<1>5. c \in Context
  BY <1>4 DEF Legal
<1>6. /\ task' \in [Tasks -> Context] /\ task'[t] = c
      /\ \A u \in Tasks \ {t} : task'[u] = task[u]
  BY <1>0, <1>2, <1>5 DEF TypeOK
<1>7. Turn' = Turn /\ Turn \in Tasks
  BY <1>0, <1>1, ShapeFacts DEF Turn, OwnerInv
<1>8. Waiting => at = "progress" /\ Active(Turn) /\ t # Turn /\ Busy
  <2>1. at = "progress" => Active(Turn)
    BY <1>0 DEF OwnerInv, Alone
  <2>2. Active(Turn) => t # Turn /\ Busy
    BY <1>2, <1>7 DEF Active, Busy
  <2> QED
    BY <1>2, <2>1, <2>2 DEF Waiting
<1>9. TypeOK'
  <2>1. Len(packets) \in 0..2
    BY <1>4, AskedShape
  <2>2. starts' \in 0..MaxStarts /\ lost' \in 0..MaxLost
    BY <1>0, <1>2, BoundsAssumption DEF TypeOK
  <2>3. disturbed' \in BOOLEAN
    BY <1>2 DEF Busy
  <2>4. /\ op'.owner \in Tasks \cup {"none"} /\ op'.context \in Context
        /\ Len(op'.packets) \in 0..2
    BY <1>3, <1>5, <2>1
  <2> HIDE DEF packets
  <2> QED
    BY <1>0, <1>1, <1>6, <2>2, <2>3, <2>4 DEF TypeOK
<1>10. Contexts'
  <2> SUFFICES ASSUME NEW u \in Tasks, NEW d, d = task'[u], d.state # "IDLE"
               PROVE  Legal(u, d) /\ ModesWork(d)'
    BY DEF Contexts, Active
  <2>1. CASE u = t
    BY <1>4, <1>6, <2>1 DEF ModesWork
  <2>2. CASE u # t
    <3>1. d = task[u]
      BY <1>6, <2>2
    <3>2. Legal(u, d) /\ ModesWork(d)
      BY <1>0, <3>1 DEF Contexts, Active
    <3> QED
      BY <1>1, <3>2, SameDecoder
  <2> QED
    BY <2>1, <2>2
<1>11. Operation'
  <2>1. Left(packets, packets)'
    BY DEF Left
  <2>2. ReadBack(t, c)'
    BY <1>4 DEF ReadBack
  <2> HIDE DEF packets
  <2>3. \A u \in {op'.owner} : \A d \in {op'.context} :
          Legal(u, d) /\ Left(Asked(u, d), op.packets)' /\ ReadBack(u, d)'
    BY <1>3, <1>4, <2>1, <2>2 DEF packets
  <2> QED
    BY <1>3, <2>3 DEF Operation
<1>12. Results'
  <2> SUFFICES ASSUME Waiting, NEW u, u = Turn, NEW d, d = task'[u]
               PROVE  /\ Asked(u, d) # Refused
                      /\ result = "SUCCESS" /\ d.state \notin Writing => Answer(u, d)'
                      /\ result = "SUCCESS" /\ d.state = "FACTORY_RESET" =>
                           memory' = FactoryDefaults
    BY <1>1, <1>7 DEF Results, Waiting
  <2>1. d = task[u]
    BY <1>6, <1>7, <1>8
  <2>2. Answer(u, d)' <=> Answer(u, d)
    BY <1>1, SameDecoder
  <2> QED
    BY <1>0, <1>1, <2>1, <2>2 DEF Results
<1>13. SuccessIsTrue' /\ UndisturbedIsExact'
  BY <1>0, <1>1, ReportKept
<1>14. Quiet'
  <2> SUFFICES ASSUME ~Busy, NEW u \in Tasks, NEW d, d = task'[u], d.state # "IDLE"
               PROVE  /\ in_service_mode'
                      /\ \A w \in Tasks : task'[w].state # "IDLE" => w = u
                      /\ Waits(u)' /\ Knows(u, d)'
    BY <1>2 DEF Quiet, Active
  <2>1. \A w \in Tasks : task'[w].state # "IDLE" => w = t
    BY <1>6 DEF Busy
  <2>2. u = t /\ d = c
    BY <1>6, <2>1
  <2>3. Waits(u)'
    BY <1>3, <1>6, <2>2 DEF Waits
  <2>4. Knows(u, d)'
    BY <1>1, <1>4, <2>2, SameDecoder
  <2> QED
    BY <1>1, <1>2, <2>1, <2>2, <2>3, <2>4
<1>15. Denials'
  BY <1>1, <1>2, <1>7, <1>8 DEF Denials, Waiting
<1> QED
  BY <1>9, <1>10, <1>11, <1>12, <1>13, <1>14, <1>15 DEF TaskInv, MemoryInv, ExactInv

LEMMA StartTaskStep ==
  ASSUME TaskInv, OwnerInv', StartTask
  PROVE  TaskInv'
BY StartsBegin, StartStep DEF Started

\* Service mode and track power.
LEMMA ControlStep ==
  ASSUME TaskInv, OwnerInv', NEW in_mode \in BOOLEAN, NEW on \in BOOLEAN,
         Control(in_mode, on)
  PROVE  TaskInv'
<1>0. /\ OwnerInv /\ TypeOK /\ Contexts /\ Operation /\ Results
      /\ SuccessIsTrue /\ Quiet /\ Denials /\ UndisturbedIsExact
  BY DEF TaskInv, MemoryInv, ExactInv
<1>1. /\ at # "called" /\ in_service_mode' = in_mode /\ running' = on
      /\ disturbed' = Busy /\ op' = op /\ task' = task
      /\ at' = at /\ turn' = turn /\ result' = result /\ owner' = owner
      /\ report' = report /\ memory' = memory /\ page' = page /\ supports' = supports
      /\ starts' = starts /\ lost' = lost
  BY DEF Control, ApplicationCalls, call, decoder
<1>2. Turn' = Turn /\ Turn \in Tasks
  BY <1>0, <1>1, ShapeFacts DEF Turn, OwnerInv
<1>3. Waiting => Busy
  BY <1>0, <1>1, <1>2 DEF Waiting, OwnerInv, Alone, Active, Busy
<1>4. TypeOK'
  <2>1. disturbed' \in BOOLEAN
    BY <1>1 DEF Busy
  <2> QED
    BY <1>0, <1>1, <2>1 DEF TypeOK
<1>5. Contexts'
  BY <1>0, <1>1, SameDecoder DEF Contexts, Active
<1>6. Operation'
  <2>1. \A a, b : Left(a, b)' <=> Left(a, b)
    BY <1>1 DEF Left, OnPage
  <2>2. \A u, d : ReadBack(u, d)' <=> ReadBack(u, d)
    BY <1>1, SameDecoder
  <2> QED
    BY <1>0, <1>1, <2>1, <2>2 DEF Operation
<1>7. Results'
  <2>1. \A u, d : Answer(u, d)' <=> Answer(u, d)
    BY <1>1, SameDecoder
  <2> QED
    BY <1>0, <1>1, <1>2, <2>1 DEF Results, Waiting
<1>8. SuccessIsTrue' /\ UndisturbedIsExact'
  BY <1>0, <1>1, ReportKept
<1>9. Quiet'
  BY <1>1 DEF Quiet, Busy, Active
<1>10. Denials'
  BY <1>1, <1>2, <1>3 DEF Denials, Waiting
<1> QED
  BY <1>4, <1>5, <1>6, <1>7, <1>8, <1>9, <1>10 DEF TaskInv, MemoryInv, ExactInv

\* A progress callback is called; or nothing happens.
LEMMA ProgressStep ==
  ASSUME TaskInv, OwnerInv', ReportProgress \/ UNCHANGED vars
  PROVE  TaskInv'
<1>0. /\ OwnerInv /\ TypeOK /\ Contexts /\ Operation /\ Results
      /\ SuccessIsTrue /\ Quiet /\ Denials /\ UndisturbedIsExact
  BY DEF TaskInv, MemoryInv, ExactInv
<1>1. /\ in_service_mode' = in_service_mode /\ running' = running
      /\ disturbed' = disturbed /\ op' = op /\ task' = task
      /\ turn' = turn /\ result' = result /\ owner' = owner
      /\ report' = report /\ memory' = memory /\ page' = page /\ supports' = supports
      /\ starts' = starts /\ lost' = lost
  BY DEF ReportProgress, vars, core, call, decoder, bounds
<1>2. at' = at \/ (at = "called" /\ at' = "progress")
  BY DEF ReportProgress, vars, call
<1>3. Turn' = Turn /\ Turn \in Tasks
  BY <1>0, <1>1, ShapeFacts DEF Turn, OwnerInv
<1>5. Waiting' => Waiting
  BY <1>1, <1>2, <1>3 DEF Waiting
<1>6. TypeOK'
  BY <1>0, <1>1, <1>2 DEF TypeOK
<1>7. Contexts'
  BY <1>0, <1>1, SameDecoder DEF Contexts, Active
<1>8. Operation'
  <2>1. \A a, b : Left(a, b)' <=> Left(a, b)
    BY <1>1 DEF Left, OnPage
  <2>2. \A u, d : ReadBack(u, d)' <=> ReadBack(u, d)
    BY <1>1, SameDecoder
  <2> QED
    BY <1>0, <1>1, <2>1, <2>2 DEF Operation
<1>9. \A u, d : /\ Answer(u, d)' <=> Answer(u, d)
                /\ Knows(u, d)' <=> Knows(u, d)
  BY <1>1, SameDecoder
<1>10. Results'
  BY <1>0, <1>1, <1>3, <1>5, <1>9 DEF Results
<1>11. SuccessIsTrue' /\ UndisturbedIsExact'
  BY <1>0, <1>1, <1>2, ReportKept
<1>12. Quiet'
  BY <1>0, <1>1, <1>9 DEF Quiet, Active, Waits
<1>13. Denials'
  BY <1>0, <1>1, <1>3, <1>5, <1>9 DEF Denials
<1> QED
  BY <1>6, <1>7, <1>8, <1>10, <1>11, <1>12, <1>13 DEF TaskInv, MemoryInv, ExactInv

\* A completion callback returns, to the main loop or to a task that is handed
\* a result that is not its own.
LEMMA ReturnStep ==
  ASSUME TaskInv, OwnerInv', Return
  PROVE  TaskInv'
<1>0. /\ OwnerInv /\ TypeOK /\ Contexts /\ Operation /\ Quiet
  BY DEF TaskInv, MemoryInv, ExactInv
<1>1. /\ at = "complete" /\ task' = task /\ op' = op
      /\ in_service_mode' = in_service_mode /\ running' = running
      /\ disturbed' = disturbed /\ report' = NoReport
      /\ memory' = memory /\ page' = page /\ supports' = supports
      /\ starts' = starts /\ lost' = lost
      /\ DispatchFrom(turn + 1) /\ (at' = "called" => result' = result /\ owner' = owner)
  BY DEF Return, NextTurn, core, decoder, bounds
<1>2. \/ /\ at' = "main" /\ turn' = 1 /\ result' = "NO_ACK" /\ owner' = "none"
      \/ /\ at' = "called" /\ result' = result /\ owner' = owner
         /\ turn' \in turn + 1..5
  <2>1. Len(Order) = 5
    BY 1 \in 1..5, TurnFacts
  <2> QED
    BY <1>1, <2>1 DEF DispatchFrom
<1>3. ~Waiting'
  <2> SUFFICES ASSUME at' = "called", owner' = Turn' PROVE FALSE
    BY <1>2 DEF Waiting
  <2>1. turn \in 1..5 /\ turn' \in 1..5 /\ turn < turn'
    BY <1>0, <1>2 DEF OwnerInv, Shape
  <2>2. owner \in Tasks /\ Position(owner) <= turn
    BY <1>0, <1>1 DEF OwnerInv, Alone
  <2>3. owner = Order[turn']
    BY <1>2 DEF Turn
  <2>4. Position(owner) \in 1..5 /\ Order[Position(owner)] = owner
    BY <2>1, <2>2, TurnFacts
  <2>5. Position(owner) = turn'
    BY <2>1, <2>3, <2>4, TurnFacts
  <2> QED
    BY <2>1, <2>2, <2>4, <2>5
<1>4. TypeOK'
  <2>1. NoReport.context \in Context /\ NoReport.value \in Byte
    BY IdleContext DEF NoReport
  <2>2. /\ NoReport.task = "none" /\ NoReport.owner = "none"
        /\ NoReport.result = "NO_ACK"
    BY DEF NoReport
  <2>3. /\ at' \in {"main", "called", "progress", "complete"} /\ turn' \in 1..5
        /\ result' \in {"SUCCESS", "NO_ACK"} /\ owner' \in Tasks \cup {"none"}
    BY <1>0, <1>2 DEF TypeOK
  <2> QED
    BY <1>0, <1>1, <2>1, <2>2, <2>3 DEF TypeOK
<1>5. Contexts'
  BY <1>0, <1>1, SameDecoder DEF Contexts, Active
<1>6. Operation'
  <2>1. \A a, b : Left(a, b)' <=> Left(a, b)
    BY <1>1 DEF Left, OnPage
  <2>2. \A u, d : ReadBack(u, d)' <=> ReadBack(u, d)
    BY <1>1, SameDecoder
  <2> QED
    BY <1>0, <1>1, <2>1, <2>2 DEF Operation
<1>7. Results' /\ Denials' /\ SuccessIsTrue' /\ UndisturbedIsExact'
  BY <1>2, <1>3 DEF Results, Denials, SuccessIsTrue, UndisturbedIsExact
<1>8. Quiet'
  <2>1. \A u, d : Knows(u, d)' <=> Knows(u, d)
    BY <1>1, SameDecoder
  <2> QED
    BY <1>0, <1>1, <2>1 DEF Quiet, Active, Waits
<1>9. OwnerInv'
  OBVIOUS
<1> QED
  BY <1>4, <1>5, <1>6, <1>7, <1>8, <1>9 DEF TaskInv, MemoryInv, ExactInv

\* What the track does to the counters of what was lost.
LEMMA PerformsBounds ==
  ASSUME TypeOK, NEW p, NEW heard \in BOOLEAN, Performs(p, heard)
  PROVE  /\ at = "main" /\ DecoderHears(p)
         /\ lost' \in 0..MaxLost /\ disturbed' \in BOOLEAN
         /\ ~disturbed' => ~disturbed /\ heard
         /\ in_service_mode' = in_service_mode /\ running' = running
         /\ task' = task /\ starts' = starts
<1>1. lost' \in 0..MaxLost
  BY BoundsAssumption DEF Performs, TypeOK
<1> QED
  BY <1>1 DEF Performs, TypeOK, core

\* The operation in progress is what its task has asked for; no other task is
\* active, and that one only if it waits for it.
LEMMA InProgress ==
  ASSUME TaskInv, at = "main", op # NoOp
  PROVE  \E t \in Tasks : \E c :
           /\ t = op.owner /\ c = op.context
           /\ Left(Asked(t, c), op.packets) /\ ReadBack(t, c) /\ Legal(t, c)
           /\ \A u \in Tasks : Active(u) => u = t /\ task[u] = c /\ ModesWork(c)
<1>0. OwnerInv /\ Contexts /\ Operation
  BY DEF TaskInv, MemoryInv
<1>1. PICK t \in Tasks : t = op.owner
  BY <1>0 DEF OwnerInv, Shape
<1>2. PICK c : c = op.context
  OBVIOUS
<1>3. Left(Asked(t, c), op.packets) /\ ReadBack(t, c) /\ Legal(t, c)
  BY <1>0, <1>1, <1>2 DEF Operation
<1>4. \A u \in Tasks : Active(u) => u = t /\ task[u] = c
  BY <1>0, <1>1, <1>2 DEF OwnerInv, Alone, Waits
<1>5. \A u \in Tasks : Active(u) => ModesWork(task[u])
  BY <1>0 DEF Contexts
<1> QED
  BY <1>1, <1>2, <1>3, <1>4, <1>5

\* The decoder selects the page; or it does not know pages.
LEMMA PageHeard ==
  ASSUME NEW g, DecoderHears(SelectPage(g))
  PROVE  /\ memory' = memory /\ supports' = supports
         /\ page' = IF supports \cap {"registers", "address"} # {} THEN g ELSE page
<1> DEFINE p == SelectPage(g)
<1>1. p.kind = "register_write" /\ p.target = PageRegister /\ p.value = g
  BY DEF SelectPage, RegisterPacket, Packet
<1> HIDE DEF p
<1>2. IsPageWrite(p)
  BY <1>1 DEF IsPageWrite
<1>3. Writes(p) <=> supports \cap {"registers", "address"} # {}
  BY <1>1, <1>2 DEF Writes, Acknowledges, Understands
<1>4. DecoderHears(p)
  BY DEF p
<1> QED
  BY <1>1, <1>2, <1>3, <1>4 DEF DecoderHears

LEMMA PageSetStep ==
  ASSUME TaskInv, OwnerInv', PageSet
  PROVE  TaskInv'
<1>0. /\ OwnerInv /\ TypeOK /\ Contexts /\ Operation /\ Results
      /\ SuccessIsTrue /\ Quiet /\ Denials /\ UndisturbedIsExact
  BY DEF TaskInv, MemoryInv, ExactInv
<1>1. /\ Len(op.packets) = 2 /\ op' = [op EXCEPT !.packets = Tail(@)]
      /\ at' = at /\ turn' = turn /\ result' = result /\ owner' = owner
      /\ report' = report
  BY DEF PageSet, call
<1>2. PICK heard \in BOOLEAN : Performs(Head(op.packets), heard)
  BY DEF PageSet
<1>3. /\ at = "main" /\ DecoderHears(Head(op.packets))
      /\ lost' \in 0..MaxLost /\ disturbed' \in BOOLEAN
      /\ ~disturbed' => ~disturbed
      /\ in_service_mode' = in_service_mode /\ running' = running
      /\ task' = task /\ starts' = starts
  BY <1>0, <1>2, PerformsBounds
<1>4. op # NoOp
  <2>1. Len(NoOp.packets) = 0
    BY DEF NoOp
  <2>2. Len(op.packets) = 2
    BY <1>1
  <2> QED
    BY <2>1, <2>2
<1>5. PICK t \in Tasks : \E c :
        /\ t = op.owner /\ c = op.context
        /\ Left(Asked(t, c), op.packets) /\ ReadBack(t, c) /\ Legal(t, c)
        /\ \A u \in Tasks : Active(u) => u = t /\ task[u] = c /\ ModesWork(c)
  BY <1>3, <1>4, InProgress
<1>6. PICK c : /\ t = op.owner /\ c = op.context
               /\ Left(Asked(t, c), op.packets) /\ ReadBack(t, c) /\ Legal(t, c)
               /\ \A u \in Tasks : Active(u) => u = t /\ task[u] = c /\ ModesWork(c)
  BY <1>5
<1> DEFINE asked == Asked(t, c)
<1>7. op.packets = asked
  BY <1>1, <1>6 DEF Left
<1>8. PICK g \in 0..Pages - 1 : \E q : asked = <<SelectPage(g), q>>
  BY <1>1, <1>6, <1>7, AskedShape
<1>9. PICK q : asked = <<SelectPage(g), q>>
  BY <1>8
<1>10. Head(op.packets) = SelectPage(g) /\ Tail(op.packets) = <<q>>
  BY <1>7, <1>9
<1>11. /\ memory' = memory /\ supports' = supports
       /\ page' = IF supports \cap {"registers", "address"} # {} THEN g ELSE page
  BY <1>3, <1>10, PageHeard
<1>12. /\ op' = [owner |-> op'.owner, context |-> op'.context, packets |-> op'.packets]
       /\ op'.owner = t /\ op'.context = c /\ op'.packets = <<q>> /\ op' # NoOp
  <2>1. op = [owner |-> op.owner, context |-> op.context, packets |-> op.packets]
    BY <1>0 DEF Operation
  <2>2. op' = [owner |-> t, context |-> c, packets |-> <<q>>]
    BY <1>1, <1>6, <1>10, <2>1
  <2> QED
    BY <2>2 DEF NoOp
<1>13. Left(asked, <<q>>)'
  <2>1. Len(asked) = 2 /\ asked[2] = q /\ asked[1].value = g
    BY <1>9 DEF SelectPage, RegisterPacket, Packet
  <2>2. supports' \cap {"registers", "address"} # {} => page' = g
    BY <1>11
  <2> QED
    BY <2>1, <2>2 DEF Left, OnPage
<1>14. TypeOK'
  <2>1. /\ op'.owner \in Tasks \cup {"none"} /\ op'.context \in Context
        /\ Len(op'.packets) \in 0..2
    BY <1>6, <1>12 DEF Legal
  <2>2. page' \in 0..Pages - 1
    BY <1>0, <1>11 DEF TypeOK
  <2> HIDE DEF asked
  <2> QED
    BY <1>0, <1>1, <1>3, <1>11, <2>1, <2>2 DEF TypeOK
<1>15. Contexts'
  BY <1>0, <1>3, <1>11, SameDecoder DEF Contexts, Active
<1>16. Operation'
  <2>1. ReadBack(t, c)'
    BY <1>6, <1>11, SameDecoder
  <2>2. \A u \in {op'.owner} : \A d \in {op'.context} :
          Legal(u, d) /\ Left(Asked(u, d), op.packets)' /\ ReadBack(u, d)'
    BY <1>6, <1>12, <1>13, <2>1 DEF Left
  <2> QED
    BY <1>12, <2>2 DEF Operation
<1>17. Results' /\ Denials' /\ SuccessIsTrue' /\ UndisturbedIsExact'
  BY <1>1, <1>3 DEF Results, Denials, SuccessIsTrue, UndisturbedIsExact, Waiting
<1>18. Quiet'
  <2>1. \A u, d : Knows(u, d)' <=> Knows(u, d)
    BY <1>11, SameDecoder
  <2>2. \A u \in Tasks : Active(u)' <=> Active(u)
    BY <1>3 DEF Active
  <2>3. \A u \in Tasks : Active(u) => Waits(u)'
    BY <1>3, <1>6, <1>12 DEF Waits
  <2> QED
    BY <1>0, <1>3, <2>1, <2>2, <2>3 DEF Quiet
<1> QED
  BY <1>14, <1>15, <1>16, <1>17, <1>18 DEF TaskInv, MemoryInv, ExactInv

\* What a command of a task does to the decoder's CVs.
LEMMA Stored ==
  ASSUME NEW t \in Tasks, NEW c, Legal(t, c), NEW p, Serves(t, c, p), DecoderHears(p),
         memory \in [CVs -> Byte]
  PROVE  /\ supports' = supports /\ page' = page /\ memory' \in [CVs -> Byte]
         /\ c.state \notin Stores \/ ~Acknowledges(p) => memory' = memory
         /\ c.state \in Stores /\ Acknowledges(p) =>
              /\ c.cv \in CVs
              /\ memory' = IF c.cv = 8 /\ WrittenBy(c) = FactoryValue
                           THEN FactoryDefaults
                           ELSE [memory EXCEPT ![c.cv] = WrittenBy(c)]
<1>1. supports' = supports /\ page' = page
  BY DEF DecoderHears, Serves
<1>2. ASSUME c.state \notin Stores \/ ~Acknowledges(p)
      PROVE  memory' = memory
  BY <1>2 DEF DecoderHears, Serves
<1>3. ASSUME c.state \in Stores, Acknowledges(p)
      PROVE  memory' = IF c.cv = 8 /\ WrittenBy(c) = FactoryValue
                       THEN FactoryDefaults
                       ELSE [memory EXCEPT ![c.cv] = WrittenBy(c)]
  BY <1>3 DEF DecoderHears, Serves
<1>4. ASSUME c.state \in Stores
      PROVE  c.cv \in CVs /\ WrittenBy(c) \in Byte
  <2>1. t # "detect"
    BY <1>4 DEF Legal, StatesOf, Stores, Writing
  <2>2. c.cv \in CVs
    BY <2>1 DEF Legal, LegalDirect, LegalBytes, Tasks, WholeByteTasks
  <2>3. c.value \in Byte /\ FactoryValue \in Byte /\ c.bit_value \in {0, 1}
    BY DecoderAssumption DEF Legal, Context, Bit
  <2>4. CASE c.state = "WRITE_BIT"
    <3>1. c.bit < Bits
      BY <2>1, <2>4
      DEF Legal, LegalDirect, StatesOf, ScanStates, Tasks
    <3>2. c.bit \in 0..Bits - 1 /\ memory[c.cv] \in 0..2^Bits - 1 /\ Bits \in Nat
      BY <2>2, <3>1, ByteFacts DEF Legal, Context, Byte, ByteMax
    <3>3. WithBit(memory[c.cv], c.bit, c.bit_value) \in 0..2^Bits - 1
      BY <2>3, <3>2, WithBitWidth
    <3> QED
      BY <2>2, <2>4, <3>3 DEF WrittenBy, Byte, ByteMax
  <2>5. CASE c.state # "WRITE_BIT"
    BY <1>4, <2>2, <2>3, <2>5
    DEF WrittenBy, BytesValue, Stores, Writing, ScannedStates
  <2> QED
    BY <2>4, <2>5
<1>5. memory' \in [CVs -> Byte]
  BY <1>2, <1>3, <1>4, DecoderAssumption
<1> QED
  BY <1>1, <1>2, <1>3, <1>4, <1>5

\* While it writes a task has nothing to know.
LEMMA StoresKnows ==
  ASSUME NEW t \in Tasks, NEW c, Legal(t, c), c.state \in Stores
  PROVE  Knows(t, c)'
<1>1. DirectKnows(c)'
  BY DEF DirectKnows, Stores, Writing
<1>2. BytesKnows(t, c)'
  BY DEF BytesKnows, Stores, Writing, ScannedStates
<1>3. t # "detect"
  BY DEF Legal, StatesOf, Stores, Writing
<1> QED
  BY <1>1, <1>2, <1>3 DEF Knows

\* An operation of task t ends, with p as its last packet.
Ends(t, c, p, heard) ==
  /\ t = op.owner /\ c = op.context
  /\ \A u \in Tasks : Active(u) => u = t /\ task[u] = c /\ ModesWork(c)
  /\ Legal(t, c) /\ ReadBack(t, c) /\ Asked(t, c) # Refused
  /\ Serves(t, c, p) /\ Performs(p, heard) /\ DispatchFrom(1)
  /\ at' = "called" =>
       /\ owner' = op.owner
       /\ result' = IF heard /\ Acknowledges(p) THEN "SUCCESS" ELSE "NO_ACK"
  /\ supports' = supports /\ page' = page /\ memory' \in [CVs -> Byte]
  /\ c.state \notin Stores \/ ~Acknowledges(p) => memory' = memory
  /\ c.state \in Stores /\ Acknowledges(p) =>
       /\ c.cv \in CVs
       /\ memory' = IF c.cv = 8 /\ WrittenBy(c) = FactoryValue
                    THEN FactoryDefaults
                    ELSE [memory EXCEPT ![c.cv] = WrittenBy(c)]

LEMMA OperationEnds ==
  ASSUME TaskInv, OperationCompletes
  PROVE  \E t \in Tasks : \E heard \in BOOLEAN : \E c, p : Ends(t, c, p, heard)
<1>0. TypeOK
  BY DEF TaskInv, MemoryInv
<1> DEFINE p == Head(op.packets)
<1>1. Len(op.packets) = 1
  BY DEF OperationCompletes
<1>2. PICK heard \in BOOLEAN :
        /\ Performs(p, heard) /\ DispatchFrom(1)
        /\ at' = "called" =>
             /\ owner' = op.owner
             /\ result' = IF heard /\ Acknowledges(p) THEN "SUCCESS" ELSE "NO_ACK"
  BY DEF OperationCompletes
<1>3. at = "main" /\ DecoderHears(p)
  BY <1>0, <1>2, PerformsBounds
<1>4. op # NoOp
  <2>1. Len(NoOp.packets) = 0
    BY DEF NoOp
  <2>2. Len(op.packets) = 1
    BY <1>1
  <2> QED
    BY <2>1, <2>2
<1>5. PICK t \in Tasks : \E c :
        /\ t = op.owner /\ c = op.context
        /\ Left(Asked(t, c), op.packets) /\ ReadBack(t, c) /\ Legal(t, c)
        /\ \A u \in Tasks : Active(u) => u = t /\ task[u] = c /\ ModesWork(c)
  BY <1>3, <1>4, InProgress
<1>6. PICK c : /\ t = op.owner /\ c = op.context
               /\ Left(Asked(t, c), op.packets) /\ ReadBack(t, c) /\ Legal(t, c)
               /\ \A u \in Tasks : Active(u) => u = t /\ task[u] = c /\ ModesWork(c)
  BY <1>5
<1>7. op.packets = <<p>> /\ Left(Asked(t, c), <<p>>) /\ Asked(t, c) # Refused
  <2>1. CASE op.packets = Asked(t, c)
    <3>1. PICK q : op.packets = <<q>>
      BY <1>1, <1>6, <2>1, AskedShape
    <3>2. p = q
      BY <3>1
    <3>3. <<q>> # <<>>
      OBVIOUS
    <3> QED
      BY <1>6, <2>1, <3>1, <3>2, <3>3 DEF Refused
  <2>2. CASE Len(Asked(t, c)) = 2 /\ op.packets = <<Asked(t, c)[2]>>
    <3>1. p = Asked(t, c)[2]
      BY <2>2
    <3>2. Len(Refused) = 0
      BY DEF Refused
    <3> QED
      BY <1>6, <2>2, <3>1, <3>2
  <2> QED
    BY <1>6, <2>1, <2>2 DEF Left
<1> HIDE DEF p
<1>8. Serves(t, c, p)
  BY <1>6, <1>7, CommandServes
<1>9. /\ supports' = supports /\ page' = page /\ memory' \in [CVs -> Byte]
      /\ c.state \notin Stores \/ ~Acknowledges(p) => memory' = memory
      /\ c.state \in Stores /\ Acknowledges(p) =>
           /\ c.cv \in CVs
           /\ memory' = IF c.cv = 8 /\ WrittenBy(c) = FactoryValue
                        THEN FactoryDefaults
                        ELSE [memory EXCEPT ![c.cv] = WrittenBy(c)]
  BY <1>0, <1>3, <1>6, <1>8, Stored DEF TypeOK
<1> QED
  BY <1>2, <1>6, <1>7, <1>8, <1>9 DEF Ends

\* An operation whose task is over ends unheard.
LEMMA OrphanStep ==
  ASSUME TaskInv, OwnerInv', OperationCompletes, at' = "main"
  PROVE  TaskInv'
<1>0. TypeOK
  BY DEF TaskInv, MemoryInv
<1>1. op' = NoOp /\ report' = report
  BY DEF OperationCompletes
<1>2. PICK t \in Tasks, heard \in BOOLEAN : \E c, p : Ends(t, c, p, heard)
  BY OperationEnds
<1>3. PICK c, p : Ends(t, c, p, heard)
  BY <1>2
<1>4. /\ lost' \in 0..MaxLost /\ disturbed' \in BOOLEAN
      /\ in_service_mode' = in_service_mode /\ running' = running
      /\ task' = task /\ starts' = starts
  BY <1>0, <1>3, PerformsBounds DEF Ends
<1>5. supports' = supports /\ page' = page /\ memory' \in [CVs -> Byte]
  BY <1>3 DEF Ends
<1>6. turn' = 1 /\ result' = "NO_ACK" /\ owner' = "none"
  BY <1>3 DEF Ends, DispatchFrom
<1>7. \A u \in Tasks : task'[u].state = "IDLE"
  <2>1. ~(op' # NoOp)
    BY <1>1
  <2>2. \A u \in Tasks : task'[u].state # "IDLE" =>
          op'.owner = u
    BY DEF OwnerInv, Alone, Active, Waits
  <2>3. op'.owner = "none"
    BY <1>1 DEF NoOp
  <2> QED
    BY <2>2, <2>3 DEF Tasks
<1>8. TypeOK'
  <2>1. /\ op'.owner \in Tasks \cup {"none"} /\ op'.context \in Context
        /\ Len(op'.packets) \in 0..2
    BY <1>1, IdleContext DEF NoOp
  <2> QED
    BY <1>0, <1>1, <1>4, <1>5, <1>6, <2>1 DEF TypeOK
<1>9. Contexts' /\ Quiet'
  BY <1>7 DEF Contexts, Quiet, Active
<1>10. Operation'
  BY <1>1 DEF Operation, NoOp
<1>11. Results' /\ Denials' /\ SuccessIsTrue' /\ UndisturbedIsExact'
  BY DEF Results, Denials, SuccessIsTrue, UndisturbedIsExact, Waiting
<1>12. OwnerInv'
  OBVIOUS
<1> QED
  BY <1>8, <1>9, <1>10, <1>11, <1>12 DEF TaskInv, MemoryInv, ExactInv

LEMMA CompletesStep ==
  ASSUME TaskInv, OwnerInv', OperationCompletes
  PROVE  TaskInv'
<1>0. /\ OwnerInv /\ TypeOK /\ Contexts /\ Operation /\ Results
      /\ SuccessIsTrue /\ Quiet /\ Denials /\ UndisturbedIsExact
  BY DEF TaskInv, MemoryInv, ExactInv
<1>1. op' = NoOp /\ report' = report
  BY DEF OperationCompletes
<1>2. PICK t \in Tasks, heard \in BOOLEAN : \E c, p : Ends(t, c, p, heard)
  BY OperationEnds
<1>3. PICK c, p : Ends(t, c, p, heard)
  BY <1>2
<1>4. /\ at' = "called" =>
           /\ owner' = op.owner
           /\ result' = IF heard /\ Acknowledges(p) THEN "SUCCESS" ELSE "NO_ACK"
      /\ at' \in {"main", "called"} /\ Asked(t, c) # Refused
  BY <1>3 DEF Ends, DispatchFrom
<1>5. /\ lost' \in 0..MaxLost /\ disturbed' \in BOOLEAN
      /\ ~disturbed' => ~disturbed /\ heard
      /\ in_service_mode' = in_service_mode /\ running' = running
      /\ task' = task /\ starts' = starts
  BY <1>0, <1>3, PerformsBounds DEF Ends
<1>6. /\ t = op.owner /\ c = op.context /\ Legal(t, c)
      /\ \A u \in Tasks : Active(u) => u = t /\ task[u] = c /\ ModesWork(c)
  BY <1>3 DEF Ends
<1>7. Serves(t, c, p)
  BY <1>3 DEF Ends
<1>8. /\ supports' = supports /\ page' = page /\ memory' \in [CVs -> Byte]
      /\ c.state \notin Stores \/ ~Acknowledges(p) => memory' = memory
      /\ c.state \in Stores /\ Acknowledges(p) =>
           /\ c.cv \in CVs
           /\ memory' = IF c.cv = 8 /\ WrittenBy(c) = FactoryValue
                        THEN FactoryDefaults
                        ELSE [memory EXCEPT ![c.cv] = WrittenBy(c)]
  BY <1>3 DEF Ends
<1>9. SUFFICES ASSUME at' = "called" PROVE TaskInv'
  BY <1>4, OrphanStep
<1>10. /\ owner' = t /\ Turn' = t /\ turn' \in 1..5
       /\ Active(t) /\ task[t] = c /\ task'[t] = c /\ ModesWork(c)
       /\ result' = IF heard /\ Acknowledges(p) THEN "SUCCESS" ELSE "NO_ACK"
  <2>1. turn' \in 1..5 /\ task'[Turn'].state # "IDLE"
    BY <1>9 DEF OwnerInv, Shape, Alone, Active
  <2>2. Turn' \in Tasks
    BY <2>1, TurnFacts DEF Turn
  <2>3. PICK u \in Tasks : u = Turn'
    BY <2>2
  <2>4. Active(u)
    BY <1>5, <2>1, <2>3 DEF Active
  <2>5. u = t
    BY <1>6, <2>4
  <2> QED
    BY <1>4, <1>5, <1>6, <1>9, <2>1, <2>3, <2>4, <2>5
<1>11. TypeOK'
  <2>1. /\ op'.owner \in Tasks \cup {"none"} /\ op'.context \in Context
        /\ Len(op'.packets) \in 0..2
    BY <1>1, IdleContext DEF NoOp
  <2>2. result' \in {"SUCCESS", "NO_ACK"} /\ owner' \in Tasks \cup {"none"}
    BY <1>10
  <2> QED
    BY <1>0, <1>1, <1>5, <1>8, <1>9, <1>10, <2>1, <2>2 DEF TypeOK
<1>12. \A u \in Tasks : Active(u)' => u = t
  BY <1>5, <1>6 DEF Active
<1>13. Contexts'
  <2>1. ModesWork(c)'
    BY <1>8, <1>10 DEF ModesWork, Works
  <2> QED
    BY <1>6, <1>10, <1>12, <2>1 DEF Contexts
<1>14. Operation'
  BY <1>1 DEF Operation, NoOp
<1>15. c.state \notin Writing => (Answer(t, c)' <=> Answer(t, c))
  <2>1. CASE c.state \notin Stores
    BY <1>8, <2>1, SameDecoder
  <2>2. CASE c.state = "FACTORY_RESET"
    <3>1. t = "register"
      BY <1>6, <2>2 DEF Legal, StatesOf, ScanStates, Tasks
    <3>2. Answer(t, c) <=> Works(t, c.cv)
      BY <2>2, <3>1 DEF Answer, BytesAnswer, WholeByteTasks, ScannedStates
    <3>3. Answer(t, c)' <=> Works(t, c.cv)'
      BY <2>2, <3>1 DEF Answer, BytesAnswer, WholeByteTasks, ScannedStates
    <3>4. Works(t, c.cv)' <=> Works(t, c.cv)
      BY <1>8 DEF Works
    <3> QED
      BY <3>2, <3>3, <3>4
  <2> QED
    BY <2>1, <2>2 DEF Stores
<1>16. Results'
  <2>1. result' = "SUCCESS" => Acknowledges(p)
    BY <1>10
  <2>2. result' = "SUCCESS" /\ c.state \notin Writing => Answer(t, c)'
    BY <1>7, <1>15, <2>1 DEF Serves
  <2>3. result' = "SUCCESS" /\ c.state = "FACTORY_RESET" => memory' = FactoryDefaults
    <3> SUFFICES ASSUME result' = "SUCCESS", c.state = "FACTORY_RESET"
                 PROVE  memory' = FactoryDefaults
      OBVIOUS
    <3>1. t = "register"
      BY <1>6 DEF Legal, StatesOf, ScanStates, Tasks
    <3>2. c.cv = 8
      BY <1>6, <3>1 DEF Legal, LegalBytes, WholeByteTasks
    <3>3. WrittenBy(c) = FactoryValue
      BY DEF WrittenBy, BytesValue, ScannedStates
    <3> QED
      BY <1>8, <2>1, <3>2, <3>3 DEF Stores
  <2> QED
    BY <1>4, <1>10, <2>2, <2>3 DEF Results
<1>17. SuccessIsTrue' /\ UndisturbedIsExact'
  BY <1>9 DEF SuccessIsTrue, UndisturbedIsExact
<1>18. Quiet'
  <2> SUFFICES ASSUME ~disturbed'
               PROVE  in_service_mode' /\ Knows(t, c)'
    BY <1>1, <1>10, <1>12 DEF Quiet
  <2>1. in_service_mode /\ Knows(t, c)
    BY <1>0, <1>5, <1>10 DEF Quiet
  <2>2. Knows(t, c)'
    <3>1. CASE c.state \in Stores
      BY <1>6, <3>1, StoresKnows
    <3>2. CASE c.state \notin Stores
      BY <1>8, <2>1, <3>2, SameDecoder
    <3> QED
      BY <3>1, <3>2
  <2> QED
    BY <1>5, <2>1, <2>2
<1>19. Denials'
  <2> SUFFICES ASSUME ~disturbed', result' # "SUCCESS", c.state \notin Writing
               PROVE  ~Answer(t, c)'
    BY <1>10 DEF Denials
  <2>1. ~Acknowledges(p)
    BY <1>5, <1>10
  <2> QED
    BY <1>7, <1>15, <2>1 DEF Serves
<1> QED
  BY <1>11, <1>13, <1>14, <1>16, <1>17, <1>18, <1>19 DEF TaskInv, MemoryInv, ExactInv

\* The task whose turn it is goes by a result that is true, if it is its own.
LEMMA HandlerReady ==
  ASSUME TaskInv, PrimitiveComplete, owner = Turn
  PROVE  \E t \in Tasks : \E c :
           /\ t = Turn /\ c = task[t] /\ Active(t)
           /\ Ready(t, c) /\ Follows(t)
           /\ ~disturbed => /\ in_service_mode /\ op = NoOp
                            /\ \A u \in Tasks : Active(u) => u = t
<1>0. OwnerInv /\ TypeOK /\ Contexts /\ Operation /\ Results /\ Quiet /\ Denials
  BY DEF TaskInv, MemoryInv, ExactInv
<1>1. Waiting
  BY DEF PrimitiveComplete, Waiting
<1>2. PICK t \in Tasks : t = Turn
  BY <1>0, ShapeFacts DEF OwnerInv
<1>3. PICK c : c = task[t]
  OBVIOUS
<1>4. Active(t)
  BY <1>0, <1>1, <1>2 DEF Waiting, OwnerInv, Alone
<1>5. op # NoOp => ~Waits(t)
  BY <1>0, <1>1, <1>2 DEF Waiting, OwnerInv, Alone, Answered, Strayed, Waits
<1>6. Legal(t, c) /\ ModesWork(c)
  BY <1>0, <1>3, <1>4 DEF Contexts
<1>7. ~disturbed => /\ in_service_mode /\ Knows(t, c)
                    /\ op = NoOp
                    /\ \A u \in Tasks : Active(u) => u = t
  BY <1>0, <1>3, <1>4, <1>5 DEF Quiet
<1>8. Ready(t, c)
  <2>1. /\ Asked(t, c) # Refused
        /\ Acked /\ c.state \notin Writing => Answer(t, c)
        /\ Acked /\ c.state = "FACTORY_RESET" => memory = FactoryDefaults
    BY <1>0, <1>1, <1>2, <1>3 DEF Results, Acked
  <2>2. ~disturbed /\ ~Acked /\ c.state \notin Writing => ~Answer(t, c)
    BY <1>0, <1>1, <1>2, <1>3 DEF Denials, Acked
  <2>3. memory \in [CVs -> Byte]
    BY <1>0 DEF TypeOK
  <2> QED
    BY <1>6, <1>7, <2>1, <2>2, <2>3 DEF Ready
<1>9. Follows(t)
  <2>1. /\ t = "direct"   => DirectPrimitiveComplete(c)
        /\ t = "paged"    => PagedPrimitiveComplete("paged", c)
        /\ t = "register" => RegisterPrimitiveComplete(c)
        /\ t = "address"  => AddressPrimitiveComplete(c)
        /\ t = "detect"   => DetectPrimitiveComplete(c)
    BY <1>2, <1>3, Zenon DEF PrimitiveComplete
  <2>2. CASE t = "direct"
    BY <1>8, <2>1, <2>2, DirectFollows
  <2>3. CASE t = "paged"
    BY <1>8, <2>1, <2>3, PagedFollows
  <2>4. CASE t = "register"
    BY <1>8, <2>1, <2>4, RegisterFollows
  <2>5. CASE t = "address"
    BY <1>8, <2>1, <2>5, AddressFollows
  <2>6. CASE t = "detect"
    BY <1>8, <2>1, <2>6, DetectFollows
  <2> QED
    BY <2>2, <2>3, <2>4, <2>5, <2>6 DEF Tasks
<1> QED
  BY <1>2, <1>3, <1>4, <1>5, <1>7, <1>8, <1>9

\* It waits for its next operation.
LEMMA ContinueStep ==
  ASSUME TaskInv, OwnerInv', NEW t \in Tasks, t = Turn, Active(t),
         NEW d, Good(t, d),
         ~disturbed => /\ in_service_mode
                       /\ \A u \in Tasks : Active(u) => u = t,
         Accepts(Asked(t, d)), Continue(t, d, Asked(t, d)),
         UNCHANGED <<core, decoder, bounds>>
  PROVE  TaskInv'
<1> DEFINE packets == Asked(t, d)
<1>0. OwnerInv /\ TypeOK /\ Contexts /\ Operation
  BY DEF TaskInv, MemoryInv
<1>1. /\ task' = [task EXCEPT ![t] = d]
      /\ op' = [owner |-> t, context |-> d, packets |-> packets]
      /\ NextTurn /\ report' = report
  BY DEF Continue, Begin
<1>2. /\ memory' = memory /\ page' = page /\ supports' = supports
      /\ in_service_mode' = in_service_mode /\ running' = running
      /\ disturbed' = disturbed /\ starts' = starts /\ lost' = lost
  BY DEF core, decoder, bounds
<1>3. /\ Legal(t, d) /\ ModesWork(d) /\ ReadBack(t, d)
      /\ ~disturbed => Knows(t, d)
  BY DEF Good
<1>4. d \in Context /\ d.state # "IDLE"
  BY <1>3, NoIdleState DEF Legal
<1>5. /\ op'.owner = t /\ op'.context = d /\ op'.packets = packets /\ op' # NoOp
      /\ op' = [owner |-> op'.owner, context |-> op'.context, packets |-> op'.packets]
  BY <1>1 DEF NoOp, Tasks
<1>6. /\ task' \in [Tasks -> Context] /\ task'[t] = d
      /\ \A u \in Tasks \ {t} : task'[u] = task[u]
  BY <1>0, <1>1, <1>4 DEF TypeOK
<1>7. at' # "called"
  <2> SUFFICES ASSUME at' = "called" PROVE FALSE
    OBVIOUS
  <2>1. turn \in 1..5 /\ turn' \in 1..5
    BY <1>0 DEF OwnerInv, Shape
  <2>2. turn < turn'
    <3>1. Len(Order) = 5
      BY <2>1, TurnFacts
    <3> QED
      BY <1>1, <2>1, <3>1 DEF NextTurn, DispatchFrom
  <2>3. op'.owner = Turn'
    BY <1>5 DEF OwnerInv, Alone, Answered, Strayed, Waits
  <2>4. Order[turn] = Order[turn']
    BY <1>5, <2>3 DEF Turn
  <2> QED
    BY <2>1, <2>2, <2>4, TurnFacts
<1>8. /\ at' = "main" /\ turn' = 1 /\ result' = "NO_ACK" /\ owner' = "none"
  BY <1>1, <1>7 DEF NextTurn, DispatchFrom
<1>9. TypeOK'
  <2>1. Len(packets) \in 0..2
    BY <1>3, AskedShape
  <2> HIDE DEF packets
  <2>2. /\ op'.owner \in Tasks \cup {"none"} /\ op'.context \in Context
        /\ Len(op'.packets) \in 0..2
    BY <1>4, <1>5, <2>1
  <2> QED
    BY <1>0, <1>1, <1>2, <1>6, <1>8, <2>2 DEF TypeOK
<1>10. Contexts'
  <2> SUFFICES ASSUME NEW u \in Tasks, NEW e, e = task'[u], e.state # "IDLE"
               PROVE  Legal(u, e) /\ ModesWork(e)'
    BY DEF Contexts, Active
  <2>1. Legal(u, e) /\ ModesWork(e)
    <3>1. CASE u = t
      BY <1>3, <1>6, <3>1
    <3>2. CASE u # t
      BY <1>0, <1>6, <3>2 DEF Contexts, Active
    <3> QED
      BY <3>1, <3>2
  <2> QED
    BY <1>2, <2>1, SameDecoder
<1>11. Operation'
  <2>1. ReadBack(t, d)'
    BY <1>2, <1>3, SameDecoder
  <2>2. Left(packets, packets)'
    BY DEF Left
  <2> HIDE DEF packets
  <2>3. \A u \in {op'.owner} : \A e \in {op'.context} :
          Legal(u, e) /\ Left(Asked(u, e), op.packets)' /\ ReadBack(u, e)'
    BY <1>3, <1>5, <2>1, <2>2 DEF packets
  <2> QED
    BY <1>5, <2>3 DEF Operation
<1>12. Results' /\ Denials' /\ SuccessIsTrue' /\ UndisturbedIsExact'
  BY <1>8 DEF Results, Denials, SuccessIsTrue, UndisturbedIsExact, Waiting
<1>13. Quiet'
  <2> SUFFICES ASSUME ~disturbed, NEW u \in Tasks, NEW e, e = task'[u], e.state # "IDLE"
               PROVE  /\ in_service_mode'
                      /\ \A w \in Tasks : task'[w].state # "IDLE" => w = u
                      /\ Waits(u)' /\ Knows(u, e)'
    BY <1>2 DEF Quiet, Active
  <2>1. \A w \in Tasks : task'[w].state # "IDLE" => w = t
    BY <1>6 DEF Active
  <2>2. u = t /\ e = d
    BY <1>6, <2>1
  <2>3. Waits(u)'
    BY <1>5, <1>6, <2>2 DEF Waits
  <2>4. Knows(u, e)'
    BY <1>2, <1>3, <2>2, SameDecoder
  <2> QED
    BY <1>2, <2>1, <2>2, <2>3, <2>4
<1> QED
  BY <1>9, <1>10, <1>11, <1>12, <1>13 DEF TaskInv, MemoryInv, ExactInv

\* It is over, and reports.
LEMMA CompleteStep ==
  ASSUME TaskInv, OwnerInv', NEW t \in Tasks, Active(t),
         ~disturbed => \A u \in Tasks : Active(u) => u = t,
         NEW d \in Context, NEW v \in Byte,
         NEW res \in {"SUCCESS", "NO_ACK", "VERIFY_FAIL", "ERROR", "BUSY"},
         owner = t /\ res = "SUCCESS" => Holds(Told(t, d, res, v)),
         owner = t /\ ~disturbed => Exact(t, d, res),
         Complete(t, d, res, v), UNCHANGED <<core, decoder, bounds>>
  PROVE  TaskInv'
<1>0. OwnerInv /\ TypeOK /\ Contexts /\ Operation
  BY DEF TaskInv, MemoryInv
<1>1. /\ task' = [task EXCEPT ![t] = Idle] /\ at' = "complete"
      /\ report' = Told(t, d, res, v)
      /\ op' = op /\ turn' = turn /\ result' = result /\ owner' = owner
  BY DEF Complete, Told
<1>2. /\ memory' = memory /\ page' = page /\ supports' = supports
      /\ in_service_mode' = in_service_mode /\ running' = running
      /\ disturbed' = disturbed /\ starts' = starts /\ lost' = lost
  BY DEF core, decoder, bounds
<1>3. /\ task' \in [Tasks -> Context] /\ task'[t].state = "IDLE"
      /\ \A u \in Tasks \ {t} : task'[u] = task[u]
  <2>1. Idle.state = "IDLE"
    BY DEF Idle
  <2> QED
    BY <1>0, <1>1, <2>1, IdleContext DEF TypeOK
<1>4. PICK r : r = Told(t, d, res, v)
  OBVIOUS
<1>5. /\ r.task = t /\ r.owner = owner /\ r.context = d /\ r.result = res
      /\ r.value = v /\ r.disturbed = disturbed
  BY <1>4 DEF Told
<1>6. TypeOK'
  <2>0. owner \in Tasks \cup {"none"}
    BY <1>0 DEF TypeOK
  <2>1. /\ report'.task \in Tasks \cup {"none"} /\ report'.context \in Context
        /\ report'.owner \in Tasks \cup {"none"}
        /\ report'.result \in {"SUCCESS", "NO_ACK", "VERIFY_FAIL", "ERROR", "BUSY"}
        /\ report'.value \in Byte
    BY <1>1, <1>4, <1>5, <2>0
  <2> QED
    BY <1>0, <1>1, <1>2, <1>3, <2>1 DEF TypeOK
<1>7. Contexts'
  <2> SUFFICES ASSUME NEW u \in Tasks, NEW e, e = task'[u], e.state # "IDLE"
               PROVE  Legal(u, e) /\ ModesWork(e)'
    BY DEF Contexts, Active
  <2>1. Legal(u, e) /\ ModesWork(e)
    BY <1>0, <1>3 DEF Contexts, Active
  <2> QED
    BY <1>2, <2>1, SameDecoder
<1>8. Operation'
  <2>1. \A a, b : Left(a, b)' <=> Left(a, b)
    BY <1>2 DEF Left, OnPage
  <2>2. \A u, e : ReadBack(u, e)' <=> ReadBack(u, e)
    BY <1>2, SameDecoder
  <2> QED
    BY <1>0, <1>1, <2>1, <2>2 DEF Operation
<1>9. Results' /\ Denials'
  BY <1>1 DEF Results, Denials, Waiting
<1>10. SuccessIsTrue' /\ UndisturbedIsExact'
  <2>1. r.owner = r.task /\ r.result = "SUCCESS" => Holds(r)
    BY <1>4, <1>5
  <2>2. r.owner = r.task /\ ~r.disturbed => Exact(r.task, r.context, r.result)
    BY <1>5
  <2>3. report' = r
    BY <1>1, <1>4
  <2> QED
    BY <1>2, <2>1, <2>2, <2>3, ReportTrue
<1>11. Quiet'
  <2>1. ~disturbed => \A u \in Tasks : task'[u].state = "IDLE"
    BY <1>3 DEF Active
  <2> QED
    BY <1>2, <2>1 DEF Quiet, Active
<1> QED
  BY <1>6, <1>7, <1>8, <1>9, <1>10, <1>11 DEF TaskInv, MemoryInv, ExactInv

LEMMA AnsweredStep ==
  ASSUME TaskInv, OwnerInv', PrimitiveComplete, owner = Turn
  PROVE  TaskInv'
<1>1. PICK t \in Tasks : \E c :
        /\ t = Turn /\ c = task[t] /\ Active(t)
        /\ Ready(t, c) /\ Follows(t)
        /\ ~disturbed => /\ in_service_mode /\ op = NoOp
                         /\ \A u \in Tasks : Active(u) => u = t
  BY HandlerReady
<1>2. UNCHANGED <<core, decoder, bounds>>
  BY DEF PrimitiveComplete
<1>3. CASE \E d : Good(t, d) /\ Continue(t, d, Asked(t, d))
  <2>1. PICK d : Good(t, d) /\ Continue(t, d, Asked(t, d))
    BY <1>3
  <2>2. CASE Accepts(Asked(t, d))
    BY <1>1, <1>2, <2>1, <2>2, ContinueStep
  <2>3. CASE ~Accepts(Asked(t, d))
    <3>1. Complete(t, d, "BUSY", 0)
      BY <2>1, <2>3 DEF Continue
    <3>2. ~disturbed => Exact(t, d, "BUSY")
      BY <1>1, <2>1, <2>3 DEF Accepts, Good
    <3>3. d \in Context /\ 0 \in Byte
      BY <2>1, IdleContext DEF Good, Legal
    <3> QED
      BY <1>1, <1>2, <3>1, <3>2, <3>3, CompleteStep
  <2> QED
    BY <2>2, <2>3
<1>4. CASE \E d, res, v : Final(t, d, res, v) /\ Complete(t, d, res, v)
  <2>1. PICK d, res, v : Final(t, d, res, v) /\ Complete(t, d, res, v)
    BY <1>4
  <2>2. /\ d \in Context /\ v \in Byte
        /\ res \in {"SUCCESS", "NO_ACK", "VERIFY_FAIL", "ERROR", "BUSY"}
        /\ res = "SUCCESS" => Holds(Told(t, d, res, v))
        /\ ~disturbed => Exact(t, d, res)
    BY <2>1 DEF Final
  <2> QED
    BY <1>1, <1>2, <2>1, <2>2, CompleteStep
<1> QED
  BY <1>1, <1>3, <1>4 DEF Follows

\* It is handed another's result, and is over.
LEMMA StrayedStep ==
  ASSUME TaskInv, OwnerInv', PrimitiveComplete, owner # Turn
  PROVE  TaskInv'
<1>0. OwnerInv /\ TypeOK /\ Contexts /\ Quiet
  BY DEF TaskInv, MemoryInv, ExactInv
<1>1. PICK t \in Tasks : t = Turn
  BY <1>0, ShapeFacts DEF OwnerInv
<1>2. Active(t) /\ Waits(t)
  <2>1. at \in {"called", "progress"}
    BY DEF PrimitiveComplete
  <2>2. Active(Turn) /\ Waits(Turn)
    BY <1>0, <2>1 DEF OwnerInv, Alone, Answered, Strayed
  <2> QED
    BY <1>1, <2>2
<1>3. op # NoOp
  BY <1>2, WaitsForIt
<1>4. PICK c : c = task[t]
  OBVIOUS
<1>5. Legal(t, c)
  BY <1>0, <1>2, <1>4 DEF Contexts
<1>6. /\ t = "direct"   => DirectPrimitiveComplete(c)
      /\ t = "paged"    => PagedPrimitiveComplete("paged", c)
      /\ t = "register" => RegisterPrimitiveComplete(c)
      /\ t = "address"  => AddressPrimitiveComplete(c)
      /\ t = "detect"   => DetectPrimitiveComplete(c)
  BY <1>1, <1>4, Zenon DEF PrimitiveComplete
<1>7. Stops(t)
  <2>1. CASE t = "direct"
    BY <1>3, <1>5, <1>6, <2>1, DirectStops
  <2>2. CASE t = "paged"
    <3>1. "paged" \in WholeByteTasks /\ c.state \in ScanStates
      BY <1>5, <2>2 DEF WholeByteTasks, Legal, StatesOf
    <3> QED
      BY <1>3, <1>5, <1>6, <2>2, <3>1, BytesStop
  <2>3. CASE t = "register"
    BY <1>3, <1>5, <1>6, <2>3, RegisterStops
  <2>4. CASE t = "address"
    BY <1>3, <1>5, <1>6, <2>4, AddressStops
  <2>5. CASE t = "detect"
    BY <1>3, <1>5, <1>6, <2>5, DetectStops
  <2> QED
    BY <2>1, <2>2, <2>3, <2>4, <2>5 DEF Tasks
<1>8. PICK d \in Context, v \in Byte,
           res \in {"SUCCESS", "NO_ACK", "VERIFY_FAIL", "ERROR", "BUSY"} :
             Complete(t, d, res, v)
  BY <1>7 DEF Stops
<1>9. ~disturbed => \A u \in Tasks : Active(u) => u = t
  BY <1>0, <1>2 DEF Quiet
<1>10. UNCHANGED <<core, decoder, bounds>> /\ owner # t
  BY <1>1 DEF PrimitiveComplete
<1> QED
  BY <1>2, <1>8, <1>9, <1>10, CompleteStep

LEMMA HandlerStep ==
  ASSUME TaskInv, OwnerInv', PrimitiveComplete
  PROVE  TaskInv'
BY AnsweredStep, StrayedStep

LEMMA TaskNext ==
  ASSUME TaskInv, [Next]_vars
  PROVE  TaskInv'
<1>0. OwnerInv'
  BY OwnerNext DEF TaskInv, MemoryInv
<1>1. CASE StartTask
  BY <1>0, <1>1, StartTaskStep
<1>2. CASE EnterServiceMode \/ ExitServiceMode \/ PowerOn \/ PowerOff
  <2>1. TypeOK
    BY DEF TaskInv, MemoryInv
  <2>2. /\ in_service_mode \in BOOLEAN
        /\ (in_service_mode /\ op # NoOp) \in BOOLEAN
    BY <2>1 DEF TypeOK
  <2> QED
    BY <1>0, <1>2, <2>2, ControlStep
    DEF EnterServiceMode, ExitServiceMode, PowerOn, PowerOff
<1>3. CASE PageSet
  BY <1>0, <1>3, PageSetStep
<1>4. CASE OperationCompletes
  BY <1>0, <1>4, CompletesStep
<1>5. CASE ReportProgress \/ UNCHANGED vars
  BY <1>0, <1>5, ProgressStep
<1>6. CASE PrimitiveComplete
  BY <1>0, <1>6, HandlerStep
<1>7. CASE Return
  BY <1>0, <1>7, ReturnStep
<1> QED
  BY <1>1, <1>2, <1>3, <1>4, <1>5, <1>6, <1>7 DEF Next, Dispatch
-----------------------------------------------------------------------------
(***************************************************************************)
(* The theorems.                                                           *)
(***************************************************************************)
\* Every variable of the tasks keeps its type: a scan, a page and a value that
\* is modified stay within their bytes, for every decoder and width, also in a
\* task that acts on another's result.
THEOREM TaskTypes ==
  Spec => []TypeOK
<1>1. Init => TaskInv
  BY InvInit
<1>2. TaskInv /\ [Next]_vars => TaskInv'
  BY TaskNext
<1>3. TaskInv => TypeOK
  BY DEF TaskInv, MemoryInv
<1> QED
  BY <1>1, <1>2, <1>3, PTL DEF Spec

\* A task that reports success on a result of its own reports what the decoder
\* holds, in all five modes, with any acknowledgements lost and the application
\* starting any task, switching the track or leaving service mode in any
\* callback: no CV value or bit is reported that the decoder did not confirm, no
\* write that was not read back.  A task that has acted on another's result is
\* left out, whose success need not be true.
THEOREM SuccessfulReportsAreTrue ==
  Spec => []SuccessIsTrue
<1>1. Init => TaskInv
  BY InvInit
<1>2. TaskInv /\ [Next]_vars => TaskInv'
  BY TaskNext
<1>3. TaskInv => SuccessIsTrue
  BY DEF TaskInv, MemoryInv
<1> QED
  BY <1>1, <1>2, <1>3, PTL DEF Spec

\* With every acknowledgement heard and the track left alone, a task that ends on
\* a result of its own succeeds exactly when the decoder can do it: no scan
\* misses its value or runs past it, direct mode reads every bit, and detection
\* names exactly the modes the decoder has.
THEOREM UndisturbedTasksAreExact ==
  Spec => []UndisturbedIsExact
<1>1. Init => TaskInv
  BY InvInit
<1>2. TaskInv /\ [Next]_vars => TaskInv'
  BY TaskNext
<1>3. TaskInv => UndisturbedIsExact
  BY DEF TaskInv, ExactInv
<1> QED
  BY <1>1, <1>2, <1>3, PTL DEF Spec

\* A step that changes the decoder: c is what the operation is for.
Kept(c) ==
  \/ memory' = FactoryDefaults /\ c.cv = 8
  \/ WritesByte(c.state) /\ {cv \in CVs : memory'[cv] # memory[cv]} = {c.cv}
  \/ /\ WritesBit(c.state) /\ {cv \in CVs : memory'[cv] # memory[cv]} = {c.cv}
     /\ \A b \in 0..Bits - 1 :
          b # c.bit => BitOf(memory'[c.cv], b) = BitOf(memory[c.cv], b)

LEMMA WithBitOthers ==
  ASSUME NEW v \in Nat, NEW b \in Nat, NEW x \in {0, 1}
  PROVE  \A c \in Nat : c # b => BitOf(WithBit(v, b, x), c) = BitOf(v, c)
<1> SUFFICES ASSUME NEW c \in Nat, c # b
             PROVE  BitOf(WithBit(v, b, x), c) = BitOf(v, c)
  OBVIOUS
<1>1. CASE b < c
  BY <1>1, WithBitAbove
<1>2. CASE c < b
  BY <1>2, WithBitBelow
<1> QED
  BY <1>1, <1>2

LEMMA CompletesKeeps ==
  ASSUME TaskInv, OperationCompletes, memory' # memory
  PROVE  \A c \in {op.context} : Kept(c)
<1>0. TypeOK
  BY DEF TaskInv, MemoryInv
<1>1. PICK t \in Tasks, heard \in BOOLEAN : \E c, p : Ends(t, c, p, heard)
  BY OperationEnds
<1>2. PICK c, p : Ends(t, c, p, heard)
  BY <1>1
<1>3. /\ t = op.owner /\ c = op.context /\ Legal(t, c) /\ ReadBack(t, c)
      /\ c.state \in Stores /\ c.cv \in CVs /\ memory' \in [CVs -> Byte]
      /\ memory' = IF c.cv = 8 /\ WrittenBy(c) = FactoryValue
                   THEN FactoryDefaults
                   ELSE [memory EXCEPT ![c.cv] = WrittenBy(c)]
  BY <1>2 DEF Ends
<1>4. SUFFICES Kept(c)
  BY <1>3
<1>5. CASE memory' = FactoryDefaults /\ c.cv = 8
  BY <1>5 DEF Kept
<1>6. CASE memory' = [memory EXCEPT ![c.cv] = WrittenBy(c)] /\ c.state # "FACTORY_RESET"
  <2>1. memory \in [CVs -> Byte]
    BY <1>0 DEF TypeOK
  <2>2. memory'[c.cv] = WrittenBy(c) /\ \A cv \in CVs : cv # c.cv => memory'[cv] = memory[cv]
    BY <1>3, <1>6, <2>1
  <2>3. memory'[c.cv] # memory[c.cv]
    <3> SUFFICES ASSUME memory'[c.cv] = memory[c.cv]
                 PROVE  memory' = memory
      OBVIOUS
    <3> QED
      BY <1>3, <2>1, <2>2
  <2>4. {cv \in CVs : memory'[cv] # memory[cv]} = {c.cv}
    BY <1>3, <2>2, <2>3
  <2>5. CASE c.state = "WRITE_CV"
    BY <2>4, <2>5 DEF Kept, WritesByte
  <2>6. CASE c.state \in {"WRITE_BIT", "WRITE_BIT_WRITE"}
    <3>1. WrittenBy(c) = WithBit(memory[c.cv], c.bit, c.bit_value)
      <4>1. CASE c.state = "WRITE_BIT"
        BY <4>1 DEF WrittenBy
      <4>2. CASE c.state = "WRITE_BIT_WRITE"
        <5>1. t \in WholeByteTasks
          BY <1>3, <4>2 DEF Legal, StatesOf, WholeByteTasks, Tasks
        <5>2. memory[c.cv] = c.scan /\ c.value = WithBit(c.scan, c.bit, c.bit_value)
          BY <1>3, <4>2, <5>1 DEF ReadBack, Legal, LegalBytes
        <5>3. WrittenBy(c) = c.value
          BY <4>2 DEF WrittenBy, BytesValue, ScannedStates
        <5> QED
          BY <5>2, <5>3
      <4> QED
        BY <2>6, <4>1, <4>2
    <3>2. /\ memory[c.cv] \in Nat /\ c.bit \in Nat /\ c.bit_value \in {0, 1}
          /\ Bits \in Nat /\ 0..Bits - 1 \subseteq Nat
      <4>1. memory[c.cv] \in Byte /\ Bits \in Nat
        BY <1>3, <2>1, BitsAssumption
      <4>2. c.bit \in 0..Bits /\ c.bit_value \in {0, 1}
        BY <1>3 DEF Legal, Context, Bit
      <4> QED
        BY <4>1, <4>2, ByteFacts DEF Byte
    <3>3. \A b \in Nat : b # c.bit =>
            BitOf(WithBit(memory[c.cv], c.bit, c.bit_value), b) = BitOf(memory[c.cv], b)
      BY <3>2, WithBitOthers
    <3>4. \A b \in 0..Bits - 1 :
            b # c.bit => BitOf(memory'[c.cv], b) = BitOf(memory[c.cv], b)
      BY <2>2, <3>1, <3>2, <3>3
    <3>5. WritesBit(c.state)
      BY <2>6 DEF WritesBit
    <3> QED
      BY <2>4, <3>4, <3>5 DEF Kept
  <2> QED
    BY <1>3, <1>6, <2>5, <2>6 DEF Stores, Writing
<1>7. ASSUME c.state = "FACTORY_RESET"
      PROVE  c.cv = 8 /\ WrittenBy(c) = FactoryValue
  <2>1. t = "register"
    BY <1>3, <1>7 DEF Legal, StatesOf, ScanStates, Tasks
  <2>2. c.cv = 8
    BY <1>3, <1>7, <2>1 DEF Legal, LegalBytes, WholeByteTasks
  <2> QED
    BY <1>7, <2>2 DEF WrittenBy, BytesValue, ScannedStates
<1> QED
  BY <1>3, <1>5, <1>6, <1>7

\* The packets of an operation in front of its last one set a page only.
LEMMA PageSetMemory ==
  ASSUME TaskInv, PageSet
  PROVE  memory' = memory
<1>0. TypeOK
  BY DEF TaskInv, MemoryInv
<1>1. Len(op.packets) = 2
  BY DEF PageSet
<1>2. PICK heard \in BOOLEAN : Performs(Head(op.packets), heard)
  BY DEF PageSet
<1>3. at = "main" /\ DecoderHears(Head(op.packets))
  BY <1>0, <1>2, PerformsBounds
<1>4. op # NoOp
  <2>1. Len(NoOp.packets) = 0
    BY DEF NoOp
  <2> QED
    BY <1>1, <2>1
<1>5. PICK t \in Tasks : \E c : Left(Asked(t, c), op.packets) /\ Legal(t, c)
  BY <1>3, <1>4, InProgress
<1>6. PICK c : Left(Asked(t, c), op.packets) /\ Legal(t, c)
  BY <1>5
<1> DEFINE asked == Asked(t, c)
<1>7. op.packets = asked
  BY <1>1, <1>6 DEF Left
<1>8. PICK g \in 0..Pages - 1 : \E q : asked = <<SelectPage(g), q>>
  BY <1>1, <1>6, <1>7, AskedShape
<1>9. Head(op.packets) = SelectPage(g)
  BY <1>7, <1>8
<1> QED
  BY <1>3, <1>9, PageHeard

\* Only the end of an operation changes the decoder's CVs.
LEMMA OnlyOperationsWrite ==
  ASSUME TaskInv, [Next]_vars, memory' # memory
  PROVE  OperationCompletes
<1>1. StartTask => memory' = memory
  BY StartsBegin DEF Started, Start, decoder
<1>2. PageSet => memory' = memory
  <2> SUFFICES ASSUME PageSet PROVE memory' = memory
    OBVIOUS
  <2> QED
    BY PageSetMemory
<1>3. EnterServiceMode \/ ExitServiceMode \/ PowerOn \/ PowerOff => memory' = memory
  BY DEF EnterServiceMode, ExitServiceMode, PowerOn, PowerOff, Control, decoder
<1>4. Dispatch => memory' = memory
  BY DEF Dispatch, ReportProgress, PrimitiveComplete, Return, decoder
<1>5. UNCHANGED vars => memory' = memory
  BY DEF vars, decoder
<1> QED
  BY <1>1, <1>2, <1>3, <1>4, <1>5 DEF Next

\* Programming changes the CV it is for and no other: a byte written, or one
\* bit, read-modify-write putting back every other bit as it was read and on
\* the page where it was read; factory values come from that one command.
THEOREM ProgrammingKeepsOtherBits ==
  Spec => OtherBitsKept
<1>1. Init => TaskInv
  BY InvInit
<1>2. TaskInv /\ [Next]_vars => TaskInv'
  BY TaskNext
<1>3. TaskInv /\ [Next]_vars =>
        [memory' # memory =>
           LET c == op.context
               changed == {cv \in CVs : memory'[cv] # memory[cv]}
           IN \/ memory' = FactoryDefaults /\ c.cv = 8
              \/ WritesByte(c.state) /\ changed = {c.cv}
              \/ /\ WritesBit(c.state) /\ changed = {c.cv}
                 /\ \A b \in 0..Bits - 1 :
                      b # c.bit => BitOf(memory'[c.cv], b) = BitOf(memory[c.cv], b)]_vars
  <2> SUFFICES ASSUME TaskInv, [Next]_vars, memory' # memory
               PROVE  LET c == op.context
                          changed == {cv \in CVs : memory'[cv] # memory[cv]}
                      IN \/ memory' = FactoryDefaults /\ c.cv = 8
                         \/ WritesByte(c.state) /\ changed = {c.cv}
                         \/ /\ WritesBit(c.state) /\ changed = {c.cv}
                            /\ \A b \in 0..Bits - 1 :
                                 b # c.bit => BitOf(memory'[c.cv], b)
                                              = BitOf(memory[c.cv], b)
    OBVIOUS
  <2>1. \A c \in {op.context} : Kept(c)
    BY OnlyOperationsWrite, CompletesKeeps
  <2>2. PICK c : c = op.context
    OBVIOUS
  <2>3. Kept(c)
    BY <2>1, <2>2
  <2> QED
    BY <2>2, <2>3 DEF Kept
<1> QED
  BY <1>1, <1>2, <1>3, PTL DEF Spec, OtherBitsKept
=============================================================================
