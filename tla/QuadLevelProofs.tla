--------------------------- MODULE QuadLevelProofs ---------------------------
(***************************************************************************)
(* Lemmas about the counts of QuadLevel and about the arithmetic of        *)
(* blocks, for sequences of any length: what the proofs about the indexed  *)
(* levels rest on.                                                         *)
(***************************************************************************)
EXTENDS QuadLevel, FiniteSetTheorems, FunctionTheorems, WellFoundedInduction, TLAPS

\* A set of natural numbers that is not empty has a least element.
LEMMA LeastNat ==
  ASSUME NEW T \in SUBSET Nat, T # {}
  PROVE  \E x \in T : \A y \in T : x <= y
<1>1. PICK x \in T : \A y \in T : ~(<<y, x>> \in OpToRel(<, Nat))
  BY NatLessThanWellFounded, WFMin, Zenon
<1>2. \A y \in T : y \in Nat /\ x \in Nat /\ ~(y < x)
  BY <1>1 DEF OpToRel
<1>3. \A y \in T : x <= y
  BY <1>2
<1>4. QED
  BY <1>3

\* So the community modules' Min is that element.
LEMMA MinNat ==
  ASSUME NEW T \in SUBSET Nat, T # {}
  PROVE  Min(T) \in T /\ \A y \in T : Min(T) <= y
BY LeastNat DEF Min

\* Quotient and remainder.
LEMMA DivMod ==
  ASSUME NEW n \in Nat, NEW d \in Nat \ {0}
  PROVE  /\ n \div d \in Nat /\ n % d \in 0..(d - 1)
         /\ n = d * (n \div d) + (n % d)
OBVIOUS

\* Multiplication is monotone.
LEMMA MulMono ==
  ASSUME NEW a \in Nat, NEW b \in Nat, NEW d \in Nat, a <= b
  PROVE  d * a <= d * b
OBVIOUS

\* Quotient and remainder are determined by their equation.
LEMMA DivUnique ==
  ASSUME NEW n \in Nat, NEW d \in Nat \ {0}, NEW q \in Int, NEW r \in 0..(d - 1),
         n = d * q + r
  PROVE  n \div d = q /\ n % d = r
OBVIOUS

\* The quotient grows only where the remainder returns to zero.
LEMMA DivStep ==
  ASSUME NEW n \in Nat, NEW d \in Nat \ {0}
  PROVE  (n + 1) % d # 0 => (n + 1) \div d = n \div d
<1> DEFINE q == n \div d
           r == n % d
<1>1. q \in Nat /\ r \in 0..(d - 1) /\ n = d * q + r
  BY DivMod
<1> HIDE DEF q, r
<1>2. CASE r = d - 1
  <2>1. n + 1 = d * (q + 1) + 0 /\ 0 \in 0..(d - 1)
    BY <1>1, <1>2
  <2>2. (n + 1) % d = 0
    BY <2>1, <1>1, DivUnique
  <2>3. QED
    BY <2>2
<1>3. CASE r # d - 1
  <2>1. n + 1 = d * q + (r + 1) /\ r + 1 \in 0..(d - 1)
    BY <1>1, <1>3
  <2>2. (n + 1) \div d = q
    BY <2>1, <1>1, DivUnique
  <2>3. QED
    BY <2>2 DEF q
<1>4. QED
  BY <1>2, <1>3

\* Quotients grow with the dividend.
LEMMA DivMono ==
  ASSUME NEW m \in Nat, NEW n \in Nat, m <= n, NEW d \in Nat \ {0}
  PROVE  m \div d \in 0..(n \div d)
<1> DEFINE q == m \div d
           p == n \div d
<1>1. q \in Nat /\ m % d \in 0..(d - 1) /\ m = d * q + (m % d)
  BY DivMod
<1>2. p \in Nat /\ n % d \in 0..(d - 1) /\ n = d * p + (n % d)
  BY DivMod
<1> HIDE DEF q, p
<1>3. p < q => d * (p + 1) <= d * q
  BY <1>1, <1>2, MulMono
<1>4. d * (p + 1) = d * p + d /\ d * p \in Nat /\ d * q \in Nat
  BY <1>1, <1>2
<1>5. q <= p
  BY <1>1, <1>2, <1>3, <1>4
<1>6. QED
  BY <1>1, <1>2, <1>5 DEF q, p

\* Positions that share a stretch of d with r.
LEMMA SameStretch ==
  ASSUME NEW d \in Nat \ {0}, NEW r \in Nat, NEW n \in Nat, (r % d) + n <= d,
         NEW z \in r..(r + n - 1)
  PROVE  z \div d = r \div d /\ z % d = (r % d) + (z - r)
<1> DEFINE q == r \div d
           o == r % d
<1>1. q \in Nat /\ o \in 0..(d - 1) /\ r = d * q + o
  BY DivMod
<1> SUFFICES z \div d = q /\ z % d = o + (z - r)
  OBVIOUS
<1>2. o + n <= d
  OBVIOUS
<1> HIDE DEF q, o
<1>3. o + (z - r) \in 0..(d - 1) /\ z \in Nat
  BY <1>1, <1>2
<1>4. z = d * q + (o + (z - r))
  <2> DEFINE e == d * q
  <2>1. e \in Nat /\ r = e + o
    BY <1>1
  <2> HIDE DEF e
  <2>2. z = e + (o + (z - r))
    BY <2>1, <1>1, <1>3
  <2>3. QED
    BY <2>2 DEF e
<1>5. QED
  BY <1>1, <1>3, <1>4, DivUnique

\* Rounding up.
LEMMA CeilDiv ==
  ASSUME NEW m \in Nat, NEW d \in Nat \ {0}
  PROVE  /\ m \div d \in Nat
         /\ (m + d) \div d = m \div d + 1
         /\ (m + d - 1) \div d = IF m % d = 0 THEN m \div d ELSE m \div d + 1
<1> DEFINE q == m \div d
           r == m % d
<1>1. q \in Nat /\ r \in 0..(d - 1) /\ m = d * q + r
  BY DivMod
<1> HIDE DEF q, r
<1>2. m + d = d * (q + 1) + r
  BY <1>1
<1>3. (m + d) \div d = q + 1
  BY <1>1, <1>2, DivUnique
<1>4. m + d - 1 \in Nat
  OBVIOUS
<1>5. CASE r = 0
  <2>1. m + d - 1 = d * q + (d - 1)
    BY <1>1, <1>5
  <2>2. (m + d - 1) \div d = q
    BY <1>1, <1>4, <2>1, DivUnique
  <2>3. QED
    BY <1>1, <1>3, <1>5, <2>2 DEF q, r
<1>6. CASE r # 0
  <2>1. m + d - 1 = d * (q + 1) + (r - 1) /\ r - 1 \in 0..(d - 1)
    BY <1>1, <1>2, <1>6
  <2>2. (m + d - 1) \div d = q + 1
    BY <1>1, <1>4, <2>1, DivUnique
  <2>3. QED
    BY <1>1, <1>3, <1>6, <2>2 DEF q, r
<1>7. QED
  BY <1>5, <1>6

------------------------------------------------------------------------------
\* The occurrences of s in v at the positions p..q-1.
Occurrences(v, s, p, q) == {j \in p..(q - 1) : v[j] = s}

\* Count is the number of occurrences before a position.
LEMMA CountIs ==
  ASSUME NEW v, NEW s, NEW p \in Nat
  PROVE  Count(v, s, p) = Cardinality(Occurrences(v, s, 0, p))
BY DEF Count, Occurrences

\* They are finitely many, at most one at every position.
LEMMA OccurrencesFinite ==
  ASSUME NEW v, NEW s, NEW p \in Int, NEW q \in Int
  PROVE  /\ IsFiniteSet(Occurrences(v, s, p, q))
         /\ Cardinality(Occurrences(v, s, p, q)) \in Nat
         /\ p <= q => Cardinality(Occurrences(v, s, p, q)) <= q - p
<1>1. IsFiniteSet(p..(q - 1)) /\ Cardinality(p..(q - 1)) = IF p > q - 1 THEN 0 ELSE q - 1 - p + 1
  BY FS_Interval
<1>2. Occurrences(v, s, p, q) \in SUBSET (p..(q - 1))
  BY DEF Occurrences
<1>3. /\ IsFiniteSet(Occurrences(v, s, p, q))
      /\ Cardinality(Occurrences(v, s, p, q)) <= Cardinality(p..(q - 1))
  BY <1>1, <1>2, FS_Subset
<1>4. Cardinality(Occurrences(v, s, p, q)) \in Nat
  BY <1>3, FS_CardinalityType
<1>5. QED
  BY <1>1, <1>3, <1>4

\* A count is a number, and no more than the positions counted.
LEMMA CountType ==
  ASSUME NEW v, NEW s, NEW p \in Nat
  PROVE  Count(v, s, p) \in Nat /\ Count(v, s, p) <= p
BY CountIs, OccurrencesFinite

\* Nothing occurs before position 0.
LEMMA CountZero ==
  ASSUME NEW v, NEW s
  PROVE  Count(v, s, 0) = 0
BY FS_EmptySet DEF Count

\* A count is the sum of the counts of two parts.
LEMMA CountSplit ==
  ASSUME NEW v, NEW s, NEW p \in Nat, NEW q \in Nat, p <= q
  PROVE  /\ Count(v, s, q) = Count(v, s, p) + Cardinality(Occurrences(v, s, p, q))
         /\ Cardinality(Occurrences(v, s, p, q)) \in 0..(q - p)
<1> DEFINE A == Occurrences(v, s, 0, p)
           B == Occurrences(v, s, p, q)
           C == Occurrences(v, s, 0, q)
<1>1. IsFiniteSet(A) /\ Cardinality(A) \in Nat
  BY OccurrencesFinite
<1>2. IsFiniteSet(B) /\ Cardinality(B) \in Nat /\ Cardinality(B) <= q - p
  BY OccurrencesFinite
<1>3. C = A \cup B
  BY DEF Occurrences
<1>4. Cardinality(A \cap B) = 0
  <2>1. A \cap B = {}
    BY DEF Occurrences
  <2>2. QED
    BY <2>1, FS_EmptySet
<1>5. Cardinality(A \cup B) = Cardinality(A) + Cardinality(B) - Cardinality(A \cap B)
  BY <1>1, <1>2, FS_Union
<1> HIDE DEF A, B, C
<1>6. Cardinality(C) = Cardinality(A) + Cardinality(B)
  BY <1>1, <1>2, <1>3, <1>4, <1>5
<1>7. QED
  BY <1>2, <1>6, CountIs DEF A, B, C

\* Counts grow, by at most one for each position.
LEMMA CountMono ==
  ASSUME NEW v, NEW s, NEW p \in Nat, NEW q \in Nat, p <= q
  PROVE  Count(v, s, p) <= Count(v, s, q) /\ Count(v, s, q) - Count(v, s, p) <= q - p
BY CountSplit, CountType

\* The count after one more position.
LEMMA CountStep ==
  ASSUME NEW v, NEW s, NEW p \in Nat
  PROVE  Count(v, s, p + 1) = Count(v, s, p) + (IF v[p] = s THEN 1 ELSE 0)
<1> DEFINE B == Occurrences(v, s, p, p + 1)
<1>1. Count(v, s, p + 1) = Count(v, s, p) + Cardinality(B)
  BY CountSplit
<1>2. B = IF v[p] = s THEN {p} ELSE {}
  BY DEF Occurrences
<1>3. Cardinality(B) = IF v[p] = s THEN 1 ELSE 0
  BY <1>2, FS_Singleton, FS_EmptySet
<1>4. QED
  BY <1>1, <1>3

\* The occurrence with k before it is one position at most.
LEMMA SelectedUnique ==
  ASSUME NEW v, NEW s, NEW p \in Nat, NEW q \in Nat, v[p] = s, v[q] = s,
         Count(v, s, p) = Count(v, s, q)
  PROVE  p = q
<1>1. ASSUME NEW a \in Nat, NEW b \in Nat, v[a] = s, a < b
      PROVE  Count(v, s, a) < Count(v, s, b)
  <2>1. Count(v, s, a + 1) = Count(v, s, a) + 1
    BY <1>1, CountStep
  <2>2. Count(v, s, a + 1) <= Count(v, s, b)
    BY <1>1, CountMono
  <2>3. QED
    BY <2>1, <2>2, CountType
<1>2. QED
  BY <1>1, CountType

\* There is one if s occurs more than k times.
LEMMA SelectedExists ==
  ASSUME NEW v, NEW s, NEW n \in Nat, NEW k \in Nat, k < Count(v, s, n)
  PROVE  \E p \in 0..(n - 1) : v[p] = s /\ Count(v, s, p) = k
<1> DEFINE T == {q \in Nat : k < Count(v, s, q)}
<1>1. PICK q \in T : \A r \in T : q <= r
  BY LeastNat
<1>2. q \in Nat /\ k < Count(v, s, q) /\ q <= n
  BY <1>1
<1>3. q # 0
  BY <1>2, CountZero
<1>4. q - 1 \in Nat /\ Count(v, s, q - 1) <= k
  BY <1>1, <1>2, <1>3, CountType
<1>5. Count(v, s, q - 1 + 1) = Count(v, s, q - 1) + (IF v[q - 1] = s THEN 1 ELSE 0)
  BY <1>4, CountStep
<1>6. q - 1 + 1 = q
  BY <1>2
<1>7. v[q - 1] = s /\ Count(v, s, q - 1) = k
  BY <1>2, <1>4, <1>5, <1>6, CountType
<1>8. QED
  BY <1>2, <1>3, <1>7

\* All occurrences of all symbols.
LEMMA CountAll ==
  ASSUME NEW v, NEW n \in Nat, \A p \in 0..(n - 1) : v[p] \in Quads
  PROVE  Count(v, 0, n) + Count(v, 1, n) + Count(v, 2, n) + Count(v, 3, n) = n
<1> DEFINE sum(m) == Count(v, 0, m) + Count(v, 1, m) + Count(v, 2, m) + Count(v, 3, m)
           Bad == {m \in Nat : m <= n /\ sum(m) # m}
<1> SUFFICES ASSUME Bad # {} PROVE FALSE
  OBVIOUS
<1>1. PICK m \in Bad : \A k \in Bad : m <= k
  BY LeastNat
<1>2. m # 0
  BY <1>1, CountZero
<1>3. m - 1 \in Nat /\ m - 1 <= n /\ sum(m - 1) = m - 1 /\ (m - 1) + 1 = m
  BY <1>1, <1>2
<1>4. v[m - 1] \in 0..3
  BY <1>1, <1>3 DEF Quads
<1>5. \A s \in 0..3 : /\ Count(v, s, (m - 1) + 1) = Count(v, s, m - 1) + (IF v[m - 1] = s THEN 1 ELSE 0)
                      /\ Count(v, s, m - 1) \in Nat
  BY <1>3, CountStep, CountType
<1>6. sum((m - 1) + 1) = sum(m - 1) + 1
  <2> DEFINE C(s) == Count(v, s, m - 1)
             D(s) == Count(v, s, (m - 1) + 1)
             e == v[m - 1]
  <2>1. \A s \in 0..3 : D(s) = C(s) + (IF e = s THEN 1 ELSE 0) /\ C(s) \in Nat
    BY <1>5
  <2>2. e \in 0..3
    BY <1>4
  <2> HIDE DEF C, D, e
  <2>3. D(0) + D(1) + D(2) + D(3) = (C(0) + C(1) + C(2) + C(3)) + 1
    BY <2>1, <2>2
  <2>4. QED
    BY <2>3 DEF C, D
<1>7. QED
  BY <1>1, <1>3, <1>6

------------------------------------------------------------------------------
\* The sum over a set of symbols.
QuadSum(g, S) == MapThenSumSet(LAMBDA s : g[s], S)
\* What symbol x contributes.
Part(g, S, x) == IF x \in S THEN g[x] ELSE 0
\* It is the sum of the parts, in any order.
LEMMA QuadSumIs ==
  ASSUME NEW g, \A x \in Quads : g[x] \in Nat, NEW S \in SUBSET Quads
  PROVE  QuadSum(g, S) = Part(g, S, 0) + Part(g, S, 1) + Part(g, S, 2) + Part(g, S, 3)
<1> DEFINE closed(s) == Part(g, s, 0) + Part(g, s, 1) + Part(g, s, 2) + Part(g, s, 3)
           step(f, s) == IF s = {} THEN 0
                         ELSE g[CHOOSE x \in s : TRUE] + f[s \ {CHOOSE x \in s : TRUE}]
           G(f) == [s \in SUBSET S |-> step(f, s)]
           iter == CHOOSE f : f = G(f)
           F == [s \in SUBSET S |-> closed(s)]
<1>1. QuadSum(g, S) = iter[S]
  BY DEF QuadSum, MapThenSumSet, MapThenFoldSet
<1>2. ASSUME NEW s \in SUBSET S, s # {}, NEW x \in s
      PROVE  closed(s) = g[x] + closed(s \ {x})
  <2>1. x \in 0..3
    BY DEF Quads
  <2>2. ASSUME NEW y \in 0..3
        PROVE  /\ Part(g, s, y) \in Nat /\ Part(g, s \ {x}, y) \in Nat
               /\ y # x => Part(g, s, y) = Part(g, s \ {x}, y)
               /\ y = x => Part(g, s, y) = g[x] /\ Part(g, s \ {x}, y) = 0
    BY DEF Part, Quads
  <2>3. g[x] \in Nat
    BY <2>1 DEF Quads
  <2>4. CASE x = 0
    BY <2>2, <2>3, <2>4
  <2>5. CASE x = 1
    BY <2>2, <2>3, <2>5
  <2>6. CASE x = 2
    BY <2>2, <2>3, <2>6
  <2>7. CASE x = 3
    BY <2>2, <2>3, <2>7
  <2>8. QED
    BY <2>1, <2>4, <2>5, <2>6, <2>7
<1>3. closed({}) = 0
  BY DEF Part
<1> HIDE DEF closed
<1>4. F = G(F)
  <2>1. ASSUME NEW s \in SUBSET S PROVE closed(s) = step(F, s)
    <3>1. CASE s = {}
      BY <3>1, <1>3
    <3>2. CASE s # {}
      <4> DEFINE x == CHOOSE x \in s : TRUE
      <4>1. x \in s
        BY <3>2
      <4>2. F[s \ {x}] = closed(s \ {x})
        OBVIOUS
      <4>3. step(F, s) = g[x] + F[s \ {x}]
        BY <3>2
      <4> HIDE DEF x, F, step
      <4>4. QED
        BY <3>2, <4>1, <4>2, <4>3, <1>2
    <3>3. QED
      BY <3>1, <3>2
  <2> HIDE DEF step
  <2>2. QED
    BY <2>1
<1>5. iter = G(iter)
  <2> HIDE DEF F, G
  <2> QED
    BY <1>4
<1>6. \A s \in SUBSET S : iter[s] = step(iter, s)
  <2> HIDE DEF iter, step
  <2> QED
    BY <1>5
<1> HIDE DEF iter, F, G
<1>7. IsFiniteSet(S) /\ \A s \in SUBSET S : IsFiniteSet(s) /\ Cardinality(s) \in Nat
  <2>0. \A a, b \in Int : IsFiniteSet(a..b)
    BY FS_Interval
  <2>1. 0 \in Int /\ 3 \in Int
    OBVIOUS
  <2>2. IsFiniteSet(Quads)
    BY <2>0, <2>1, Zenon DEF Quads
  <2>3. QED
    BY <2>2, FS_Subset, FS_CardinalityType
<1> DEFINE Bad == {n \in Nat : \E s \in SUBSET S : Cardinality(s) = n /\ iter[s] # closed(s)}
<1>8. Bad = {}
  <2> SUFFICES ASSUME Bad # {} PROVE FALSE
    OBVIOUS
  <2>1. PICK n \in Bad : \A m \in Bad : n <= m
    BY LeastNat
  <2>2. PICK s \in SUBSET S : Cardinality(s) = n /\ iter[s] # closed(s)
    BY <2>1
  <2> DEFINE x == CHOOSE x \in s : TRUE
  <2>3. s # {}
    BY <2>2, <1>3, <1>6
  <2>4. x \in s
    BY <2>3
  <2>5. iter[s] = g[x] + iter[s \ {x}]
    BY <2>3, <1>6
  <2> HIDE DEF x
  <2>6. Cardinality(s \ {x}) = Cardinality(s) - 1
    BY <2>4, <1>7, FS_RemoveElement
  <2>7. iter[s \ {x}] = closed(s \ {x})
    <3>1. s \ {x} \in SUBSET S /\ Cardinality(s \ {x}) \in Nat /\ Cardinality(s \ {x}) < n
      BY <2>2, <2>6, <1>7
    <3>2. Cardinality(s \ {x}) \notin Bad
      BY <2>1, <3>1
    <3>3. QED
      BY <3>1, <3>2
  <2>8. QED
    BY <2>2, <2>3, <2>4, <2>5, <2>7, <1>2
<1>9. iter[S] = closed(S)
  BY <1>7, <1>8
<1>10. QED
  BY <1>1, <1>9 DEF closed

------------------------------------------------------------------------------
(* Powers of two, recursive functions and sums.                           *)

\* Powers of two are positive and double with the exponent: the subsets of
\* 1..k+1 are those of 1..k, with and without k+1.
LEMMA PowerStep ==
  ASSUME NEW k \in Nat
  PROVE  2 ^ k \in Nat \ {0} /\ 2 ^ (k + 1) = 2 * 2 ^ k
<1> DEFINE A == SUBSET (1..k)
           B == {T \cup {k + 1} : T \in A}
           C == SUBSET (1..(k + 1))
           f == [T \in A |-> T \cup {k + 1}]
<1>1. IsFiniteSet(1..k) /\ Cardinality(1..k) = k
  BY FS_Interval
<1>2. IsFiniteSet(1..(k + 1)) /\ Cardinality(1..(k + 1)) = k + 1
  BY FS_Interval
<1>3. IsFiniteSet(A) /\ Cardinality(A) = 2 ^ k
  BY <1>1, FS_SUBSET
<1>4. IsFiniteSet(C) /\ Cardinality(C) = 2 ^ (k + 1)
  BY <1>2, FS_SUBSET
<1>5. \A T \in A : k + 1 \notin T
  OBVIOUS
<1>6. f \in Bijection(A, B)
  <2>1. f \in [A -> B]
    OBVIOUS
  <2>2. ASSUME NEW S \in A, NEW T \in A, f[S] = f[T] PROVE S = T
    BY <2>2, <1>5
  <2>3. \A T \in B : \E S \in A : f[S] = T
    OBVIOUS
  <2> HIDE DEF A, B, f
  <2>4. QED
    BY <2>1, <2>2, <2>3, Fun_IsBij
<1>7. IsFiniteSet(B) /\ Cardinality(B) = Cardinality(A)
  BY <1>3, <1>6, FS_Bijection DEF ExistsBijection
<1>8. A \cap B = {}
  BY <1>5
<1>9. C = A \cup B
  <2>1. ASSUME NEW T \in C PROVE T \in A \cup B
    <3>1. CASE k + 1 \in T
      <4>1. T \ {k + 1} \in A
        OBVIOUS
      <4>2. T = (T \ {k + 1}) \cup {k + 1}
        BY <3>1
      <4>3. QED
        BY <4>1, <4>2
    <3>2. CASE k + 1 \notin T
      BY <3>2
    <3>3. QED
      BY <3>1, <3>2
  <2>2. ASSUME NEW T \in A PROVE T \in C
    OBVIOUS
  <2>3. ASSUME NEW T \in B PROVE T \in C
    <3>1. PICK S \in A : T = S \cup {k + 1}
      OBVIOUS
    <3>2. \A x \in T : x \in 1..(k + 1)
      BY <3>1
    <3>3. QED
      BY <3>2
  <2> HIDE DEF A, B, C
  <2>4. QED
    BY <2>1, <2>2, <2>3
<1> HIDE DEF A, B, C, f
<1>10. Cardinality(C) = Cardinality(A) + Cardinality(B) - Cardinality(A \cap B)
  BY <1>3, <1>7, <1>9, FS_Union
<1>11. Cardinality(A) \in Nat /\ Cardinality(A) # 0
  <2>1. {} \in A
    BY DEF A
  <2>2. A # {}
    BY <2>1
  <2>3. Cardinality(A) # 0
    BY <2>2, <1>3, FS_EmptySet
  <2>4. QED
    BY <2>3, <1>3, FS_CardinalityType
<1>12. Cardinality(C) = 2 * Cardinality(A)
  <2>1. Cardinality(A \cap B) = 0
    BY <1>8, FS_EmptySet
  <2>2. QED
    BY <2>1, <1>7, <1>10, <1>11
<1>13. QED
  BY <1>3, <1>4, <1>11, <1>12

\* Powers grow with the exponent.
LEMMA PowerMono ==
  ASSUME NEW a \in Nat, NEW b \in Nat, a <= b
  PROVE  2 ^ a <= 2 ^ b
<1> DEFINE Bad == {m \in Nat : a <= m /\ ~(2 ^ a <= 2 ^ m)}
<1> SUFFICES ASSUME Bad # {} PROVE FALSE
  OBVIOUS
<1>1. PICK m \in Bad : \A k \in Bad : m <= k
  BY LeastNat
<1>2. m # a /\ m - 1 \in Nat /\ a <= m - 1 /\ (m - 1) + 1 = m
  BY <1>1, PowerStep
<1>3. 2 ^ a <= 2 ^ (m - 1)
  BY <1>1, <1>2
<1>4. 2 ^ ((m - 1) + 1) = 2 * 2 ^ (m - 1) /\ 2 ^ (m - 1) \in Nat /\ 2 ^ a \in Nat
  BY <1>2, PowerStep
<1>5. QED
  BY <1>1, <1>2, <1>3, <1>4

\* f starts with x and takes the steps g, up to m.
Follows(f, m, x, g) == f[0] = x /\ \A l \in 0..(m - 1) : f[l + 1] = g[l][f[l]]

\* A function on 0..m may be defined by its first value and its steps.
LEMMA Recursion ==
  ASSUME NEW m \in Nat, NEW D, NEW x \in D, NEW g, \A l \in 0..(m - 1), y \in D : g[l][y] \in D
  PROVE  \E f \in [0..m -> D] : Follows(f, m, x, g)
<1> DEFINE Ok(k, f) == Follows(f, k, x, g)
           Bad == {k \in Nat : k <= m /\ ~\E f \in [0..k -> D] : Ok(k, f)}
<1> SUFFICES ASSUME Bad # {} PROVE FALSE
  <2>1. m \notin Bad => \E f \in [0..m -> D] : Ok(m, f)
    OBVIOUS
  <2>2. QED
    BY <2>1
<1>1. PICK k \in Bad : \A j \in Bad : k <= j
  BY LeastNat
<1>2. CASE k = 0
  <2> DEFINE f == [l \in 0..0 |-> x]
  <2>1. f \in [0..k -> D] /\ Ok(k, f)
    BY <1>2 DEF Follows
  <2>2. QED
    BY <1>1, <2>1
<1>3. CASE k # 0
  <2>1. k - 1 \in Nat /\ k - 1 <= m /\ k - 1 \notin Bad
    BY <1>1, <1>3
  <2>2. PICK e \in [0..(k - 1) -> D] : Ok(k - 1, e)
    BY <2>1
  <2> DEFINE f == [l \in 0..k |-> IF l = k THEN g[k - 1][e[k - 1]] ELSE e[l]]
  <2>3. k - 1 \in 0..(m - 1) /\ e[k - 1] \in D
    BY <1>1, <2>1, <2>2
  <2>4. f \in [0..k -> D]
    BY <2>2, <2>3
  <2>5. f[0] = x
    BY <1>3, <2>1, <2>2 DEF Follows
  <2>6. ASSUME NEW l \in 0..(k - 1) PROVE f[l + 1] = g[l][f[l]]
    <3>1. CASE l = k - 1
      BY <3>1, <2>1
    <3>2. CASE l # k - 1
      <4>1. l \in 0..((k - 1) - 1) /\ l + 1 \in 0..(k - 1) /\ l + 1 # k /\ l # k
        BY <3>2, <2>1
      <4>2. e[l + 1] = g[l][e[l]]
        BY <4>1, <2>2 DEF Follows
      <4>3. QED
        BY <4>1, <4>2, <2>1
    <3>3. QED
      BY <3>1, <3>2
  <2>7. QED
    BY <1>1, <2>4, <2>5, <2>6 DEF Follows
<1>4. QED
  BY <1>2, <1>3

\* A function on 0..m that takes those steps wherever its value is in D.
FollowsIn(f, m, x, g, D) ==
  /\ f = [l \in 0..m |-> f[l]]
  /\ f[0] = x
  /\ \A l \in 0..(m - 1) : f[l] \in D => f[l + 1] = g[l][f[l]]

\* It always is.
LEMMA FollowsType ==
  ASSUME NEW m \in Nat, NEW D, NEW x \in D, NEW g, \A l \in 0..(m - 1), y \in D : g[l][y] \in D,
         NEW at, FollowsIn(at, m, x, g, D)
  PROVE  at \in [0..m -> D]
<1> DEFINE Bad == {l \in Nat : l <= m /\ at[l] \notin D}
<1>1. Bad = {}
  <2> SUFFICES ASSUME Bad # {} PROVE FALSE
    OBVIOUS
  <2>1. PICK l \in Bad : \A k \in Bad : l <= k
    BY LeastNat
  <2>2. l # 0 /\ l - 1 \in 0..(m - 1) /\ (l - 1) + 1 = l /\ l - 1 \in 0..m
    BY <2>1 DEF FollowsIn
  <2>3. at[l - 1] \in D
    BY <2>1, <2>2
  <2>4. at[(l - 1) + 1] = g[l - 1][at[l - 1]] /\ g[l - 1][at[l - 1]] \in D
    BY <2>2, <2>3 DEF FollowsIn
  <2>5. QED
    BY <2>1, <2>2, <2>4
<1>2. ASSUME NEW l \in 0..m PROVE at[l] \in D
  <2>1. l \in Nat /\ l <= m /\ l \notin Bad
    BY <1>1
  <2>2. QED
    BY <2>1
<1>3. QED
  BY <1>2 DEF FollowsIn

\* F[s] is the sum of g over s, for all sets of numbers below m.
Additive(F, g, m) ==
  /\ F \in [SUBSET (0..(m - 1)) -> Nat]
  /\ F[{}] = 0
  /\ \A s \in SUBSET (0..(m - 1)) : \A x \in s : F[s] = g[x] + F[s \ {x}]

\* There is such a function: what m adds is added last.
LEMMA SumsExist ==
  ASSUME NEW m \in Nat, NEW g, \A x \in 0..(m - 1) : g[x] \in Nat
  PROVE  \E F : Additive(F, g, m)
<1> DEFINE Bad == {k \in Nat : k <= m /\ ~\E F : Additive(F, g, k)}
<1> SUFFICES ASSUME Bad # {} PROVE FALSE
  <2>1. m \notin Bad => \E F : Additive(F, g, m)
    OBVIOUS
  <2>2. QED
    BY <2>1
<1>1. PICK k \in Bad : \A j \in Bad : k <= j
  BY LeastNat
<1>2. CASE k = 0
  <2> DEFINE F == [s \in SUBSET (0..(0 - 1)) |-> 0]
  <2>1. SUBSET (0..(0 - 1)) = {{}}
    OBVIOUS
  <2>2. Additive(F, g, 0)
    BY <2>1 DEF Additive
  <2>3. QED
    BY <1>1, <1>2, <2>2
<1>3. CASE k # 0
  <2>1. k - 1 \in Nat /\ k - 1 <= m /\ k - 1 < k
    BY <1>1, <1>3
  <2>2. k - 1 \notin Bad
    BY <1>1, <2>1
  <2>3. PICK E : Additive(E, g, k - 1)
    BY <2>1, <2>2
  <2> DEFINE j == k - 1
             A == 0..(j - 1)
             B == 0..(k - 1)
             add(s) == IF j \in s THEN g[j] ELSE 0
             F == [s \in SUBSET B |-> E[s \ {j}] + add(s)]
  <2>4. j \in Nat /\ B = A \cup {j} /\ j \notin A /\ g[j] \in Nat
    BY <1>1, <2>1
  <2>5. /\ E \in [SUBSET A -> Nat] /\ E[{}] = 0
        /\ \A s \in SUBSET A : \A x \in s : E[s] = g[x] + E[s \ {x}]
    BY <2>3 DEF Additive
  <2>6. \A x \in B : g[x] \in Nat
    BY <1>1, <2>1
  <2> HIDE DEF A, B, j
  <2>7. \A s \in SUBSET B : s \ {j} \in SUBSET A
    BY <2>4
  <2>8. ASSUME NEW s \in SUBSET B PROVE F[s] = E[s \ {j}] + add(s) /\ E[s \ {j}] \in Nat /\ add(s) \in Nat
    <3>1. s \ {j} \in SUBSET A
      BY <2>7
    <3>2. E[s \ {j}] \in Nat /\ add(s) \in Nat
      BY <2>4, <2>5, <3>1
    <3>3. F[s] = E[s \ {j}] + add(s)
      OBVIOUS
    <3>4. QED
      BY <3>2, <3>3
  <2>9. F \in [SUBSET B -> Nat]
    <3>1. ASSUME NEW s \in SUBSET B PROVE E[s \ {j}] + add(s) \in Nat
      <4>1. E[s \ {j}] \in Nat /\ add(s) \in Nat
        BY <2>8
      <4> HIDE DEF add
      <4>2. QED
        BY <4>1
    <3> HIDE DEF add
    <3>2. QED
      BY <3>1
  <2>10. F[{}] = 0
    <3>1. {} \ {j} = {} /\ {} \in SUBSET B
      OBVIOUS
    <3>2. QED
      BY <3>1, <2>5, <2>8
  <2> HIDE DEF F
  <2>11. ASSUME NEW s \in SUBSET B, NEW x \in s PROVE F[s] = g[x] + F[s \ {x}]
    <3>1. s \ {x} \in SUBSET B /\ x \in B
      OBVIOUS
    <3>2. CASE x = j
      <4>1. (s \ {x}) \ {j} = s \ {j} /\ j \notin s \ {x}
        BY <3>2
      <4>2. F[s] = E[s \ {j}] + g[j] /\ F[s \ {x}] = E[s \ {j}] + 0
        BY <2>8, <3>1, <3>2, <4>1
      <4>3. QED
        BY <2>4, <2>8, <3>2, <4>2
    <3>3. CASE x # j
      <4>1. (s \ {x}) \ {j} = (s \ {j}) \ {x} /\ x \in s \ {j} /\ (j \in s \ {x} <=> j \in s)
        BY <3>3
      <4>2. E[s \ {j}] = g[x] + E[(s \ {j}) \ {x}]
        BY <2>5, <2>7, <4>1
      <4>3. add(s) = add(s \ {x})
        BY <4>1
      <4>4. F[s] = E[s \ {j}] + add(s) /\ add(s) \in Nat
        BY <2>8
      <4>5. F[s \ {x}] = E[(s \ {j}) \ {x}] + add(s) /\ E[(s \ {j}) \ {x}] \in Nat
        BY <2>8, <3>1, <4>1, <4>3
      <4> HIDE DEF add
      <4>6. QED
        BY <2>6, <3>1, <4>2, <4>4, <4>5
    <3>4. QED
      BY <3>2, <3>3
  <2>12. Additive(F, g, k)
    BY <2>9, <2>10, <2>11 DEF Additive, B
  <2>13. QED
    BY <1>1, <2>12
<1>4. QED
  BY <1>2, <1>3

==============================================================================
