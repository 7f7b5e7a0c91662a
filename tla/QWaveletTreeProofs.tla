------------------------- MODULE QWaveletTreeProofs -------------------------
(***************************************************************************)
(* Proofs about QWaveletTree, for symbols of any width and sequences of    *)
(* any length: the levels that from_owned writes and those that from_parts *)
(* accepts are the wavelet matrix of a sequence and answer get, rank,      *)
(* get_and_rank and select exactly.  And about RangeIter, on such a tree:  *)
(* the walks stay on their stacks, lose no row and yield what they say.    *)
(* All of this also holds in SpecFile of QwtContainer, where such trees    *)
(* are saved, altered and read again.                                      *)
(***************************************************************************)
EXTENDS QwtContainer, QuadLevelProofs, FunctionTheorems, SequenceTheorems

\* Two bits more make it four times as large.
LEMMA PowerFour ==
  ASSUME NEW k \in Nat
  PROVE  2 ^ k \in Nat \ {0} /\ 2 ^ (k + 2) = 4 * 2 ^ k
<1>1. 2 ^ k \in Nat \ {0} /\ 2 ^ (k + 1) = 2 * 2 ^ k
  BY PowerStep
<1>2. 2 ^ ((k + 1) + 1) = 2 * 2 ^ (k + 1)
  BY PowerStep
<1>3. (k + 1) + 1 = k + 2
  OBVIOUS
<1>4. QED
  BY <1>1, <1>2, <1>3

\* Max is the largest element of a bounded set of numbers.
LEMMA MaxNat ==
  ASSUME NEW T \in SUBSET Nat, T # {}, NEW b \in Nat, \A y \in T : y <= b
  PROVE  Max(T) \in T /\ \A y \in T : y <= Max(T)
<1> DEFINE U == {u \in Nat : \A y \in T : y <= u}
<1>1. PICK u \in U : \A w \in U : u <= w
  BY LeastNat
<1>2. u \in Nat /\ \A y \in T : y \in Nat /\ y <= u
  BY <1>1
<1>3. u \in T
  <2> SUFFICES ASSUME u \notin T PROVE FALSE
    OBVIOUS
  <2>1. \A y \in T : y <= u - 1
    BY <1>2
  <2>2. u - 1 \in Nat
    <3>1. PICK y \in T : TRUE
      OBVIOUS
    <3>2. y \in Nat /\ y <= u - 1
      BY <1>2, <2>1
    <3>3. QED
      BY <1>2, <3>2
  <2>3. u - 1 \in U
    BY <2>1, <2>2
  <2>4. QED
    BY <1>1, <1>2, <2>3
<1>4. QED
  BY <1>2, <1>3 DEF Max

------------------------------------------------------------------------------
\* Digits smaller than the next one are smaller than this one, or are this one.
LEMMA SmallerStep ==
  ASSUME NEW v, NEW N \in Nat, \A p \in 0..(N - 1) : v[p] \in Quads, NEW d \in Quads
  PROVE  /\ Smaller(v, N, d) \in 0..N
         /\ Smaller(v, N, d + 1) = Smaller(v, N, d) + Count(v, d, N)
<1> DEFINE A == {j \in 0..(N - 1) : v[j] < d}
           B == {j \in 0..(N - 1) : v[j] = d}
           C == {j \in 0..(N - 1) : v[j] < d + 1}
<1>1. IsFiniteSet(0..(N - 1)) /\ Cardinality(0..(N - 1)) = N
  <2>1. 0 \in Int /\ N - 1 \in Int
    OBVIOUS
  <2>2. IsFiniteSet(0..(N - 1)) /\ Cardinality(0..(N - 1)) = IF 0 > N - 1 THEN 0 ELSE (N - 1) - 0 + 1
    BY <2>1, FS_Interval
  <2>3. QED
    BY <2>2
<1>2. A \in SUBSET (0..(N - 1)) /\ B \in SUBSET (0..(N - 1))
  OBVIOUS
<1>3. IsFiniteSet(A) /\ Cardinality(A) <= N /\ IsFiniteSet(B) /\ Cardinality(B) <= N
  BY <1>1, <1>2, FS_Subset
<1>4. Cardinality(A) \in Nat /\ Cardinality(B) \in Nat
  BY <1>3, FS_CardinalityType
<1>5. C = A \cup B
  <2>1. \A j \in 0..(N - 1) : v[j] < d + 1 <=> v[j] < d \/ v[j] = d
    BY DEF Quads
  <2>2. QED
    BY <2>1
<1>6. A \cap B = {}
  <2>1. \A j \in 0..(N - 1) : ~(v[j] < d /\ v[j] = d)
    BY DEF Quads
  <2>2. QED
    BY <2>1
<1>7. Cardinality(A \cap B) = 0
  BY <1>6, FS_EmptySet
<1>8. Cardinality(A \cup B) = Cardinality(A) + Cardinality(B) - Cardinality(A \cap B)
  BY <1>3, FS_Union
<1>9. /\ Smaller(v, N, d) = Cardinality(A)
      /\ Smaller(v, N, d + 1) = Cardinality(C)
      /\ Count(v, d, N) = Cardinality(B)
  BY DEF Smaller, Count
<1> HIDE DEF A, B, C
<1>10. Cardinality(C) = Cardinality(A) + Cardinality(B)
  BY <1>4, <1>5, <1>7, <1>8
<1>11. QED
  BY <1>3, <1>4, <1>9, <1>10

\* Where boundary x of a level of N digits is in the next level, below digit d.
ChildOf(v, N, d, x) == Count(v, d, x) + Smaller(v, N, d)

\* The children of the boundaries lie between those of the first and the last,
\* and the ranges of different digits do not overlap.
LEMMA ChildRange ==
  ASSUME NEW v, NEW N \in Nat, \A p \in 0..(N - 1) : v[p] \in Quads, NEW d \in Quads,
         NEW x \in 0..N
  PROVE  /\ ChildOf(v, N, d, x) \in Smaller(v, N, d)..Smaller(v, N, d + 1)
         /\ ChildOf(v, N, d, x) \in 0..N
         /\ Smaller(v, N, d + 1) \in 0..N
<1>1. \A e \in Quads : /\ Smaller(v, N, e) \in 0..N
                       /\ Smaller(v, N, e + 1) = Smaller(v, N, e) + Count(v, e, N)
  BY SmallerStep
<1>2. Count(v, d, x) \in Nat /\ Count(v, d, N) \in Nat /\ Count(v, d, x) <= Count(v, d, N)
  BY CountType, CountMono
<1>3. Smaller(v, N, d + 1) \in 0..N
  <2>1. CASE d + 1 \in Quads
    BY <2>1, <1>1
  <2>2. CASE d = 3
    <3>1. Smaller(v, N, 4) = Cardinality({j \in 0..(N - 1) : v[j] < 4})
      BY DEF Smaller
    <3>2. {j \in 0..(N - 1) : v[j] < 4} \in SUBSET (0..(N - 1))
      OBVIOUS
    <3>3. IsFiniteSet(0..(N - 1)) /\ Cardinality(0..(N - 1)) = N
      <4>1. 0 \in Int /\ N - 1 \in Int
        OBVIOUS
      <4>2. IsFiniteSet(0..(N - 1)) /\ Cardinality(0..(N - 1)) = IF 0 > N - 1 THEN 0 ELSE (N - 1) - 0 + 1
        BY <4>1, FS_Interval
      <4>3. QED
        BY <4>2
    <3>4. Smaller(v, N, 4) \in Nat /\ Smaller(v, N, 4) <= N
      BY <3>1, <3>2, <3>3, FS_Subset, FS_CardinalityType
    <3>5. d + 1 = 4
      BY <2>2
    <3>6. QED
      BY <3>4, <3>5
  <2>3. QED
    BY <2>1, <2>2 DEF Quads
<1>4. Smaller(v, N, d) \in 0..N /\ Smaller(v, N, d + 1) = Smaller(v, N, d) + Count(v, d, N)
  BY <1>1
<1>5. QED
  BY <1>2, <1>3, <1>4 DEF ChildOf

\* Digits at most e are no fewer than those at most d <= e.
LEMMA SmallerMono ==
  ASSUME NEW v, NEW N \in Nat, \A p \in 0..(N - 1) : v[p] \in Quads,
         NEW d \in Quads, NEW e \in Quads, d < e
  PROVE  Smaller(v, N, d + 1) <= Smaller(v, N, e)
<1>1. \A c \in Quads : /\ Smaller(v, N, c) \in Nat /\ Count(v, c, N) \in Nat
                       /\ Smaller(v, N, c + 1) = Smaller(v, N, c) + Count(v, c, N)
  <2>1. ASSUME NEW c \in Quads
        PROVE  /\ Smaller(v, N, c) \in 0..N /\ Count(v, c, N) \in Nat
               /\ Smaller(v, N, c + 1) = Smaller(v, N, c) + Count(v, c, N)
    BY SmallerStep, CountType
  <2>2. QED
    BY <2>1
<1> DEFINE S(c) == Smaller(v, N, c)
<1>2. S(0) <= S(1) /\ S(1) <= S(2) /\ S(2) <= S(3) /\ S(0) \in Nat /\ S(1) \in Nat /\ S(2) \in Nat /\ S(3) \in Nat
  <2>1. \A c \in 0..3 : S(c) \in Nat /\ S(c) <= S(c + 1)
    BY <1>1 DEF Quads
  <2>2. 0 + 1 = 1 /\ 1 + 1 = 2 /\ 2 + 1 = 3
    OBVIOUS
  <2> HIDE DEF S
  <2>3. S(0) <= S(0 + 1) /\ S(1) <= S(1 + 1) /\ S(2) <= S(2 + 1)
    BY <2>1
  <2>4. QED
    BY <2>1, <2>2, <2>3
<1> HIDE DEF S
<1>3. <<d, e>> \in {<<0, 1>>, <<0, 2>>, <<0, 3>>, <<1, 2>>, <<1, 3>>, <<2, 3>>}
  BY DEF Quads
<1>4. S(d + 1) <= S(e)
  <2>1. 0 + 1 = 1 /\ 1 + 1 = 2 /\ 2 + 1 = 3
    OBVIOUS
  <2>2. QED
    BY <1>2, <1>3, <2>1
<1>5. QED
  BY <1>4 DEF S

\* Where a position goes, following its own digit: inside the next level, and
\* positions are ordered by their digits, then as they were.
LEMMA ChildOrder ==
  ASSUME NEW v, NEW N \in Nat, \A p \in 0..(N - 1) : v[p] \in Quads,
         NEW p \in 0..(N - 1), NEW q \in 0..(N - 1)
  PROVE  /\ ChildOf(v, N, v[p], p) \in 0..(N - 1)
         /\ (v[p] < v[q] \/ (v[p] = v[q] /\ p < q)) => ChildOf(v, N, v[p], p) < ChildOf(v, N, v[q], q)
<1> DEFINE c(x) == ChildOf(v, N, v[x], x)
<1>1. ASSUME NEW x \in 0..(N - 1)
      PROVE  /\ v[x] \in Quads
             /\ c(x) \in Smaller(v, N, v[x])..Smaller(v, N, v[x] + 1)
             /\ ChildOf(v, N, v[x], x + 1) = c(x) + 1
             /\ ChildOf(v, N, v[x], x + 1) \in Smaller(v, N, v[x])..Smaller(v, N, v[x] + 1)
             /\ Smaller(v, N, v[x]) \in 0..N /\ Smaller(v, N, v[x] + 1) \in 0..N
  <2>1. v[x] \in Quads /\ x \in 0..N /\ x + 1 \in 0..N /\ x \in Nat
    OBVIOUS
  <2>2. Count(v, v[x], x + 1) = Count(v, v[x], x) + 1 /\ Count(v, v[x], x) \in Nat
    BY <2>1, CountStep, CountType
  <2>3. Smaller(v, N, v[x]) \in 0..N
    BY <2>1, SmallerStep
  <2>4. ChildOf(v, N, v[x], x + 1) = c(x) + 1
    BY <2>2, <2>3 DEF ChildOf
  <2> HIDE DEF c
  <2>5. QED
    BY <2>1, <2>3, <2>4, ChildRange DEF c
<1>2. c(p) \in 0..(N - 1)
  <2> HIDE DEF c
  <2> QED
    BY <1>1
<1>3. CASE v[p] < v[q]
  <2>1. Smaller(v, N, v[p] + 1) <= Smaller(v, N, v[q])
    BY <1>1, <1>3, SmallerMono
  <2> HIDE DEF c
  <2>2. c(p) < c(q)
    BY <2>1, <1>1
  <2>3. QED
    BY <1>2, <2>2 DEF c
<1>4. CASE v[p] = v[q] /\ p < q
  <2>1. Count(v, v[p], p + 1) = Count(v, v[p], p) + 1
    BY CountStep
  <2>2. Count(v, v[p], p + 1) <= Count(v, v[p], q)
    BY <1>4, CountMono
  <2>3. Count(v, v[p], p) \in Nat /\ Count(v, v[p], q) \in Nat /\ Smaller(v, N, v[p]) \in 0..N
    BY <1>1, CountType
  <2>4. c(p) < c(q)
    BY <2>1, <2>2, <2>3, <1>4 DEF ChildOf
  <2>5. QED
    BY <1>2, <2>4
<1>5. QED
  BY <1>2, <1>3, <1>4

------------------------------------------------------------------------------
\* Dropping two more bits is dividing by four.
LEMMA DropTwoBits ==
  ASSUME NEW x \in Nat, NEW s \in Nat
  PROVE  /\ x \div 2 ^ s \in Nat
         /\ two_bits(x, s) \in Quads
         /\ x \div 2 ^ s = (x \div 2 ^ (s + 2)) * 4 + two_bits(x, s)
         /\ x \div 2 ^ (s + 2) = (x \div 2 ^ s) \div 4
<1> DEFINE P == 2 ^ s
           a == x \div P
           r == x % P
           b == a \div 4
           c == a % 4
<1>1. P \in Nat \ {0} /\ 2 ^ (s + 2) = 4 * P
  BY PowerFour
<1> HIDE DEF P
<1>2. a \in Nat /\ r \in 0..(P - 1) /\ x = P * a + r
  BY <1>1, DivMod
<1> HIDE DEF a, r
<1>3. b \in Nat /\ c \in 0..3 /\ a = 4 * b + c
  BY <1>2, DivMod
<1> HIDE DEF b, c
<1>4. P * c \in Nat /\ P * c <= P * 3 /\ P * b \in Nat /\ P * a \in Nat
  BY <1>1, <1>2, <1>3, MulMono
<1>5. P * a = 4 * (P * b) + P * c
  BY <1>1, <1>3
<1>6. P * c + r \in 0..(4 * P - 1) /\ x = (4 * P) * b + (P * c + r)
  <2>1. x = 4 * (P * b) + (P * c + r)
    BY <1>1, <1>2, <1>4, <1>5
  <2>2. 4 * (P * b) = (4 * P) * b
    BY <1>1, <1>3
  <2>3. P * c + r \in 0..(4 * P - 1)
    BY <1>1, <1>2, <1>4
  <2>4. QED
    BY <2>1, <2>2, <2>3
<1>7. 4 * P \in Nat \ {0}
  BY <1>1
<1>8. x \div (4 * P) = b
  BY <1>3, <1>6, <1>7, DivUnique
<1>9. x \div 2 ^ (s + 2) = b /\ x \div 2 ^ s = a
  BY <1>1, <1>8 DEF P, a
<1>10. two_bits(x, s) = c
  BY DEF two_bits, c, a, P
<1>11. QED
  BY <1>2, <1>3, <1>9, <1>10 DEF b, Quads

\* A digit more at the end, and leaving it out again.
LEMMA AddDigit ==
  ASSUME NEW a \in Nat, NEW c \in 0..3
  PROVE  (a * 4 + c) \div 4 = a /\ (a * 4 + c) % 4 = c
OBVIOUS

\* Of less than p no p can be taken.
LEMMA DivSmall ==
  ASSUME NEW x \in Nat, NEW p \in Nat \ {0}, x < p
  PROVE  x \div p = 0
<1>1. x = p * 0 + x /\ x \in 0..(p - 1)
  OBVIOUS
<1>2. QED
  BY <1>1, DivUnique

\* What a symbol is divided by to leave out its last j digits.
Quarters(j) == 2 ^ (2 * j)

\* It is four times as much for one digit more.
LEMMA QuartersStep ==
  ASSUME NEW j \in Nat
  PROVE  Quarters(0) = 1 /\ Quarters(j) \in Nat \ {0} /\ Quarters(j + 1) = 4 * Quarters(j)
<1>1. 2 * j \in Nat /\ 2 * (j + 1) = 2 * j + 2
  OBVIOUS
<1>2. 2 ^ (2 * j) \in Nat \ {0} /\ 2 ^ (2 * j + 2) = 4 * 2 ^ (2 * j)
  BY <1>1, PowerFour
<1>3. 2 ^ (2 * 0) = 1
  <2>1. 2 * 0 = 0 /\ 2 ^ 0 = 1
    OBVIOUS
  <2>2. QED
    BY <2>1
<1>4. QED
  BY <1>1, <1>2, <1>3, Zenon DEF Quarters

\* Leaving out one digit more, in these terms.
LEMMA DropDigit ==
  ASSUME NEW x \in Nat, NEW j \in Nat
  PROVE  /\ x \div Quarters(j) \in Nat
         /\ two_bits(x, 2 * j) \in Quads
         /\ two_bits(x, 2 * j) = (x \div Quarters(j)) % 4
         /\ x \div Quarters(j) = (x \div Quarters(j + 1)) * 4 + two_bits(x, 2 * j)
         /\ x \div Quarters(j + 1) = (x \div Quarters(j)) \div 4
<1>1. 2 * j \in Nat /\ 2 * (j + 1) = 2 * j + 2
  OBVIOUS
<1> DEFINE s == 2 * j
           a == x \div 2 ^ s
           b == x \div 2 ^ (s + 2)
<1>2. /\ a \in Nat
      /\ two_bits(x, s) \in Quads
      /\ a = b * 4 + two_bits(x, s)
      /\ b = a \div 4
  BY <1>1, DropTwoBits
<1>3. a = x \div Quarters(j) /\ b = x \div Quarters(j + 1)
  BY <1>1, Zenon DEF Quarters
<1>4. two_bits(x, s) = a % 4
  BY DEF two_bits
<1> HIDE DEF a, b
<1>5. QED
  BY <1>2, <1>3, <1>4

\* A number is what its digits spell, the most significant first, and only that
\* number below the next power has those digits.
LEMMA Spelling ==
  ASSUME NEW m \in Nat, NEW dg, \A l \in 0..(m - 1) : dg[l] \in Quads,
         NEW val \in [0..m -> Nat], val[0] = 0,
         \A l \in 0..(m - 1) : val[l + 1] = val[l] * 4 + dg[l]
  PROVE  /\ \A l \in 0..(m - 1) : two_bits(val[m], 2 * (m - 1 - l)) = dg[l]
         /\ val[m] < Quarters(m)
         /\ \A x \in Nat :
              (x < Quarters(m) /\ \A l \in 0..(m - 1) : two_bits(x, 2 * (m - 1 - l)) = dg[l])
              => x = val[m]
<1>1. \A l \in 0..m : val[l] \in Nat
  OBVIOUS
<1>2. Quarters(0) = 1 /\ \A j \in Nat : Quarters(j) \in Nat \ {0} /\ Quarters(j + 1) = 4 * Quarters(j)
  BY QuartersStep
<1>3. ASSUME NEW x \in Nat PROVE x \div Quarters(0) = x
  BY <1>2
<1> DEFINE Q(j) == Quarters(j)
           D(j) == val[m] \div Quarters(j)
<1>4. ASSUME NEW j \in 0..m PROVE val[m - j] = D(j)
  <2> DEFINE Bad == {k \in Nat : k <= m /\ val[m - k] # D(k)}
  <2> HIDE DEF D
  <2> SUFFICES ASSUME Bad # {} PROVE FALSE
    <3>1. j \in Nat /\ j <= m /\ j \notin Bad => val[m - j] = D(j)
      OBVIOUS
    <3>2. j \in Nat /\ j <= m
      OBVIOUS
    <3>3. QED
      BY <3>1, <3>2
  <2>1. PICK k \in Bad : \A i \in Bad : k <= i
    BY LeastNat
  <2>2. k # 0
    <3>1. val[m] = D(0) /\ m - 0 = m
      BY <1>1, <1>3 DEF D
    <3>2. QED
      BY <2>1, <3>1
  <2>3. k - 1 \in Nat /\ k - 1 <= m /\ k - 1 \notin Bad /\ m - k \in 0..(m - 1) /\ (k - 1) + 1 = k
    BY <2>1, <2>2
  <2>4. val[m - (k - 1)] = D(k - 1)
    BY <2>3
  <2>5. val[m - (k - 1)] = val[m - k] * 4 + dg[m - k]
    <3>1. (m - k) + 1 = m - (k - 1)
      BY <2>1
    <3>2. QED
      BY <3>1, <2>3
  <2>6. D((k - 1) + 1) = D(k - 1) \div 4
    <3>1. val[m] \in Nat
      BY <1>1
    <3>2. QED
      BY <3>1, <2>3, DropDigit DEF D
  <2>7. val[m - k] # D(k)
    BY <2>1
  <2>8. val[m - k] \in Nat /\ dg[m - k] \in 0..3
    BY <1>1, <2>3 DEF Quads
  <2>9. (val[m - k] * 4 + dg[m - k]) \div 4 = val[m - k]
    BY <2>8, AddDigit
  <2>10. QED
    BY <2>3, <2>4, <2>5, <2>6, <2>7, <2>9
<1>5. ASSUME NEW l \in 0..(m - 1) PROVE two_bits(val[m], 2 * (m - 1 - l)) = dg[l]
  <2>0. m - 1 - l \in Nat /\ m - 1 - l \in 0..m
    OBVIOUS
  <2>1. val[m - (m - 1 - l)] = D(m - 1 - l) /\ two_bits(val[m], 2 * (m - 1 - l)) = D(m - 1 - l) % 4
    <3>1. val[m - (m - 1 - l)] = D(m - 1 - l)
      BY <2>0, <1>4
    <3>2. two_bits(val[m], 2 * (m - 1 - l)) = D(m - 1 - l) % 4
      <4>1. val[m] \in Nat
        BY <1>1
      <4>2. QED
        BY <4>1, <2>0, DropDigit
    <3>3. QED
      BY <3>1, <3>2
  <2> HIDE DEF D
  <2>2. m - (m - 1 - l) = l + 1
    OBVIOUS
  <2>3. val[l] \in Nat /\ dg[l] \in 0..3 /\ val[l + 1] = val[l] * 4 + dg[l]
    BY <1>1 DEF Quads
  <2>4. (val[l] * 4 + dg[l]) % 4 = dg[l]
    BY <2>3, AddDigit
  <2>5. QED
    BY <2>1, <2>2, <2>3, <2>4
<1>6. val[m] < Q(m)
  <2> DEFINE Bad == {k \in Nat : k <= m /\ ~(val[k] < Q(k))}
  <2> SUFFICES ASSUME Bad # {} PROVE FALSE
    OBVIOUS
  <2>1. PICK k \in Bad : \A i \in Bad : k <= i
    BY LeastNat
  <2>2. k # 0
    BY <2>1, <1>2
  <2>3. k - 1 \in Nat /\ k - 1 <= m /\ k - 1 \notin Bad /\ k - 1 \in 0..(m - 1) /\ (k - 1) + 1 = k
    BY <2>1, <2>2
  <2>4. val[k - 1] < Q(k - 1)
    BY <2>3
  <2>5. Q(k - 1) \in Nat /\ Q((k - 1) + 1) = 4 * Q(k - 1)
    BY <2>3, <1>2
  <2>6. ~(val[k] < Q(k))
    BY <2>1
  <2>7. val[k] = val[k - 1] * 4 + dg[k - 1] /\ val[k - 1] \in Nat /\ dg[k - 1] \in 0..3
    BY <2>3, <1>1 DEF Quads
  <2> HIDE DEF Q
  <2>8. QED
    BY <2>3, <2>4, <2>5, <2>6, <2>7
<1>7. ASSUME NEW x \in Nat, x < Quarters(m),
             \A l \in 0..(m - 1) : two_bits(x, 2 * (m - 1 - l)) = dg[l]
      PROVE  x = val[m]
  <2> DEFINE E(j) == x \div Quarters(j)
             Bad == {k \in Nat : k <= m /\ val[k] # E(m - k)}
  <2>1. Bad = {}
    <3> SUFFICES ASSUME Bad # {} PROVE FALSE
      OBVIOUS
    <3>1. PICK k \in Bad : \A i \in Bad : k <= i
      BY LeastNat
    <3>2. k # 0
      <4> DEFINE P == Quarters(m)
      <4>1. P \in Nat \ {0} /\ x < P
        BY <1>2, <1>7
      <4> HIDE DEF P
      <4>3. x \div P = 0
        BY <4>1, DivSmall
      <4>4. m - 0 = m /\ E(m) = 0
        BY <4>3 DEF P
      <4> HIDE DEF E
      <4>5. QED
        BY <3>1, <4>4
    <3>3. k - 1 \in Nat /\ k - 1 <= m /\ k - 1 \notin Bad /\ k - 1 \in 0..(m - 1) /\ (k - 1) + 1 = k
      BY <3>1, <3>2
    <3> DEFINE j == m - k
    <3>4. j \in Nat /\ m - (k - 1) = j + 1 /\ m - 1 - (k - 1) = j
      BY <3>1, <3>3
    <3>5. val[k - 1] = E(j + 1)
      <4>1. val[k - 1] = E(m - (k - 1))
        BY <3>3
      <4> HIDE DEF E, j
      <4>2. QED
        BY <4>1, <3>4
    <3>6. two_bits(x, 2 * j) = dg[k - 1]
      BY <1>7, <3>3, <3>4
    <3>7. val[k] # E(j)
      BY <3>1
    <3> HIDE DEF j
    <3>8. E(j) = E(j + 1) * 4 + two_bits(x, 2 * j)
      BY <3>4, DropDigit
    <3>9. val[k] = val[k - 1] * 4 + dg[k - 1]
      BY <3>3
    <3> HIDE DEF E
    <3>10. QED
      BY <3>5, <3>6, <3>7, <3>8, <3>9
  <2>2. val[m] = E(m - m)
    BY <2>1
  <2>3. m - m = 0
    OBVIOUS
  <2>4. QED
    BY <2>2, <2>3, <1>3
<1>8. QED
  BY <1>5, <1>6, <1>7

------------------------------------------------------------------------------
\* A tree whose levels have the same length and hold digits.
WellFormed ==
  /\ n \in Nat /\ n_levels \in Nat \ {0}
  /\ \A l \in 0..LastLevel :
       /\ qvs[l + 1].len = n
       /\ \A p \in 0..(n - 1) : qv(l)[p] \in Quads

\* The child of a boundary is a boundary of the next level, that of a position
\* a position.
LEMMA ChildIs ==
  ASSUME WellFormed, NEW l \in 0..LastLevel
  PROVE  /\ \A d \in Quads, x \in 0..n : /\ child(l, d, x) = ChildOf(qv(l), n, d, x)
                                         /\ child(l, d, x) \in 0..n
         /\ \A x \in 0..(n - 1) : /\ qv(l)[x] \in Quads
                                  /\ child(l, qv(l)[x], x) \in 0..(n - 1)
                                  /\ child(l, qv(l)[x], x) = ChildOf(qv(l), n, qv(l)[x], x)
<1>1. n \in Nat /\ qvs[l + 1].len = n /\ \A p \in 0..(n - 1) : qv(l)[p] \in Quads
  BY DEF WellFormed
<1>2. ASSUME NEW d, NEW x PROVE child(l, d, x) = ChildOf(qv(l), n, d, x)
  BY <1>1 DEF child, rank_in, occs_smaller, ChildOf
<1> DEFINE v == qv(l)
<1>3. \A p \in 0..(n - 1) : v[p] \in Quads
  BY <1>1
<1> HIDE DEF v
<1>4. \A d \in Quads, x \in 0..n : ChildOf(v, n, d, x) \in 0..n
  BY <1>1, <1>3, ChildRange
<1>5. \A x \in 0..(n - 1) : ChildOf(v, n, v[x], x) \in 0..(n - 1)
  BY <1>1, <1>3, ChildOrder
<1>6. QED
  BY <1>2, <1>3, <1>4, <1>5 DEF v

\* path follows the digits it finds.
LEMMA PathIs ==
  ASSUME WellFormed, NEW x \in 0..(n - 1)
  PROVE  /\ path(x) \in [0..LastLevel -> 0..(n - 1)]
         /\ path(x)[0] = x
         /\ \A l \in 0..(LastLevel - 1) : path(x)[l + 1] = child(l, qv(l)[path(x)[l]], path(x)[l])
<1> DEFINE m == LastLevel
           step(l, y) == child(l, qv(l)[y], y)
           D == 0..(n - 1)
           g == [l \in 0..(m - 1) |-> [y \in D |-> step(l, y)]]
           G(f) == [l \in 0..m |-> IF l = 0 THEN x ELSE step(l - 1, f[l - 1])]
           at == CHOOSE f : f = G(f)
<1>1. m \in Nat
  BY DEF WellFormed, LastLevel
<1>2. path(x) = at
  BY DEF path
<1>3. \A l \in 0..(m - 1), y \in D : step(l, y) \in D
  <2>1. \A l \in 0..(m - 1) : l \in 0..LastLevel
    BY <1>1
  <2>2. QED
    BY <2>1, ChildIs
<1>4. x \in D
  OBVIOUS
<1> HIDE DEF m, D, step
<1>5. \A l \in 0..(m - 1), y \in D : g[l][y] = step(l, y)
  BY <1>1
<1>6. \A l \in 0..(m - 1), y \in D : g[l][y] \in D
  BY <1>3, <1>5
<1>7. PICK F \in [0..m -> D] : Follows(F, m, x, g)
  <2> HIDE DEF g
  <2> QED
    BY <1>1, <1>4, <1>6, Recursion
<1>8. F = G(F)
  <2>1. ASSUME NEW l \in 0..m PROVE F[l] = IF l = 0 THEN x ELSE step(l - 1, F[l - 1])
    <3>1. CASE l = 0
      BY <3>1, <1>7 DEF Follows
    <3>2. CASE l # 0
      <4>1. l - 1 \in 0..(m - 1) /\ (l - 1) + 1 = l /\ l - 1 \in 0..m
        BY <1>1, <3>2
      <4> HIDE DEF g
      <4>2. F[(l - 1) + 1] = g[l - 1][F[l - 1]] /\ F[l - 1] \in D
        BY <4>1, <1>7 DEF Follows
      <4>3. QED
        BY <3>2, <4>1, <4>2, <1>5
    <3>3. QED
      BY <3>1, <3>2
  <2>2. F = [l \in 0..m |-> F[l]]
    BY <1>7
  <2> HIDE DEF g
  <2>3. QED
    BY <2>1, <2>2
<1>9. at = G(at)
  <2> HIDE DEF G
  <2> QED
    BY <1>8
<1> HIDE DEF at
<1>10. /\ at = [l \in 0..m |-> at[l]]
       /\ \A l \in 0..m : at[l] = IF l = 0 THEN x ELSE step(l - 1, at[l - 1])
  BY <1>9
<1>11. at[0] = x /\ \A l \in 0..(m - 1) : at[l + 1] = step(l, at[l])
  <2>1. ASSUME NEW l \in 0..(m - 1) PROVE at[l + 1] = step(l, at[l])
    <3>1. l + 1 \in 0..m /\ l + 1 # 0 /\ (l + 1) - 1 = l
      BY <1>1
    <3>2. QED
      BY <3>1, <1>10
  <2>2. 0 \in 0..m
    BY <1>1
  <2>3. QED
    BY <2>1, <2>2, <1>10
<1>12. at \in [0..m -> D]
  <2> HIDE DEF g
  <2>1. \A l \in 0..(m - 1) : at[l] \in D => at[l + 1] = g[l][at[l]]
    BY <1>5, <1>11
  <2>2. FollowsIn(at, m, x, g, D)
    BY <1>10, <1>11, <2>1 DEF FollowsIn
  <2>3. QED
    BY <1>1, <1>4, <1>6, <2>2, FollowsType
<1>13. QED
  BY <1>2, <1>11, <1>12 DEF m, D, step

\* A digit of a symbol.
LEMMA DigitType ==
  ASSUME n_levels \in Nat, NEW symbol \in Nat, NEW l \in 0..LastLevel
  PROVE  digit(symbol, l) \in Quads
<1>1. 2 * (n_levels - 1 - l) \in Nat
  BY DEF LastLevel
<1>2. QED
  BY <1>1, DropTwoBits DEF digit

\* walk follows the digits of a symbol.
LEMMA WalkIs ==
  ASSUME WellFormed, NEW symbol \in Nat, NEW x \in 0..n
  PROVE  /\ walk(symbol, x) \in [0..LastLevel -> 0..n]
         /\ walk(symbol, x)[0] = x
         /\ \A l \in 0..(LastLevel - 1) :
              walk(symbol, x)[l + 1] = child(l, digit(symbol, l), walk(symbol, x)[l])
<1> DEFINE m == LastLevel
           step(l, y) == child(l, digit(symbol, l), y)
           D == 0..n
           g == [l \in 0..(m - 1) |-> [y \in D |-> step(l, y)]]
           G(f) == [l \in 0..m |-> IF l = 0 THEN x ELSE step(l - 1, f[l - 1])]
           at == CHOOSE f : f = G(f)
<1>1. m \in Nat
  BY DEF WellFormed, LastLevel
<1>2. walk(symbol, x) = at
  BY DEF walk
<1>3. \A l \in 0..(m - 1), y \in D : step(l, y) \in D
  <2>1. \A l \in 0..(m - 1) : l \in 0..LastLevel /\ digit(symbol, l) \in Quads
    BY <1>1, DigitType DEF WellFormed
  <2>2. QED
    BY <2>1, ChildIs
<1>4. x \in D
  OBVIOUS
<1> HIDE DEF m, D, step
<1>5. \A l \in 0..(m - 1), y \in D : g[l][y] = step(l, y)
  BY <1>1
<1>6. \A l \in 0..(m - 1), y \in D : g[l][y] \in D
  BY <1>3, <1>5
<1>7. PICK F \in [0..m -> D] : Follows(F, m, x, g)
  <2> HIDE DEF g
  <2> QED
    BY <1>1, <1>4, <1>6, Recursion
<1>8. F = G(F)
  <2>1. ASSUME NEW l \in 0..m PROVE F[l] = IF l = 0 THEN x ELSE step(l - 1, F[l - 1])
    <3>1. CASE l = 0
      BY <3>1, <1>7 DEF Follows
    <3>2. CASE l # 0
      <4>1. l - 1 \in 0..(m - 1) /\ (l - 1) + 1 = l /\ l - 1 \in 0..m
        BY <1>1, <3>2
      <4> HIDE DEF g
      <4>2. F[(l - 1) + 1] = g[l - 1][F[l - 1]] /\ F[l - 1] \in D
        BY <4>1, <1>7 DEF Follows
      <4>3. QED
        BY <3>2, <4>1, <4>2, <1>5
    <3>3. QED
      BY <3>1, <3>2
  <2>2. F = [l \in 0..m |-> F[l]]
    BY <1>7
  <2> HIDE DEF g
  <2>3. QED
    BY <2>1, <2>2
<1>9. at = G(at)
  <2> HIDE DEF G
  <2> QED
    BY <1>8
<1> HIDE DEF at
<1>10. /\ at = [l \in 0..m |-> at[l]]
       /\ \A l \in 0..m : at[l] = IF l = 0 THEN x ELSE step(l - 1, at[l - 1])
  BY <1>9
<1>11. at[0] = x /\ \A l \in 0..(m - 1) : at[l + 1] = step(l, at[l])
  <2>1. ASSUME NEW l \in 0..(m - 1) PROVE at[l + 1] = step(l, at[l])
    <3>1. l + 1 \in 0..m /\ l + 1 # 0 /\ (l + 1) - 1 = l
      BY <1>1
    <3>2. QED
      BY <3>1, <1>10
  <2>2. 0 \in 0..m
    BY <1>1
  <2>3. QED
    BY <2>1, <2>2, <1>10
<1>12. at \in [0..m -> D]
  <2> HIDE DEF g
  <2>1. \A l \in 0..(m - 1) : at[l] \in D => at[l + 1] = g[l][at[l]]
    BY <1>5, <1>11
  <2>2. FollowsIn(at, m, x, g, D)
    BY <1>10, <1>11, <2>1 DEF FollowsIn
  <2>3. QED
    BY <1>1, <1>4, <1>6, <2>2, FollowsType
<1>13. QED
  BY <1>2, <1>11, <1>12 DEF m, D, step

\* spelled reads the digits along a path.
LEMMA SpelledIs ==
  ASSUME WellFormed, NEW pos \in [0..LastLevel -> 0..(n - 1)]
  PROVE  \E val \in [0..n_levels -> Nat] :
           /\ val[0] = 0
           /\ \A l \in 0..(n_levels - 1) : val[l + 1] = val[l] * 4 + qv(l)[pos[l]]
           /\ spelled(pos) = val[n_levels]
<1> DEFINE m == n_levels
           step(l, y) == y * 4 + qv(l)[pos[l]]
           D == Nat
           x == 0
           g == [l \in 0..(m - 1) |-> [y \in D |-> step(l, y)]]
           G(f) == [l \in 0..m |-> IF l = 0 THEN x ELSE step(l - 1, f[l - 1])]
           at == CHOOSE f : f = G(f)
<1>1. m \in Nat
  BY DEF WellFormed
<1>2. spelled(pos) = at[n_levels]
  BY DEF spelled
<1>3. \A l \in 0..(m - 1), y \in D : step(l, y) \in D
  <2>1. \A l \in 0..(m - 1) : l \in 0..LastLevel /\ pos[l] \in 0..(n - 1)
    BY <1>1 DEF LastLevel
  <2>2. \A l \in 0..(m - 1) : qv(l)[pos[l]] \in Nat
    <3>1. \A l \in 0..LastLevel, p \in 0..(n - 1) : qv(l)[p] \in Nat
      BY DEF WellFormed, Quads
    <3>2. QED
      BY <2>1, <3>1
  <2>3. QED
    BY <2>2
<1>4. x \in D
  OBVIOUS
<1> HIDE DEF m, D, step, x
<1>5. \A l \in 0..(m - 1), y \in D : g[l][y] = step(l, y)
  BY <1>1
<1>6. \A l \in 0..(m - 1), y \in D : g[l][y] \in D
  BY <1>3, <1>5
<1>7. PICK F \in [0..m -> D] : Follows(F, m, x, g)
  <2> HIDE DEF g
  <2> QED
    BY <1>1, <1>4, <1>6, Recursion
<1>8. F = G(F)
  <2>1. ASSUME NEW l \in 0..m PROVE F[l] = IF l = 0 THEN x ELSE step(l - 1, F[l - 1])
    <3>1. CASE l = 0
      BY <3>1, <1>7 DEF Follows
    <3>2. CASE l # 0
      <4>1. l - 1 \in 0..(m - 1) /\ (l - 1) + 1 = l /\ l - 1 \in 0..m
        BY <1>1, <3>2
      <4> HIDE DEF g
      <4>2. F[(l - 1) + 1] = g[l - 1][F[l - 1]] /\ F[l - 1] \in D
        BY <4>1, <1>7 DEF Follows
      <4>3. QED
        BY <3>2, <4>1, <4>2, <1>5
    <3>3. QED
      BY <3>1, <3>2
  <2>2. F = [l \in 0..m |-> F[l]]
    BY <1>7
  <2> HIDE DEF g
  <2>3. QED
    BY <2>1, <2>2
<1>9. at = G(at)
  <2> HIDE DEF G
  <2> QED
    BY <1>8
<1> HIDE DEF at
<1>10. /\ at = [l \in 0..m |-> at[l]]
       /\ \A l \in 0..m : at[l] = IF l = 0 THEN x ELSE step(l - 1, at[l - 1])
  BY <1>9
<1>11. at[0] = x /\ \A l \in 0..(m - 1) : at[l + 1] = step(l, at[l])
  <2>1. ASSUME NEW l \in 0..(m - 1) PROVE at[l + 1] = step(l, at[l])
    <3>1. l + 1 \in 0..m /\ l + 1 # 0 /\ (l + 1) - 1 = l
      BY <1>1
    <3>2. QED
      BY <3>1, <1>10
  <2>2. 0 \in 0..m
    BY <1>1
  <2>3. QED
    BY <2>1, <2>2, <1>10
<1>12. at \in [0..m -> D]
  <2> HIDE DEF g
  <2>1. \A l \in 0..(m - 1) : at[l] \in D => at[l + 1] = g[l][at[l]]
    BY <1>5, <1>11
  <2>2. FollowsIn(at, m, x, g, D)
    BY <1>10, <1>11, <2>1 DEF FollowsIn
  <2>3. QED
    BY <1>1, <1>4, <1>6, <2>2, FollowsType
<1>13. QED
  BY <1>2, <1>11, <1>12 DEF m, D, step, x

------------------------------------------------------------------------------
\* The digits position i has at the first l levels are those of symbol.
Agrees(symbol, i, l) == \A k \in 0..(l - 1) : qv(k)[path(i)[k]] = digit(symbol, k)

\* One digit more.
LEMMA AgreesStep ==
  ASSUME NEW symbol, NEW i, NEW l \in Nat
  PROVE  /\ Agrees(symbol, i, 0)
         /\ Agrees(symbol, i, l + 1) <=> (Agrees(symbol, i, l) /\ qv(l)[path(i)[l]] = digit(symbol, l))
<1>1. Agrees(symbol, i, 0)
  BY DEF Agrees
<1>2. \A k \in 0..((l + 1) - 1) : k \in 0..(l - 1) \/ k = l
  OBVIOUS
<1>3. \A k \in 0..(l - 1) : k \in 0..((l + 1) - 1)
  OBVIOUS
<1>4. l \in 0..((l + 1) - 1)
  OBVIOUS
<1>5. QED
  BY <1>1, <1>2, <1>3, <1>4, Zenon DEF Agrees

\* The walks of the two boundaries of a position stay one apart as long as the
\* position has the digits of the symbol, its own path between them, and meet
\* where it has not.
LEMMA WalkStep ==
  ASSUME WellFormed, NEW symbol \in Nat, NEW i \in 0..(n - 1), NEW l \in 0..LastLevel
  PROVE  /\ walk(symbol, i + 1)[l] = walk(symbol, i)[l] + (IF Agrees(symbol, i, l) THEN 1 ELSE 0)
         /\ Agrees(symbol, i, l) => path(i)[l] = walk(symbol, i)[l]
<1> DEFINE m == LastLevel
           at == path(i)
           w == walk(symbol, i)
           u == walk(symbol, i + 1)
           A(k) == Agrees(symbol, i, k)
           Ok(k) == /\ u[k] = w[k] + (IF A(k) THEN 1 ELSE 0)
                    /\ A(k) => at[k] = w[k]
           Bad == {k \in Nat : k <= m /\ ~Ok(k)}
<1>1. m \in Nat /\ n \in Nat
  BY DEF WellFormed, LastLevel
<1>2. i \in 0..n /\ i + 1 \in 0..n
  BY <1>1
<1>3. /\ at \in [0..m -> 0..(n - 1)] /\ at[0] = i
      /\ \A k \in 0..(m - 1) : at[k + 1] = child(k, qv(k)[at[k]], at[k])
  BY PathIs
<1>4. /\ w \in [0..m -> 0..n] /\ w[0] = i
      /\ \A k \in 0..(m - 1) : w[k + 1] = child(k, digit(symbol, k), w[k])
  BY <1>2, WalkIs
<1>5. /\ u \in [0..m -> 0..n] /\ u[0] = i + 1
      /\ \A k \in 0..(m - 1) : u[k + 1] = child(k, digit(symbol, k), u[k])
  BY <1>2, WalkIs
<1>6. A(0) /\ \A k \in Nat : A(k + 1) <=> (A(k) /\ qv(k)[at[k]] = digit(symbol, k))
  BY AgreesStep
<1> SUFFICES Bad = {}
  BY <1>1
<1> HIDE DEF m, at, w, u, A
<1> SUFFICES ASSUME Bad # {} PROVE FALSE
  OBVIOUS
<1>7. PICK j \in Bad : \A k \in Bad : j <= k
  BY LeastNat
<1>8. j # 0
  BY <1>2, <1>3, <1>4, <1>5, <1>6, <1>7
<1> DEFINE k == j - 1
           d == digit(symbol, k)
           v == qv(k)
<1>9. k \in Nat /\ k \in 0..m /\ k \in 0..(m - 1) /\ k + 1 = j /\ Ok(k)
  <2>1. j \in Nat /\ j <= m
    BY <1>7
  <2>2. k \in Nat /\ k <= m /\ k < j /\ k \in 0..m /\ k \in 0..(m - 1) /\ k + 1 = j
    BY <1>1, <1>8, <2>1
  <2> HIDE DEF k, Ok
  <2>3. k \notin Bad
    BY <1>7, <2>1, <2>2
  <2>4. QED
    BY <2>2, <2>3
<1>10. /\ at[k + 1] = child(k, v[at[k]], at[k]) /\ w[k + 1] = child(k, d, w[k]) /\ u[k + 1] = child(k, d, u[k])
       /\ A(k + 1) <=> (A(k) /\ v[at[k]] = d)
  BY <1>3, <1>4, <1>5, <1>6, <1>9
<1>11. w[k] \in 0..n /\ u[k] \in 0..n /\ at[k] \in 0..(n - 1)
  BY <1>3, <1>4, <1>5, <1>9
<1>12. d \in Quads /\ \A x \in 0..n : child(k, d, x) \in 0..n /\ child(k, d, x) = ChildOf(v, n, d, x)
  <2>1. k \in 0..LastLevel
    BY <1>9 DEF m
  <2>2. d \in Quads
    BY <2>1, DigitType DEF WellFormed
  <2>3. QED
    BY <2>1, <2>2, ChildIs
<1>13. ~Ok(k + 1)
  BY <1>7, <1>9
<1> HIDE DEF k, d, v
<1>14. CASE ~A(k)
  <2>1. u[k] = w[k]
    BY <1>9, <1>11, <1>14
  <2>2. u[k + 1] = w[k + 1] /\ ~A(k + 1) /\ w[k + 1] \in 0..n
    BY <1>10, <1>11, <1>12, <1>14, <2>1
  <2>3. QED
    BY <1>13, <2>2
<1>15. CASE A(k)
  <2>1. u[k] = w[k] + 1 /\ at[k] = w[k]
    BY <1>9, <1>15
  <2>2. Count(v, d, w[k] + 1) = Count(v, d, w[k]) + (IF v[w[k]] = d THEN 1 ELSE 0) /\ Count(v, d, w[k]) \in Nat
    BY <1>11, CountStep, CountType
  <2>3. Smaller(v, n, d) \in Int
    <3>1. k \in 0..LastLevel
      BY <1>9 DEF m
    <3>2. \A p \in 0..(n - 1) : v[p] \in Quads
      BY <3>1 DEF v, WellFormed
    <3>3. Smaller(v, n, d) \in 0..n
      BY <1>1, <1>12, <3>2, SmallerStep
    <3>4. QED
      BY <3>3
  <2>4. child(k, d, w[k]) = ChildOf(v, n, d, w[k]) /\ child(k, d, u[k]) = ChildOf(v, n, d, w[k] + 1)
    BY <1>11, <1>12, <2>1
  <2>5. u[k + 1] = w[k + 1] + (IF v[w[k]] = d THEN 1 ELSE 0)
    BY <1>10, <2>2, <2>3, <2>4 DEF ChildOf
  <2>6. A(k + 1) <=> v[w[k]] = d
    BY <1>10, <1>15, <2>1
  <2>7. A(k + 1) => at[k + 1] = w[k + 1]
    BY <1>10, <2>1, <2>6
  <2>8. QED
    BY <1>13, <2>5, <2>6, <2>7
<1>16. QED
  BY <1>14, <1>15

\* So the ranks at the last level tell whether the position spells the symbol.
LEMMA RankStep ==
  ASSUME WellFormed, NEW symbol \in Nat, NEW i \in 0..(n - 1)
  PROVE  /\ rank_in(LastLevel, digit(symbol, LastLevel), walk(symbol, i + 1)[LastLevel])
              = rank_in(LastLevel, digit(symbol, LastLevel), walk(symbol, i)[LastLevel])
                + (IF Agrees(symbol, i, n_levels) THEN 1 ELSE 0)
         /\ Agrees(symbol, i, n_levels) => path(i)[LastLevel] = walk(symbol, i)[LastLevel]
<1> DEFINE m == LastLevel
           d == digit(symbol, m)
           v == qv(m)
           w == walk(symbol, i)[m]
           u == walk(symbol, i + 1)[m]
<1>1. m \in Nat /\ m \in 0..LastLevel /\ m + 1 = n_levels /\ n \in Nat
  BY DEF WellFormed, LastLevel
<1>2. u = w + (IF Agrees(symbol, i, m) THEN 1 ELSE 0) /\ (Agrees(symbol, i, m) => path(i)[m] = w)
  BY <1>1, WalkStep
<1>3. Agrees(symbol, i, n_levels) <=> (Agrees(symbol, i, m) /\ v[path(i)[m]] = d)
  <2>1. Agrees(symbol, i, m + 1) <=> (Agrees(symbol, i, m) /\ v[path(i)[m]] = d)
    BY <1>1, AgreesStep
  <2>2. QED
    BY <1>1, <2>1
<1>4. w \in Nat
  <2>1. walk(symbol, i) \in [0..LastLevel -> 0..n]
    BY <1>1, WalkIs
  <2>2. QED
    BY <1>1, <2>1
<1>5. Count(v, d, w + 1) = Count(v, d, w) + (IF v[w] = d THEN 1 ELSE 0) /\ Count(v, d, w) \in Nat
  BY <1>4, CountStep, CountType
<1>6. rank_in(m, d, u) = Count(v, d, u) /\ rank_in(m, d, w) = Count(v, d, w)
  BY DEF rank_in
<1> HIDE DEF m, d, v, w, u
<1>7. Count(v, d, u) = Count(v, d, w) + (IF Agrees(symbol, i, n_levels) THEN 1 ELSE 0)
  <2>1. CASE Agrees(symbol, i, m)
    <3>1. u = w + 1 /\ path(i)[m] = w
      BY <1>2, <2>1
    <3>2. Agrees(symbol, i, n_levels) <=> v[w] = d
      BY <1>3, <2>1, <3>1
    <3>3. QED
      BY <1>5, <3>1, <3>2
  <2>2. CASE ~Agrees(symbol, i, m)
    <3>1. u = w
      BY <1>2, <1>4, <2>2
    <3>2. QED
      BY <1>3, <1>5, <2>2, <3>1
  <2>3. QED
    BY <2>1, <2>2
<1>8. Agrees(symbol, i, n_levels) => path(i)[m] = w
  BY <1>2, <1>3
<1>9. QED
  BY <1>6, <1>7, <1>8 DEF m, d, w, u

\* A position has all the digits of a symbol exactly if it spells the symbol.
LEMMA AgreesIs ==
  ASSUME WellFormed, NEW i \in 0..(n - 1)
  PROVE  /\ spelled(path(i)) \in Nat /\ spelled(path(i)) < Quarters(n_levels)
         /\ Agrees(spelled(path(i)), i, n_levels)
         /\ \A symbol \in Nat : (symbol < Quarters(n_levels) /\ Agrees(symbol, i, n_levels))
                                => symbol = spelled(path(i))
<1> DEFINE at == path(i)
           m == n_levels
           dg == [l \in 0..(m - 1) |-> qv(l)[at[l]]]
<1>1. m \in Nat /\ LastLevel = m - 1
  BY DEF WellFormed, LastLevel
<1>2. at \in [0..LastLevel -> 0..(n - 1)]
  BY PathIs
<1>3. PICK val \in [0..m -> Nat] : /\ val[0] = 0
                                   /\ \A l \in 0..(m - 1) : val[l + 1] = val[l] * 4 + qv(l)[at[l]]
                                   /\ spelled(at) = val[m]
  BY <1>2, SpelledIs
<1>4. \A l \in 0..(m - 1) : dg[l] \in Quads
  <2>1. \A l \in 0..LastLevel, p \in 0..(n - 1) : qv(l)[p] \in Quads
    BY DEF WellFormed
  <2>2. QED
    BY <1>1, <1>2, <2>1
<1>5. \A l \in 0..(m - 1) : val[l + 1] = val[l] * 4 + dg[l]
  BY <1>3
<1>6. ASSUME NEW symbol
      PROVE  Agrees(symbol, i, m) <=> \A l \in 0..(m - 1) : two_bits(symbol, 2 * (m - 1 - l)) = dg[l]
  BY DEF Agrees, digit
<1> HIDE DEF at, m, dg
<1>7. /\ \A l \in 0..(m - 1) : two_bits(val[m], 2 * (m - 1 - l)) = dg[l]
      /\ val[m] < Quarters(m)
      /\ \A x \in Nat :
           (x < Quarters(m) /\ \A l \in 0..(m - 1) : two_bits(x, 2 * (m - 1 - l)) = dg[l])
           => x = val[m]
  BY <1>1, <1>3, <1>4, <1>5, Spelling
<1>8. val[m] \in Nat
  BY <1>1, <1>3
<1>9. QED
  BY <1>3, <1>6, <1>7, <1>8 DEF at, m

\* A tree over `indexed`: its positions spell that sequence, and the digits of
\* its levels are enough for the symbols up to sigma.
Indexes ==
  /\ WellFormed
  /\ \A i \in 0..(n - 1) : indexed[i] = spelled(path(i))
  /\ sigma \in Nat /\ sigma < Quarters(n_levels)

\* The occurrences of a symbol before i are those between the walks of 0 and i.
LEMMA RankIs ==
  ASSUME Indexes, NEW symbol \in Nat, symbol < Quarters(n_levels), NEW i \in 0..n
  PROVE  rank_between(symbol, walk(symbol, 0)[LastLevel], walk(symbol, i)[LastLevel])
           = Count(indexed, symbol, i)
<1> DEFINE R(k) == rank_in(LastLevel, digit(symbol, LastLevel), walk(symbol, k)[LastLevel])
           C(k) == Count(indexed, symbol, k)
           Bad == {k \in Nat : k <= n /\ R(k) - R(0) # C(k)}
<1>0. n \in Nat /\ WellFormed
  BY DEF Indexes, WellFormed
<1>1. \A k \in 0..n : R(k) \in Nat
  <2>1. ASSUME NEW k \in 0..n PROVE R(k) \in Nat
    <3>1. walk(symbol, k) \in [0..LastLevel -> 0..n] /\ LastLevel \in 0..LastLevel
      BY <1>0, WalkIs DEF WellFormed, LastLevel
    <3>2. walk(symbol, k)[LastLevel] \in Nat
      BY <3>1, <1>0
    <3>3. QED
      BY <3>2, CountType DEF rank_in
  <2>2. QED
    BY <2>1
<1>2. \A k \in 0..(n - 1) : R(k + 1) = R(k) + (IF indexed[k] = symbol THEN 1 ELSE 0)
  <2>1. ASSUME NEW k \in 0..(n - 1) PROVE R(k + 1) = R(k) + (IF indexed[k] = symbol THEN 1 ELSE 0)
    <3>1. R(k + 1) = R(k) + (IF Agrees(symbol, k, n_levels) THEN 1 ELSE 0)
      BY <1>0, RankStep
    <3>2. indexed[k] = spelled(path(k))
      BY DEF Indexes
    <3>3. Agrees(symbol, k, n_levels) <=> symbol = spelled(path(k))
      BY <1>0, AgreesIs
    <3> HIDE DEF R
    <3>4. QED
      BY <3>1, <3>2, <3>3
  <2>2. QED
    BY <2>1
<1>3. \A k \in 0..(n - 1) : C(k + 1) = C(k) + (IF indexed[k] = symbol THEN 1 ELSE 0) /\ C(k) \in Nat
  BY CountStep, CountType
<1>4. C(0) = 0
  BY CountZero
<1>5. rank_between(symbol, walk(symbol, 0)[LastLevel], walk(symbol, i)[LastLevel]) = R(i) - R(0)
  BY DEF rank_between
<1> HIDE DEF R, C
<1>6. Bad = {}
  <2> SUFFICES ASSUME Bad # {} PROVE FALSE
    OBVIOUS
  <2>1. PICK j \in Bad : \A k \in Bad : j <= k
    BY LeastNat
  <2>2. j # 0
    <3>1. R(0) \in Nat
      BY <1>0, <1>1
    <3>2. QED
      BY <2>1, <3>1, <1>4
  <2>3. j \in Nat /\ j <= n /\ R(j) - R(0) # C(j)
    BY <2>1
  <2>4. j - 1 \in Nat /\ j - 1 <= n /\ j - 1 \in 0..(n - 1) /\ (j - 1) + 1 = j /\ j - 1 \in 0..n /\ j - 1 < j
    BY <1>0, <2>2, <2>3
  <2>5. j - 1 \notin Bad
    BY <2>1, <2>3, <2>4
  <2>6. R(j - 1) - R(0) = C(j - 1)
    BY <2>4, <2>5
  <2>7. R((j - 1) + 1) = R(j - 1) + (IF indexed[j - 1] = symbol THEN 1 ELSE 0)
    BY <1>2, <2>4
  <2>8. C((j - 1) + 1) = C(j - 1) + (IF indexed[j - 1] = symbol THEN 1 ELSE 0)
    BY <1>3, <2>4
  <2>9. R(j - 1) \in Nat /\ R(0) \in Nat /\ R(j) \in Nat /\ C(j - 1) \in Nat
    BY <1>0, <1>1, <1>3, <2>3, <2>4
  <2>10. QED
    BY <2>3, <2>4, <2>6, <2>7, <2>8, <2>9
<1>7. R(i) - R(0) = C(i)
  <2>1. i \in Nat /\ i <= n /\ i \notin Bad
    BY <1>0, <1>6
  <2>2. QED
    BY <2>1
<1>8. QED
  BY <1>5, <1>7 DEF C

\* What is true of a tree that has been built: an empty one has no levels, and
\* any other indexes its sequence.
Ready ==
  /\ n \in Nat
  /\ n = 0 => n_levels = 0
  /\ n > 0 => Indexes

\* The symbols asked for are numbers.
LEMMA ProbeType == \A symbol \in Probes : symbol \in Nat
BY TreeAssumption DEF Ts

\* get, rank and get_and_rank answer for the indexed sequence.
LEMMA PointQueriesFollow == ASSUME Ready PROVE PointQueriesExact
<1>0. n \in Nat
  BY DEF Ready
<1>1. ASSUME NEW a, NEW i PROVE Occs(a, 0, i) = Count(indexed, a, i)
  BY DEF Occs, Count
<1>2. get(n) = None /\ get_and_rank(n) = None
  BY <1>0 DEF get, get_and_rank
<1>3. ASSUME NEW i \in 0..(n - 1) 
      PROVE  get(i) = indexed[i] /\ get_and_rank(i) = <<indexed[i], Occs(indexed[i], 0, i + 1)>>
  <2>1. n > 0 /\ i < n /\ i \in 0..n /\ i \in Nat
    BY <1>0
  <2>2. Indexes /\ WellFormed
    BY <2>1 DEF Ready, Indexes
  <2>3. indexed[i] = spelled(path(i))
    BY <2>2 DEF Indexes
  <2>4. get(i) = spelled(path(i))
    BY <2>1, <1>0 DEF get
  <2> DEFINE symbol == spelled(path(i))
  <2>5. symbol \in Nat /\ symbol < Quarters(n_levels) /\ Agrees(symbol, i, n_levels)
    BY <2>2, AgreesIs
  <2>6. n_levels # 0
    BY <2>2 DEF WellFormed
  <2>7. get_and_rank(i) = <<symbol, rank_between(symbol, walk(symbol, 0)[LastLevel], path(i)[LastLevel]) + 1>>
    BY <2>1, <2>6, <1>0 DEF get_and_rank
  <2> HIDE DEF symbol
  <2>8. path(i)[LastLevel] = walk(symbol, i)[LastLevel]
    BY <2>2, <2>5, RankStep
  <2>9. rank_between(symbol, walk(symbol, 0)[LastLevel], walk(symbol, i)[LastLevel]) = Count(indexed, symbol, i)
    BY <2>1, <2>2, <2>5, RankIs
  <2>10. Count(indexed, symbol, i + 1) = Count(indexed, symbol, i) + 1
    <3>1. indexed[i] = symbol
      BY <2>3 DEF symbol
    <3>2. Count(indexed, symbol, i) \in Nat
      BY <2>1, CountType
    <3>3. QED
      BY <2>1, <3>1, <3>2, CountStep
  <2>11. QED
    BY <1>1, <2>3, <2>4, <2>7, <2>8, <2>9, <2>10 DEF symbol
<1>4. ASSUME NEW symbol \in Probes, NEW i \in 0..(n + 1)
      PROVE  rank(symbol, i) = IF i > n \/ symbol > sigma THEN None ELSE Occs(symbol, 0, i)
  <2>1. CASE i > n \/ symbol > sigma
    BY <2>1 DEF rank
  <2>2. CASE ~(i > n \/ symbol > sigma)
    <3>0. symbol \in Nat /\ i \in 0..n
      BY <1>0, <2>2, ProbeType
    <3>1. CASE n = 0
      <4>1. n_levels = 0 /\ i = 0
        BY <1>0, <3>0, <3>1 DEF Ready
      <4>2. rank(symbol, i) = 0
        BY <2>2, <4>1 DEF rank
      <4>3. Occs(symbol, 0, i) = 0
        BY <1>1, <4>1, CountZero
      <4>4. QED
        BY <2>2, <4>2, <4>3
    <3>2. CASE n > 0
      <4>1. Indexes /\ n_levels # 0
        BY <3>2 DEF Ready, Indexes, WellFormed
      <4>2. symbol < Quarters(n_levels)
        <5>1. sigma \in Nat /\ sigma < Quarters(n_levels) /\ Quarters(n_levels) \in Nat
          BY <4>1, QuartersStep DEF Indexes, WellFormed
        <5>2. QED
          BY <5>1, <2>2, <3>0
      <4>3. rank(symbol, i) = rank_between(symbol, walk(symbol, 0)[LastLevel], walk(symbol, i)[LastLevel])
        BY <2>2, <4>1 DEF rank
      <4>4. rank(symbol, i) = Count(indexed, symbol, i)
        BY <3>0, <4>1, <4>2, <4>3, RankIs
      <4>5. QED
        BY <1>1, <2>2, <4>4
    <3>3. QED
      BY <1>0, <3>1, <3>2
  <2>3. QED
    BY <2>1, <2>2
<1>5. QED
  BY <1>2, <1>3, <1>4 DEF PointQueriesExact

------------------------------------------------------------------------------
\* The levels a symbol of T needs hold all its digits, and T has as many.
LEMMA LevelsFor ==
  ASSUME NEW x \in Ts
  PROVE  /\ levels_for(x) \in 1..(T_BITS \div 2)
         /\ 2 * levels_for(x) <= T_BITS
         /\ x < Quarters(levels_for(x))
<1> DEFINE k == msb(x)
           L == levels_for(x)
<1>1. T_BITS \in Nat \ {0} /\ T_BITS % 2 = 0
  BY TreeAssumption
<1>2. x \in Nat /\ x < 2 ^ T_BITS
  <2>1. 2 ^ T_BITS \in Nat
    BY <1>1, PowerStep
  <2>2. QED
    BY <2>1 DEF Ts
<1>3. k \in 0..(T_BITS - 1) /\ x < 2 ^ (k + 1)
  <2>1. CASE x = 0
    <3>1. k = 0
      BY <2>1 DEF msb
    <3>2. 2 ^ (k + 1) \in Nat \ {0}
      BY <3>1, PowerStep
    <3> HIDE DEF k
    <3>3. k \in 0..(T_BITS - 1)
      BY <1>1, <3>1
    <3>4. QED
      BY <2>1, <3>2, <3>3
  <2>2. CASE x # 0
    <3> DEFINE P(j) == 2 ^ j <= x /\ x < 2 ^ (j + 1)
               U == {j \in Nat : x < 2 ^ (j + 1)}
    <3>1. T_BITS - 1 \in U
      <4>1. (T_BITS - 1) + 1 = T_BITS /\ T_BITS - 1 \in Nat
        BY <1>1
      <4>2. QED
        BY <4>1, <1>2
    <3>2. PICK j \in U : \A i \in U : j <= i
      BY <3>1, LeastNat
    <3>3. j \in 0..(T_BITS - 1) /\ j \in Nat /\ x < 2 ^ (j + 1)
      BY <1>1, <3>1, <3>2
    <3>4. 2 ^ j <= x
      <4>1. CASE j = 0
        <5>1. 2 ^ 0 = 1
          OBVIOUS
        <5>2. QED
          BY <1>2, <2>2, <4>1, <5>1
      <4>2. CASE j # 0
        <5>1. j - 1 \in Nat /\ (j - 1) + 1 = j
          BY <3>3, <4>2
        <5>2. j - 1 \notin U
          BY <3>2, <3>3, <5>1
        <5>3. ~(x < 2 ^ ((j - 1) + 1))
          BY <5>1, <5>2
        <5>4. 2 ^ j \in Nat
          BY <3>3, PowerStep
        <5>5. QED
          BY <1>2, <5>1, <5>3, <5>4
      <4>3. QED
        BY <4>1, <4>2
    <3>5. k = CHOOSE i \in 0..(T_BITS - 1) : P(i)
      BY <2>2 DEF msb
    <3>6. \E i \in 0..(T_BITS - 1) : P(i)
      BY <3>3, <3>4
    <3> HIDE DEF k, P
    <3>7. k \in 0..(T_BITS - 1) /\ P(k)
      BY <3>5, <3>6
    <3>8. QED
      BY <3>7 DEF P
  <2>3. QED
    BY <2>1, <2>2
<1>4. L = (k + 2) \div 2
  BY DEF levels_for
<1> HIDE DEF k, L
<1>5. L \in 1..(T_BITS \div 2) /\ 2 * L <= T_BITS /\ 2 * L >= k + 1 /\ L \in Nat
  BY <1>1, <1>3, <1>4
<1>6. 2 ^ (k + 1) <= 2 ^ (2 * L)
  BY <1>3, <1>5, PowerMono
<1>7. 2 ^ (k + 1) \in Nat /\ 2 ^ (2 * L) \in Nat
  BY <1>3, <1>5, PowerStep
<1>8. x < 2 ^ (2 * L)
  BY <1>2, <1>3, <1>6, <1>7
<1>9. QED
  BY <1>5, <1>8 DEF L, Quarters

\* The bucket of a symbol is its digit: neither the cast nor the shift loses bits.
LEMMA BucketIs ==
  ASSUME NEW x \in Ts, NEW s \in 0..(T_BITS - 1)
  PROVE  bucket(x, s) = two_bits(x, s)
<1>1. T_BITS \in Nat /\ USIZE_BITS \in Nat /\ T_BITS <= USIZE_BITS
  BY TreeAssumption
<1>2. 2 ^ T_BITS \in Nat /\ 2 ^ USIZE_BITS \in Nat \ {0} /\ 2 ^ T_BITS <= 2 ^ USIZE_BITS
  BY <1>1, PowerStep, PowerMono
<1> DEFINE P == 2 ^ USIZE_BITS
<1>3. x \in Nat /\ x < P
  BY <1>2 DEF Ts
<1>4. P \in Nat \ {0}
  BY <1>2
<1>5. usize(x) = x % P
  BY DEF usize
<1> HIDE DEF P
<1>6. usize(x) = x
  <2>1. x = P * 0 + x /\ x \in 0..(P - 1)
    BY <1>3, <1>4
  <2>2. x % P = x
    BY <1>3, <1>4, <2>1, DivUnique
  <2>3. QED
    BY <1>5, <2>2
<1>7. s % USIZE_BITS = s
  <2>1. s = USIZE_BITS * 0 + s /\ s \in 0..(USIZE_BITS - 1) /\ USIZE_BITS \in Nat \ {0} /\ s \in Nat
    BY <1>1
  <2>2. QED
    BY <2>1, DivUnique
<1>8. QED
  BY <1>6, <1>7 DEF bucket, two_bits

\* Where from_owned's partition puts a symbol is where the queries look for it.
LEMMA DestinationIs ==
  ASSUME n \in Nat, sequence \in [0..(n - 1) -> Ts], shift \in 0..(T_BITS - 1),
         NEW v, v = [p \in 0..(n - 1) |-> two_bits(sequence[p], shift)],
         NEW p \in 0..(n - 1)
  PROVE  destination(p) = ChildOf(v, n, v[p], p)
<1> DEFINE b == bucket(sequence[p], shift)
           A == {q \in DOMAIN sequence : two_bits(sequence[q], shift) < b}
           B == {q \in 0..(p - 1) : bucket(sequence[q], shift) = b}
<1>1. \A q \in 0..(n - 1) : bucket(sequence[q], shift) = two_bits(sequence[q], shift)
  BY BucketIs
<1>2. b = v[p] /\ \A q \in 0..(n - 1) : v[q] = two_bits(sequence[q], shift)
  BY <1>1
<1>3. A = {j \in 0..(n - 1) : v[j] < v[p]}
  BY <1>2
<1>4. B = {j \in 0..(p - 1) : v[j] = v[p]}
  <2>1. \A q \in 0..(p - 1) : q \in 0..(n - 1)
    OBVIOUS
  <2>2. \A q \in 0..(p - 1) : bucket(sequence[q], shift) = b <=> v[q] = v[p]
    BY <1>1, <1>2, <2>1
  <2>3. QED
    BY <2>2
<1>5. destination(p) = Cardinality(A) + Cardinality(B)
  BY DEF destination
<1> HIDE DEF A, B, b
<1>6. Cardinality(A) = Smaller(v, n, v[p]) /\ Cardinality(B) = Count(v, v[p], p)
  BY <1>3, <1>4 DEF Smaller, Count
<1>7. Smaller(v, n, v[p]) \in Int /\ Count(v, v[p], p) \in Int
  <2>1. \A q \in 0..(n - 1) : v[q] \in Quads
    <3>1. \A q \in 0..(n - 1) : sequence[q] \in Nat
      BY DEF Ts
    <3>2. shift \in Nat
      OBVIOUS
    <3>3. QED
      BY <1>2, <3>1, <3>2, DropTwoBits
  <2>2. Smaller(v, n, v[p]) \in 0..n
    BY <2>1, SmallerStep
  <2>3. QED
    BY <2>2, CountType
<1>8. QED
  BY <1>5, <1>6, <1>7 DEF ChildOf

------------------------------------------------------------------------------
(* The inductive invariant.                                                *)

\* at[l][p] is where the symbol that began at p stands in the order of level l,
\* for the first m levels of Q: the digit there is its own, and its way to the
\* next level is the one the queries compute.
IsTrack(at, m, Q, N, D, L) ==
  /\ at \in [0..m -> [0..(N - 1) -> 0..(N - 1)]]
  /\ \A p \in 0..(N - 1) : at[0][p] = p
  /\ \A l \in 0..(m - 1) : \A p \in 0..(N - 1) :
       /\ Q[l + 1].qv[at[l][p]] = two_bits(D[p], 2 * (L - 1 - l))
       /\ at[l + 1][p] = ChildOf(Q[l + 1].qv, N, Q[l + 1].qv[at[l][p]], at[l][p])

\* The symbols stand in the order Q has reached.
Arrived(at, m, S, N, D) == \A p \in 0..(N - 1) : S[at[m][p]] = D[p]

\* from_owned, after Len(qvs) iterations.
Partitioned ==
  /\ origin = "owned" /\ n > 0
  /\ data \in [0..(n - 1) -> Ts]
  /\ sigma = Max({data[p] : p \in 0..(n - 1)})
  /\ n_levels = levels_for(sigma)
  /\ qvs \in Seq(LevelsOfLength(n)) /\ Len(qvs) <= n_levels
  /\ sequence \in [0..(n - 1) -> Ts] /\ partition \in [0..(n - 1) -> Ts]
  /\ \E at : IsTrack(at, Len(qvs), qvs, n, data, n_levels) /\ Arrived(at, Len(qvs), sequence, n, data)

\* What from_parts is called with.
Handed ==
  /\ origin = "parts" /\ sigma \in Ts
  /\ qvs \in Seq(UNION {LevelsOfLength(m) : m \in PartLens})

\* The invariant of the construction.
TreeInv ==
  /\ n \in Nat /\ n <= MaxLen
  /\ pc \in {"new", "level", "parts", "built", "rejected"}
  /\ pc = "new" => /\ origin = "owned" /\ data \in [0..(n - 1) -> Ts]
                   /\ sequence = data /\ partition \in [0..(n - 1) -> Ts]
                   /\ qvs = <<>> /\ n_levels = 0
  /\ pc = "level" => /\ Partitioned /\ Len(qvs) < n_levels
                     /\ shift = 2 * (n_levels - 1 - Len(qvs))
  /\ pc = "parts" => Handed
  /\ pc = "built" => \/ n = 0 /\ n_levels = 0
                     \/ Partitioned /\ Len(qvs) = n_levels
                     \/ n > 0 /\ Handed /\ accepts

\* The symbols of a sequence have a largest one.
LEMMA SigmaIs ==
  ASSUME NEW N \in Nat, N > 0, NEW D \in [0..(N - 1) -> Ts]
  PROVE  LET top == Max({D[p] : p \in 0..(N - 1)})
         IN top \in Ts /\ \A p \in 0..(N - 1) : D[p] <= top
<1> DEFINE T == {D[p] : p \in 0..(N - 1)}
<1>1. 2 ^ T_BITS - 1 \in Nat
  BY TreeAssumption, PowerStep
<1>2. T \in SUBSET Nat /\ \A y \in T : y \in Ts /\ y <= 2 ^ T_BITS - 1
  BY <1>1 DEF Ts
<1>3. D[0] \in T
  OBVIOUS
<1>4. \A p \in 0..(N - 1) : D[p] \in T
  OBVIOUS
<1> HIDE DEF T
<1>5. Max(T) \in T /\ \A y \in T : y <= Max(T)
  BY <1>1, <1>2, <1>3, MaxNat
<1>6. QED
  BY <1>2, <1>4, <1>5 DEF T

\* The track of a finished construction is the path of the queries.
LEMMA TrackIsPath ==
  ASSUME WellFormed, NEW D, NEW at, IsTrack(at, n_levels, qvs, n, D, n_levels),
         NEW p \in 0..(n - 1), NEW l \in 0..LastLevel
  PROVE  path(p)[l] = at[l][p]
<1> DEFINE m == LastLevel
           f == path(p)
           Bad == {k \in Nat : k <= m /\ f[k] # at[k][p]}
<1>1. m \in Nat /\ n_levels = m + 1
  BY DEF WellFormed, LastLevel
<1>2. f[0] = p /\ \A k \in 0..(m - 1) : f[k + 1] = child(k, qv(k)[f[k]], f[k])
  BY PathIs
<1>3. at[0][p] = p
  BY DEF IsTrack
<1>4. \A k \in 0..(m - 1) : at[k][p] \in 0..(n - 1) /\ at[k + 1][p] = child(k, qv(k)[at[k][p]], at[k][p])
  <2>1. ASSUME NEW k \in 0..(m - 1)
        PROVE  at[k][p] \in 0..(n - 1) /\ at[k + 1][p] = child(k, qv(k)[at[k][p]], at[k][p])
    <3>1. k \in 0..(n_levels - 1) /\ k \in 0..n_levels /\ k \in 0..LastLevel
      BY <1>1
    <3>2. at[k][p] \in 0..(n - 1)
      BY <3>1 DEF IsTrack
    <3>3. at[k + 1][p] = ChildOf(qvs[k + 1].qv, n, qvs[k + 1].qv[at[k][p]], at[k][p])
      BY <3>1 DEF IsTrack
    <3>4. QED
      BY <3>1, <3>2, <3>3, ChildIs DEF qv
  <2>2. QED
    BY <2>1
<1> HIDE DEF m, f
<1>5. Bad = {}
  <2> SUFFICES ASSUME Bad # {} PROVE FALSE
    OBVIOUS
  <2>1. PICK j \in Bad : \A k \in Bad : j <= k
    BY LeastNat
  <2>2. j \in Nat /\ j <= m /\ f[j] # at[j][p] /\ j # 0
    BY <1>2, <1>3, <2>1
  <2>3. j - 1 \in Nat /\ j - 1 <= m /\ j - 1 < j /\ j - 1 \in 0..(m - 1) /\ (j - 1) + 1 = j
    BY <1>1, <2>2
  <2>4. f[j - 1] = at[j - 1][p]
    <3>1. j - 1 \notin Bad
      BY <2>1, <2>2, <2>3
    <3>2. QED
      BY <2>3, <3>1
  <2>5. f[(j - 1) + 1] = child(j - 1, qv(j - 1)[f[j - 1]], f[j - 1])
    BY <1>2, <2>3
  <2>6. at[(j - 1) + 1][p] = child(j - 1, qv(j - 1)[at[j - 1][p]], at[j - 1][p])
    BY <1>4, <2>3
  <2>7. QED
    BY <2>2, <2>3, <2>4, <2>5, <2>6
<1>6. l \in Nat /\ l <= m /\ l \notin Bad
  BY <1>1, <1>5 DEF m
<1>7. QED
  BY <1>6 DEF f

\* What from_owned leaves indexes its argument.
LEMMA OwnedReady ==
  ASSUME n \in Nat, Partitioned, Len(qvs) = n_levels
  PROVE  Indexes
<1>1. sigma \in Ts /\ \A p \in 0..(n - 1) : data[p] <= sigma
  BY SigmaIs DEF Partitioned
<1>2. n_levels \in Nat \ {0} /\ sigma < Quarters(n_levels) /\ sigma \in Nat
  <2>1. levels_for(sigma) \in 1..(T_BITS \div 2) /\ sigma < Quarters(levels_for(sigma))
    BY <1>1, LevelsFor
  <2>2. n_levels = levels_for(sigma)
    BY DEF Partitioned
  <2>3. sigma \in Nat
    BY <1>1 DEF Ts
  <2>4. QED
    BY <2>1, <2>2, <2>3
<1>3. WellFormed
  <2>1. ASSUME NEW l \in 0..LastLevel
        PROVE  qvs[l + 1].len = n /\ \A p \in 0..(n - 1) : qv(l)[p] \in Quads
    <3>1. l + 1 \in 1..Len(qvs)
      BY <1>2 DEF LastLevel
    <3>2. qvs[l + 1] \in LevelsOfLength(n)
      BY <3>1 DEF Partitioned
    <3>3. QED
      BY <3>2 DEF LevelsOfLength, qv
  <2>2. QED
    BY <1>2, <2>1 DEF WellFormed
<1>4. indexed = data
  BY DEF indexed, Partitioned
<1>5. PICK at : IsTrack(at, n_levels, qvs, n, data, n_levels)
  BY DEF Partitioned
<1>6. ASSUME NEW i \in 0..(n - 1) PROVE data[i] = spelled(path(i))
  <2>1. data[i] \in Nat /\ data[i] < Quarters(n_levels)
    <3>1. data[i] \in Nat /\ data[i] <= sigma
      <4>1. data \in [0..(n - 1) -> Ts]
        BY DEF Partitioned
      <4>2. data[i] \in Ts
        BY <4>1
      <4>3. QED
        BY <1>1, <4>2 DEF Ts
    <3>2. Quarters(n_levels) \in Nat
      BY <1>2, QuartersStep
    <3>3. QED
      BY <3>1, <3>2, <1>2
  <2>2. ASSUME NEW k \in 0..(n_levels - 1) PROVE qv(k)[path(i)[k]] = digit(data[i], k)
    <3>1. k \in 0..LastLevel
      BY DEF LastLevel
    <3>2. path(i)[k] = at[k][i]
      BY <3>1, <1>3, <1>5, TrackIsPath
    <3>3. qvs[k + 1].qv[at[k][i]] = two_bits(data[i], 2 * (n_levels - 1 - k))
      BY <1>5 DEF IsTrack
    <3>4. QED
      BY <3>2, <3>3 DEF qv, digit
  <2>3. Agrees(data[i], i, n_levels)
    BY <2>2 DEF Agrees
  <2>4. QED
    BY <1>3, <2>1, <2>3, AgreesIs
<1>7. QED
  BY <1>2, <1>3, <1>4, <1>6 DEF Indexes

\* Levels that from_parts accepts index what they decode to.
LEMMA PartsReady ==
  ASSUME n \in Nat, n > 0, Handed, accepts
  PROVE  Indexes
<1>1. /\ Len(qvs) = n_levels /\ n_levels = levels_for(sigma)
      /\ \A l \in 0..LastLevel : qvs[l + 1].len = n
  BY DEF accepts, level_lens_agree
<1>2. n_levels \in Nat \ {0} /\ sigma < Quarters(n_levels) /\ sigma \in Nat
  <2>1. levels_for(sigma) \in 1..(T_BITS \div 2) /\ sigma < Quarters(levels_for(sigma))
    BY LevelsFor DEF Handed
  <2>2. sigma \in Nat
    BY DEF Handed, Ts
  <2>3. QED
    BY <1>1, <2>1, <2>2
<1>3. WellFormed
  <2>1. ASSUME NEW l \in 0..LastLevel
        PROVE  qvs[l + 1].len = n /\ \A p \in 0..(n - 1) : qv(l)[p] \in Quads
    <3>1. l + 1 \in 1..Len(qvs)
      BY <1>1, <1>2 DEF LastLevel
    <3>2. qvs[l + 1] \in UNION {LevelsOfLength(m) : m \in PartLens}
      BY <3>1 DEF Handed
    <3>3. PICK m \in PartLens : qvs[l + 1] \in LevelsOfLength(m)
      BY <3>2
    <3>4. qvs[l + 1].len = m /\ qvs[l + 1].qv \in [0..(m - 1) -> Quads]
      BY <3>3 DEF LevelsOfLength
    <3>5. m = n
      BY <1>1, <3>4
    <3>6. QED
      BY <3>4, <3>5 DEF qv
  <2>2. QED
    BY <1>2, <2>1 DEF WellFormed
<1>4. ASSUME NEW i \in 0..(n - 1) PROVE indexed[i] = spelled(path(i))
  <2>1. indexed[i] = get(i)
    BY DEF indexed, Handed
  <2>2. QED
    BY <2>1 DEF get
<1>5. QED
  BY <1>2, <1>3, <1>4 DEF Indexes

\* So the invariant has the tree ready when it is built.
LEMMA BuiltIsReady == ASSUME TreeInv, Built PROVE Ready
<1>1. n \in Nat
  BY DEF TreeInv
<1>2. CASE n = 0 /\ n_levels = 0
  BY <1>1, <1>2 DEF Ready
<1>3. CASE Partitioned /\ Len(qvs) = n_levels
  <2>1. n > 0
    BY <1>3 DEF Partitioned
  <2>2. QED
    BY <1>1, <1>3, <2>1, OwnedReady DEF Ready
<1>4. CASE n > 0 /\ Handed /\ accepts
  BY <1>1, <1>4, PartsReady DEF Ready
<1>5. QED
  BY <1>2, <1>3, <1>4 DEF TreeInv, Built

\* The symbols of the sequences are symbols of T, and so is 0.
LEMMA SymbolType == Symbols \subseteq Ts /\ PartSigmas \subseteq Ts /\ 0 \in Ts /\ MaxLen \in Nat
<1>1. 2 ^ T_BITS \in Nat \ {0}
  BY TreeAssumption, PowerStep
<1>2. 0 \in Ts
  BY <1>1 DEF Ts
<1>3. QED
  BY <1>2, TreeAssumption

\* It holds when a constructor is called.
LEMMA InitTree == Init => TreeInv
<1> SUFFICES ASSUME Init PROVE TreeInv
  OBVIOUS
<1>1. partition = [p \in 0..(n - 1) |-> 0] /\ sequence = data
  BY DEF Init
<1>2. partition \in [0..(n - 1) -> Ts]
  BY <1>1, SymbolType
<1>3. CASE /\ origin = "owned" /\ pc = "new" /\ n \in 0..MaxLen
           /\ data \in [0..(n - 1) -> Symbols] /\ n_levels = 0 /\ qvs = <<>>
  <2>1. n \in Nat /\ n <= MaxLen
    BY <1>3, SymbolType
  <2>2. data \in [0..(n - 1) -> Ts]
    BY <1>3, SymbolType
  <2>3. QED
    BY <1>1, <1>2, <1>3, <2>1, <2>2 DEF TreeInv
<1>4. CASE /\ origin = "parts" /\ pc = "parts" /\ n \in PartLens /\ sigma \in PartSigmas
           /\ \E k \in 0..2 : qvs \in [1..k -> UNION {LevelsOfLength(m) : m \in PartLens}]
  <2>1. n \in Nat /\ n <= MaxLen
    BY <1>4, TreeAssumption
  <2>2. sigma \in Ts
    BY <1>4, SymbolType
  <2> DEFINE S == UNION {LevelsOfLength(m) : m \in PartLens}
  <2>3. PICK k \in 0..2 : qvs \in [1..k -> S]
    BY <1>4
  <2> HIDE DEF S
  <2>4. qvs \in Seq(S)
    BY <2>3
  <2>5. Handed
    BY <1>4, <2>2, <2>4 DEF Handed, S
  <2>6. QED
    BY <1>4, <2>1, <2>5 DEF TreeInv
<1>5. QED
  BY <1>3, <1>4 DEF Init

\* The first iteration starts with every symbol where it was.
LEMMA StartTree == TreeInv /\ Start => TreeInv'
<1> SUFFICES ASSUME TreeInv, Start PROVE TreeInv'
  OBVIOUS
<1>1. /\ n \in Nat /\ origin = "owned" /\ data \in [0..(n - 1) -> Ts]
      /\ sequence = data /\ partition \in [0..(n - 1) -> Ts] /\ qvs = <<>> /\ n_levels = 0
  BY DEF TreeInv, Start
<1>2. UNCHANGED <<origin, data, n, qvs, sequence, partition>>
  BY DEF Start
<1>3. CASE n = 0
  <2>1. pc' = "built" /\ n_levels' = n_levels
    BY <1>3 DEF Start
  <2>2. QED
    BY <1>1, <1>2, <1>3, <2>1 DEF TreeInv
<1>4. CASE n # 0
  <2>1. /\ sigma' = Max({data[p] : p \in 0..(n - 1)}) /\ n_levels' = levels_for(sigma')
        /\ shift' = 2 * (n_levels' - 1) /\ pc' = "level"
    BY <1>4 DEF Start
  <2>2. sigma' \in Ts
    BY <1>1, <1>4, <2>1, SigmaIs
  <2>3. n_levels' \in 1..(T_BITS \div 2)
    BY <2>1, <2>2, LevelsFor
  <2>4. n_levels' \in Nat /\ n_levels' > 0
    BY <2>3
  <2>5. qvs' = <<>> /\ Len(qvs') = 0 /\ qvs' \in Seq(LevelsOfLength(n))
    BY <1>1, <1>2
  <2> DEFINE at == [l \in 0..0 |-> [p \in 0..(n - 1) |-> p]]
  <2>6. IsTrack(at, 0, qvs', n, data, n_levels')
    BY <1>1 DEF IsTrack
  <2>7. Arrived(at, 0, sequence, n, data)
    BY <1>1 DEF Arrived
  <2> HIDE DEF at
  <2>8. \E a : IsTrack(a, Len(qvs'), qvs', n', data', n_levels') /\ Arrived(a, Len(qvs'), sequence', n', data')
    BY <1>2, <2>5, <2>6, <2>7
  <2>9. Partitioned'
    BY <1>1, <1>2, <1>4, <2>1, <2>4, <2>5, <2>8 DEF Partitioned
  <2>10. shift' = 2 * (n_levels' - 1 - Len(qvs'))
    BY <2>1, <2>4, <2>5
  <2>11. QED
    BY <1>1, <1>2, <2>1, <2>4, <2>5, <2>9, <2>10 DEF TreeInv
<1>5. QED
  BY <1>3, <1>4

\* An iteration moves every symbol to where the next level has it.
LEMMA MovedSequence ==
  ASSUME n \in Nat, sequence \in [0..(n - 1) -> Ts], partition \in [0..(n - 1) -> Ts],
         shift \in 0..(T_BITS - 1), Level,
         NEW v, v = [p \in 0..(n - 1) |-> two_bits(sequence[p], shift)]
  PROVE  /\ v \in [0..(n - 1) -> Quads]
         /\ sequence' \in [0..(n - 1) -> Ts]
         /\ \A p \in 0..(n - 1) : /\ ChildOf(v, n, v[p], p) \in 0..(n - 1)
                                  /\ sequence'[ChildOf(v, n, v[p], p)] = sequence[p]
<1> DEFINE c(p) == ChildOf(v, n, v[p], p)
           from(x) == {p \in 0..(n - 1) : destination(p) = x}
           new(x) == IF from(x) = {} THEN partition[x] ELSE sequence[Max(from(x))]
<1>1. \A p \in 0..(n - 1) : v[p] \in Quads
  <2>1. \A p \in 0..(n - 1) : sequence[p] \in Nat
    BY DEF Ts
  <2>2. shift \in Nat
    OBVIOUS
  <2>3. \A p \in 0..(n - 1) : two_bits(sequence[p], shift) \in Quads
    BY <2>1, <2>2, DropTwoBits
  <2>4. QED
    BY <2>3
<1>2. v \in [0..(n - 1) -> Quads]
  BY <1>1
<1>3. sequence' = [x \in 0..(n - 1) |-> new(x)]
  BY DEF Level
<1>4. \A p \in 0..(n - 1) : destination(p) = c(p)
  BY DestinationIs
<1>5. \A p \in 0..(n - 1) : c(p) \in 0..(n - 1)
  BY <1>1, ChildOrder
<1>6. ASSUME NEW p \in 0..(n - 1), NEW q \in 0..(n - 1), c(p) = c(q) PROVE p = q
  <2>1. v[p] \in Quads /\ v[q] \in Quads /\ c(p) \in Int /\ c(q) \in Int
    BY <1>1, <1>5
  <2>2. /\ (v[p] < v[q] \/ (v[p] = v[q] /\ p < q)) => c(p) < c(q)
        /\ (v[q] < v[p] \/ (v[q] = v[p] /\ q < p)) => c(q) < c(p)
    BY <1>1, ChildOrder
  <2> HIDE DEF c
  <2>3. QED
    BY <1>6, <2>1, <2>2 DEF Quads
<1>7. \A x \in 0..(n - 1) : from(x) \in SUBSET Nat /\ \A y \in from(x) : y <= n /\ y \in 0..(n - 1) /\ c(y) = x
  BY <1>4
<1>8. ASSUME NEW x \in 0..(n - 1), from(x) # {} PROVE Max(from(x)) \in from(x)
  <2> HIDE DEF from
  <2>1. from(x) \in SUBSET Nat /\ \A y \in from(x) : y <= n
    BY <1>7
  <2>2. QED
    BY <1>8, <2>1, MaxNat
<1>9. ASSUME NEW x \in 0..(n - 1) PROVE new(x) \in Ts
  <2>1. CASE from(x) = {}
    BY <2>1
  <2>2. CASE from(x) # {}
    <3>1. Max(from(x)) \in 0..(n - 1)
      BY <1>8, <2>2
    <3> HIDE DEF from
    <3>2. QED
      BY <2>2, <3>1
  <2>3. QED
    BY <2>1, <2>2
<1>10. ASSUME NEW p \in 0..(n - 1) PROVE sequence'[c(p)] = sequence[p]
  <2>1. p \in from(c(p)) /\ c(p) \in 0..(n - 1)
    BY <1>4, <1>5
  <2>2. Max(from(c(p))) \in from(c(p))
    BY <1>8, <2>1
  <2>3. Max(from(c(p))) \in 0..(n - 1) /\ c(Max(from(c(p)))) = c(p)
    BY <1>7, <2>1, <2>2
  <2>4. Max(from(c(p))) = p
    BY <1>6, <2>3
  <2>5. new(c(p)) = sequence[p]
    <3> HIDE DEF from, c
    <3> QED
      BY <2>1, <2>4
  <2> HIDE DEF new, c
  <2>6. QED
    BY <1>3, <2>1, <2>5
<1>11. sequence' \in [0..(n - 1) -> Ts]
  <2> HIDE DEF new
  <2> QED
    BY <1>3, <1>9
<1>12. QED
  BY <1>2, <1>5, <1>10, <1>11

\* The track goes one level on.
LEMMA TrackStep ==
  ASSUME NEW N \in Nat, NEW D, NEW L \in Nat, NEW Q \in Seq(LevelsOfLength(N)), NEW S, NEW R,
         NEW at, IsTrack(at, Len(Q), Q, N, D, L), Arrived(at, Len(Q), S, N, D),
         NEW v \in [0..(N - 1) -> Quads],
         v = [p \in 0..(N - 1) |-> two_bits(S[p], 2 * (L - 1 - Len(Q)))],
         \A p \in 0..(N - 1) : /\ ChildOf(v, N, v[p], p) \in 0..(N - 1)
                               /\ R[ChildOf(v, N, v[p], p)] = S[p],
         NEW P, P = Append(Q, [len |-> N, qv |-> v])
  PROVE  \E a : IsTrack(a, Len(P), P, N, D, L) /\ Arrived(a, Len(P), R, N, D)
<1> DEFINE m == Len(Q)
           new == [p \in 0..(N - 1) |-> ChildOf(v, N, v[at[m][p]], at[m][p])]
           a == [l \in 0..(m + 1) |-> IF l = m + 1 THEN new ELSE at[l]]
           rec == [len |-> N, qv |-> v]
<1>1. m \in Nat
  OBVIOUS
<1>2. rec \in LevelsOfLength(N)
  BY DEF LevelsOfLength
<1> HIDE DEF rec
<1>3. P = Append(Q, rec)
  BY DEF rec
<1>4. Len(P) = m + 1 /\ P[m + 1] = rec /\ \A l \in 1..m : P[l] = Q[l]
  BY <1>1, <1>2, <1>3, AppendProperties
<1>5. P[m + 1].qv = v
  BY <1>4 DEF rec
<1>6. at \in [0..m -> [0..(N - 1) -> 0..(N - 1)]] /\ m \in 0..m
  BY <1>1 DEF IsTrack
<1>7. \A p \in 0..(N - 1) : at[m][p] \in 0..(N - 1)
  BY <1>6
<1>8. new \in [0..(N - 1) -> 0..(N - 1)]
  BY <1>7
<1>9. \A p \in 0..(N - 1) : new[p] = ChildOf(v, N, v[at[m][p]], at[m][p]) /\ R[new[p]] = S[at[m][p]]
  BY <1>7
<1> HIDE DEF new, m
<1>10. a \in [0..(m + 1) -> [0..(N - 1) -> 0..(N - 1)]]
  BY <1>1, <1>6, <1>8
<1>11. \A l \in 0..m : a[l] = at[l]
  BY <1>1
<1>12. a[m + 1] = new
  BY <1>1
<1> HIDE DEF a
<1>13. \A p \in 0..(N - 1) : a[0][p] = p
  <2>1. 0 \in 0..m
    BY <1>1
  <2>2. QED
    BY <2>1, <1>11 DEF IsTrack
<1>14. ASSUME NEW l \in 0..((m + 1) - 1), NEW p \in 0..(N - 1)
       PROVE  /\ P[l + 1].qv[a[l][p]] = two_bits(D[p], 2 * (L - 1 - l))
              /\ a[l + 1][p] = ChildOf(P[l + 1].qv, N, P[l + 1].qv[a[l][p]], a[l][p])
  <2>1. CASE l = m
    <3>1. a[l][p] = at[m][p] /\ a[l + 1][p] = new[p] /\ P[l + 1].qv = v
      BY <1>5, <1>6, <1>11, <1>12, <2>1
    <3>2. v[at[m][p]] = two_bits(S[at[m][p]], 2 * (L - 1 - m)) /\ S[at[m][p]] = D[p]
      BY <1>7 DEF m, Arrived
    <3>3. new[p] = ChildOf(v, N, v[at[m][p]], at[m][p])
      BY <1>9
    <3>4. QED
      BY <2>1, <3>1, <3>2, <3>3
  <2>2. CASE l # m
    <3>1. l \in 0..(m - 1) /\ l \in 0..m /\ l + 1 \in 0..m /\ l + 1 \in 1..m
      BY <1>1, <2>2
    <3>2. a[l] = at[l] /\ a[l + 1] = at[l + 1] /\ P[l + 1] = Q[l + 1]
      BY <1>4, <1>11, <3>1
    <3>3. /\ Q[l + 1].qv[at[l][p]] = two_bits(D[p], 2 * (L - 1 - l))
          /\ at[l + 1][p] = ChildOf(Q[l + 1].qv, N, Q[l + 1].qv[at[l][p]], at[l][p])
      BY <3>1 DEF IsTrack, m
    <3>4. QED
      BY <3>2, <3>3
  <2>3. QED
    BY <2>1, <2>2
<1>15. IsTrack(a, m + 1, P, N, D, L)
  BY <1>10, <1>13, <1>14 DEF IsTrack
<1>16. Arrived(a, m + 1, R, N, D)
  <2>1. \A p \in 0..(N - 1) : S[at[m][p]] = D[p]
    BY DEF Arrived, m
  <2>2. QED
    BY <2>1, <1>9, <1>12 DEF Arrived
<1>17. QED
  BY <1>4, <1>15, <1>16

\* The shift of an iteration is below the width of T.
LEMMA ShiftType ==
  ASSUME n \in Nat, Partitioned, Len(qvs) < n_levels, shift = 2 * (n_levels - 1 - Len(qvs))
  PROVE  shift \in 0..(T_BITS - 1) /\ n_levels \in Nat /\ Len(qvs) \in Nat
<1>1. sigma \in Ts
  BY SigmaIs DEF Partitioned
<1>2. n_levels \in 1..(T_BITS \div 2) /\ 2 * n_levels <= T_BITS
  <2>1. n_levels = levels_for(sigma)
    BY DEF Partitioned
  <2>2. QED
    BY <1>1, <2>1, LevelsFor
<1>3. T_BITS \in Nat
  BY TreeAssumption
<1>4. Len(qvs) \in Nat
  BY DEF Partitioned
<1>5. QED
  BY <1>2, <1>3, <1>4

\* An iteration keeps the invariant.
LEMMA LevelTree == TreeInv /\ Level => TreeInv'
<1> SUFFICES ASSUME TreeInv, Level PROVE TreeInv'
  OBVIOUS
<1>1. n \in Nat /\ Partitioned /\ Len(qvs) < n_levels /\ shift = 2 * (n_levels - 1 - Len(qvs))
  BY DEF TreeInv, Level
<1>2. UNCHANGED <<origin, data, n, n_levels, sigma>> /\ partition' = sequence /\ shift' = next_shift
  BY DEF Level
<1>3. shift \in 0..(T_BITS - 1) /\ n_levels \in Nat /\ Len(qvs) \in Nat
  BY <1>1, ShiftType
<1> DEFINE v == [p \in 0..(n - 1) |-> two_bits(sequence[p], shift)]
<1>4. qvs' = Append(qvs, [len |-> n, qv |-> v])
  BY DEF Level
<1>5. sequence \in [0..(n - 1) -> Ts] /\ partition \in [0..(n - 1) -> Ts] /\ qvs \in Seq(LevelsOfLength(n))
  BY <1>1 DEF Partitioned
<1>6. v = [p \in 0..(n - 1) |-> two_bits(sequence[p], 2 * (n_levels - 1 - Len(qvs)))]
  BY <1>1
<1>7. /\ v \in [0..(n - 1) -> Quads]
      /\ sequence' \in [0..(n - 1) -> Ts]
      /\ \A p \in 0..(n - 1) : /\ ChildOf(v, n, v[p], p) \in 0..(n - 1)
                               /\ sequence'[ChildOf(v, n, v[p], p)] = sequence[p]
  BY <1>1, <1>3, <1>5, MovedSequence
<1> HIDE DEF v
<1>8. PICK at : IsTrack(at, Len(qvs), qvs, n, data, n_levels) /\ Arrived(at, Len(qvs), sequence, n, data)
  BY <1>1 DEF Partitioned
<1>9. \E a : IsTrack(a, Len(qvs'), qvs', n, data, n_levels) /\ Arrived(a, Len(qvs'), sequence', n, data)
  BY <1>1, <1>3, <1>4, <1>5, <1>6, <1>7, <1>8, TrackStep
<1>10. qvs' \in Seq(LevelsOfLength(n)) /\ Len(qvs') = Len(qvs) + 1
  <2> DEFINE rec == [len |-> n, qv |-> v]
  <2>1. rec \in LevelsOfLength(n)
    BY <1>7 DEF LevelsOfLength
  <2> HIDE DEF rec
  <2>2. qvs' = Append(qvs, rec)
    BY <1>4 DEF rec
  <2>3. QED
    BY <1>5, <2>1, <2>2, AppendProperties
<1>11. Partitioned'
  <2>1. LevelsOfLength(n)' = LevelsOfLength(n)
    BY <1>2 DEF LevelsOfLength
  <2>2. \E a : IsTrack(a, Len(qvs)', qvs', n', data', n_levels') /\ Arrived(a, Len(qvs)', sequence', n', data')
    BY <1>2, <1>9
  <2>3. /\ origin' = "owned" /\ n' > 0 /\ data' \in [0..(n' - 1) -> Ts]
        /\ sigma' = Max({data'[p] : p \in 0..(n' - 1)})
        /\ n_levels' = levels_for(sigma')
    BY <1>1, <1>2 DEF Partitioned
  <2>4. /\ qvs' \in Seq(LevelsOfLength(n')) /\ Len(qvs') <= n_levels'
        /\ sequence' \in [0..(n' - 1) -> Ts] /\ partition' \in [0..(n' - 1) -> Ts]
    BY <1>1, <1>2, <1>3, <1>5, <1>7, <1>10
  <2>5. QED
    BY <2>2, <2>3, <2>4 DEF Partitioned
<1>12. pc' = IF Len(qvs') = n_levels THEN "built" ELSE "level"
  BY DEF Level
<1>13. CASE Len(qvs') = n_levels
  BY <1>1, <1>2, <1>11, <1>12, <1>13 DEF TreeInv
<1>14. CASE Len(qvs') # n_levels
  <2>1. shift >= 2
    BY <1>1, <1>3, <1>10, <1>14
  <2>2. shift' = shift - 2
    BY <1>2, <2>1 DEF next_shift
  <2>3. shift' = 2 * (n_levels' - 1 - Len(qvs')) /\ Len(qvs') < n_levels'
    BY <1>1, <1>2, <1>3, <1>10, <1>14, <2>2
  <2>4. QED
    BY <1>1, <1>2, <1>11, <1>12, <1>14, <2>3 DEF TreeInv
<1>15. QED
  BY <1>13, <1>14

\* What a path spells is a matter of the tree alone.
LEMMA SpelledStable ==
  ASSUME UNCHANGED treeVars
  PROVE  \A i : spelled(path(i))' = spelled(path(i))
<1>1. ASSUME NEW i PROVE path(i)' = path(i)
  BY DEF treeVars, path, child, rank_in, occs_smaller, qv, LastLevel
<1>2. ASSUME NEW at PROVE spelled(at)' = spelled(at)
  BY DEF treeVars, spelled, qv
<1>3. ASSUME NEW i PROVE spelled(path(i))' = spelled(path(i))
  <2>1. n_levels' = n_levels /\ qvs' = qvs
    BY DEF treeVars
  <2>2. path(i)' = path(i)
    BY <1>1
  <2> DEFINE at == path(i)
  <2>3. spelled(at)' = spelled(at)
    BY <2>1, <2>2 DEF spelled, qv
  <2>4. QED
    BY <2>3
<1>4. QED
  BY <1>3

\* What the checks of from_parts say is about what they read.
LEMMA AcceptsStable == ASSUME accepts, UNCHANGED treeVars PROVE accepts'
<1>1. n' = n /\ n_levels' = n_levels /\ sigma' = sigma /\ qvs' = qvs
  BY DEF treeVars
<1>2. level_lens_agree' = level_lens_agree
  BY <1>1 DEF level_lens_agree, LastLevel
<1> DEFINE S == {spelled(path(i)) : i \in 0..(n - 1)}
<1>3. S' = S
  <2>1. \A i \in 0..(n - 1) : spelled(path(i))' = spelled(path(i))
    BY SpelledStable
  <2>2. QED
    BY <1>1, <2>1
<1>4. sigma_agrees <=> Max(S) = sigma
  BY DEF sigma_agrees
<1>5. sigma_agrees' <=> Max(S') = sigma'
  BY DEF sigma_agrees
<1> HIDE DEF S
<1>6. sigma_agrees' <=> sigma_agrees
  BY <1>1, <1>3, <1>4, <1>5
<1>7. QED
  BY <1>1, <1>2, <1>6 DEF accepts

\* from_parts keeps the invariant.
LEMMA PartsTree == TreeInv /\ FromParts => TreeInv'
<1> SUFFICES ASSUME TreeInv, FromParts PROVE TreeInv'
  OBVIOUS
<1>1. n \in Nat /\ Handed /\ UNCHANGED treeVars
  BY DEF TreeInv, FromParts
<1>2. Handed' /\ n' = n /\ n_levels' = n_levels
  BY <1>1 DEF Handed, treeVars, LevelsOfLength
<1>3. CASE accepts
  <2>1. pc' = "built"
    BY <1>3 DEF FromParts
  <2>2. accepts'
    BY <1>1, <1>3, AcceptsStable
  <2>3. n = 0 => n_levels = 0
    BY <1>3 DEF accepts
  <2>4. QED
    BY <1>1, <1>2, <2>1, <2>2, <2>3 DEF TreeInv
<1>4. CASE ~accepts
  <2>1. pc' = "rejected"
    BY <1>4 DEF FromParts
  <2>2. QED
    BY <1>1, <1>2, <2>1 DEF TreeInv
<1>5. QED
  BY <1>3, <1>4

\* So does doing nothing.
LEMMA StutterTree == TreeInv /\ UNCHANGED vars => TreeInv'
<1> SUFFICES ASSUME TreeInv, UNCHANGED vars PROVE TreeInv'
  OBVIOUS
<1>1. UNCHANGED treeVars /\ pc' = pc
  BY DEF vars
<1>2. /\ n' = n /\ n_levels' = n_levels /\ sigma' = sigma /\ qvs' = qvs /\ origin' = origin /\ data' = data
      /\ sequence' = sequence /\ partition' = partition /\ shift' = shift
  BY <1>1 DEF treeVars
<1>3. Handed => Handed'
  BY <1>2 DEF Handed, LevelsOfLength
<1>4. Partitioned => Partitioned'
  BY <1>2 DEF Partitioned, LevelsOfLength
<1>5. accepts => accepts'
  BY <1>1, AcceptsStable
<1>6. QED
  BY <1>1, <1>2, <1>3, <1>4, <1>5 DEF TreeInv

\* The invariant of the construction holds throughout.
LEMMA TreeInvHolds == Spec => []TreeInv
<1>1. TreeInv /\ [Next]_vars => TreeInv'
  BY StartTree, LevelTree, PartsTree, StutterTree DEF Next
<1>2. QED
  BY <1>1, InitTree, PTL DEF Spec

\* The invariant makes the point queries exact.
LEMMA PointQueriesHold == TreeInv => PointQueriesExact
<1>1. CASE Built
  BY <1>1, BuiltIsReady, PointQueriesFollow
<1>2. CASE ~Built
  BY <1>2 DEF PointQueriesExact
<1>3. QED
  BY <1>1, <1>2

\* get, rank and get_and_rank are exact on every tree that from_owned builds and
\* on every one that from_parts accepts, whatever the sequence or the levels.
THEOREM PointQueriesAreExact == Spec => []PointQueriesExact
BY PointQueriesHold, TreeInvHolds, PTL

------------------------------------------------------------------------------
(* select.                                                                 *)

\* One level up from y, relative to where the symbol's range begins.
UpStep(symbol, l, y) ==
  LET d == digit(symbol, l)
      off == walk(symbol, 0)[l]
      found == SelectIn(qv(l), qvs[l + 1].len, d, select_from(rank_in(l, d, off), y))
  IN IF y = None THEN None
     ELSE IF found = None THEN None ELSE usize(found - off)

\* SelectIn is a position or None.
LEMMA SelectInType ==
  ASSUME NEW v, NEW N \in Nat, NEW d, NEW k
  PROVE  \/ SelectIn(v, N, d, k) = None /\ Selected(v, N, d, k) = {}
         \/ SelectIn(v, N, d, k) \in Selected(v, N, d, k)
<1> DEFINE T == Selected(v, N, d, k)
<1>1. T \in SUBSET Nat
  BY DEF Selected
<1>2. SelectIn(v, N, d, k) = IF T = {} THEN None ELSE Min(T)
  BY DEF SelectIn
<1> HIDE DEF T
<1>3. T # {} => Min(T) \in T
  BY <1>1, MinNat
<1>4. QED
  BY <1>2, <1>3 DEF T

\* A number that fits usize is kept.
LEMMA UsizeSmall ==
  ASSUME NEW x \in Nat, x < 2 ^ USIZE_BITS
  PROVE  usize(x) = x
<1> DEFINE P == 2 ^ USIZE_BITS
<1>1. P \in Nat \ {0} /\ x < P
  BY TreeAssumption, PowerStep
<1>2. usize(x) = x % P
  BY DEF usize
<1> HIDE DEF P
<1>3. x = P * 0 + x /\ x \in 0..(P - 1)
  BY <1>1
<1>4. x % P = x
  BY <1>1, <1>3, DivUnique
<1>5. QED
  BY <1>2, <1>4

\* usize of any integer is a number.
LEMMA UsizeType ==
  ASSUME NEW x \in Int
  PROVE  usize(x) \in Nat
<1> DEFINE P == 2 ^ USIZE_BITS
<1>1. P \in Nat \ {0}
  BY TreeAssumption, PowerStep
<1>2. usize(x) = x % P
  BY DEF usize
<1> HIDE DEF P
<1>3. x % P \in 0..(P - 1)
  BY <1>1
<1>4. QED
  BY <1>1, <1>2, <1>3

\* select goes up the levels with UpStep.
LEMMA SelectIs ==
  ASSUME WellFormed, NEW symbol \in Nat, NEW k \in Nat
  PROVE  \E up \in [0..n_levels -> Int] :
           /\ up[n_levels] = k
           /\ \A l \in 0..(n_levels - 1) : up[l] = UpStep(symbol, l, up[l + 1])
           /\ select(symbol, k) = IF symbol > sigma THEN None ELSE up[0]
<1>0. \A l \in 0..LastLevel : walk(symbol, 0)[l] \in Int
  <2>1. n \in Nat /\ 0 \in 0..n
    BY DEF WellFormed
  <2>2. walk(symbol, 0) \in [0..LastLevel -> 0..n]
    BY <2>1, WalkIs
  <2>3. \A l \in 0..LastLevel : walk(symbol, 0)[l] \in 0..n
    BY <2>2
  <2>4. 0..n \subseteq Int
    BY <2>1
  <2>5. QED
    BY <2>3, <2>4
<1> DEFINE m == n_levels
           D == Int
           step(l, y) == UpStep(symbol, l, y)
           G(f) == [l \in 0..m |-> IF l = m THEN k ELSE step(l, f[l + 1])]
           up == CHOOSE f : f = G(f)
           g == [r \in 0..(m - 1) |-> [y \in D |-> step(m - (r + 1), y)]]
<1>1. m \in Nat
  BY DEF WellFormed
<1>2. select(symbol, k) = IF symbol > sigma THEN None ELSE up[0]
  <2> DEFINE H(f) == [l \in 0..n_levels |->
               IF l = n_levels THEN k
               ELSE IF f[l + 1] = None THEN None
               ELSE IF SelectIn(qv(l), qvs[l + 1].len, digit(symbol, l),
                                select_from(rank_in(l, digit(symbol, l), walk(symbol, 0)[l]), f[l + 1])) = None THEN None
               ELSE usize(SelectIn(qv(l), qvs[l + 1].len, digit(symbol, l),
                                select_from(rank_in(l, digit(symbol, l), walk(symbol, 0)[l]), f[l + 1])) - walk(symbol, 0)[l])]
             h == CHOOSE f : f = H(f)
  <2>1. select(symbol, k) = IF symbol > sigma THEN None ELSE h[0]
    BY DEF select
  <2>2. \A f : H(f) = G(f)
    BY DEF UpStep
  <2> HIDE DEF H, G
  <2>3. h = up
    BY <2>2
  <2>4. QED
    BY <2>1, <2>3
<1>3. \A l \in 0..(m - 1), y \in D : step(l, y) \in D
  <2>1. ASSUME NEW l \in 0..(m - 1), NEW y \in D PROVE step(l, y) \in D
    <3> DEFINE d == digit(symbol, l)
               off == walk(symbol, 0)[l]
               found == SelectIn(qv(l), qvs[l + 1].len, d, select_from(rank_in(l, d, off), y))
    <3>1. l \in 0..LastLevel /\ n \in Nat
      BY DEF WellFormed, LastLevel
    <3>2. off \in Int
      BY <1>0, <3>1
    <3>3. qvs[l + 1].len = n
      BY <3>1 DEF WellFormed
    <3>4. found = None \/ found \in Int
      <4> DEFINE a == select_from(rank_in(l, d, off), y)
                 v == qv(l)
      <4>1. found = SelectIn(v, n, d, a)
        BY <3>3
      <4>2. \/ SelectIn(v, n, d, a) = None /\ Selected(v, n, d, a) = {}
            \/ SelectIn(v, n, d, a) \in Selected(v, n, d, a)
        BY <3>1, SelectInType
      <4> HIDE DEF v, a, d, found
      <4>3. Selected(v, n, d, a) \in SUBSET (0..(n - 1))
        BY DEF Selected
      <4>4. QED
        BY <4>1, <4>2, <4>3, <3>1
    <3>5. step(l, y) = IF y = None THEN None ELSE IF found = None THEN None ELSE usize(found - off)
      BY DEF UpStep
    <3> HIDE DEF found, off, step
    <3>6. found # None => usize(found - off) \in Int
      <4>1. CASE found \in Int
        BY <3>2, <4>1, UsizeType
      <4>2. QED
        BY <3>4, <4>1
    <3>7. None \in Int
      BY DEF None
    <3>8. QED
      BY <3>5, <3>6, <3>7
  <2>2. QED
    BY <2>1
<1>4. k \in D
  OBVIOUS
<1> HIDE DEF m, D, step
<1>5. \A r \in 0..(m - 1), y \in D : g[r][y] = step(m - (r + 1), y)
  BY <1>1
<1>6. \A r \in 0..(m - 1), y \in D : g[r][y] \in D
  <2>1. \A r \in 0..(m - 1) : m - (r + 1) \in 0..(m - 1)
    BY <1>1
  <2> HIDE DEF g
  <2>2. QED
    BY <1>3, <1>5, <2>1
<1>7. PICK E \in [0..m -> D] : Follows(E, m, k, g)
  <2> HIDE DEF g
  <2> QED
    BY <1>1, <1>4, <1>6, Recursion
<1> DEFINE F == [l \in 0..m |-> E[m - l]]
<1>8. F = G(F)
  <2>1. ASSUME NEW l \in 0..m PROVE E[m - l] = IF l = m THEN k ELSE step(l, F[l + 1])
    <3>1. CASE l = m
      <4>1. m - l = 0
        BY <1>1, <3>1
      <4>2. QED
        BY <3>1, <4>1, <1>7 DEF Follows
    <3>2. CASE l # m
      <4> DEFINE r == m - (l + 1)
      <4>1. r \in 0..(m - 1) /\ r + 1 = m - l /\ r \in 0..m /\ m - (r + 1) = l /\ l + 1 \in 0..m
        BY <1>1, <3>2
      <4>2. F[l + 1] = E[r]
        BY <4>1
      <4> HIDE DEF g, r, F
      <4>3. E[r + 1] = g[r][E[r]] /\ E[r] \in D
        BY <4>1, <1>7 DEF Follows
      <4>4. QED
        BY <3>2, <4>1, <4>2, <4>3, <1>5
    <3>3. QED
      BY <3>1, <3>2
  <2> HIDE DEF g
  <2>2. QED
    BY <2>1
<1>9. up = G(up)
  <2> HIDE DEF G, F
  <2> QED
    BY <1>8
<1> HIDE DEF up, F
<1>10. /\ up = [l \in 0..m |-> up[l]]
       /\ \A l \in 0..m : up[l] = IF l = m THEN k ELSE step(l, up[l + 1])
  BY <1>9
<1>11. up[m] = k /\ \A l \in 0..(m - 1) : up[l] = step(l, up[l + 1])
  <2>1. \A l \in 0..(m - 1) : l \in 0..m /\ l # m
    BY <1>1
  <2>2. m \in 0..m
    BY <1>1
  <2>3. QED
    BY <1>10, <2>1, <2>2
<1>12. \A l \in 0..m : up[l] \in D
  <2> DEFINE Bad == {r \in Nat : r <= m /\ up[m - r] \notin D}
  <2>1. Bad = {}
    <3> SUFFICES ASSUME Bad # {} PROVE FALSE
      OBVIOUS
    <3>1. PICK r \in Bad : \A i \in Bad : r <= i
      BY LeastNat
    <3>2. r \in Nat /\ r <= m /\ up[m - r] \notin D
      BY <3>1
    <3>3. r # 0
      <4>1. m - 0 = m
        BY <1>1
      <4>2. QED
        BY <3>2, <4>1, <1>4, <1>11
    <3>4. r - 1 \in Nat /\ r - 1 <= m /\ r - 1 < r /\ m - r \in 0..(m - 1) /\ m - (r - 1) = (m - r) + 1
      BY <1>1, <3>2, <3>3
    <3>5. up[m - (r - 1)] \in D
      <4>1. r - 1 \notin Bad
        BY <3>1, <3>2, <3>4
      <4>2. QED
        BY <3>4, <4>1
    <3>6. up[m - r] = step(m - r, up[(m - r) + 1])
      BY <1>11, <3>4
    <3>7. QED
      BY <1>3, <3>2, <3>4, <3>5, <3>6
  <2>2. ASSUME NEW l \in 0..m PROVE up[l] \in D
    <3>1. m - l \in Nat /\ m - l <= m /\ m - (m - l) = l
      BY <1>1
    <3>2. m - l \notin Bad
      BY <2>1
    <3>3. up[m - (m - l)] \in D
      BY <3>1, <3>2
    <3>4. QED
      BY <3>1, <3>3
  <2>3. QED
    BY <2>2
<1>13. up \in [0..m -> D]
  BY <1>10, <1>12
<1>14. QED
  BY <1>2, <1>11, <1>13 DEF m, D, step

\* Lengths leave room for the sum of two of them, and for one more.
LEMMA Room ==
  ASSUME n \in Nat, n <= MaxLen
  PROVE  2 * n + 1 < 2 ^ USIZE_BITS /\ n < 2 ^ USIZE_BITS /\ 2 ^ USIZE_BITS \in Nat
<1> DEFINE H == 2 ^ (USIZE_BITS - 1)
<1>1. USIZE_BITS - 1 \in Nat /\ (USIZE_BITS - 1) + 1 = USIZE_BITS
  BY TreeAssumption
<1>2. H \in Nat /\ 2 ^ ((USIZE_BITS - 1) + 1) = 2 * H
  BY <1>1, PowerStep
<1>3. MaxLen \in Nat /\ MaxLen < H
  BY TreeAssumption
<1>4. 2 ^ USIZE_BITS = 2 * H
  BY <1>1, <1>2
<1> HIDE DEF H
<1>5. QED
  BY <1>2, <1>3, <1>4

\* A position of the symbol's range is found again from its rank in the range.
LEMMA UpFound ==
  ASSUME WellFormed, n <= MaxLen, NEW symbol \in Nat, NEW l \in 0..LastLevel,
         NEW x \in 0..(n - 1), walk(symbol, 0)[l] <= x, qv(l)[x] = digit(symbol, l)
  PROVE  UpStep(symbol, l, rank_in(l, digit(symbol, l), x)
                           - rank_in(l, digit(symbol, l), walk(symbol, 0)[l]))
           = x - walk(symbol, 0)[l]
<1>1. n \in Nat /\ 0 \in 0..n /\ qvs[l + 1].len = n
  BY DEF WellFormed
<1>2. walk(symbol, 0) \in [0..LastLevel -> 0..n]
  BY <1>1, WalkIs
<1> DEFINE d == digit(symbol, l)
           off == walk(symbol, 0)[l]
           v == qv(l)
           y == Count(v, d, x) - Count(v, d, off)
           a == select_from(Count(v, d, off), y)
           found == SelectIn(v, n, d, a)
<1>3. off \in 0..n /\ off <= x /\ v[x] = d
  BY <1>2
<1>4. rank_in(l, d, x) = Count(v, d, x) /\ rank_in(l, d, off) = Count(v, d, off)
  BY DEF rank_in
<1>5. UpStep(symbol, l, y) = IF y = None THEN None ELSE IF found = None THEN None ELSE usize(found - off)
  BY <1>1, <1>4 DEF UpStep
<1>6. a = usize(Count(v, d, off) + y)
  BY DEF select_from
<1> HIDE DEF d, off, v, found, a
<1>7. /\ Count(v, d, x) \in Nat /\ Count(v, d, x) <= x /\ Count(v, d, off) \in Nat
      /\ Count(v, d, off) <= Count(v, d, x)
  BY <1>1, <1>3, CountType, CountMono
<1>8. y \in Nat /\ Count(v, d, off) + y = Count(v, d, x) /\ y # None
  BY <1>7 DEF None
<1> HIDE DEF y
<1>9. a = Count(v, d, x)
  <2>1. n < 2 ^ USIZE_BITS /\ 2 ^ USIZE_BITS \in Nat
    BY <1>1, Room
  <2>2. Count(v, d, x) < 2 ^ USIZE_BITS
    BY <1>1, <1>7, <2>1
  <2>3. usize(Count(v, d, x)) = Count(v, d, x)
    BY <1>7, <2>2, UsizeSmall
  <2>4. QED
    BY <1>6, <1>8, <2>3
<1>10. found = x
  <2>1. x \in Selected(v, n, d, a)
    BY <1>3, <1>9 DEF Selected
  <2>2. \A z \in Selected(v, n, d, a) : z = x
    <3>1. \A z \in Selected(v, n, d, a) : z \in Nat /\ v[z] = d /\ Count(v, d, z) = Count(v, d, x)
      BY <1>9 DEF Selected
    <3>2. QED
      BY <3>1, <1>3, SelectedUnique
  <2>3. \/ SelectIn(v, n, d, a) = None /\ Selected(v, n, d, a) = {}
        \/ SelectIn(v, n, d, a) \in Selected(v, n, d, a)
    BY <1>1, SelectInType
  <2>4. QED
    BY <2>1, <2>2, <2>3 DEF found
<1>11. usize(x - off) = x - off
  <2>1. n < 2 ^ USIZE_BITS /\ 2 ^ USIZE_BITS \in Nat
    BY <1>1, Room
  <2>2. x - off \in Nat /\ x - off < 2 ^ USIZE_BITS
    BY <1>1, <1>3, <2>1
  <2>3. QED
    BY <2>2, UsizeSmall
<1>12. UpStep(symbol, l, y) = x - off
  <2>1. x # None
    BY DEF None
  <2>2. QED
    BY <1>5, <1>8, <1>10, <1>11, <2>1
<1>13. QED
  BY <1>4, <1>12 DEF d, off, y

\* From past the end of the symbol's range, which ends before e, one comes out
\* past it again or nowhere.
LEMMA UpPast ==
  ASSUME WellFormed, n <= MaxLen, NEW symbol \in Nat, NEW l \in 0..LastLevel,
         NEW e \in 0..n, walk(symbol, 0)[l] <= e,
         NEW y \in Nat, y + n < 2 ^ USIZE_BITS,
         y >= rank_in(l, digit(symbol, l), e) - rank_in(l, digit(symbol, l), walk(symbol, 0)[l])
  PROVE  \/ UpStep(symbol, l, y) = None
         \/ /\ UpStep(symbol, l, y) \in Nat
            /\ UpStep(symbol, l, y) >= e - walk(symbol, 0)[l]
            /\ UpStep(symbol, l, y) + walk(symbol, 0)[l] < n
<1>1. n \in Nat /\ 0 \in 0..n /\ qvs[l + 1].len = n
  BY DEF WellFormed
<1>2. walk(symbol, 0) \in [0..LastLevel -> 0..n]
  BY <1>1, WalkIs
<1> DEFINE d == digit(symbol, l)
           off == walk(symbol, 0)[l]
           v == qv(l)
           a == select_from(Count(v, d, off), y)
           found == SelectIn(v, n, d, a)
           P == 2 ^ USIZE_BITS
<1>3. off \in 0..n /\ off <= e
  BY <1>2
<1>4. rank_in(l, d, e) = Count(v, d, e) /\ rank_in(l, d, off) = Count(v, d, off)
  BY DEF rank_in
<1>5. y # None
  BY DEF None
<1>6. UpStep(symbol, l, y) = IF found = None THEN None ELSE usize(found - off)
  BY <1>1, <1>4, <1>5 DEF UpStep
<1>7. a = usize(Count(v, d, off) + y)
  BY DEF select_from
<1>8. y >= Count(v, d, e) - Count(v, d, off)
  BY <1>4
<1>9. n < P /\ P \in Nat /\ y + n < P
  BY <1>1, Room
<1> HIDE DEF d, off, v, found, a
<1>10. /\ Count(v, d, e) \in Nat /\ Count(v, d, off) \in Nat /\ Count(v, d, off) <= off
  BY <1>1, <1>3, CountType
<1>11. a = Count(v, d, off) + y /\ a \in Nat
  <2>1. Count(v, d, off) + y \in Nat /\ Count(v, d, off) + y < P
    BY <1>1, <1>3, <1>9, <1>10
  <2>2. usize(Count(v, d, off) + y) = Count(v, d, off) + y
    BY <2>1, UsizeSmall
  <2>3. QED
    BY <1>7, <2>1, <2>2
<1>12. CASE found = None
  BY <1>6, <1>12 DEF off
<1>13. CASE found # None
  <2>1. found \in Selected(v, n, d, a)
    <3>1. \/ SelectIn(v, n, d, a) = None /\ Selected(v, n, d, a) = {}
          \/ SelectIn(v, n, d, a) \in Selected(v, n, d, a)
      BY <1>1, SelectInType
    <3>2. QED
      BY <1>13, <3>1 DEF found
  <2>2. found \in 0..(n - 1) /\ v[found] = d /\ Count(v, d, found) = a
    BY <2>1 DEF Selected
  <2>3. found >= e
    <3> SUFFICES ASSUME found < e PROVE FALSE
      BY <1>1, <2>2
    <3>1. Count(v, d, found + 1) = Count(v, d, found) + 1
      BY <2>2, CountStep
    <3>2. Count(v, d, found + 1) <= Count(v, d, e)
      BY <1>1, <2>2, CountMono
    <3>3. QED
      BY <1>8, <1>10, <1>11, <2>2, <3>1, <3>2
  <2>4. found - off \in Nat /\ found - off < P
    BY <1>1, <1>3, <1>9, <2>2, <2>3
  <2>5. usize(found - off) = found - off
    BY <2>4, UsizeSmall
  <2>6. UpStep(symbol, l, y) = found - off
    BY <1>6, <1>13, <2>5
  <2>7. QED
    BY <1>1, <1>3, <2>2, <2>3, <2>4, <2>6 DEF off
<1>14. QED
  BY <1>12, <1>13

\* Walks keep their order, and the ranges between them shrink to the digits of
\* the symbol.
LEMMA WalkMono ==
  ASSUME WellFormed, NEW symbol \in Nat, NEW i \in 0..n, NEW j \in 0..n, i <= j, NEW l \in 0..LastLevel
  PROVE  /\ walk(symbol, i)[l] \in 0..n /\ walk(symbol, j)[l] \in 0..n
         /\ walk(symbol, i)[l] <= walk(symbol, j)[l]
         /\ l < LastLevel => walk(symbol, j)[l + 1] - walk(symbol, i)[l + 1]
                               = rank_in(l, digit(symbol, l), walk(symbol, j)[l])
                                 - rank_in(l, digit(symbol, l), walk(symbol, i)[l])
<1> DEFINE m == LastLevel
           w == walk(symbol, i)
           u == walk(symbol, j)
           R(k, x) == rank_in(k, digit(symbol, k), x)
           S(k) == Smaller(qv(k), n, digit(symbol, k))
           Bad == {k \in Nat : k <= m /\ ~(w[k] <= u[k])}
<1>1. m \in Nat /\ n \in Nat
  BY DEF WellFormed, LastLevel
<1>2. /\ w \in [0..m -> 0..n] /\ w[0] = i
      /\ \A k \in 0..(m - 1) : w[k + 1] = child(k, digit(symbol, k), w[k])
  BY WalkIs
<1>3. /\ u \in [0..m -> 0..n] /\ u[0] = j
      /\ \A k \in 0..(m - 1) : u[k + 1] = child(k, digit(symbol, k), u[k])
  BY WalkIs
<1>4. ASSUME NEW k \in 0..(m - 1)
      PROVE  /\ w[k + 1] = R(k, w[k]) + S(k) /\ u[k + 1] = R(k, u[k]) + S(k)
             /\ R(k, w[k]) \in Nat /\ R(k, u[k]) \in Nat /\ S(k) \in Nat
             /\ w[k] <= u[k] => R(k, w[k]) <= R(k, u[k])
  <2>1. k \in 0..m /\ k \in 0..LastLevel
    BY <1>1
  <2>2. w[k] \in Nat /\ u[k] \in Nat
    BY <1>1, <1>2, <1>3, <2>1
  <2>3. qvs[k + 1].len = n /\ \A p \in 0..(n - 1) : qv(k)[p] \in Quads
    BY <2>1 DEF WellFormed
  <2>4. digit(symbol, k) \in Quads
    BY <2>1, DigitType DEF WellFormed
  <2>5. S(k) \in 0..n
    BY <1>1, <2>3, <2>4, SmallerStep
  <2>6. /\ R(k, w[k]) \in Nat /\ R(k, u[k]) \in Nat
        /\ w[k] <= u[k] => R(k, w[k]) <= R(k, u[k])
    BY <2>2, CountType, CountMono DEF rank_in
  <2>7. w[k + 1] = R(k, w[k]) + S(k) /\ u[k + 1] = R(k, u[k]) + S(k)
    BY <1>2, <1>3, <2>3 DEF child, occs_smaller
  <2>8. QED
    BY <1>1, <2>5, <2>6, <2>7
<1> HIDE DEF m, w, u, R, S
<1>5. Bad = {}
  <2> SUFFICES ASSUME Bad # {} PROVE FALSE
    OBVIOUS
  <2>1. PICK b \in Bad : \A k \in Bad : b <= k
    BY LeastNat
  <2>2. b \in Nat /\ b <= m /\ ~(w[b] <= u[b]) /\ b # 0
    BY <1>2, <1>3, <2>1
  <2>3. b - 1 \in Nat /\ b - 1 <= m /\ b - 1 < b /\ b - 1 \in 0..(m - 1) /\ (b - 1) + 1 = b
    BY <1>1, <2>2
  <2>4. w[b - 1] <= u[b - 1]
    <3>1. b - 1 \notin Bad
      BY <2>1, <2>2, <2>3
    <3>2. QED
      BY <2>3, <3>1
  <2>5. w[b] <= u[b]
    BY <1>4, <2>3, <2>4
  <2>6. QED
    BY <2>2, <2>5
<1>6. \A k \in 0..m : w[k] <= u[k]
  <2>1. ASSUME NEW k \in 0..m PROVE w[k] <= u[k]
    <3>1. k \in Nat /\ k <= m /\ k \notin Bad
      BY <1>1, <1>5
    <3>2. QED
      BY <3>1
  <2>2. QED
    BY <2>1
<1>7. l \in 0..m
  BY DEF m
<1>8. l < m => u[l + 1] - w[l + 1] = R(l, u[l]) - R(l, w[l])
  <2> SUFFICES ASSUME l < m PROVE u[l + 1] - w[l + 1] = R(l, u[l]) - R(l, w[l])
    OBVIOUS
  <2>1. l \in 0..(m - 1)
    BY <1>1, <1>7
  <2>2. QED
    BY <1>4, <2>1
<1>9. w[l] \in 0..n /\ u[l] \in 0..n /\ w[l] <= u[l]
  BY <1>2, <1>3, <1>6, <1>7
<1>10. QED
  BY <1>8, <1>9 DEF m, w, u, R

\* select goes up to the position whose occurrence was asked for.
LEMMA SelectHit ==
  ASSUME Indexes, n <= MaxLen, NEW symbol \in Nat, symbol < Quarters(n_levels),
         NEW p \in 0..(n - 1), indexed[p] = symbol,
         NEW up \in [0..n_levels -> Int], up[n_levels] = Count(indexed, symbol, p),
         \A l \in 0..(n_levels - 1) : up[l] = UpStep(symbol, l, up[l + 1])
  PROVE  up[0] = p
<1> DEFINE m == LastLevel
           at == path(p)
           w == walk(symbol, 0)
           R(l, x) == rank_in(l, digit(symbol, l), x)
           Bad == {r \in Nat : r <= m /\ up[m - r] # at[m - r] - w[m - r]}
<1>1. WellFormed /\ m \in Nat /\ n_levels = m + 1 /\ n \in Nat /\ 0 \in 0..n /\ p \in 0..n
  <2>1. WellFormed
    BY DEF Indexes
  <2>2. n \in Nat /\ n_levels \in Nat \ {0}
    BY <2>1 DEF WellFormed
  <2>3. QED
    BY <2>1, <2>2 DEF LastLevel
<1>2. Agrees(symbol, p, n_levels)
  <2>1. spelled(path(p)) = symbol
    BY DEF Indexes
  <2>2. QED
    BY <1>1, <2>1, AgreesIs
<1>3. at \in [0..m -> 0..(n - 1)] /\ at[0] = p
  BY <1>1, PathIs
<1>4. ASSUME NEW l \in 0..m
      PROVE  /\ at[l] = walk(symbol, p)[l] /\ at[l] \in 0..(n - 1) /\ w[l] <= at[l] /\ w[l] \in 0..n
             /\ qv(l)[at[l]] = digit(symbol, l)
             /\ l < m => at[l + 1] - w[l + 1] = R(l, at[l]) - R(l, w[l])
             /\ UpStep(symbol, l, R(l, at[l]) - R(l, w[l])) = at[l] - w[l]
  <2>1. l \in 0..LastLevel /\ l \in Nat
    BY <1>1
  <2>2. ASSUME NEW k \in 0..LastLevel PROVE Agrees(symbol, p, k) /\ qv(k)[at[k]] = digit(symbol, k)
    <3>1. \A j \in 0..(k - 1) : j \in 0..(n_levels - 1)
      BY <1>1
    <3>2. k \in 0..(n_levels - 1)
      BY <1>1
    <3>3. QED
      BY <1>2, <3>1, <3>2 DEF Agrees
  <2>3. ASSUME NEW k \in 0..LastLevel PROVE at[k] = walk(symbol, p)[k]
    BY <1>1, <2>2, WalkStep
  <2>4. /\ w[l] \in 0..n /\ w[l] <= walk(symbol, p)[l]
        /\ l < LastLevel => walk(symbol, p)[l + 1] - w[l + 1] = R(l, walk(symbol, p)[l]) - R(l, w[l])
    BY <1>1, <2>1, WalkMono
  <2>5. at[l] = walk(symbol, p)[l] /\ at[l] \in 0..(n - 1) /\ qv(l)[at[l]] = digit(symbol, l)
    BY <1>3, <2>1, <2>2, <2>3
  <2>6. l < m => at[l + 1] = walk(symbol, p)[l + 1]
    <3>1. l < m => l + 1 \in 0..LastLevel
      BY <1>1
    <3>2. QED
      BY <2>3, <3>1
  <2>7. UpStep(symbol, l, R(l, at[l]) - R(l, w[l])) = at[l] - w[l]
    BY <1>1, <2>1, <2>4, <2>5, UpFound
  <2>8. QED
    BY <2>4, <2>5, <2>6, <2>7
<1>5. up[m] = at[m] - w[m]
  <2>1. m \in 0..m /\ m \in 0..(n_levels - 1)
    BY <1>1
  <2>2. rank_between(symbol, walk(symbol, 0)[m], walk(symbol, p)[m]) = Count(indexed, symbol, p)
    BY <1>1, RankIs
  <2>3. rank_between(symbol, walk(symbol, 0)[m], walk(symbol, p)[m]) = R(m, walk(symbol, p)[m]) - R(m, w[m])
    BY DEF rank_between
  <2>4. at[m] = walk(symbol, p)[m] /\ UpStep(symbol, m, R(m, at[m]) - R(m, w[m])) = at[m] - w[m]
    BY <1>4, <2>1
  <2>5. up[m] = UpStep(symbol, m, up[m + 1])
    BY <2>1
  <2> HIDE DEF R, w, at
  <2>6. up[m + 1] = R(m, at[m]) - R(m, w[m])
    <3>1. up[m + 1] = Count(indexed, symbol, p)
      BY <1>1
    <3>2. QED
      BY <2>2, <2>3, <2>4, <3>1 DEF w
  <2>7. QED
    BY <2>4, <2>5, <2>6
<1> HIDE DEF at, w, R
<1>6. Bad = {}
  <2> SUFFICES ASSUME Bad # {} PROVE FALSE
    OBVIOUS
  <2>1. PICK r \in Bad : \A i \in Bad : r <= i
    BY LeastNat
  <2>2. r \in Nat /\ r <= m /\ up[m - r] # at[m - r] - w[m - r]
    BY <2>1
  <2>3. r # 0
    <3>1. m - 0 = m
      BY <1>1
    <3>2. QED
      BY <1>5, <2>2, <3>1
  <2> DEFINE l == m - r
  <2>4. r - 1 \in Nat /\ r - 1 <= m /\ r - 1 < r /\ m - (r - 1) = l + 1
    BY <1>1, <2>2, <2>3
  <2>5. up[l + 1] = at[l + 1] - w[l + 1]
    <3>1. r - 1 \notin Bad
      BY <2>1, <2>2, <2>4
    <3>2. up[m - (r - 1)] = at[m - (r - 1)] - w[m - (r - 1)]
      BY <2>4, <3>1
    <3> HIDE DEF l
    <3>3. QED
      BY <2>4, <3>2
  <2>6. l \in 0..m /\ l < m /\ l \in 0..(n_levels - 1)
    BY <1>1, <2>2, <2>3
  <2>7. up[l] # at[l] - w[l]
    BY <2>2
  <2> HIDE DEF l
  <2>8. /\ at[l + 1] - w[l + 1] = R(l, at[l]) - R(l, w[l])
        /\ UpStep(symbol, l, R(l, at[l]) - R(l, w[l])) = at[l] - w[l]
    BY <1>4, <2>6
  <2>9. up[l] = UpStep(symbol, l, up[l + 1])
    BY <2>6
  <2>10. QED
    BY <2>5, <2>7, <2>8, <2>9
<1>7. up[0] = at[0] - w[0]
  <2> HIDE DEF m
  <2>0. m \in Nat /\ m <= m /\ m - m = 0
    BY <1>1
  <2>1. m \in Nat /\ m <= m /\ m \notin Bad /\ m - m = 0
    <3> HIDE DEF Bad
    <3> QED
      BY <2>0, <1>6
  <2>2. up[m - m] = at[m - m] - w[m - m]
    BY <2>1
  <2>3. QED
    BY <2>1, <2>2
<1>8. w[0] = 0
  BY <1>1, WalkIs DEF w
<1>9. QED
  BY <1>3, <1>7, <1>8

\* select comes out nowhere when the symbol does not occur so often.
LEMMA SelectMiss ==
  ASSUME Indexes, n <= MaxLen, n > 0, NEW symbol \in Nat, symbol < Quarters(n_levels),
         NEW k \in Nat, k + n < 2 ^ USIZE_BITS, k >= Count(indexed, symbol, n),
         NEW up \in [0..n_levels -> Int], up[n_levels] = k,
         \A l \in 0..(n_levels - 1) : up[l] = UpStep(symbol, l, up[l + 1])
  PROVE  up[0] = None
<1> DEFINE m == LastLevel
           w == walk(symbol, 0)
           u == walk(symbol, n)
           R(l, x) == rank_in(l, digit(symbol, l), x)
           Past(l) == \/ up[l] = None
                      \/ up[l] \in Nat /\ up[l] >= u[l] - w[l] /\ up[l] + w[l] < n
           Bad == {r \in Nat : r <= m /\ ~Past(m - r)}
<1>1. WellFormed /\ m \in Nat /\ n_levels = m + 1 /\ n \in Nat /\ 0 \in 0..n /\ n \in 0..n
  BY DEF Indexes, WellFormed, LastLevel
<1>2. ASSUME NEW l \in 0..m
      PROVE  /\ w[l] \in 0..n /\ u[l] \in 0..n /\ w[l] <= u[l]
             /\ l < m => u[l + 1] - w[l + 1] = R(l, u[l]) - R(l, w[l])
  BY <1>1, WalkMono
<1>3. ASSUME NEW l \in 0..m, NEW y \in Nat, y + n < 2 ^ USIZE_BITS, y >= R(l, u[l]) - R(l, w[l])
      PROVE  \/ UpStep(symbol, l, y) = None
             \/ /\ UpStep(symbol, l, y) \in Nat
                /\ UpStep(symbol, l, y) >= u[l] - w[l]
                /\ UpStep(symbol, l, y) + w[l] < n
  BY <1>1, <1>2, <1>3, UpPast
<1>4. Past(m)
  <2>1. m \in 0..m /\ m \in 0..(n_levels - 1)
    BY <1>1
  <2>2. rank_between(symbol, w[m], u[m]) = Count(indexed, symbol, n)
    BY <1>1, RankIs
  <2>3. rank_between(symbol, w[m], u[m]) = R(m, u[m]) - R(m, w[m])
    BY DEF rank_between
  <2>4. up[m] = UpStep(symbol, m, up[m + 1]) /\ up[m + 1] = k
    BY <1>1, <2>1
  <2> HIDE DEF R, w, u
  <2>5. k >= R(m, u[m]) - R(m, w[m])
    BY <2>2, <2>3
  <2>6. QED
    BY <1>3, <2>1, <2>4, <2>5
<1>5. w[0] = 0 /\ u[0] = n
  BY <1>1, WalkIs
<1>6. 2 * n + 1 < 2 ^ USIZE_BITS /\ 2 ^ USIZE_BITS \in Nat
  BY <1>1, Room
<1> HIDE DEF w, u, R
<1>7. ASSUME NEW l \in 0..(m - 1), Past(l + 1) PROVE Past(l)
  <2>1. l \in 0..m /\ l + 1 \in 0..m /\ l < m /\ l \in 0..(n_levels - 1)
    BY <1>1
  <2>2. up[l] = UpStep(symbol, l, up[l + 1])
    BY <2>1
  <2>3. CASE up[l + 1] = None
    BY <2>2, <2>3 DEF UpStep
  <2>4. CASE up[l + 1] \in Nat /\ up[l + 1] >= u[l + 1] - w[l + 1] /\ up[l + 1] + w[l + 1] < n
    <3> DEFINE y == up[l + 1]
    <3>1. y \in Nat /\ y >= u[l + 1] - w[l + 1] /\ y + w[l + 1] < n
      BY <2>4
    <3>2. w[l + 1] \in Nat /\ u[l + 1] - w[l + 1] = R(l, u[l]) - R(l, w[l])
      BY <1>1, <1>2, <2>1
    <3> DEFINE Z == 2 ^ USIZE_BITS
    <3>3. 2 * n + 1 < Z /\ Z \in Nat
      BY <1>6
    <3> HIDE DEF y, Z
    <3>4. y + n < Z
      BY <1>1, <3>1, <3>2, <3>3
    <3>5. y >= R(l, u[l]) - R(l, w[l])
      BY <3>1, <3>2
    <3>6. QED
      BY <1>3, <2>1, <2>2, <3>1, <3>4, <3>5 DEF y, Z
  <2>5. QED
    BY <1>7, <2>3, <2>4
<1>8. Bad = {}
  <2> HIDE DEF Past
  <2> SUFFICES ASSUME Bad # {} PROVE FALSE
    OBVIOUS
  <2>1. PICK r \in Bad : \A i \in Bad : r <= i
    BY LeastNat
  <2>2. r \in Nat /\ r <= m /\ ~Past(m - r)
    BY <2>1
  <2>3. r # 0
    <3>1. m - 0 = m
      BY <1>1
    <3>2. QED
      BY <1>4, <2>2, <3>1
  <2>4. r - 1 \in Nat /\ r - 1 <= m /\ r - 1 < r /\ m - (r - 1) = (m - r) + 1 /\ m - r \in 0..(m - 1)
    BY <1>1, <2>2, <2>3
  <2>5. Past(m - (r - 1))
    <3>1. r - 1 \notin Bad
      BY <2>1, <2>2, <2>4
    <3>2. QED
      BY <2>4, <3>1
  <2>6. QED
    BY <1>7, <2>2, <2>4, <2>5
<1>9. Past(0)
  <2> HIDE DEF Past, m
  <2>0. m \in Nat /\ m <= m /\ m - m = 0
    BY <1>1
  <2>1. m \in Nat /\ m <= m /\ m \notin Bad /\ m - m = 0
    <3> HIDE DEF Bad
    <3> QED
      BY <2>0, <1>8
  <2>2. Past(m - m)
    BY <2>1
  <2>3. QED
    BY <2>1, <2>2
<1>10. QED
  BY <1>1, <1>5, <1>9

\* select answers for the indexed sequence, if its symbols are at most sigma.
LEMMA SelectFollows ==
  ASSUME Indexes, n <= MaxLen, n > 0, \A p \in 0..(n - 1) : indexed[p] <= sigma,
         NEW symbol \in Nat, NEW k \in Nat, k + n < 2 ^ USIZE_BITS
  PROVE  SelectIsExact(symbol, k)
<1>0. n \in Nat /\ WellFormed /\ n_levels \in Nat
  BY DEF Indexes, WellFormed
<1> DEFINE C(i) == Count(indexed, symbol, i)
           P(p) == indexed[p] = symbol /\ Occs(symbol, 0, p) = k
<1>1. \A i : Occs(symbol, 0, i) = C(i)
  BY DEF Occs, Count
<1>2. SelectIsExact(symbol, k) <=>
        select(symbol, k) = IF k < C(n) THEN CHOOSE p \in 0..(n - 1) : P(p) ELSE None
  BY <1>1 DEF SelectIsExact
<1>3. PICK up \in [0..n_levels -> Int] :
        /\ up[n_levels] = k
        /\ \A l \in 0..(n_levels - 1) : up[l] = UpStep(symbol, l, up[l + 1])
        /\ select(symbol, k) = IF symbol > sigma THEN None ELSE up[0]
  BY <1>0, SelectIs
<1>4. sigma \in Nat /\ sigma < Quarters(n_levels) /\ Quarters(n_levels) \in Nat
  BY <1>0, QuartersStep DEF Indexes
<1>5. C(n) \in Nat
  BY <1>0, CountType
<1>6. CASE symbol > sigma
  <2>1. \A p \in 0..(n - 1) : indexed[p] # symbol
    BY <1>4, <1>6
  <2>2. C(n) = 0
    <3>1. {j \in 0..(n - 1) : indexed[j] = symbol} = {}
      BY <2>1
    <3>2. QED
      BY <3>1, FS_EmptySet DEF Count
  <2> HIDE DEF C
  <2>3. QED
    BY <1>2, <1>3, <1>6, <2>2
<1>7. CASE ~(symbol > sigma) /\ ~(k < C(n))
  <2>1. symbol < Quarters(n_levels) /\ k >= C(n)
    BY <1>4, <1>5, <1>7
  <2>2. up[0] = None
    BY <1>0, <1>3, <2>1, SelectMiss
  <2>3. QED
    BY <1>2, <1>3, <1>7, <2>2
<1>8. CASE ~(symbol > sigma) /\ k < C(n)
  <2>1. symbol < Quarters(n_levels)
    BY <1>4, <1>8
  <2>2. PICK p \in 0..(n - 1) : indexed[p] = symbol /\ C(p) = k
    BY <1>0, <1>8, SelectedExists
  <2>3. up[0] = p
    BY <1>0, <1>3, <2>1, <2>2, SelectHit
  <2>4. P(p)
    BY <1>1, <2>2
  <2>5. \A q \in 0..(n - 1) : P(q) => q = p
    <3>1. ASSUME NEW q \in 0..(n - 1), P(q) PROVE q = p
      <4>1. indexed[q] = symbol /\ C(q) = C(p) /\ q \in Nat /\ p \in Nat
        BY <1>0, <1>1, <2>2, <3>1
      <4>2. QED
        BY <2>2, <4>1, SelectedUnique
    <3>2. QED
      BY <3>1
  <2> HIDE DEF P
  <2>6. (CHOOSE q \in 0..(n - 1) : P(q)) = p
    BY <2>4, <2>5
  <2>7. QED
    BY <1>2, <1>3, <1>8, <2>3, <2>6
<1>9. QED
  BY <1>6, <1>7, <1>8

\* sigma is the largest symbol of a tree that has been built.
LEMMA SigmaIsLargest ==
  ASSUME TreeInv, Built, n > 0
  PROVE  /\ sigma = Max({indexed[p] : p \in 0..(n - 1)})
         /\ \A p \in 0..(n - 1) : indexed[p] <= sigma
<1>0. n \in Nat
  BY DEF TreeInv
<1>1. CASE Partitioned
  <2>1. indexed = data
    BY <1>1 DEF indexed, Partitioned
  <2>2. sigma = Max({data[p] : p \in 0..(n - 1)}) /\ data \in [0..(n - 1) -> Ts]
    BY <1>1 DEF Partitioned
  <2>3. \A p \in 0..(n - 1) : data[p] <= sigma
    BY <1>0, <2>2, SigmaIs
  <2>4. QED
    BY <2>1, <2>2, <2>3
<1>2. CASE Handed /\ accepts
  <2>1. Indexes
    BY <1>0, <1>2, PartsReady
  <2> DEFINE T == {spelled(path(i)) : i \in 0..(n - 1)}
             U == {indexed[i] : i \in 0..(n - 1)}
  <2>2. \A i \in 0..(n - 1) : indexed[i] = spelled(path(i))
    BY <2>1 DEF Indexes
  <2>3. T = U
    BY <2>2
  <2>4. Max(T) = sigma
    BY <1>0, <1>2 DEF accepts, sigma_agrees
  <2>5. \A i \in 0..(n - 1) : spelled(path(i)) \in Nat /\ spelled(path(i)) < Quarters(n_levels)
    BY <2>1, AgreesIs DEF Indexes
  <2>6. Quarters(n_levels) \in Nat
    BY <2>1, QuartersStep DEF Indexes, WellFormed
  <2>7. U \in SUBSET Nat /\ \A y \in U : y <= Quarters(n_levels)
    <3>1. \A i \in 0..(n - 1) : indexed[i] \in Nat /\ indexed[i] <= Quarters(n_levels)
      BY <2>2, <2>5, <2>6
    <3>2. QED
      BY <3>1
  <2>8. indexed[0] \in U /\ \A i \in 0..(n - 1) : indexed[i] \in U
    BY <1>0
  <2> HIDE DEF T, U
  <2>9. \A y \in U : y <= Max(U)
    BY <2>6, <2>7, <2>8, MaxNat
  <2>10. QED
    BY <2>3, <2>4, <2>8, <2>9 DEF U
<1>3. QED
  BY <1>1, <1>2 DEF TreeInv, Built

\* And select.
LEMMA SelectsHold == TreeInv => SelectExact
<1> SUFFICES ASSUME TreeInv, Built, n > 0,
                    NEW symbol \in Probes,
                    NEW k \in 0..(n + 1) \cup {2 ^ USIZE_BITS - 1 - n}
             PROVE  SelectIsExact(symbol, k)
  BY DEF SelectExact
<1>1. n \in Nat /\ n <= MaxLen /\ Indexes
  BY BuiltIsReady DEF TreeInv, Ready
<1>2. \A p \in 0..(n - 1) : indexed[p] <= sigma
  BY SigmaIsLargest
<1>3. 2 * n + 1 < 2 ^ USIZE_BITS /\ n < 2 ^ USIZE_BITS /\ 2 ^ USIZE_BITS \in Nat
  BY <1>1, Room
<1>4. k \in Nat /\ k + n < 2 ^ USIZE_BITS
  BY <1>1, <1>3
<1>5. symbol \in Nat
  BY ProbeType
<1>6. QED
  BY <1>1, <1>2, <1>4, <1>5, SelectFollows

\* select is exact on every tree with a symbol, for every occurrence asked for
\* that no sum of positions wraps: the additions and subtractions of usize on the
\* way up are those of the numbers, also where the symbol occurs less often.
THEOREM SelectsAreExact == Spec => []SelectExact
BY SelectsHold, TreeInvHolds, PTL

------------------------------------------------------------------------------
\* A position of an injection of positions has as many below it as it says.
LEMMA RankOfInjection ==
  ASSUME NEW N \in Nat, NEW f \in [0..(N - 1) -> 0..(N - 1)],
         \A p, q \in 0..(N - 1) : f[p] = f[q] => p = q,
         NEW p \in 0..(N - 1)
  PROVE  Cardinality({q \in 0..(N - 1) : f[q] < f[p]}) = f[p]
<1> DEFINE S == 0..(N - 1)
           A == {q \in S : f[q] < f[p]}
           B == 0..(f[p] - 1)
           h == [q \in A |-> f[q]]
<1>1. IsFiniteSet(S)
  BY FS_Interval
<1>2. f \in Injection(S, S)
  BY Fun_IsInj
<1>3. f \in Surjection(S, S)
  BY <1>1, <1>2, FS_Injection
<1>4. \A y \in S : \E x \in S : f[x] = y
  BY <1>3 DEF Surjection
<1>5. f[p] \in S /\ B \subseteq S
  OBVIOUS
<1>6. h \in [A -> B]
  <2>1. ASSUME NEW q \in A PROVE f[q] \in B
    OBVIOUS
  <2>2. QED
    BY <2>1
<1>7. \A a, b \in A : h[a] = h[b] => a = b
  OBVIOUS
<1>8. \A y \in B : \E x \in A : h[x] = y
  <2> SUFFICES ASSUME NEW y \in B PROVE \E x \in A : h[x] = y
    OBVIOUS
  <2>1. PICK x \in S : f[x] = y
    BY <1>4, <1>5
  <2>2. x \in A
    BY <2>1, <1>5
  <2>3. QED
    BY <2>1, <2>2
<1> HIDE DEF h
<1>9. h \in Bijection(A, B)
  BY <1>6, <1>7, <1>8, Fun_IsBij
<1>10. ExistsBijection(A, B)
  BY <1>9, Fun_ExistsBij
<1>11. IsFiniteSet(A)
  BY <1>1, FS_Subset
<1>12. Cardinality(B) = Cardinality(A)
  BY <1>10, <1>11, FS_Bijection
<1>13. Cardinality(B) = f[p]
  <2>1. 0 \in Int /\ f[p] - 1 \in Int /\ f[p] \in Nat
    BY <1>5
  <2>2. Cardinality(0..(f[p] - 1)) = IF 0 > f[p] - 1 THEN 0 ELSE (f[p] - 1) - 0 + 1
    BY <2>1, FS_Interval
  <2>3. QED
    BY <2>1, <2>2
<1>14. QED
  BY <1>12, <1>13

\* The key of a position at level l is what its digits above l spell, the nearest
\* first: one digit more per level, and it is less than one with a digit more.
LEMMA KeyStep ==
  ASSUME n_levels \in Nat, NEW p, indexed[p] \in Nat, NEW l \in 0..LastLevel
  PROVE  /\ MatrixKey(p, 0) = 0
         /\ MatrixKey(p, l) \in Nat
         /\ MatrixKey(p, l + 1) = MatrixKey(p, l) + digit(indexed[p], l) * Quarters(l)
<1> DEFINE g == [k \in 0..LastLevel |-> digit(indexed[p], k) * 2 ^ (2 * k)]
<1>1. \A k \in 0..LastLevel : digit(indexed[p], k) * 2 ^ (2 * k) \in Nat
  <2> SUFFICES ASSUME NEW k \in 0..LastLevel PROVE digit(indexed[p], k) * 2 ^ (2 * k) \in Nat
    OBVIOUS
  <2>1. digit(indexed[p], k) \in Quads
    BY DigitType
  <2>2. Quarters(k) \in Nat
    BY QuartersStep
  <2>3. 2 ^ (2 * k) \in Nat /\ digit(indexed[p], k) \in Nat
    BY <2>1, <2>2 DEF Quarters, Quads
  <2>4. QED
    BY <2>3
<1>2. LastLevel \in Nat /\ LastLevel + 1 \in Nat /\ 0..((LastLevel + 1) - 1) = 0..LastLevel
  BY DEF LastLevel
<1>3. PICK F : Additive(F, g, LastLevel + 1)
  <2>1. \A k \in 0..((LastLevel + 1) - 1) : g[k] \in Nat
    BY <1>1, <1>2
  <2> HIDE DEF g
  <2>2. QED
    BY <1>2, <2>1, SumsExist
<1>4. /\ F \in [SUBSET (0..LastLevel) -> Nat] /\ F[{}] = 0
      /\ \A s \in SUBSET (0..LastLevel) : \A x \in s : F[s] = g[x] + F[s \ {x}]
  <2> HIDE DEF g
  <2> QED
    BY <1>2, <1>3 DEF Additive
<1>5. ASSUME NEW k \in 0..(LastLevel + 1) PROVE MatrixKey(p, k) = F[0..(k - 1)]
  <2> DEFINE S == 0..(k - 1)
             val(x) == digit(indexed[p], x) * 2 ^ (2 * x)
             step(f, s) == IF s = {} THEN 0
                           ELSE val(CHOOSE x \in s : TRUE) + f[s \ {CHOOSE x \in s : TRUE}]
             G(f) == [s \in SUBSET S |-> step(f, s)]
             iter == CHOOSE f : f = G(f)
             H == [s \in SUBSET S |-> F[s]]
  <2>1. MatrixKey(p, k) = iter[S]
    BY DEF MatrixKey, MapThenSumSet, MapThenFoldSet
  <2>2. S \in SUBSET (0..LastLevel) /\ \A x \in S : val(x) = g[x]
    BY <1>2
  <2> HIDE DEF S, val, g
  <2>3. \A s \in SUBSET S : \A x \in s : F[s] = val(x) + F[s \ {x}]
    BY <1>4, <2>2
  <2>4. H = G(H)
    <3>1. ASSUME NEW s \in SUBSET S PROVE F[s] = step(H, s)
      <4>1. CASE s = {}
        BY <4>1, <1>4
      <4>2. CASE s # {}
        <5> DEFINE x == CHOOSE x \in s : TRUE
        <5>1. x \in s
          BY <4>2
        <5>2. H[s \ {x}] = F[s \ {x}]
          OBVIOUS
        <5>3. step(H, s) = val(x) + H[s \ {x}]
          BY <4>2
        <5> HIDE DEF x, H, step
        <5>4. QED
          BY <2>3, <5>1, <5>2, <5>3
      <4>3. QED
        BY <4>1, <4>2
    <3> HIDE DEF step
    <3>2. QED
      BY <3>1
  <2>5. iter = G(iter)
    <3> HIDE DEF H, G
    <3> QED
      BY <2>4
  <2>6. \A s \in SUBSET S : iter[s] = step(iter, s)
    <3> HIDE DEF iter, step
    <3> QED
      BY <2>5
  <2> HIDE DEF iter, H, G
  <2>7. \A s \in SUBSET S : IsFiniteSet(s) /\ Cardinality(s) \in Nat
    <3>1. IsFiniteSet(S)
      BY FS_Interval DEF S
    <3>2. QED
      BY <3>1, FS_Subset, FS_CardinalityType
  <2> DEFINE Bad == {c \in Nat : \E s \in SUBSET S : Cardinality(s) = c /\ iter[s] # F[s]}
  <2>8. Bad = {}
    <3> SUFFICES ASSUME Bad # {} PROVE FALSE
      OBVIOUS
    <3>1. PICK c \in Bad : \A e \in Bad : c <= e
      BY LeastNat
    <3>2. PICK s \in SUBSET S : Cardinality(s) = c /\ iter[s] # F[s]
      BY <3>1
    <3> DEFINE x == CHOOSE x \in s : TRUE
    <3>3. s # {}
      BY <3>2, <1>4, <2>6
    <3>4. x \in s
      BY <3>3
    <3>5. iter[s] = val(x) + iter[s \ {x}]
      BY <3>3, <2>6
    <3> HIDE DEF x
    <3>6. Cardinality(s \ {x}) = Cardinality(s) - 1
      BY <3>4, <2>7, FS_RemoveElement
    <3>7. iter[s \ {x}] = F[s \ {x}]
      <4>1. s \ {x} \in SUBSET S /\ Cardinality(s \ {x}) \in Nat /\ Cardinality(s \ {x}) < c
        BY <3>2, <3>6, <2>7
      <4>2. Cardinality(s \ {x}) \notin Bad
        <5>1. c \in Nat
          BY <3>1
        <5> HIDE DEF Bad
        <5>2. QED
          BY <3>1, <4>1, <5>1
      <4>3. QED
        BY <4>1, <4>2
    <3>8. QED
      BY <2>3, <3>2, <3>4, <3>5, <3>7
  <2>9. Cardinality(S) \notin Bad /\ Cardinality(S) \in Nat /\ S \in SUBSET S
    BY <2>7, <2>8
  <2>10. iter[S] = F[S]
    BY <2>9
  <2>11. QED
    BY <2>1, <2>10 DEF S
<1>6. /\ MatrixKey(p, 0) = F[0..(0 - 1)]
      /\ MatrixKey(p, l) = F[0..(l - 1)]
      /\ MatrixKey(p, l + 1) = F[0..((l + 1) - 1)]
  <2>1. 0 \in 0..(LastLevel + 1) /\ l \in 0..(LastLevel + 1) /\ l + 1 \in 0..(LastLevel + 1)
    BY <1>2
  <2> HIDE DEF g
  <2>2. QED
    BY <1>5, <2>1
<1>7. /\ 0..(0 - 1) = {} /\ (l + 1) - 1 = l
      /\ 0..l \in SUBSET (0..LastLevel) /\ l \in 0..l /\ (0..l) \ {l} = 0..(l - 1)
      /\ 0..(l - 1) \in SUBSET (0..LastLevel)
  BY <1>2
<1>8. F[0..l] = g[l] + F[0..(l - 1)] /\ F[0..(l - 1)] \in Nat
  <2> HIDE DEF g
  <2>1. F[0..l] = g[l] + F[(0..l) \ {l}]
    BY <1>4, <1>7
  <2>2. F[0..(l - 1)] \in Nat
    BY <1>4, <1>7
  <2>3. QED
    BY <1>7, <2>1, <2>2
<1>9. g[l] = digit(indexed[p], l) * Quarters(l) /\ g[l] \in Nat
  BY <1>1 DEF Quarters
<1> HIDE DEF g
<1>10. MatrixKey(p, l + 1) = F[0..l] /\ MatrixKey(p, 0) = 0
  BY <1>4, <1>6, <1>7
<1>11. F[0..l] = F[0..(l - 1)] + digit(indexed[p], l) * Quarters(l)
  BY <1>8, <1>9
<1>12. QED
  BY <1>6, <1>8, <1>10, <1>11

\* It is less than that of any position with a digit more.
LEMMA KeyBound ==
  ASSUME n_levels \in Nat \ {0}, NEW p, indexed[p] \in Nat, NEW l \in 0..n_levels
  PROVE  MatrixKey(p, l) \in Nat /\ MatrixKey(p, l) < Quarters(l)
<1> DEFINE K(j) == MatrixKey(p, j)
           Q(j) == Quarters(j)
           Bad == {j \in Nat : j <= n_levels /\ ~(K(j) \in Nat /\ K(j) < Q(j))}
<1>0. Q(0) = 1 /\ \A j \in Nat : Q(j) \in Nat \ {0} /\ Q(j + 1) = 4 * Q(j)
  BY QuartersStep
<1>1. Bad = {}
  <2> SUFFICES ASSUME Bad # {} PROVE FALSE
    OBVIOUS
  <2>1. PICK j \in Bad : \A k \in Bad : j <= k
    BY LeastNat
  <2>2. CASE j = 0
    <3>1. 0 \in 0..LastLevel
      BY DEF LastLevel
    <3>2. K(0) = 0
      BY <3>1, KeyStep
    <3> HIDE DEF K, Q
    <3>3. QED
      BY <1>0, <2>1, <2>2, <3>2
  <2>3. CASE j # 0
    <3>1. j - 1 \in Nat /\ j - 1 <= n_levels /\ j - 1 < j /\ j - 1 \in 0..LastLevel /\ (j - 1) + 1 = j
      BY <2>1, <2>3 DEF LastLevel
    <3>2. j - 1 \notin Bad
      BY <2>1, <3>1
    <3>3. K(j - 1) \in Nat /\ K(j - 1) < Q(j - 1)
      BY <3>1, <3>2
    <3>4. K((j - 1) + 1) = K(j - 1) + digit(indexed[p], j - 1) * Q(j - 1)
      BY <3>1, KeyStep
    <3>5. digit(indexed[p], j - 1) \in 0..3
      BY <3>1, DigitType DEF Quads
    <3> DEFINE d == digit(indexed[p], j - 1)
    <3> HIDE DEF K, Q, d
    <3>6. K(j) = K(j - 1) + d * Q(j - 1) /\ d \in 0..3
      BY <3>1, <3>4, <3>5 DEF d
    <3>7. Q(j) = 4 * Q(j - 1) /\ Q(j - 1) \in Nat
      BY <1>0, <3>1
    <3>8. d * Q(j - 1) \in Nat /\ d * Q(j - 1) <= 3 * Q(j - 1)
      BY <3>6, <3>7
    <3>9. QED
      BY <2>1, <3>3, <3>6, <3>7, <3>8
  <2>4. QED
    BY <2>2, <2>3
<1>2. l \in Nat /\ l <= n_levels /\ l \notin Bad
  BY <1>1
<1>3. QED
  BY <1>2

\* q comes before p in the order of level l.
Precedes(q, p, l) ==
  \/ MatrixKey(q, l) < MatrixKey(p, l)
  \/ MatrixKey(q, l) = MatrixKey(p, l) /\ q < p

\* Symbols stand at a level in the order of their keys, then as they were: a
\* level sorts by one digit more, and keeps the order of those that agree in it.
LEMMA TrackOrder ==
  ASSUME n \in Nat, n_levels \in Nat \ {0}, NEW m \in 0..n_levels,
         NEW at, IsTrack(at, m, qvs, n, indexed, n_levels),
         \A p \in 0..(n - 1) : indexed[p] \in Nat,
         \A l \in 0..(m - 1) : \A p \in 0..(n - 1) : qv(l)[p] \in Quads,
         NEW l \in 0..m, NEW p \in 0..(n - 1), NEW q \in 0..(n - 1), Precedes(q, p, l)
  PROVE  at[l][q] < at[l][p]
<1> DEFINE P == 0..(n - 1)
           Bad == {j \in Nat : j <= m /\ ~\A x, y \in P : Precedes(x, y, j) => at[j][x] < at[j][y]}
<1>1. \A x \in P : at[0][x] = x
  BY DEF IsTrack
<1>2. \A j \in 0..n_levels, x \in P : MatrixKey(x, j) \in Nat /\ MatrixKey(x, j) < Quarters(j)
  BY KeyBound
<1>3. Bad = {}
  <2> SUFFICES ASSUME Bad # {} PROVE FALSE
    OBVIOUS
  <2>1. PICK j \in Bad : \A k \in Bad : j <= k
    BY LeastNat
  <2>2. PICK x \in P, y \in P : Precedes(x, y, j) /\ ~(at[j][x] < at[j][y])
    BY <2>1
  <2>3. CASE j = 0
    <3>1. 0 \in 0..LastLevel
      BY DEF LastLevel
    <3>2. MatrixKey(x, 0) = 0 /\ MatrixKey(y, 0) = 0
      BY <3>1, KeyStep
    <3>3. QED
      BY <1>1, <2>2, <2>3, <3>2 DEF Precedes
  <2>4. CASE j # 0
    <3> DEFINE k == j - 1
               v == qv(k)
               a == at[k][x]
               b == at[k][y]
    <3>1. k \in Nat /\ k <= m /\ k < j /\ k \in 0..(m - 1) /\ k \in 0..LastLevel /\ k + 1 = j /\ k \in 0..m
      BY <2>1, <2>4 DEF LastLevel
    <3>2. k \notin Bad
      <4> HIDE DEF k
      <4>1. j \in Nat
        BY <2>1
      <4> HIDE DEF Bad
      <4>2. QED
        BY <2>1, <3>1, <4>1
    <3>3. Precedes(x, y, k) => a < b
      BY <3>1, <3>2
    <3> HIDE DEF k
    <3>4. a \in P /\ b \in P
      <4>1. at[k] \in [P -> P]
        BY <3>1 DEF IsTrack
      <4>2. QED
        BY <4>1
    <3>5. /\ v[a] = digit(indexed[x], k) /\ v[b] = digit(indexed[y], k)
          /\ at[k + 1][x] = ChildOf(v, n, v[a], a) /\ at[k + 1][y] = ChildOf(v, n, v[b], b)
      BY <3>1 DEF IsTrack, qv, digit
    <3>6. \A z \in 0..(n - 1) : v[z] \in Quads
      BY <3>1
    <3>7. /\ MatrixKey(x, k + 1) = MatrixKey(x, k) + v[a] * Quarters(k)
          /\ MatrixKey(y, k + 1) = MatrixKey(y, k) + v[b] * Quarters(k)
      <4>1. \A z \in P : MatrixKey(z, k + 1) = MatrixKey(z, k) + digit(indexed[z], k) * Quarters(k)
        BY <3>1, KeyStep
      <4>2. QED
        BY <3>5, <4>1
    <3>8. /\ MatrixKey(x, k) \in Nat /\ MatrixKey(x, k) < Quarters(k)
          /\ MatrixKey(y, k) \in Nat /\ MatrixKey(y, k) < Quarters(k)
          /\ Quarters(k) \in Nat
      <4>1. k \in 0..n_levels
        BY <3>1
      <4>2. QED
        BY <1>2, <3>1, <4>1, QuartersStep
    <3>9. v[a] \in 0..3 /\ v[b] \in 0..3
      BY <3>4, <3>6 DEF Quads
    <3>10. v[a] < v[b] \/ (v[a] = v[b] /\ Precedes(x, y, k))
      <4> DEFINE s == MatrixKey(x, k)
                 t == MatrixKey(y, k)
                 c == v[a]
                 d == v[b]
                 Q == Quarters(k)
      <4>1. (s + c * Q < t + d * Q \/ (s + c * Q = t + d * Q /\ x < y))
        BY <2>2, <3>1, <3>7 DEF Precedes
      <4>2. s \in Nat /\ t \in Nat /\ s < Q /\ t < Q /\ Q \in Nat /\ c \in 0..3 /\ d \in 0..3
        BY <3>8, <3>9
      <4> SUFFICES c < d \/ (c = d /\ (s < t \/ (s = t /\ x < y)))
        BY DEF Precedes
      <4> HIDE DEF s, t, c, d, Q
      <4>3. c <= d
        <5> SUFFICES ASSUME d + 1 <= c PROVE FALSE
          BY <4>2
        <5>1. (d + 1) * Q <= c * Q /\ (d + 1) * Q = d * Q + Q /\ d * Q \in Nat /\ c * Q \in Nat
          BY <4>2
        <5>2. QED
          BY <4>1, <4>2, <5>1
      <4>4. CASE c = d
        <5>1. c * Q \in Nat /\ c * Q = d * Q
          BY <4>2, <4>4
        <5>2. QED
          BY <4>1, <4>2, <4>4, <5>1
      <4>5. QED
        BY <4>2, <4>3, <4>4
    <3>11. v[a] < v[b] \/ (v[a] = v[b] /\ a < b)
      BY <3>3, <3>10
    <3> HIDE DEF v, a, b
    <3>12. ChildOf(v, n, v[a], a) < ChildOf(v, n, v[b], b)
      BY <3>4, <3>6, <3>11, ChildOrder
    <3>13. QED
      BY <2>2, <3>1, <3>5, <3>12
  <2>5. QED
    BY <2>3, <2>4
<1>4. l \in Nat /\ l <= m /\ l \notin Bad
  BY <1>3
<1>5. QED
  BY <1>4

\* So the slot of a symbol is where it stands.
LEMMA SlotIs ==
  ASSUME n \in Nat, n_levels \in Nat \ {0}, NEW m \in 0..n_levels,
         NEW at, IsTrack(at, m, qvs, n, indexed, n_levels),
         \A p \in 0..(n - 1) : indexed[p] \in Nat,
         \A l \in 0..(m - 1) : \A p \in 0..(n - 1) : qv(l)[p] \in Quads,
         NEW l \in 0..m, NEW p \in 0..(n - 1)
  PROVE  Slot(p, l) = at[l][p]
<1> DEFINE P == 0..(n - 1)
           f == at[l]
<1>1. f \in [P -> P]
  BY DEF IsTrack
<1>2. \A x, y \in P : Precedes(x, y, l) => f[x] < f[y]
  BY TrackOrder
<1>3. \A x \in P : MatrixKey(x, l) \in Nat
  <2>1. l \in 0..n_levels
    OBVIOUS
  <2>2. QED
    BY <2>1, KeyBound
<1>4. \A x, y \in P : Precedes(x, y, l) \/ Precedes(y, x, l) \/ x = y
  BY <1>3 DEF Precedes
<1> HIDE DEF f
<1>5. \A x \in P : f[x] \in Nat
  BY <1>1
<1>6. \A x, y \in P : f[x] = f[y] => x = y
  BY <1>2, <1>4, <1>5
<1>7. \A x \in P : Precedes(x, p, l) <=> f[x] < f[p]
  BY <1>2, <1>4, <1>5
<1>8. {q \in P : Precedes(q, p, l)} = {q \in P : f[q] < f[p]}
  <2> HIDE DEF P
  <2> QED
    BY <1>7
<1>9. Slot(p, l) = Cardinality({q \in P : Precedes(q, p, l)})
  BY DEF Slot, Precedes
<1>10. Cardinality({q \in P : f[q] < f[p]}) = f[p]
  BY <1>1, <1>6, RankOfInjection
<1>11. QED
  BY <1>8, <1>9, <1>10 DEF f

\* The levels written so far by from_owned are those of the wavelet matrix.
LEMMA PartitionedLevels ==
  ASSUME n \in Nat, Partitioned
  PROVE  /\ 2 ^ (2 * n_levels) > sigma
         /\ \A l \in 0..(Len(qvs) - 1) :
              /\ qvs[l + 1].len = n
              /\ \A p \in 0..(n - 1) : qv(l)[Slot(p, l)] = digit(indexed[p], l)
<1> DEFINE m == Len(qvs)
<1>1. indexed = data /\ data \in [0..(n - 1) -> Ts] /\ n > 0
  BY DEF indexed, Partitioned
<1>2. \A p \in 0..(n - 1) : indexed[p] \in Nat
  BY <1>1 DEF Ts
<1>3. sigma \in Ts
  <2>1. Max({data[p] : p \in 0..(n - 1)}) \in Ts
    BY <1>1, SigmaIs
  <2>2. QED
    BY <2>1 DEF Partitioned
<1>4. n_levels \in Nat \ {0} /\ sigma < Quarters(n_levels) /\ sigma \in Nat /\ Quarters(n_levels) \in Nat
  <2>1. levels_for(sigma) \in 1..(T_BITS \div 2) /\ sigma < Quarters(levels_for(sigma))
    BY <1>3, LevelsFor
  <2>2. n_levels = levels_for(sigma)
    BY DEF Partitioned
  <2>3. sigma \in Nat
    BY <1>3 DEF Ts
  <2>4. n_levels \in Nat \ {0}
    BY <2>1, <2>2
  <2>5. QED
    BY <2>1, <2>2, <2>3, <2>4, QuartersStep
<1>5. m \in 0..n_levels
  BY <1>4 DEF Partitioned
<1>6. ASSUME NEW l \in 0..(m - 1)
      PROVE  qvs[l + 1].len = n /\ \A p \in 0..(n - 1) : qv(l)[p] \in Quads
  <2>1. l + 1 \in 1..Len(qvs)
    BY <1>5
  <2>2. qvs[l + 1] \in LevelsOfLength(n)
    BY <2>1 DEF Partitioned
  <2>3. QED
    BY <2>2 DEF LevelsOfLength, qv
<1>7. PICK at : IsTrack(at, m, qvs, n, data, n_levels)
  BY DEF Partitioned
<1>8. IsTrack(at, m, qvs, n, indexed, n_levels)
  BY <1>1, <1>7
<1>9. ASSUME NEW l \in 0..(m - 1), NEW p \in 0..(n - 1)
      PROVE  qv(l)[Slot(p, l)] = digit(indexed[p], l)
  <2>1. l \in 0..m
    BY <1>5
  <2> HIDE DEF m
  <2>2. Slot(p, l) = at[l][p]
    BY <1>2, <1>4, <1>5, <1>6, <1>8, <2>1, SlotIs
  <2>3. qvs[l + 1].qv[at[l][p]] = two_bits(indexed[p], 2 * (n_levels - 1 - l))
    BY <1>8 DEF IsTrack
  <2>4. QED
    BY <2>2, <2>3 DEF qv, digit
<1>10. 2 ^ (2 * n_levels) > sigma
  BY <1>4 DEF Quarters
<1>11. QED
  BY <1>6, <1>9, <1>10

\* So are those that from_parts accepts.
LEMMA PartsLevels ==
  ASSUME n \in Nat, n > 0, Handed, accepts
  PROVE  /\ 2 ^ (2 * n_levels) > sigma
         /\ Len(qvs) = n_levels
         /\ \A l \in 0..(Len(qvs) - 1) :
              /\ qvs[l + 1].len = n
              /\ \A p \in 0..(n - 1) : qv(l)[Slot(p, l)] = digit(indexed[p], l)
<1> DEFINE m == LastLevel
           P == 0..(n - 1)
           at == [l \in 0..m |-> [p \in P |-> path(p)[l]]]
<1>1. Indexes
  BY PartsReady
<1>2. /\ WellFormed /\ n_levels \in Nat \ {0} /\ sigma < Quarters(n_levels) /\ sigma \in Nat
      /\ \A p \in P : indexed[p] = spelled(path(p))
  BY <1>1 DEF Indexes, WellFormed
<1>3. Len(qvs) = n_levels
  BY DEF accepts
<1>4. m \in Nat /\ m = n_levels - 1 /\ m \in 0..n_levels
  BY <1>2 DEF LastLevel
<1>5. \A l \in 0..m : qvs[l + 1].len = n /\ \A p \in P : qv(l)[p] \in Quads
  BY <1>2 DEF WellFormed
<1>6. \A p \in P : indexed[p] \in Nat /\ Agrees(indexed[p], p, n_levels)
  BY <1>2, AgreesIs
<1>7. ASSUME NEW p \in P, NEW l \in 0..m
      PROVE  path(p)[l] \in P /\ qv(l)[path(p)[l]] = digit(indexed[p], l)
  <2>1. path(p) \in [0..m -> P]
    BY <1>2, PathIs
  <2>2. l \in 0..(n_levels - 1)
    BY <1>4
  <2>3. QED
    BY <1>6, <2>1, <2>2 DEF Agrees
<1>8. IsTrack(at, m, qvs, n, indexed, n_levels)
  <2>1. at \in [0..m -> [P -> P]]
    BY <1>7
  <2>2. \A p \in P : at[0][p] = p
    BY <1>2, <1>4, PathIs
  <2>3. ASSUME NEW l \in 0..(m - 1), NEW p \in P
        PROVE  /\ qvs[l + 1].qv[at[l][p]] = two_bits(indexed[p], 2 * (n_levels - 1 - l))
               /\ at[l + 1][p] = ChildOf(qvs[l + 1].qv, n, qvs[l + 1].qv[at[l][p]], at[l][p])
    <3>1. l \in 0..m /\ l + 1 \in 0..m
      BY <1>4
    <3>2. at[l][p] = path(p)[l] /\ at[l + 1][p] = path(p)[l + 1]
      BY <3>1
    <3>3. path(p)[l] \in P /\ qv(l)[path(p)[l]] = digit(indexed[p], l)
      BY <1>7, <3>1
    <3>4. path(p)[l + 1] = child(l, qv(l)[path(p)[l]], path(p)[l])
      BY <1>2, PathIs
    <3>5. child(l, qv(l)[path(p)[l]], path(p)[l]) = ChildOf(qv(l), n, qv(l)[path(p)[l]], path(p)[l])
      BY <1>2, <3>1, <3>3, ChildIs
    <3> HIDE DEF at
    <3>6. QED
      BY <3>2, <3>3, <3>4, <3>5 DEF qv, digit
  <2> HIDE DEF at, m
  <2>4. QED
    BY <2>1, <2>2, <2>3 DEF IsTrack
<1>9. ASSUME NEW l \in 0..(Len(qvs) - 1)
      PROVE  qvs[l + 1].len = n /\ \A p \in P : qv(l)[Slot(p, l)] = digit(indexed[p], l)
  <2>1. l \in 0..m
    BY <1>3, <1>4
  <2>2. \A p \in P : at[l][p] = path(p)[l]
    BY <2>1
  <2>3. \A k \in 0..(m - 1) : \A p \in P : qv(k)[p] \in Quads
    <3>1. \A k \in 0..(m - 1) : k \in 0..m
      BY <1>4
    <3>2. QED
      BY <1>5, <3>1
  <2> HIDE DEF at, m
  <2>4. \A p \in P : Slot(p, l) = at[l][p]
    BY <1>2, <1>4, <1>6, <1>8, <2>1, <2>3, SlotIs
  <2>5. QED
    BY <1>5, <1>7, <2>1, <2>2, <2>4
<1>10. 2 ^ (2 * n_levels) > sigma
  <2>1. Quarters(n_levels) \in Nat
    BY <1>2, QuartersStep
  <2>2. QED
    BY <1>2, <2>1 DEF Quarters
<1>11. QED
  BY <1>3, <1>9, <1>10

\* And the levels those of the wavelet matrix.
LEMMA LevelsHold == TreeInv => LevelsExact
<1> SUFFICES ASSUME TreeInv, pc \in {"level", "built"}, n > 0
             PROVE  /\ Len(qvs) <= n_levels /\ (Built => Len(qvs) = n_levels)
                    /\ sigma = Max({indexed[p] : p \in 0..(n - 1)})
                    /\ 2 ^ (2 * n_levels) > sigma
                    /\ \A l \in 0..(Len(qvs) - 1) :
                         /\ qvs[l + 1].len = n
                         /\ \A p \in 0..(n - 1) : qv(l)[Slot(p, l)] = digit(indexed[p], l)
  BY DEF LevelsExact
<1>1. n \in Nat
  BY DEF TreeInv
<1>2. CASE Partitioned /\ (Built => Len(qvs) = n_levels)
  <2>1. sigma = Max({data[p] : p \in 0..(n - 1)}) /\ indexed = data /\ Len(qvs) <= n_levels
    BY <1>2 DEF Partitioned, indexed
  <2>2. QED
    BY <1>1, <1>2, <2>1, PartitionedLevels
<1>3. CASE Handed /\ accepts /\ pc = "built"
  <2>1. sigma = Max({indexed[p] : p \in 0..(n - 1)})
    BY <1>3, SigmaIsLargest DEF Built
  <2>2. Len(qvs) = n_levels /\ Len(qvs) <= n_levels
    <3>1. Len(qvs) = n_levels
      BY <1>1, <1>3, PartsLevels
    <3>2. Len(qvs) \in Nat
      BY <1>3 DEF Handed
    <3>3. QED
      BY <3>1, <3>2
  <2>3. QED
    BY <1>1, <1>3, <2>1, <2>2, PartsLevels
<1>4. QED
  BY <1>1, <1>2, <1>3 DEF TreeInv, Built

\* The levels are the wavelet matrix of the sequence, at every iteration of
\* from_owned and whenever from_parts accepts: stable partitions by one digit after
\* the other, with usize casts and masked shifts, are one sort by all of them; and
\* a header that is accepted tells the truth about the largest symbol.
THEOREM LevelsAreExact == Spec => []LevelsExact
BY LevelsHold, TreeInvHolds, PTL

------------------------------------------------------------------------------
(* The walks of RangeIter.                                                 *)

\* Where every symbol of a finished tree stands at every level, and below the last.
Track == CHOOSE at : IsTrack(at, n_levels, qvs, n, indexed, n_levels)

\* A tree that indexes a sequence has such a track: the paths of its positions.
LEMMA IndexTrack ==
  ASSUME Indexes
  PROVE  /\ IsTrack(Track, n_levels, qvs, n, indexed, n_levels)
         /\ \A p \in 0..(n - 1) : indexed[p] \in Nat /\ indexed[p] < Quarters(n_levels)
<1> DEFINE m == LastLevel
           P == 0..(n - 1)
           own(l, x) == child(l, qv(l)[x], x)
           at == [l \in 0..n_levels |->
                   [p \in P |-> IF l = n_levels THEN own(m, path(p)[m]) ELSE path(p)[l]]]
<1>1. /\ WellFormed /\ n_levels \in Nat \ {0} /\ n \in Nat
      /\ \A p \in P : indexed[p] = spelled(path(p))
  BY DEF Indexes, WellFormed
<1>2. m \in Nat /\ n_levels = m + 1 /\ m \in 0..LastLevel
  BY <1>1 DEF LastLevel
<1>3. \A p \in P : indexed[p] \in Nat /\ indexed[p] < Quarters(n_levels) /\ Agrees(indexed[p], p, n_levels)
  BY <1>1, AgreesIs
<1>4. ASSUME NEW p \in P, NEW l \in 0..m
      PROVE  /\ path(p)[l] \in P /\ own(l, path(p)[l]) \in P
             /\ qv(l)[path(p)[l]] = digit(indexed[p], l)
             /\ own(l, path(p)[l]) = ChildOf(qv(l), n, qv(l)[path(p)[l]], path(p)[l])
  <2>1. path(p) \in [0..m -> P]
    BY <1>1, PathIs
  <2>2. l \in 0..(n_levels - 1) /\ l \in 0..LastLevel
    BY <1>2
  <2>3. path(p)[l] \in P
    BY <2>1
  <2>4. QED
    BY <1>1, <1>3, <2>2, <2>3, ChildIs DEF Agrees
<1>5. ASSUME NEW l \in 0..(n_levels - 1), NEW p \in P
      PROVE  /\ at[l][p] = path(p)[l] /\ at[l][p] \in P
             /\ at[l + 1][p] = own(l, path(p)[l]) /\ at[l + 1][p] \in P
  <2>1. l \in 0..m /\ l \in 0..n_levels /\ l + 1 \in 0..n_levels /\ l # n_levels
    BY <1>2
  <2>2. at[l][p] = path(p)[l] /\ at[l][p] \in P
    BY <2>1, <1>4
  <2>3. at[l + 1][p] = own(l, path(p)[l])
    <3>1. CASE l = m
      BY <3>1, <1>2, <2>1
    <3>2. CASE l # m
      <4>1. l \in 0..(m - 1) /\ l + 1 # n_levels
        BY <3>2, <2>1, <1>2
      <4>2. path(p)[l + 1] = own(l, path(p)[l])
        BY <1>1, <4>1, PathIs
      <4> HIDE DEF own
      <4>3. QED
        BY <2>1, <4>1, <4>2
    <3>3. QED
      BY <3>1, <3>2
  <2>4. QED
    BY <2>1, <2>2, <2>3, <1>4
<1>6. IsTrack(at, n_levels, qvs, n, indexed, n_levels)
  <2>1. at \in [0..n_levels -> [P -> P]]
    <3>1. ASSUME NEW l \in 0..n_levels, NEW p \in P
          PROVE  (IF l = n_levels THEN own(m, path(p)[m]) ELSE path(p)[l]) \in P
      <4>1. l = n_levels \/ l \in 0..m
        BY <1>2
      <4>2. m \in 0..m
        BY <1>2
      <4>3. QED
        BY <4>1, <4>2, <1>4
    <3> HIDE DEF own
    <3>2. QED
      BY <3>1
  <2>2. \A p \in P : at[0][p] = p
    <3>1. 0 \in 0..(n_levels - 1)
      BY <1>2
    <3>2. \A p \in P : path(p)[0] = p
      BY <1>1, PathIs
    <3> HIDE DEF at
    <3>3. QED
      BY <3>1, <3>2, <1>5
  <2>3. ASSUME NEW l \in 0..(n_levels - 1), NEW p \in P
        PROVE  /\ qvs[l + 1].qv[at[l][p]] = two_bits(indexed[p], 2 * (n_levels - 1 - l))
               /\ at[l + 1][p] = ChildOf(qvs[l + 1].qv, n, qvs[l + 1].qv[at[l][p]], at[l][p])
    <3>1. l \in 0..m
      BY <1>2
    <3> HIDE DEF at, own
    <3>2. QED
      BY <3>1, <1>4, <1>5 DEF qv, digit
  <2> HIDE DEF at
  <2>4. QED
    BY <2>1, <2>2, <2>3 DEF IsTrack
<1> HIDE DEF at
<1>7. IsTrack(Track, n_levels, qvs, n, indexed, n_levels)
  BY <1>6 DEF Track
<1>8. QED
  BY <1>3, <1>7

\* Every level has each symbol once.
LEMMA TrackBijective ==
  ASSUME Indexes, NEW l \in 0..n_levels
  PROVE  /\ Track[l] \in [0..(n - 1) -> 0..(n - 1)]
         /\ \A p, q \in 0..(n - 1) : Track[l][p] = Track[l][q] => p = q
         /\ \A x \in 0..(n - 1) : \E p \in 0..(n - 1) : Track[l][p] = x
<1> DEFINE P == 0..(n - 1)
           f == Track[l]
<1>1. /\ n_levels \in Nat \ {0} /\ n \in Nat
      /\ IsTrack(Track, n_levels, qvs, n, indexed, n_levels)
      /\ \A p \in P : indexed[p] \in Nat
      /\ \A k \in 0..(n_levels - 1) : \A p \in P : qv(k)[p] \in Quads
  <2>1. /\ IsTrack(Track, n_levels, qvs, n, indexed, n_levels)
        /\ \A p \in P : indexed[p] \in Nat
    BY IndexTrack
  <2>2. WellFormed
    BY DEF Indexes
  <2>3. QED
    BY <2>1, <2>2 DEF WellFormed, LastLevel
<1>2. f \in [P -> P]
  BY <1>1 DEF IsTrack
<1>3. n_levels \in 0..n_levels
  BY <1>1
<1>4. \A x, y \in P : Precedes(x, y, l) => f[x] < f[y]
  BY <1>1, <1>3, TrackOrder
<1>5. \A x, y \in P : Precedes(x, y, l) \/ Precedes(y, x, l) \/ x = y
  <2>1. \A x \in P : MatrixKey(x, l) \in Nat
    BY <1>1, KeyBound
  <2>2. QED
    BY <1>1, <2>1 DEF Precedes
<1> HIDE DEF f
<1>6. \A x \in P : f[x] \in Nat
  BY <1>1, <1>2
<1>7. \A x, y \in P : f[x] = f[y] => x = y
  BY <1>4, <1>5, <1>6
<1>8. IsFiniteSet(P)
  BY <1>1, FS_Interval
<1> HIDE DEF P
<1>9. f \in Injection(P, P)
  BY <1>2, <1>7, Fun_IsInj
<1>10. f \in Surjection(P, P)
  BY <1>8, <1>9, FS_Injection
<1>11. \A x \in P : \E p \in P : f[p] = x
  BY <1>10 DEF Surjection
<1>12. QED
  BY <1>2, <1>7, <1>11 DEF f, P

\* The digits of x above level l.
Top(x, l) == x \div Quarters(n_levels - l)

\* One digit more for a level, none at the root, all below the last level.
LEMMA TopStep ==
  ASSUME n_levels \in Nat, NEW x \in Nat
  PROVE  /\ \A l \in 0..n_levels : Top(x, l) \in Nat
         /\ \A l \in 0..LastLevel : /\ digit(x, l) \in Quads
                                    /\ Top(x, l + 1) = Top(x, l) * 4 + digit(x, l)
         /\ x < Quarters(n_levels) => Top(x, 0) = 0
         /\ Top(x, n_levels) = x
<1>1. ASSUME NEW l \in 0..n_levels PROVE Top(x, l) \in Nat
  <2>1. n_levels - l \in Nat
    OBVIOUS
  <2>2. QED
    BY <2>1, DropDigit DEF Top
<1>2. ASSUME NEW l \in 0..LastLevel
      PROVE  digit(x, l) \in Quads /\ Top(x, l + 1) = Top(x, l) * 4 + digit(x, l)
  <2> DEFINE j == n_levels - 1 - l
  <2>1. j \in Nat /\ j + 1 = n_levels - l /\ j = n_levels - (l + 1)
    BY DEF LastLevel
  <2>2. two_bits(x, 2 * j) \in Quads /\ x \div Quarters(j) = (x \div Quarters(j + 1)) * 4 + two_bits(x, 2 * j)
    BY <2>1, DropDigit
  <2>3. digit(x, l) = two_bits(x, 2 * j)
    BY DEF digit
  <2> HIDE DEF j
  <2>4. QED
    BY <2>1, <2>2, <2>3 DEF Top
<1>3. x < Quarters(n_levels) => Top(x, 0) = 0
  <2>1. Quarters(n_levels) \in Nat \ {0} /\ n_levels - 0 = n_levels
    BY QuartersStep
  <2>2. QED
    BY <2>1, DivSmall DEF Top
<1>4. Top(x, n_levels) = x
  <2>1. n_levels - n_levels = 0 /\ Quarters(0) = 1
    BY QuartersStep
  <2>2. QED
    BY <2>1 DEF Top
<1>5. QED
  BY <1>1, <1>2, <1>3, <1>4

\* The child of position x is among the children of a..b with digit d exactly if
\* x is in that range and has that digit.
LEMMA ChildSlots ==
  ASSUME NEW v, NEW N \in Nat, \A p \in 0..(N - 1) : v[p] \in Quads, NEW d \in Quads,
         NEW a \in 0..N, NEW b \in 0..N, NEW x \in 0..(N - 1)
  PROVE  LET y == ChildOf(v, N, v[x], x)
         IN  (ChildOf(v, N, d, a) <= y /\ y < ChildOf(v, N, d, b)) <=> (a <= x /\ x < b /\ v[x] = d)
<1> DEFINE c(e, z) == ChildOf(v, N, e, z)
           S(e) == Smaller(v, N, e)
<1>1. v[x] \in Quads /\ x \in 0..N /\ x + 1 \in 0..N /\ x \in Nat /\ a \in Nat /\ b \in Nat
  OBVIOUS
<1>2. \A e \in Quads, z \in 0..N : c(e, z) \in S(e)..S(e + 1) /\ c(e, z) \in 0..N
  BY ChildRange
<1>3. \A e, g \in Quads : e < g => S(e + 1) <= S(g)
  BY SmallerMono
<1>4. \A z \in Nat, w \in Nat : z <= w => Count(v, d, z) <= Count(v, d, w)
  BY CountMono
<1>5. \A e \in Quads : \A z \in Nat : Count(v, e, z) \in Nat
  BY CountType
<1>6. \A e \in Quads : S(e) \in Nat
  BY SmallerStep
<1>7. Count(v, v[x], x + 1) = Count(v, v[x], x) + 1
  BY <1>1, CountStep
<1>8. \A e, z : c(e, z) = Count(v, e, z) + S(e)
  BY DEF ChildOf
<1> HIDE DEF c, S
<1>9. c(v[x], x + 1) = c(v[x], x) + 1
  <2>1. Count(v, v[x], x) \in Nat /\ S(v[x]) \in Nat
    BY <1>1, <1>5, <1>6
  <2>2. QED
    BY <1>7, <1>8, <2>1
<1>10. CASE v[x] = d
  <2>1. \A z \in Nat, w \in Nat : z <= w => c(d, z) <= c(d, w)
    <3> SUFFICES ASSUME NEW z \in Nat, NEW w \in Nat, z <= w PROVE c(d, z) <= c(d, w)
      OBVIOUS
    <3>1. Count(v, d, z) \in Nat /\ Count(v, d, w) \in Nat /\ S(d) \in Nat
      BY <1>5, <1>6
    <3>2. QED
      BY <1>4, <1>8, <3>1
  <2>2. c(d, x) \in Nat /\ c(d, a) \in Nat /\ c(d, b) \in Nat
    BY <1>1, <1>2
  <2>3. a <= x => c(d, a) <= c(d, x)
    BY <1>1, <2>1
  <2>4. x < b => c(d, x) + 1 <= c(d, b)
    BY <1>1, <1>9, <1>10, <2>1
  <2>5. ~(a <= x) => c(d, x) + 1 <= c(d, a)
    BY <1>1, <1>9, <1>10, <2>1
  <2>6. ~(x < b) => c(d, b) <= c(d, x)
    BY <1>1, <2>1
  <2>7. QED
    BY <1>10, <2>2, <2>3, <2>4, <2>5, <2>6 DEF c
<1>11. CASE v[x] # d
  <2> DEFINE e == v[x]
             y == c(e, x)
  <2>1. e \in Quads /\ (e < d \/ d < e)
    BY <1>1, <1>11 DEF Quads
  <2> HIDE DEF e
  <2>2. /\ c(d, a) \in S(d)..S(d + 1) /\ c(d, b) \in S(d)..S(d + 1)
        /\ c(e, x) \in S(e)..S(e + 1) /\ c(e, x + 1) \in S(e)..S(e + 1)
        /\ c(e, x) \in Nat /\ c(d, a) \in Nat /\ c(d, b) \in Nat
    BY <1>1, <1>2, <2>1
  <2>3. c(e, x) + 1 = c(e, x + 1)
    BY <1>9 DEF e
  <2>4. S(e + 1) <= S(d) \/ S(d + 1) <= S(e)
    BY <1>3, <2>1
  <2>5. S(e) \in Int /\ S(d) \in Int /\ S(e + 1) \in Int /\ S(d + 1) \in Int
    <3>1. \A g \in Quads : S(g) \in Nat /\ S(g + 1) \in Nat
      BY ChildRange, <1>6 DEF S
    <3>2. QED
      BY <2>1, <3>1
  <2>6. ~(c(d, a) <= c(e, x) /\ c(e, x) < c(d, b))
    BY <2>2, <2>3, <2>4, <2>5
  <2>7. QED
    BY <1>11, <2>6 DEF c, e
<1>12. QED
  BY <1>10, <1>11

------------------------------------------------------------------------------
\* The rows of the range that a walk is over, and those with the digits b above l.
InWalk(p) == walk_of.start <= p /\ p < walk_of.end
Below(p, b, l) == InWalk(p) /\ Top(indexed[p], l) = b

\* A frame is a range of its level, not empty, of the rows below its prefix and of no
\* others.
FrameOk(f) ==
  /\ f \in Frames
  /\ f.start < f.end
  /\ \A p \in 0..(n - 1) :
       (f.start <= Track[f.level][p] /\ Track[f.level][p] < f.end) <=> Below(p, f.bit_path, f.level)

\* Any frame has children in the next level.
LEMMA ChildFrameType ==
  ASSUME Indexes, NEW f \in Frames, f.level # n_levels, NEW d \in Quads
  PROVE  /\ child_frame(f, d) \in Frames
         /\ child_frame(f, d).level = f.level + 1
         /\ child_frame(f, d).bit_path = f.bit_path * 4 + d
         /\ f.level \in 0..LastLevel
         /\ child_frame(f, d).start = ChildOf(qv(f.level), n, d, f.start)
         /\ child_frame(f, d).end = ChildOf(qv(f.level), n, d, f.end)
         /\ nonempty(f, d) <=> (child_frame(f, d).start < child_frame(f, d).end)
<1>1. WellFormed /\ n_levels \in Nat /\ n \in Nat
  BY DEF Indexes, WellFormed
<1>2. f.start \in 0..n /\ f.end \in 0..n /\ f.level \in 0..n_levels /\ f.bit_path \in Nat
  BY DEF Frames
<1>3. f.level \in 0..LastLevel /\ f.level + 1 \in 0..n_levels
  BY <1>1, <1>2 DEF LastLevel
<1>4. f.bit_path * 4 + d \in Nat
  BY <1>2 DEF Quads
<1>5. \A x \in 0..n : child(f.level, d, x) = ChildOf(qv(f.level), n, d, x) /\ child(f.level, d, x) \in 0..n
  BY <1>1, <1>3, ChildIs
<1>6. child_frame(f, d) \in Frames
  BY <1>2, <1>3, <1>4, <1>5 DEF child_frame, Frames
<1>7. nonempty(f, d) <=> (child(f.level, d, f.start) < child(f.level, d, f.end))
  <2>1. qvs[f.level + 1].len = n /\ \A p \in 0..(n - 1) : qv(f.level)[p] \in Quads
    BY <1>1, <1>3 DEF WellFormed
  <2> DEFINE v == qv(f.level)
             s == occs_smaller(f.level, d)
             c(x) == rank_in(f.level, d, x)
  <2>2. s = Smaller(v, n, d)
    BY <2>1 DEF occs_smaller
  <2>3. s \in Nat
    <3> HIDE DEF v, s
    <3>1. \A p \in 0..(n - 1) : v[p] \in Quads
      BY <2>1 DEF v
    <3>2. Smaller(v, n, d) \in 0..n
      BY <1>1, <3>1, SmallerStep
    <3>3. QED
      BY <2>2, <3>2
  <2>4. c(f.start) \in Nat /\ c(f.end) \in Nat
    BY <1>2, CountType DEF rank_in
  <2>5. child(f.level, d, f.start) = c(f.start) + s /\ child(f.level, d, f.end) = c(f.end) + s
    BY DEF child
  <2>6. nonempty(f, d) <=> c(f.end) > c(f.start)
    BY DEF nonempty
  <2> HIDE DEF s, c
  <2>7. QED
    BY <2>3, <2>4, <2>5, <2>6
<1>8. QED
  BY <1>2, <1>3, <1>5, <1>6, <1>7 DEF child_frame

\* The child of a frame that has rows is a frame again, and it has rows if the
\* frame has one with its digit.
LEMMA ChildFrame ==
  ASSUME Indexes, NEW f, FrameOk(f), f.level # n_levels, NEW d \in Quads
  PROVE  /\ nonempty(f, d) => FrameOk(child_frame(f, d))
         /\ \A p \in 0..(n - 1) : Below(p, f.bit_path * 4 + d, f.level + 1)
                                  => nonempty(f, d) /\ Below(p, f.bit_path, f.level)
<1> DEFINE g == child_frame(f, d)
           l == f.level
           b == f.bit_path
           v == qv(l)
           P == 0..(n - 1)
<1>1. WellFormed /\ n_levels \in Nat /\ n \in Nat
  BY DEF Indexes, WellFormed
<1>2. f \in Frames /\ l \in 0..n_levels /\ b \in Nat /\ f.start \in 0..n /\ f.end \in 0..n
  BY DEF FrameOk, Frames
<1>3. /\ g \in Frames /\ g.level = l + 1 /\ g.bit_path = b * 4 + d /\ l \in 0..LastLevel
      /\ g.start = ChildOf(v, n, d, f.start) /\ g.end = ChildOf(v, n, d, f.end)
      /\ nonempty(f, d) <=> g.start < g.end
  BY <1>2, ChildFrameType
<1>4. \A p \in P : v[p] \in Quads
  BY <1>1, <1>3 DEF WellFormed
<1>5. ASSUME NEW p \in P
      PROVE  (g.start <= Track[l + 1][p] /\ Track[l + 1][p] < g.end) <=> Below(p, b * 4 + d, l + 1)
  <2> DEFINE x == Track[l][p]
             y == Track[l + 1][p]
  <2>1. l \in 0..(n_levels - 1)
    BY <1>1, <1>3 DEF LastLevel
  <2>2. /\ v[x] = digit(indexed[p], l) /\ y = ChildOf(v, n, v[x], x)
        /\ indexed[p] \in Nat
    BY <2>1, IndexTrack DEF IsTrack, qv, digit
  <2>3. x \in P
    <3>1. Track[l] \in [P -> P]
      BY <1>2, TrackBijective
    <3>2. QED
      BY <3>1
  <2>4. (f.start <= x /\ x < f.end) <=> Below(p, b, l)
    BY DEF FrameOk
  <2> HIDE DEF v, x, y, g, l, b
  <2>5. (g.start <= y /\ y < g.end) <=> (f.start <= x /\ x < f.end /\ v[x] = d)
    BY <1>1, <1>2, <1>3, <1>4, <2>2, <2>3, ChildSlots
  <2>6. /\ Top(indexed[p], l) \in Nat /\ Top(indexed[p], l + 1) = Top(indexed[p], l) * 4 + v[x]
        /\ v[x] \in Quads
    <3>1. \A k \in 0..n_levels : Top(indexed[p], k) \in Nat
      BY <1>1, <2>2, TopStep
    <3>2. \A k \in 0..LastLevel : /\ digit(indexed[p], k) \in Quads
                                  /\ Top(indexed[p], k + 1) = Top(indexed[p], k) * 4 + digit(indexed[p], k)
      BY <1>1, <2>2, TopStep
    <3>3. QED
      BY <1>2, <1>3, <2>2, <3>1, <3>2
  <2>7. Top(indexed[p], l + 1) = b * 4 + d <=> (Top(indexed[p], l) = b /\ v[x] = d)
    <3> DEFINE t == Top(indexed[p], l)
               e == v[x]
    <3>1. t \in Nat /\ e \in 0..3 /\ d \in 0..3 /\ b \in Nat
      BY <1>2, <2>6 DEF Quads
    <3>2. t * 4 + e = b * 4 + d <=> (t = b /\ e = d)
      <4> HIDE DEF t, e
      <4> QED
        BY <3>1
    <3>3. QED
      BY <3>2, <2>6
  <2>8. QED
    BY <2>4, <2>5, <2>7 DEF Below, y
<1>6. nonempty(f, d) => FrameOk(g)
  <2> HIDE DEF g
  <2>1. QED
    BY <1>3, <1>5 DEF FrameOk
<1>7. ASSUME NEW p \in P, Below(p, b * 4 + d, l + 1) PROVE nonempty(f, d) /\ Below(p, b, l)
  <2>1. g.start <= Track[l + 1][p] /\ Track[l + 1][p] < g.end
    BY <1>5, <1>7
  <2>2. Track[l + 1][p] \in Nat /\ g.start \in Nat /\ g.end \in Nat
    <3>1. l + 1 \in 0..n_levels
      BY <1>1, <1>3 DEF LastLevel
    <3>2. Track[l + 1] \in [P -> P]
      BY <3>1, TrackBijective
    <3>3. g.start \in Nat /\ g.end \in Nat
      BY <1>1, <1>3 DEF Frames
    <3>4. QED
      BY <3>2, <3>3, <1>1
  <2>3. g.start < g.end
    <3> HIDE DEF g
    <3> QED
      BY <2>1, <2>2
  <2>4. indexed[p] \in Nat
    BY IndexTrack
  <2>5. \A k \in 0..n_levels : Top(indexed[p], k) \in Nat
    BY <1>1, <2>4, TopStep
  <2>6. \A k \in 0..LastLevel : /\ digit(indexed[p], k) \in Quads
                                /\ Top(indexed[p], k + 1) = Top(indexed[p], k) * 4 + digit(indexed[p], k)
    BY <1>1, <2>4, TopStep
  <2>7. Top(indexed[p], l) = b
    <3> DEFINE t == Top(indexed[p], l)
               e == digit(indexed[p], l)
    <3>1. t \in Nat /\ e \in 0..3 /\ d \in 0..3 /\ b \in Nat /\ Top(indexed[p], l + 1) = t * 4 + e
      BY <1>2, <1>3, <2>5, <2>6 DEF Quads
    <3>2. Top(indexed[p], l + 1) = b * 4 + d
      BY <1>7 DEF Below
    <3> HIDE DEF t, e, b
    <3>3. t = b
      BY <3>1, <3>2
    <3>4. QED
      BY <3>3 DEF t
  <2>8. QED
    BY <1>3, <1>7, <2>3, <2>7 DEF Below
<1>8. QED
  BY <1>6, <1>7

\* All symbols below the prefix of f are smaller than those below that of g; those
\* below that of f are below that of g.
Under(f, g) ==
  \A x, y \in Nat : (Top(x, f.level) = f.bit_path /\ Top(y, g.level) = g.bit_path) => x < y
Inside(f, g) == \A x \in Nat : Top(x, f.level) = f.bit_path => Top(x, g.level) = g.bit_path

\* The children of a frame are in the order of their digits, and inside it.
LEMMA Siblings ==
  ASSUME Indexes, NEW f \in Frames, f.level # n_levels, NEW d \in Quads
  PROVE  /\ Inside(child_frame(f, d), f)
         /\ \A e \in Quads : d < e => Under(child_frame(f, d), child_frame(f, e))
<1> DEFINE l == f.level
           b == f.bit_path
<1>1. n_levels \in Nat /\ f.level \in 0..n_levels /\ f.bit_path \in Nat
  BY DEF Indexes, WellFormed, Frames
<1>2. \A e \in Quads : /\ child_frame(f, e).level = l + 1 /\ child_frame(f, e).bit_path = b * 4 + e
                       /\ l \in 0..LastLevel
  BY ChildFrameType
<1>3. l \in 0..LastLevel
  BY <1>2
<1>4. ASSUME NEW x \in Nat, Top(x, l + 1) = b * 4 + d PROVE Top(x, l) = b
  <2> DEFINE t == Top(x, l)
             c == digit(x, l)
  <2>1. t \in Nat /\ c \in 0..3 /\ Top(x, l + 1) = t * 4 + c /\ d \in 0..3 /\ b \in Nat
    BY <1>1, <1>3, TopStep DEF Quads
  <2> HIDE DEF t, c, b
  <2>2. t = b
    BY <1>4, <2>1
  <2>3. QED
    BY <2>2 DEF t
<1>5. ASSUME NEW e \in Quads, d < e, NEW x \in Nat, NEW y \in Nat,
             Top(x, l + 1) = b * 4 + d, Top(y, l + 1) = b * 4 + e
      PROVE  x < y
  <2> SUFFICES ASSUME y <= x PROVE FALSE
    OBVIOUS
  <2> DEFINE q == Quarters(n_levels - (l + 1))
  <2>1. q \in Nat \ {0}
    <3>1. n_levels - (l + 1) \in Nat
      BY <1>1, <1>3 DEF LastLevel
    <3>2. QED
      BY <3>1, QuartersStep
  <2>2. x \div q = b * 4 + d /\ y \div q = b * 4 + e
    BY <1>5 DEF Top
  <2> HIDE DEF q
  <2>3. y \div q \in 0..(x \div q)
    BY <2>1, DivMono
  <2>4. d \in 0..3 /\ e \in 0..3 /\ b \in Nat
    BY <1>1 DEF Quads
  <2>5. QED
    BY <1>5, <2>2, <2>3, <2>4
<1> HIDE DEF l, b
<1>6. Inside(child_frame(f, d), f)
  BY <1>2, <1>4 DEF Inside, l, b
<1>7. ASSUME NEW e \in Quads, d < e PROVE Under(child_frame(f, d), child_frame(f, e))
  BY <1>2, <1>5, <1>7 DEF Under
<1>8. QED
  BY <1>6, <1>7

\* s has the children of f with digits below k that are kept.
Kids(s, f, k) ==
  /\ s \in Seq(Frames) /\ Len(s) <= k
  /\ \A i \in 1..Len(s) : \E d \in Quads : d < k /\ nonempty(f, d) /\ s[i] = child_frame(f, d)
  /\ \A i, j \in 1..Len(s) : i < j => Under(s[i], s[j])
  /\ \A d \in Quads : (d < k /\ nonempty(f, d) /\ ~too_small(f, d))
                      => \E i \in 1..Len(s) : s[i] = child_frame(f, d)

\* With those of one digit more.
LEMMA KidsStep ==
  ASSUME Indexes, NEW f \in Frames, f.level # n_levels, NEW k \in Quads, NEW s, Kids(s, f, k)
  PROVE  Kids(s \o kept(f, k), f, k + 1)
<1>1. \A d \in Quads : child_frame(f, d) \in Frames
  BY ChildFrameType
<1>2. \A d, e \in Quads : d < e => Under(child_frame(f, d), child_frame(f, e))
  BY Siblings
<1>3. /\ s \in Seq(Frames) /\ Len(s) \in Nat /\ Len(s) <= k
      /\ \A i \in 1..Len(s) : \E d \in Quads : d < k /\ nonempty(f, d) /\ s[i] = child_frame(f, d)
      /\ \A i, j \in 1..Len(s) : i < j => Under(s[i], s[j])
      /\ \A d \in Quads : (d < k /\ nonempty(f, d) /\ ~too_small(f, d))
                          => \E i \in 1..Len(s) : s[i] = child_frame(f, d)
  BY DEF Kids
<1>4. k \in Int /\ \A d \in Quads : d \in Int /\ (d < k + 1 <=> (d < k \/ d = k))
  BY DEF Quads
<1>5. CASE ~too_small(f, k) /\ nonempty(f, k)
  <2> DEFINE c == child_frame(f, k)
             t == s \o <<c>>
  <2>1. c \in Frames
    BY <1>1
  <2>2. /\ t \in Seq(Frames) /\ Len(t) = Len(s) + 1 /\ t[Len(s) + 1] = c
        /\ \A i \in 1..Len(s) : t[i] = s[i]
    <3> HIDE DEF c
    <3> QED
      BY <1>3, <2>1
  <2>3. kept(f, k) = <<c>>
    BY <1>5 DEF kept
  <2> HIDE DEF t
  <2>4. \A i \in 1..Len(t) : i \in 1..Len(s) \/ i = Len(s) + 1
    BY <1>3, <2>2
  <2>5. \A i \in 1..Len(t) : \E d \in Quads : d < k + 1 /\ nonempty(f, d) /\ t[i] = child_frame(f, d)
    BY <1>3, <1>4, <1>5, <2>2, <2>4
  <2>6. ASSUME NEW i \in 1..Len(t), NEW j \in 1..Len(t), i < j PROVE Under(t[i], t[j])
    <3>1. i \in 1..Len(s)
      BY <1>3, <2>2, <2>6
    <3>2. CASE j \in 1..Len(s)
      BY <1>3, <2>2, <2>6, <3>1, <3>2
    <3>3. CASE j = Len(s) + 1
      <4>1. PICK d \in Quads : d < k /\ s[i] = child_frame(f, d)
        BY <1>3, <3>1
      <4>2. QED
        BY <1>2, <2>2, <3>1, <3>3, <4>1
    <3>4. QED
      BY <2>4, <3>2, <3>3
  <2>7. ASSUME NEW d \in Quads, d < k + 1, nonempty(f, d), ~too_small(f, d)
        PROVE  \E i \in 1..Len(t) : t[i] = child_frame(f, d)
    <3>1. CASE d < k
      <4>1. PICK i \in 1..Len(s) : s[i] = child_frame(f, d)
        BY <1>3, <2>7, <3>1
      <4>2. i \in 1..Len(t) /\ t[i] = child_frame(f, d)
        BY <1>3, <2>2, <4>1
      <4>3. QED
        BY <4>2
    <3>2. CASE d = k
      <4>1. Len(s) + 1 \in 1..Len(t)
        BY <1>3, <2>2
      <4>2. QED
        BY <2>2, <3>2, <4>1
    <3>3. QED
      BY <1>4, <2>7, <3>1, <3>2
  <2>8. Len(t) <= k + 1
    BY <1>3, <1>4, <2>2
  <2>9. Kids(t, f, k + 1)
    BY <2>2, <2>5, <2>6, <2>7, <2>8 DEF Kids
  <2>10. QED
    BY <2>3, <2>9 DEF t
<1>6. CASE ~(~too_small(f, k) /\ nonempty(f, k))
  <2>1. kept(f, k) = <<>>
    BY <1>6 DEF kept
  <2>2. s \o <<>> = s
    BY <1>3
  <2>3. Len(s) <= k + 1
    BY <1>3, <1>4
  <2>4. \A i \in 1..Len(s) : \E d \in Quads : d < k + 1 /\ nonempty(f, d) /\ s[i] = child_frame(f, d)
    BY <1>3, <1>4
  <2>5. \A d \in Quads : (d < k + 1 /\ nonempty(f, d) /\ ~too_small(f, d))
                         => \E i \in 1..Len(s) : s[i] = child_frame(f, d)
    BY <1>3, <1>4, <1>6
  <2>6. Kids(s, f, k + 1)
    BY <1>3, <2>3, <2>4, <2>5 DEF Kids
  <2>7. QED
    BY <2>1, <2>2, <2>6
<1>7. QED
  BY <1>5, <1>6

\* So the children of a frame are all of those.
LEMMA ChildrenAre ==
  ASSUME Indexes, NEW f \in Frames, f.level # n_levels
  PROVE  Kids(children(f), f, 4)
<1>1. Kids(<<>>, f, 0)
  <2>1. <<>> \in Seq(Frames) /\ Len(<<>>) = 0 /\ 1..0 = {}
    OBVIOUS
  <2>2. \A d \in Quads : ~(d < 0)
    BY DEF Quads
  <2>3. QED
    BY <2>1, <2>2 DEF Kids
<1>2. 0 \in Quads /\ 1 \in Quads /\ 2 \in Quads /\ 3 \in Quads
  BY DEF Quads
<1>3. Kids(<<>> \o kept(f, 0), f, 1)
  <2>1. Kids(<<>> \o kept(f, 0), f, 0 + 1)
    BY <1>1, <1>2, KidsStep
  <2>2. 0 + 1 = 1
    OBVIOUS
  <2>3. QED
    BY <2>1, <2>2, Zenon
<1>4. <<>> \o kept(f, 0) = kept(f, 0)
  <2>1. kept(f, 0) = <<>> \/ kept(f, 0) = <<child_frame(f, 0)>>
    BY DEF kept
  <2>2. child_frame(f, 0) \in Frames
    BY <1>2, ChildFrameType
  <2>3. kept(f, 0) \in Seq(Frames)
    <3> DEFINE c == child_frame(f, 0)
    <3>1. c \in Frames
      BY <2>2
    <3>2. <<>> \in Seq(Frames)
      OBVIOUS
    <3> HIDE DEF c
    <3>3. <<c>> \in Seq(Frames)
      BY <3>1
    <3>4. QED
      BY <2>1, <3>2, <3>3 DEF c
  <2>4. QED
    BY <2>3
<1>5. Kids(kept(f, 0), f, 1)
  BY <1>3, <1>4, Zenon
<1>6. Kids(kept(f, 0) \o kept(f, 1), f, 2)
  <2>1. Kids(kept(f, 0) \o kept(f, 1), f, 1 + 1)
    BY <1>2, <1>5, KidsStep
  <2>2. 1 + 1 = 2
    OBVIOUS
  <2>3. QED
    BY <2>1, <2>2, Zenon
<1>7. Kids(kept(f, 0) \o kept(f, 1) \o kept(f, 2), f, 3)
  <2>1. Kids(kept(f, 0) \o kept(f, 1) \o kept(f, 2), f, 2 + 1)
    BY <1>2, <1>6, KidsStep
  <2>2. 2 + 1 = 3
    OBVIOUS
  <2>3. QED
    BY <2>1, <2>2, Zenon
<1>8. Kids(kept(f, 0) \o kept(f, 1) \o kept(f, 2) \o kept(f, 3), f, 4)
  <2>1. Kids(kept(f, 0) \o kept(f, 1) \o kept(f, 2) \o kept(f, 3), f, 3 + 1)
    BY <1>2, <1>7, KidsStep
  <2>2. 3 + 1 = 4
    OBVIOUS
  <2>3. QED
    BY <2>1, <2>2, Zenon
<1>9. QED
  BY <1>8 DEF children

\* The children that RangeDistinctIter looks at, none below the last level.
Looked(g) == IF g.level < n_levels THEN children(g) ELSE <<>>

\* h goes down from every frame as long as it has a single child.
GoesDown(h) == \A g \in Frames : h[g] = IF Len(Looked(g)) = 1 THEN h[Looked(g)[1]] ELSE g

\* collapse does.
LEMMA CollapseIs ==
  ASSUME Indexes, NEW f
  PROVE  \E h : GoesDown(h) /\ collapse(f) = IF walk_of.kind = "distinct" THEN h[f] ELSE f
<1> DEFINE m == n_levels
           one(g) == Len(Looked(g)) = 1
           to(g) == Looked(g)[1]
           D == [Frames -> Frames]
           step(h) == [g \in Frames |-> IF one(g) THEN h[to(g)] ELSE g]
           id == [g \in Frames |-> g]
           steps == [i \in 0..(m - 1) |-> [h \in D |-> step(h)]]
           G(h) == [g \in Frames |-> IF one(g) THEN h[to(g)] ELSE g]
           down == CHOOSE h : h = G(h)
<1>1. m \in Nat
  BY DEF Indexes, WellFormed
<1>2. ASSUME NEW g \in Frames, one(g)
      PROVE  g.level < m /\ to(g) \in Frames /\ to(g).level = g.level + 1
  <2>1. g.level < m /\ g.level # n_levels
    <3>1. g.level < m
      <4>1. Len(<<>>) = 0
        OBVIOUS
      <4>2. QED
        BY <1>2, <4>1 DEF Looked
    <3>2. g.level \in 0..n_levels
      BY DEF Frames
    <3>3. QED
      BY <1>1, <3>1, <3>2
  <2>2. Looked(g) = children(g)
    BY <2>1 DEF Looked
  <2>3. Kids(Looked(g), g, 4)
    BY <2>1, <2>2, ChildrenAre
  <2>4. 1 \in 1..Len(Looked(g))
    BY <1>2
  <2>5. PICK d \in Quads : Looked(g)[1] = child_frame(g, d)
    BY <2>3, <2>4 DEF Kids
  <2>6. QED
    BY <2>1, <2>5, ChildFrameType
<1>3. \A g \in Frames : g.level \in 0..m
  BY DEF Frames
<1> HIDE DEF one, to, m
<1>4. id \in D
  OBVIOUS
<1>5. \A h \in D : step(h) \in D
  BY <1>2
<1>6. \A i \in 0..(m - 1), h \in D : steps[i][h] = step(h) /\ steps[i][h] \in D
  <2> HIDE DEF step, D
  <2> QED
    BY <1>5
<1> HIDE DEF id, D, step
<1>7. PICK H \in [0..m -> D] : Follows(H, m, id, steps)
  <2> HIDE DEF steps
  <2> QED
    BY <1>1, <1>4, <1>6, Recursion
<1>8. H[0] = id /\ \A i \in 0..(m - 1) : H[i + 1] = step(H[i])
  <2>1. \A i \in 0..(m - 1) : i \in 0..m
    BY <1>1
  <2> HIDE DEF steps
  <2>2. \A i \in 0..(m - 1) : H[i] \in D
    BY <1>7, <2>1
  <2>3. QED
    BY <1>6, <1>7, <2>2 DEF Follows
<1> DEFINE F == [g \in Frames |-> H[m - g.level][g]]
<1>9. ASSUME NEW g \in Frames PROVE F[g] = IF one(g) THEN F[to(g)] ELSE g
  <2>1. F[g] = H[m - g.level][g] /\ m - g.level \in 0..m
    BY <1>1, <1>3
  <2>2. CASE one(g)
    <3>1. g.level < m /\ to(g) \in Frames /\ to(g).level = g.level + 1
      BY <1>2, <2>2
    <3> DEFINE i == m - to(g).level
    <3>2. i \in 0..(m - 1) /\ i + 1 = m - g.level
      BY <1>1, <1>3, <3>1
    <3>3. F[to(g)] = H[i][to(g)]
      BY <3>1
    <3> HIDE DEF i, F
    <3>4. H[i + 1] = step(H[i])
      BY <1>8, <3>2
    <3>5. step(H[i])[g] = H[i][to(g)]
      BY <2>2 DEF step
    <3>6. QED
      BY <2>1, <2>2, <3>2, <3>3, <3>4, <3>5
  <2>3. CASE ~one(g)
    <3> HIDE DEF F
    <3>1. CASE m - g.level = 0
      BY <1>8, <2>1, <2>3, <3>1 DEF id
    <3>2. CASE m - g.level # 0
      <4> DEFINE i == (m - g.level) - 1
      <4>1. i \in 0..(m - 1) /\ i + 1 = m - g.level
        BY <1>1, <2>1, <3>2
      <4> HIDE DEF i
      <4>2. H[i + 1] = step(H[i])
        BY <1>8, <4>1
      <4>3. step(H[i])[g] = g
        BY <2>3 DEF step
      <4>4. QED
        BY <2>1, <2>3, <4>1, <4>2, <4>3
    <3>3. QED
      BY <3>1, <3>2
  <2>4. QED
    BY <2>2, <2>3
<1>10. F = G(F)
  <2>1. F = [g \in Frames |-> F[g]]
    OBVIOUS
  <2> HIDE DEF F
  <2>2. QED
    BY <1>9, <2>1
<1>11. down = G(down)
  <2> HIDE DEF F, G
  <2> QED
    BY <1>10
<1>12. GoesDown(down)
  <2> HIDE DEF down
  <2>1. \A g \in Frames : down[g] = IF one(g) THEN down[to(g)] ELSE g
    BY <1>11
  <2>2. QED
    BY <2>1 DEF GoesDown, one, to
<1>13. collapse(f) = IF walk_of.kind = "distinct" THEN down[f] ELSE f
  BY DEF collapse, unary, one, to, Looked
<1> HIDE DEF down
<1>14. QED
  BY <1>12, <1>13

\* Every row of a frame is a row of one of its children.
LEMMA RowGoesDown ==
  ASSUME Indexes, NEW f, FrameOk(f), f.level # n_levels, NEW p \in 0..(n - 1),
         Below(p, f.bit_path, f.level)
  PROVE  \E d \in Quads : /\ nonempty(f, d)
                          /\ Below(p, child_frame(f, d).bit_path, child_frame(f, d).level)
<1> DEFINE d == digit(indexed[p], f.level)
<1>1. f \in Frames /\ n_levels \in Nat /\ indexed[p] \in Nat
  BY IndexTrack DEF FrameOk, Indexes, WellFormed
<1>2. \A e \in Quads : /\ child_frame(f, e).level = f.level + 1
                       /\ child_frame(f, e).bit_path = f.bit_path * 4 + e
                       /\ f.level \in 0..LastLevel
  BY <1>1, ChildFrameType
<1>3. 0 \in Quads
  BY DEF Quads
<1>4. f.level \in 0..LastLevel
  BY <1>2, <1>3
<1>5. d \in Quads /\ Top(indexed[p], f.level + 1) = Top(indexed[p], f.level) * 4 + d
  BY <1>1, <1>4, TopStep
<1> HIDE DEF d
<1>6. Below(p, f.bit_path * 4 + d, f.level + 1)
  BY <1>5 DEF Below
<1>7. nonempty(f, d)
  BY <1>5, <1>6, ChildFrame
<1>8. QED
  BY <1>2, <1>5, <1>6, <1>7

\* c has all the rows of g, at its level or below.
Covers(c, g) ==
  /\ FrameOk(c) /\ g.level <= c.level /\ Inside(c, g)
  /\ \A p \in 0..(n - 1) : Below(p, g.bit_path, g.level) => Below(p, c.bit_path, c.level)

\* Going down past single children loses no row.
LEMMA CollapseCovers ==
  ASSUME Indexes, NEW f, FrameOk(f)
  PROVE  Covers(collapse(f), f)
<1>1. PICK h : GoesDown(h) /\ collapse(f) = IF walk_of.kind = "distinct" THEN h[f] ELSE f
  BY CollapseIs
<1>2. n_levels \in Nat
  BY DEF Indexes, WellFormed
<1>3. ASSUME NEW g, FrameOk(g) PROVE g \in Frames /\ g.level \in 0..n_levels /\ Covers(g, g)
  BY <1>2, <1>3 DEF FrameOk, Frames, Covers, Inside
<1>4. CASE walk_of.kind # "distinct"
  BY <1>1, <1>3, <1>4
<1>5. CASE walk_of.kind = "distinct"
  <2> DEFINE Bad == {i \in Nat : \E g \in Frames : FrameOk(g) /\ n_levels - g.level = i /\ ~Covers(h[g], g)}
  <2>1. Bad = {}
    <3> SUFFICES ASSUME Bad # {} PROVE FALSE
      OBVIOUS
    <3>1. PICK i \in Bad : \A j \in Bad : i <= j
      BY LeastNat
    <3>2. PICK g \in Frames : FrameOk(g) /\ n_levels - g.level = i /\ ~Covers(h[g], g)
      BY <3>1
    <3>3. g.level \in 0..n_levels
      BY <1>3, <3>2
    <3>4. CASE Len(Looked(g)) # 1
      <4>1. h[g] = g
        BY <1>1, <3>4 DEF GoesDown
      <4>2. QED
        BY <1>3, <3>2, <4>1
    <3>5. CASE Len(Looked(g)) = 1
      <4> DEFINE c == Looked(g)[1]
      <4>1. h[g] = h[c]
        BY <1>1, <3>5 DEF GoesDown
      <4>2. g.level # n_levels /\ Looked(g) = children(g)
        <5>1. Len(<<>>) = 0
          OBVIOUS
        <5>2. g.level < n_levels
          BY <3>5, <5>1 DEF Looked
        <5>3. QED
          BY <1>2, <3>3, <5>2 DEF Looked
      <4>3. Kids(Looked(g), g, 4) /\ 1 \in 1..Len(Looked(g)) /\ 1..Len(Looked(g)) = {1}
        BY <3>5, <4>2, ChildrenAre
      <4>4. PICK d \in Quads : nonempty(g, d) /\ c = child_frame(g, d)
        BY <4>3 DEF Kids
      <4>5. \A e \in Quads : nonempty(g, e) => c = child_frame(g, e)
        <5> SUFFICES ASSUME NEW e \in Quads, nonempty(g, e) PROVE c = child_frame(g, e)
          OBVIOUS
        <5>1. ~too_small(g, e) /\ e < 4
          BY <1>5 DEF too_small, Quads
        <5>2. PICK k \in 1..Len(Looked(g)) : Looked(g)[k] = child_frame(g, e)
          BY <4>3, <5>1 DEF Kids
        <5>3. QED
          BY <4>3, <5>2
      <4> HIDE DEF c
      <4>6. FrameOk(c) /\ Inside(c, g) /\ c.level = g.level + 1
        BY <3>2, <4>2, <4>4, ChildFrame, ChildFrameType, Siblings
      <4>7. \A p \in 0..(n - 1) : Below(p, g.bit_path, g.level) => Below(p, c.bit_path, c.level)
        BY <3>2, <4>2, <4>5, RowGoesDown
      <4>8. Covers(h[c], c)
        <5>1. c \in Frames /\ c.level \in 0..n_levels
          BY <1>3, <4>6
        <5>2. n_levels - c.level \in Nat /\ n_levels - c.level < i /\ i \in Nat
          BY <1>2, <3>1, <3>2, <3>3, <4>6, <5>1
        <5>3. n_levels - c.level \notin Bad
          <6> HIDE DEF Bad
          <6> QED
            BY <3>1, <5>2
        <5>4. QED
          BY <4>6, <5>1, <5>2, <5>3
      <4>9. Covers(h[c], g)
        <5>1. g.level <= h[c].level
          <6>1. h[c].level \in 0..n_levels /\ c.level \in 0..n_levels
            BY <1>3, <4>6, <4>8 DEF Covers
          <6>2. c.level <= h[c].level
            BY <4>8 DEF Covers
          <6>3. QED
            BY <1>2, <3>3, <4>6, <6>1, <6>2
        <5>2. Inside(h[c], g)
          BY <4>6, <4>8 DEF Covers, Inside
        <5>3. QED
          BY <4>7, <4>8, <5>1, <5>2 DEF Covers
      <4>10. QED
        BY <3>2, <4>1, <4>9
    <3>6. QED
      BY <3>4, <3>5
  <2>2. f \in Frames /\ n_levels - f.level \in Nat
    BY <1>2, <1>3
  <2>3. n_levels - f.level \notin Bad
    BY <2>1
  <2>4. Covers(h[f], f)
    BY <2>2, <2>3
  <2>5. QED
    BY <1>1, <1>5, <2>4
<1>6. QED
  BY <1>4, <1>5

\* The rows of a frame are as many as its range is long: each level has each row once.
FrameRows(f) == {p \in 0..(n - 1) : Below(p, f.bit_path, f.level)}

LEMMA FrameSize ==
  ASSUME Indexes, NEW f, FrameOk(f)
  PROVE  /\ IsFiniteSet(FrameRows(f)) /\ Cardinality(FrameRows(f)) = f.end - f.start
         /\ FrameRows(f) # {}
<1> DEFINE P == 0..(n - 1)
           t == Track[f.level]
           A == FrameRows(f)
           B == f.start..(f.end - 1)
           h == [p \in A |-> t[p]]
<1>1. /\ n \in Nat /\ f.start \in 0..n /\ f.end \in 0..n /\ f.start < f.end /\ f.level \in 0..n_levels
  BY DEF Indexes, WellFormed, FrameOk, Frames
<1>2. \A p \in P : (f.start <= t[p] /\ t[p] < f.end) <=> p \in A
  BY DEF FrameOk, FrameRows
<1>3. /\ t \in [P -> P]
      /\ \A p, q \in P : t[p] = t[q] => p = q
      /\ \A x \in P : \E p \in P : t[p] = x
  BY <1>1, TrackBijective
<1> HIDE DEF t
<1>4. \A p \in A : p \in P
  BY DEF FrameRows
<1> HIDE DEF A
<1>5. h \in [A -> B]
  <2>1. ASSUME NEW p \in A PROVE t[p] \in B
    <3>1. t[p] \in P /\ f.start <= t[p] /\ t[p] < f.end
      BY <1>2, <1>3, <1>4
    <3>2. QED
      BY <1>1, <3>1
  <2> HIDE DEF B
  <2>2. QED
    BY <2>1
<1>6. \A p, q \in A : h[p] = h[q] => p = q
  BY <1>3, <1>4
<1>7. ASSUME NEW y \in B PROVE \E p \in A : h[p] = y
  <2>1. y \in P /\ f.start <= y /\ y < f.end
    BY <1>1
  <2>2. PICK p \in P : t[p] = y
    BY <1>3, <2>1
  <2>3. p \in A
    BY <1>2, <2>1, <2>2
  <2>4. QED
    BY <2>2, <2>3
<1>8. f.start \in B
  BY <1>1
<1> HIDE DEF h
<1>9. IsFiniteSet(A)
  <2>1. IsFiniteSet(P)
    BY <1>1, FS_Interval
  <2>2. QED
    BY <1>4, <2>1, FS_Subset
<1>10. Cardinality(B) = f.end - f.start
  <2> DEFINE a == f.start
             b == f.end - 1
  <2>1. a \in Int /\ b \in Int /\ ~(a > b) /\ b - a + 1 = f.end - f.start
    BY <1>1
  <2> HIDE DEF a, b
  <2>2. Cardinality(a..b) = IF a > b THEN 0 ELSE b - a + 1
    BY <2>1, FS_Interval
  <2>3. QED
    BY <2>1, <2>2 DEF a, b
<1> HIDE DEF B
<1>11. h \in Bijection(A, B)
  BY <1>5, <1>6, <1>7, Fun_IsBij
<1>12. Cardinality(B) = Cardinality(A)
  <2>1. ExistsBijection(A, B)
    BY <1>11, Fun_ExistsBij
  <2>2. QED
    BY <1>9, <2>1, FS_Bijection
<1>13. A # {}
  BY <1>7, <1>8
<1>14. QED
  BY <1>9, <1>10, <1>12, <1>13 DEF A

\* A frame below the last level is a symbol of the range, with the number of its rows.
LEMMA LeafIs ==
  ASSUME Indexes, walk_of.end \in Nat, walk_of.end <= n, walk_of.start \in Nat,
         NEW f, FrameOk(f), f.level = n_levels
  PROVE  /\ \E p \in 0..(n - 1) : InWalk(p) /\ indexed[p] = f.bit_path
         /\ \A x \in Nat : Top(x, f.level) = f.bit_path <=> x = f.bit_path
         /\ f.end - f.start = Occs(f.bit_path, walk_of.start, walk_of.end)
<1> DEFINE A == {p \in walk_of.start..(walk_of.end - 1) : indexed[p] = f.bit_path}
<1>1. n_levels \in Nat /\ n \in Nat
  BY DEF Indexes, WellFormed
<1>2. \A x \in Nat : Top(x, n_levels) = x
  BY <1>1, TopStep
<1>3. \A p \in 0..(n - 1) : indexed[p] \in Nat
  BY IndexTrack
<1>4. \A p : p \in FrameRows(f) <=> (p \in 0..(n - 1) /\ InWalk(p) /\ indexed[p] = f.bit_path)
  BY <1>2, <1>3 DEF FrameRows, Below
<1>5. \A p : (p \in 0..(n - 1) /\ InWalk(p)) <=> p \in walk_of.start..(walk_of.end - 1)
  BY <1>1 DEF InWalk
<1>6. FrameRows(f) = A
  BY <1>4, <1>5
<1>7. Cardinality(FrameRows(f)) = f.end - f.start /\ FrameRows(f) # {}
  BY FrameSize
<1>8. \E p \in 0..(n - 1) : InWalk(p) /\ indexed[p] = f.bit_path
  BY <1>4, <1>7
<1>9. Occs(f.bit_path, walk_of.start, walk_of.end) = Cardinality(A)
  BY DEF Occs
<1> HIDE DEF A
<1>10. QED
  BY <1>2, <1>6, <1>7, <1>8, <1>9

\* A child that range_next_value leaves out has no symbol as large as the target:
\* the upper end of its interval does not wrap if usize is wider than T.
LEMMA TooSmall ==
  ASSUME Indexes, 2 * n_levels <= T_BITS, T_BITS < USIZE_BITS, walk_of.target \in Nat,
         NEW f \in Frames, f.level # n_levels, NEW d \in Quads, too_small(f, d),
         NEW p \in 0..(n - 1), Top(indexed[p], f.level + 1) = f.bit_path * 4 + d
  PROVE  indexed[p] < walk_of.target
<1> DEFINE e == 2 * (n_levels - f.level - 1)
           q == 2 ^ e
           x == indexed[p]
           c == f.bit_path * 4 + d
           W == 2 ^ USIZE_BITS
           U == 2 ^ T_BITS
<1>1. n_levels \in Nat /\ f.level \in 0..n_levels /\ f.bit_path \in Nat /\ d \in 0..3
  BY DEF Indexes, WellFormed, Frames, Quads
<1>2. /\ n_levels - f.level - 1 \in Nat /\ n_levels - f.level - 1 = n_levels - (f.level + 1)
      /\ e \in Nat /\ e <= T_BITS /\ 2 * n_levels \in Nat
      /\ T_BITS \in Nat /\ USIZE_BITS \in Nat /\ T_BITS + 1 <= USIZE_BITS
  <2>1. T_BITS \in Nat /\ USIZE_BITS \in Nat
    BY TreeAssumption
  <2> DEFINE l == f.level
             m == n_levels
  <2>2. m \in Nat /\ l \in 0..m /\ l # m /\ 2 * m <= T_BITS
    BY <1>1
  <2> HIDE DEF l, m
  <2>3. /\ m - l - 1 \in Nat /\ m - l - 1 = m - (l + 1)
        /\ 2 * (m - l - 1) \in Nat /\ 2 * (m - l - 1) <= T_BITS /\ 2 * m \in Nat
    BY <2>1, <2>2
  <2>4. T_BITS + 1 <= USIZE_BITS
    BY <2>1
  <2>5. QED
    BY <2>1, <2>3, <2>4 DEF l, m
<1>3. c \in Nat
  BY <1>1
<1>4. q \in Nat \ {0} /\ U \in Nat /\ W \in Nat /\ q <= U /\ 2 * U <= W
  <2>1. 2 ^ (T_BITS + 1) = 2 * 2 ^ T_BITS /\ 2 ^ T_BITS \in Nat /\ 2 ^ USIZE_BITS \in Nat
    BY <1>2, PowerStep
  <2>2. 2 ^ (T_BITS + 1) <= 2 ^ USIZE_BITS
    BY <1>2, PowerMono
  <2>3. q \in Nat \ {0}
    <3> HIDE DEF e
    <3> QED
      BY <1>2, PowerStep
  <2>4. q <= U
    <3> HIDE DEF e
    <3> QED
      BY <1>2, PowerMono
  <2>5. QED
    BY <2>1, <2>2, <2>3, <2>4
<1>5. x \in Nat /\ x < U
  <2>1. x \in Nat /\ x < Quarters(n_levels)
    BY IndexTrack
  <2>2. Quarters(n_levels) <= U /\ Quarters(n_levels) \in Nat
    <3>1. 2 ^ (2 * n_levels) <= 2 ^ T_BITS /\ 2 ^ (2 * n_levels) \in Nat
      BY <1>2, PowerMono, PowerStep
    <3>2. QED
      BY <3>1 DEF Quarters
  <2> HIDE DEF x, U
  <2>3. QED
    BY <1>4, <2>1, <2>2
<1>6. x \div q = c
  BY <1>2 DEF Top, Quarters
<1>7. walk_of.kind = "next" /\ usize(usize(c * q) + q) <= walk_of.target
  BY DEF too_small, sym_hi, sym_lo
<1> HIDE DEF q, x, c, U
<1>8. x = q * c + (x % q) /\ x % q \in 0..(q - 1)
  BY <1>4, <1>5, <1>6, DivMod
<1>9. c * q \in Nat /\ c * q = q * c
  BY <1>3, <1>4
<1>10. c * q < W /\ c * q + q < W /\ c * q + q \in Nat
  <2> HIDE DEF W
  <2>1. c * q <= x
    BY <1>4, <1>5, <1>8, <1>9
  <2>2. QED
    BY <1>4, <1>5, <1>9, <2>1
<1>11. usize(c * q) = c * q /\ usize(c * q + q) = c * q + q
  BY <1>9, <1>10, UsizeSmall
<1>12. c * q + q <= walk_of.target
  BY <1>7, <1>11
<1>13. x < c * q + q
  BY <1>4, <1>5, <1>8, <1>9
<1>14. QED
  BY <1>5, <1>9, <1>10, <1>12, <1>13 DEF x

------------------------------------------------------------------------------
\* t is the stack s after the frame c, to which its top leads, has been replaced by its
\* children, the first of them on top.
Pushes(t, s, c) ==
  /\ t \in Seq(Frames) /\ Len(s) - 1 <= Len(t) /\ Len(t) <= Len(s) + 3
  /\ \A i \in 1..(Len(s) - 1) : t[i] = s[i]
  /\ \A i \in Len(s)..Len(t) : /\ c.level # n_levels
                               /\ \E d \in Quads : nonempty(c, d) /\ t[i] = child_frame(c, d)
  /\ \A i, j \in Len(s)..Len(t) : i < j => Under(t[j], t[i])
  /\ c.level # n_levels => \A d \in Quads : (nonempty(c, d) /\ ~too_small(c, d))
                             => \E i \in Len(s)..Len(t) : t[i] = child_frame(c, d)

LEMMA PushesIs ==
  ASSUME Indexes, NEW s \in Seq(Frames), s # <<>>, NEW c \in Frames
  PROVE  /\ c.level = n_levels => Pushes(Front(s), s, c)
         /\ c.level # n_levels => Pushes(Front(s) \o pushed(children(c)), s, c)
<1> DEFINE r == Front(s)
<1>1. Len(s) \in Nat \ {0}
  OBVIOUS
<1>2. r \in Seq(Frames) /\ Len(r) = Len(s) - 1 /\ \A i \in 1..(Len(s) - 1) : r[i] = s[i]
  <2>1. r = SubSeq(s, 1, Len(s) - 1)
    BY DEF Front
  <2>2. 1 \in 1..(Len(s) + 1) /\ Len(s) - 1 \in 0..Len(s)
    BY <1>1
  <2>3. \A i \in 1..(Len(s) - 1) : s[i] \in Frames
    BY <1>1
  <2>4. r = [i \in 1..(Len(s) - 1) |-> s[i]]
    BY <1>1, <2>1
  <2>5. r \in [1..(Len(s) - 1) -> Frames] /\ Len(s) - 1 \in Nat
    BY <1>1, <2>3, <2>4
  <2> HIDE DEF r
  <2>6. r \in Seq(Frames) /\ Len(r) = Len(s) - 1
    BY <2>5
  <2>7. QED
    BY <2>4, <2>6
<1> HIDE DEF r
<1>3. CASE c.level = n_levels
  <2>1. Len(s)..Len(r) = {}
    BY <1>1, <1>2
  <2>2. QED
    BY <1>1, <1>2, <1>3, <2>1 DEF Pushes, r
<1>4. CASE c.level # n_levels
  <2> DEFINE k == children(c)
             v == pushed(k)
             t == r \o v
  <2>1. Kids(k, c, 4)
    BY <1>4, ChildrenAre
  <2> HIDE DEF k
  <2>2. /\ k \in Seq(Frames) /\ Len(k) \in 0..4
        /\ \A i \in 1..Len(k) : \E d \in Quads : nonempty(c, d) /\ k[i] = child_frame(c, d)
        /\ \A i, j \in 1..Len(k) : i < j => Under(k[i], k[j])
        /\ \A d \in Quads : (nonempty(c, d) /\ ~too_small(c, d))
                            => \E i \in 1..Len(k) : k[i] = child_frame(c, d)
    <3>1. \A d \in Quads : d < 4
      BY DEF Quads
    <3>2. k \in Seq(Frames) /\ Len(k) <= 4
      BY <2>1 DEF Kids
    <3>3. Len(k) \in 0..4
      <4> DEFINE z == Len(k)
      <4>1. z \in Nat /\ z <= 4
        BY <3>2
      <4> HIDE DEF z
      <4>2. z \in 0..4
        BY <4>1
      <4>3. QED
        BY <4>2 DEF z
    <3>4. QED
      BY <2>1, <3>1, <3>2, <3>3 DEF Kids
  <2>3. \A i \in 1..Len(k) : (Len(k) - i) + 1 \in 1..Len(k) /\ k[(Len(k) - i) + 1] \in Frames
    BY <2>2
  <2>4. v \in Seq(Frames) /\ Len(v) = Len(k) /\ \A i \in 1..Len(k) : v[i] = k[(Len(k) - i) + 1]
    <3>1. v = [i \in 1..Len(k) |-> k[(Len(k) - i) + 1]]
      BY DEF pushed, Reverse
    <3>2. v \in [1..Len(k) -> Frames] /\ Len(k) \in Nat
      BY <2>2, <2>3, <3>1
    <3>3. v \in Seq(Frames) /\ Len(v) = Len(k)
      <4> HIDE DEF v
      <4> QED
        BY <3>2
    <3>4. QED
      BY <3>1, <3>3
  <2> HIDE DEF v
  <2>5. /\ t \in Seq(Frames) /\ Len(t) = (Len(s) - 1) + Len(k)
        /\ \A i \in 1..(Len(s) - 1) : t[i] = s[i]
        /\ \A i \in Len(s)..Len(t) : i - (Len(s) - 1) \in 1..Len(k) /\ t[i] = v[i - (Len(s) - 1)]
    <3>1. t \in Seq(Frames) /\ Len(t) = Len(r) + Len(v)
      <4>1. r \in Seq(Frames) /\ v \in Seq(Frames)
        BY <1>2, <2>4
      <4> QED
        BY <4>1
    <3>2. Len(t) = (Len(s) - 1) + Len(k)
      BY <1>2, <2>4, <3>1
    <3>3. ASSUME NEW i \in 1..(Len(s) - 1) PROVE t[i] = s[i]
      BY <1>1, <1>2, <2>2, <2>4
    <3>4. ASSUME NEW i \in Len(s)..Len(t)
          PROVE  i - (Len(s) - 1) \in 1..Len(k) /\ t[i] = v[i - (Len(s) - 1)]
      BY <1>1, <1>2, <2>2, <2>4, <3>2
    <3>5. QED
      BY <3>1, <3>2, <3>3, <3>4
  <2> HIDE DEF t
  <2> DEFINE at(i) == (Len(k) - (i - (Len(s) - 1))) + 1
  <2>6. \A i \in Len(s)..Len(t) : at(i) \in 1..Len(k) /\ t[i] = k[at(i)]
    BY <1>1, <2>2, <2>3, <2>4, <2>5
  <2>7. \A i, j \in Len(s)..Len(t) : i < j => at(j) < at(i)
    BY <1>1, <2>2, <2>5
  <2>8. \A j \in 1..Len(k) : \E i \in Len(s)..Len(t) : at(i) = j
    <3> SUFFICES ASSUME NEW j \in 1..Len(k) PROVE \E i \in Len(s)..Len(t) : at(i) = j
      OBVIOUS
    <3> DEFINE i == (Len(k) - j) + 1 + (Len(s) - 1)
    <3>1. i \in Len(s)..Len(t) /\ at(i) = j
      BY <1>1, <2>2, <2>5
    <3>2. QED
      BY <3>1
  <2> HIDE DEF at
  <2>9. \A i \in Len(s)..Len(t) : \E d \in Quads : nonempty(c, d) /\ t[i] = child_frame(c, d)
    BY <2>2, <2>6
  <2>10. \A i, j \in Len(s)..Len(t) : i < j => Under(t[j], t[i])
    BY <2>2, <2>6, <2>7
  <2>11. \A d \in Quads : (nonempty(c, d) /\ ~too_small(c, d))
                          => \E i \in Len(s)..Len(t) : t[i] = child_frame(c, d)
    <3> SUFFICES ASSUME NEW d \in Quads, nonempty(c, d), ~too_small(c, d)
                 PROVE  \E i \in Len(s)..Len(t) : t[i] = child_frame(c, d)
      OBVIOUS
    <3>1. PICK j \in 1..Len(k) : k[j] = child_frame(c, d)
      BY <2>2
    <3>2. PICK i \in Len(s)..Len(t) : at(i) = j
      BY <2>8
    <3>3. t[i] = k[at(i)]
      BY <2>6
    <3>4. QED
      BY <3>1, <3>2, <3>3
  <2>12. Len(s) - 1 <= Len(t) /\ Len(t) <= Len(s) + 3
    <3>1. Len(t) = (Len(s) - 1) + Len(k) /\ Len(k) \in 0..4
      BY <2>2, <2>5
    <3> DEFINE x == Len(s)
               y == Len(t)
               z == Len(k)
    <3>2. x \in Nat /\ y = (x - 1) + z /\ z \in 0..4
      BY <1>1, <3>1
    <3> HIDE DEF x, y, z
    <3>3. x - 1 <= y /\ y <= x + 3
      BY <3>2
    <3>4. QED
      BY <3>3 DEF x, y
  <2>13. Pushes(t, s, c)
    BY <1>4, <2>5, <2>9, <2>10, <2>11, <2>12 DEF Pushes
  <2>14. QED
    BY <1>4, <2>13 DEF t, r, v, k
<1>5. QED
  BY <1>3, <1>4

\* The frames of a stack: each has rows, those higher up have the smaller symbols and
\* are not nearer to the root.
Stacked(s) ==
  /\ s \in Seq(Frames)
  /\ \A k \in 1..Len(s) : FrameOk(s[k])
  /\ \A j, k \in 1..Len(s) : j < k => Under(s[k], s[j]) /\ s[j].level <= s[k].level

\* What StackBounded says of the frames at level l.
Waiting(s, l) == {k \in 1..(Len(s) - 1) : s[k].level = l}
Bounded(s) == \A l \in 0..n_levels : Cardinality(Waiting(s, l)) <= IF l = 0 THEN 0 ELSE 3

\* The frames that replace the top are inside it and below all that wait.
LEMMA PushedFrames ==
  ASSUME Indexes, NEW s, Stacked(s), s # <<>>, NEW c, Covers(c, s[Len(s)]), NEW t, Pushes(t, s, c),
         NEW i \in Len(s)..Len(t)
  PROVE  /\ c.level # n_levels /\ FrameOk(t[i]) /\ Inside(t[i], s[Len(s)])
         /\ t[i].level = c.level + 1 /\ c.level \in 0..n_levels
         /\ s[Len(s)].level \in 0..n_levels /\ s[Len(s)].level <= c.level
         /\ \A j \in 1..(Len(s) - 1) : /\ Under(t[i], s[j]) /\ s[j].level <= c.level
                                       /\ s[j].level \in 0..n_levels
<1> DEFINE g == s[Len(s)]
<1>1. Len(s) \in Nat \ {0} /\ Len(s) \in 1..Len(s)
  BY DEF Stacked
<1>2. n_levels \in Nat /\ FrameOk(g) /\ FrameOk(c) /\ c \in Frames /\ g \in Frames
  BY <1>1 DEF Indexes, WellFormed, Stacked, Covers, FrameOk
<1>3. c.level \in 0..n_levels /\ g.level \in 0..n_levels /\ g.level <= c.level
  BY <1>2 DEF Frames, Covers
<1>4. PICK d \in Quads : c.level # n_levels /\ nonempty(c, d) /\ t[i] = child_frame(c, d)
  BY DEF Pushes
<1>5. FrameOk(t[i]) /\ Inside(t[i], c) /\ t[i].level = c.level + 1
  BY <1>2, <1>4, ChildFrame, ChildFrameType, Siblings
<1>6. Inside(t[i], g)
  BY <1>5 DEF Covers, Inside
<1> HIDE DEF g
<1>7. ASSUME NEW j \in 1..(Len(s) - 1)
      PROVE  Under(t[i], s[j]) /\ s[j].level <= c.level /\ s[j].level \in 0..n_levels
  <2>1. j \in 1..Len(s) /\ j < Len(s)
    BY <1>1
  <2>2. Under(g, s[j]) /\ s[j].level <= g.level /\ FrameOk(s[j])
    BY <1>1, <2>1 DEF Stacked, g
  <2>3. s[j].level \in 0..n_levels
    BY <2>2 DEF FrameOk, Frames
  <2>4. Under(t[i], s[j])
    BY <1>6, <2>2 DEF Under, Inside
  <2>5. s[j].level <= c.level
    <3> DEFINE x == s[j].level
               y == g.level
               z == c.level
    <3>1. x \in 0..n_levels /\ y \in 0..n_levels /\ z \in 0..n_levels /\ x <= y /\ y <= z
      BY <1>3, <2>2, <2>3
    <3> HIDE DEF x, y, z
    <3>2. x <= z
      BY <1>2, <3>1
    <3>3. QED
      BY <3>2 DEF x, z
  <2>6. QED
    BY <2>3, <2>4, <2>5
<1>8. QED
  BY <1>3, <1>4, <1>5, <1>6, <1>7 DEF g

\* The stack stays one, and the fixed one is never overrun: three siblings at most wait
\* at the level below that of the frame replaced, where none was.
LEMMA PopStacked ==
  ASSUME Indexes, NEW s, Stacked(s), Bounded(s), s # <<>>, NEW c, Covers(c, s[Len(s)]),
         NEW t, Pushes(t, s, c)
  PROVE  Stacked(t) /\ Bounded(t)
<1> DEFINE a == Len(s)
           b == Len(t)
<1>1. a \in Nat \ {0} /\ b \in Nat /\ a - 1 <= b /\ b <= a + 3 /\ t \in Seq(Frames) /\ s \in Seq(Frames)
  BY DEF Stacked, Pushes
<1>2. n_levels \in Nat
  BY DEF Indexes, WellFormed
<1>3. \A i \in 1..(a - 1) : t[i] = s[i] /\ i \in 1..a
  BY <1>1 DEF Pushes
<1>4. \A i \in 1..b : i \in 1..(a - 1) \/ i \in a..b
  BY <1>1
<1>5. \A i \in a..b : /\ c.level # n_levels /\ FrameOk(t[i]) /\ t[i].level = c.level + 1
                      /\ c.level \in 0..n_levels
                      /\ \A j \in 1..(a - 1) : /\ Under(t[i], s[j]) /\ s[j].level <= c.level
                                               /\ s[j].level \in 0..n_levels
  BY PushedFrames
<1>6. \A i, j \in a..b : i < j => Under(t[j], t[i])
  BY DEF Pushes
<1>7. \A k \in 1..b : FrameOk(t[k])
  <2> SUFFICES ASSUME NEW k \in 1..b PROVE FrameOk(t[k])
    OBVIOUS
  <2>1. CASE k \in 1..(a - 1)
    BY <1>3, <2>1 DEF Stacked
  <2>2. CASE k \in a..b
    BY <1>5, <2>2
  <2>3. QED
    BY <1>4, <2>1, <2>2
<1>8. ASSUME NEW j \in 1..b, NEW k \in 1..b, j < k
      PROVE  Under(t[k], t[j]) /\ t[j].level <= t[k].level
  <2>1. CASE k \in 1..(a - 1)
    <3>1. j \in 1..(a - 1)
      BY <1>1, <1>8, <2>1
    <3>2. t[j] = s[j] /\ t[k] = s[k] /\ j \in 1..Len(s) /\ k \in 1..Len(s)
      BY <1>3, <2>1, <3>1
    <3>3. QED
      BY <1>8, <3>2 DEF Stacked
  <2>2. CASE k \in a..b /\ j \in a..b
    <3>1. t[j].level = t[k].level /\ t[k].level \in Int
      BY <1>2, <1>5, <2>2
    <3>2. QED
      BY <1>6, <1>8, <2>2, <3>1
  <2>3. CASE k \in a..b /\ j \in 1..(a - 1)
    <3>1. Under(t[k], s[j]) /\ t[j] = s[j]
      BY <1>3, <1>5, <2>3
    <3> DEFINE x == s[j].level
               z == c.level
    <3>2. x \in 0..n_levels /\ z \in 0..n_levels /\ x <= z /\ t[k].level = z + 1
      BY <1>5, <2>3
    <3> HIDE DEF x, z
    <3>3. x <= t[k].level
      BY <1>2, <3>2
    <3>4. QED
      BY <3>1, <3>3 DEF x
  <2>4. QED
    BY <1>4, <2>1, <2>2, <2>3
<1>9. Stacked(t)
  BY <1>1, <1>7, <1>8 DEF Stacked
<1>10. ASSUME NEW l \in 0..n_levels
       PROVE  Cardinality(Waiting(t, l)) <= IF l = 0 THEN 0 ELSE 3
  <2>1. Cardinality(Waiting(s, l)) <= IF l = 0 THEN 0 ELSE 3
    BY DEF Bounded
  <2>2. IsFiniteSet(Waiting(s, l)) /\ IsFiniteSet(a..(b - 1))
    <3>1. IsFiniteSet(1..(a - 1))
      BY <1>1, FS_Interval
    <3>2. Waiting(s, l) \subseteq 1..(a - 1)
      BY DEF Waiting
    <3>3. IsFiniteSet(a..(b - 1))
      BY <1>1, FS_Interval
    <3>4. QED
      BY <3>1, <3>2, <3>3, FS_Subset
  <2>3. ASSUME NEW k \in Waiting(t, l)
        PROVE  \/ k \in Waiting(s, l) /\ k \in 1..(a - 1)
               \/ k \in a..(b - 1) /\ l = c.level + 1 /\ c.level \in 0..n_levels
    <3>1. k \in 1..b /\ k \in 1..(b - 1) /\ t[k].level = l
      BY <1>1 DEF Waiting
    <3>2. CASE k \in 1..(a - 1)
      BY <1>3, <3>1, <3>2 DEF Waiting
    <3>3. CASE k \in a..b
      <4>1. k \in a..(b - 1)
        BY <1>1, <3>1, <3>3
      <4>2. QED
        BY <1>5, <3>1, <3>3, <4>1
    <3>4. QED
      BY <1>4, <3>1, <3>2, <3>3
  <2>4. CASE Waiting(t, l) \subseteq Waiting(s, l)
    <3>1. Cardinality(Waiting(t, l)) <= Cardinality(Waiting(s, l)) /\ IsFiniteSet(Waiting(t, l))
      BY <2>2, <2>4, FS_Subset
    <3>2. Cardinality(Waiting(t, l)) \in Nat /\ Cardinality(Waiting(s, l)) \in Nat
      BY <2>2, <3>1, FS_CardinalityType
    <3>3. QED
      BY <2>1, <3>1, <3>2
  <2>5. CASE ~(Waiting(t, l) \subseteq Waiting(s, l))
    <3>1. PICK k \in Waiting(t, l) : k \notin Waiting(s, l)
      BY <2>5
    <3>2. k \in a..(b - 1) /\ l = c.level + 1 /\ c.level \in 0..n_levels
      BY <2>3, <3>1
    <3>3. l # 0
      BY <1>2, <3>2
    <3>4. \A j \in 1..(a - 1) : s[j].level # l
      <4> SUFFICES ASSUME NEW j \in 1..(a - 1), s[j].level = l PROVE FALSE
        OBVIOUS
      <4>1. k \in a..b
        BY <1>1, <3>2
      <4>2. s[j].level <= c.level
        BY <1>5, <4>1
      <4>3. QED
        BY <1>2, <3>2, <4>2
    <3>5. Waiting(t, l) \subseteq a..(b - 1)
      BY <2>3, <3>4 DEF Waiting
    <3>6. Cardinality(a..(b - 1)) <= 3 /\ Cardinality(a..(b - 1)) \in Nat
      <4> DEFINE z == b - 1
      <4>1. a \in Int /\ z \in Int /\ z - a + 1 <= 3
        BY <1>1
      <4> HIDE DEF a, z
      <4>2. Cardinality(a..z) = IF a > z THEN 0 ELSE z - a + 1
        BY <4>1, FS_Interval
      <4>3. Cardinality(a..z) <= 3 /\ Cardinality(a..z) \in Nat
        BY <4>1, <4>2
      <4>4. QED
        BY <4>3 DEF z
    <3>7. /\ Cardinality(Waiting(t, l)) <= Cardinality(a..(b - 1))
          /\ Cardinality(Waiting(t, l)) \in Nat
      BY <2>2, <3>5, FS_Subset, FS_CardinalityType
    <3> HIDE DEF a, b
    <3>8. QED
      BY <3>3, <3>6, <3>7
  <2>6. QED
    BY <2>4, <2>5
<1>11. QED
  BY <1>9, <1>10 DEF Bounded

\* Row p is in a frame of the stack.
OnStack(p, s) == \E i \in 1..Len(s) : Below(p, s[i].bit_path, s[i].level)

\* A pair that has been yielded: a symbol of the range and how often it is there.
Counted(y) ==
  /\ y[1] \in Nat /\ y[2] = Occs(y[1], walk_of.start, walk_of.end)
  /\ \E p \in 0..(n - 1) : InWalk(p) /\ indexed[p] = y[1]

\* What OccsRangeIter and RangeDistinctIter have yielded: smaller symbols first, all of
\* them smaller than those on the stack, and no row is lost.
Yielded(s, ys) ==
  /\ ys \in Seq(Nat \X Nat)
  /\ \A k \in 1..Len(ys) : Counted(ys[k])
  /\ \A j, k \in 1..Len(ys) : j < k => ys[j][1] < ys[k][1]
  /\ \A k \in 1..Len(ys), i \in 1..Len(s), x \in Nat : Top(x, s[i].level) = s[i].bit_path => ys[k][1] < x
  /\ \A p \in 0..(n - 1) : InWalk(p) => OnStack(p, s) \/ \E k \in 1..Len(ys) : ys[k][1] = indexed[p]

\* A leaf holds the next symbol.
LEMMA LeafYields ==
  ASSUME Indexes, walk_of.start \in Nat, walk_of.end \in Nat, walk_of.end <= n,
         NEW s, Stacked(s), s # <<>>, NEW c, Covers(c, s[Len(s)]), c.level = n_levels,
         NEW t, Pushes(t, s, c), NEW ys, Yielded(s, ys)
  PROVE  Yielded(t, Append(ys, <<c.bit_path, c.end - c.start>>))
<1> DEFINE g == s[Len(s)]
           y == <<c.bit_path, c.end - c.start>>
           zs == Append(ys, y)
           m == Len(ys)
           P == 0..(n - 1)
<1>1. /\ Len(s) \in Nat \ {0} /\ Len(s) \in 1..Len(s) /\ FrameOk(c) /\ n \in Nat
      /\ c.bit_path \in Nat /\ c.start \in 0..n /\ c.end \in 0..n /\ c.start < c.end
  BY DEF Stacked, Covers, FrameOk, Frames, Indexes, WellFormed
<1>2. /\ \E p \in P : InWalk(p) /\ indexed[p] = c.bit_path
      /\ \A x \in Nat : Top(x, c.level) = c.bit_path <=> x = c.bit_path
      /\ c.end - c.start = Occs(c.bit_path, walk_of.start, walk_of.end)
  BY <1>1, LeafIs
<1>3. Top(c.bit_path, g.level) = g.bit_path
  BY <1>1, <1>2 DEF Covers, Inside
<1>4. /\ t \in Seq(Frames) /\ Len(t) = Len(s) - 1
      /\ \A i \in 1..Len(t) : i \in 1..(Len(s) - 1) /\ i \in 1..Len(s) /\ i < Len(s) /\ t[i] = s[i]
  <2>1. Len(s)..Len(t) = {} /\ t \in Seq(Frames) /\ Len(s) - 1 <= Len(t)
    BY DEF Pushes
  <2>2. Len(t) = Len(s) - 1
    BY <1>1, <2>1
  <2>3. \A i \in 1..(Len(s) - 1) : t[i] = s[i]
    BY DEF Pushes
  <2>4. QED
    BY <1>1, <2>1, <2>2, <2>3
<1>5. y \in Nat \X Nat /\ y[1] = c.bit_path /\ Counted(y)
  <2>1. c.end - c.start \in Nat
    BY <1>1
  <2>2. QED
    BY <1>1, <1>2, <2>1 DEF Counted
<1>6. ys \in Seq(Nat \X Nat) /\ m \in Nat
  BY DEF Yielded
<1> HIDE DEF y
<1>7. /\ zs \in Seq(Nat \X Nat) /\ Len(zs) = m + 1 /\ zs[m + 1] = y
      /\ \A k \in 1..m : zs[k] = ys[k]
  BY <1>5, <1>6
<1> HIDE DEF zs
<1>8. \A k \in 1..Len(zs) : k \in 1..m \/ k = m + 1
  BY <1>6, <1>7
<1>9. \A k \in 1..m : ys[k][1] \in Nat /\ ys[k][1] < c.bit_path
  BY <1>1, <1>3 DEF Yielded, Counted
<1>10. \A k \in 1..Len(zs) : Counted(zs[k])
  BY <1>5, <1>7, <1>8 DEF Yielded
<1>11. ASSUME NEW j \in 1..Len(zs), NEW k \in 1..Len(zs), j < k PROVE zs[j][1] < zs[k][1]
  <2>1. j \in 1..m
    BY <1>6, <1>7, <1>11
  <2>2. CASE k \in 1..m
    BY <1>7, <1>11, <2>1, <2>2 DEF Yielded
  <2>3. CASE k = m + 1
    BY <1>5, <1>7, <1>9, <2>1, <2>3
  <2>4. QED
    BY <1>8, <2>2, <2>3
<1>12. ASSUME NEW k \in 1..Len(zs), NEW i \in 1..Len(t), NEW x \in Nat, Top(x, t[i].level) = t[i].bit_path
       PROVE  zs[k][1] < x
  <2>1. i \in 1..Len(s) /\ i < Len(s) /\ t[i] = s[i]
    BY <1>4
  <2>2. CASE k \in 1..m
    <3>1. Top(x, s[i].level) = s[i].bit_path /\ zs[k] = ys[k] /\ k \in 1..Len(ys)
      BY <1>7, <1>12, <2>1, <2>2
    <3>2. QED
      BY <2>1, <3>1 DEF Yielded
  <2>3. CASE k = m + 1
    <3>1. Under(g, s[i])
      BY <1>1, <2>1 DEF Stacked
    <3>2. QED
      BY <1>1, <1>3, <1>5, <1>7, <1>12, <2>1, <2>3, <3>1 DEF Under
  <2>4. QED
    BY <1>8, <2>2, <2>3
<1>13. ASSUME NEW p \in P, InWalk(p)
       PROVE  OnStack(p, t) \/ \E k \in 1..Len(zs) : zs[k][1] = indexed[p]
  <2>1. CASE \E k \in 1..m : ys[k][1] = indexed[p]
    <3>1. PICK k \in 1..m : ys[k][1] = indexed[p]
      BY <2>1
    <3>2. k \in 1..Len(zs)
      BY <1>6, <1>7
    <3>3. zs[k][1] = indexed[p]
      BY <1>7, <3>1
    <3>4. QED
      BY <3>2, <3>3
  <2>2. CASE OnStack(p, s)
    <3>1. PICK i \in 1..Len(s) : Below(p, s[i].bit_path, s[i].level)
      BY <2>2 DEF OnStack
    <3>2. CASE i = Len(s)
      <4>1. Below(p, c.bit_path, c.level) /\ indexed[p] \in Nat
        BY <3>1, <3>2, IndexTrack DEF Covers
      <4>2. indexed[p] = c.bit_path
        BY <1>2, <4>1 DEF Below
      <4>3. m + 1 \in 1..Len(zs)
        BY <1>6, <1>7
      <4>4. QED
        BY <1>5, <1>7, <4>2, <4>3
    <3>3. CASE i # Len(s)
      <4>1. i \in 1..Len(t)
        BY <1>1, <1>4, <3>3
      <4>2. QED
        BY <1>4, <3>1, <4>1 DEF OnStack
    <3>4. QED
      BY <3>2, <3>3
  <2>3. QED
    BY <1>13, <2>1, <2>2 DEF Yielded
<1>14. QED
  BY <1>7, <1>10, <1>11, <1>12, <1>13 DEF Yielded, y, zs

\* A row of the frame replaced is on the new stack, or in a child that is left out.
LEMMA RowsStay ==
  ASSUME Indexes, NEW s, Stacked(s), s # <<>>, NEW c, Covers(c, s[Len(s)]), c.level # n_levels,
         NEW t, Pushes(t, s, c), NEW p \in 0..(n - 1), OnStack(p, s)
  PROVE  \/ OnStack(p, t)
         \/ \E d \in Quads : too_small(c, d) /\ Top(indexed[p], c.level + 1) = c.bit_path * 4 + d
<1>1. /\ Len(s) \in Nat \ {0} /\ FrameOk(c) /\ c \in Frames
      /\ t \in Seq(Frames) /\ Len(t) \in Nat /\ Len(s) - 1 <= Len(t)
  BY DEF Stacked, Covers, FrameOk, Pushes
<1>2. PICK i \in 1..Len(s) : Below(p, s[i].bit_path, s[i].level)
  BY DEF OnStack
<1>3. CASE i # Len(s)
  <2>1. i \in 1..(Len(s) - 1) /\ i \in 1..Len(t)
    BY <1>1, <1>3
  <2>2. t[i] = s[i]
    BY <2>1 DEF Pushes
  <2>3. QED
    BY <1>2, <2>1, <2>2 DEF OnStack
<1>4. CASE i = Len(s)
  <2>1. Below(p, c.bit_path, c.level)
    BY <1>2, <1>4 DEF Covers
  <2>2. PICK d \in Quads : /\ nonempty(c, d)
                           /\ Below(p, child_frame(c, d).bit_path, child_frame(c, d).level)
    BY <1>1, <2>1, RowGoesDown
  <2>3. CASE too_small(c, d)
    <3>1. Top(indexed[p], c.level + 1) = c.bit_path * 4 + d
      BY <1>1, <2>2, ChildFrameType DEF Below
    <3>2. QED
      BY <2>3, <3>1
  <2>4. CASE ~too_small(c, d)
    <3>1. PICK j \in Len(s)..Len(t) : t[j] = child_frame(c, d)
      BY <2>2, <2>4 DEF Pushes
    <3>2. j \in 1..Len(t)
      BY <1>1
    <3>3. QED
      BY <2>2, <3>1, <3>2 DEF OnStack
  <2>5. QED
    BY <2>3, <2>4
<1>5. QED
  BY <1>3, <1>4

\* Between leaves nothing is yielded, and what was stays smaller than what is left.
LEMMA BranchYields ==
  ASSUME Indexes, walk_of.kind # "next",
         NEW s, Stacked(s), s # <<>>, NEW c, Covers(c, s[Len(s)]), c.level # n_levels,
         NEW t, Pushes(t, s, c), NEW ys, Yielded(s, ys)
  PROVE  Yielded(t, ys)
<1>1. Len(s) \in Nat \ {0} /\ Len(s) \in 1..Len(s) /\ t \in Seq(Frames) /\ Len(t) \in Nat
  BY DEF Stacked, Pushes
<1>2. ASSUME NEW k \in 1..Len(ys), NEW i \in 1..Len(t), NEW x \in Nat, Top(x, t[i].level) = t[i].bit_path
      PROVE  ys[k][1] < x
  <2>1. CASE i \in 1..(Len(s) - 1)
    <3>1. t[i] = s[i] /\ i \in 1..Len(s)
      BY <1>1, <2>1 DEF Pushes
    <3>2. QED
      BY <1>2, <3>1 DEF Yielded
  <2>2. CASE i \in Len(s)..Len(t)
    <3>1. Inside(t[i], s[Len(s)])
      BY <2>2, PushedFrames
    <3>2. Top(x, s[Len(s)].level) = s[Len(s)].bit_path
      BY <1>2, <3>1 DEF Inside
    <3>3. QED
      BY <1>1, <3>2 DEF Yielded
  <2>3. QED
    BY <1>1, <2>1, <2>2
<1>3. ASSUME NEW p \in 0..(n - 1), OnStack(p, s) PROVE OnStack(p, t)
  <2>1. \A d \in Quads : ~too_small(c, d)
    BY DEF too_small
  <2>2. QED
    BY <1>3, <2>1, RowsStay
<1>4. QED
  BY <1>2, <1>3 DEF Yielded

\* What range_next_value returns: the smallest symbol of the range that is not below
\* the target, or nothing if there is none.
Found(ys) ==
  \/ ys = <<>> /\ \A p \in 0..(n - 1) : InWalk(p) => indexed[p] < walk_of.target
  \/ /\ Len(ys) = 1 /\ ys[1][1] \in Nat /\ walk_of.target <= ys[1][1]
     /\ \E p \in 0..(n - 1) : InWalk(p) /\ indexed[p] = ys[1][1]
     /\ \A p \in 0..(n - 1) : (InWalk(p) /\ walk_of.target <= indexed[p]) => ys[1][1] <= indexed[p]

\* Until it does, every row that is large enough is on the stack.
Sought(s, ys, st) ==
  /\ st = "open" => /\ ys = <<>>
                    /\ \A p \in 0..(n - 1) : InWalk(p) => (indexed[p] < walk_of.target \/ OnStack(p, s))
  /\ st = "done" => Found(ys)

\* The first leaf that is large enough is the answer.
LEMMA LeafFound ==
  ASSUME Indexes, walk_of.start \in Nat, walk_of.end \in Nat, walk_of.end <= n, walk_of.target \in Nat,
         NEW s, Stacked(s), s # <<>>, NEW c, Covers(c, s[Len(s)]), c.level = n_levels,
         Sought(s, <<>>, "open"), walk_of.target <= c.bit_path
  PROVE  Sought(<<>>, <<<<c.bit_path, c.end - c.start>>>>, "done")
<1> DEFINE g == s[Len(s)]
           y == <<c.bit_path, c.end - c.start>>
           P == 0..(n - 1)
<1>1. /\ Len(s) \in Nat \ {0} /\ Len(s) \in 1..Len(s) /\ FrameOk(c) /\ c.bit_path \in Nat
  BY DEF Stacked, Covers, FrameOk, Frames
<1>2. /\ \E p \in P : InWalk(p) /\ indexed[p] = c.bit_path
      /\ \A x \in Nat : Top(x, c.level) = c.bit_path <=> x = c.bit_path
  BY <1>1, LeafIs
<1>3. Top(c.bit_path, g.level) = g.bit_path
  BY <1>1, <1>2 DEF Covers, Inside
<1>4. ASSUME NEW p \in P, InWalk(p), walk_of.target <= indexed[p] PROVE c.bit_path <= indexed[p]
  <2>1. indexed[p] \in Nat
    BY IndexTrack
  <2>2. OnStack(p, s)
    BY <1>4, <2>1 DEF Sought
  <2>3. PICK i \in 1..Len(s) : Below(p, s[i].bit_path, s[i].level)
    BY <2>2 DEF OnStack
  <2>4. CASE i = Len(s)
    <3>1. Top(indexed[p], c.level) = c.bit_path
      BY <2>3, <2>4 DEF Covers, Below
    <3>2. QED
      BY <1>1, <1>2, <2>1, <3>1
  <2>5. CASE i # Len(s)
    <3>1. i < Len(s)
      BY <1>1, <2>5
    <3>2. Under(g, s[i])
      BY <1>1, <3>1 DEF Stacked
    <3>3. c.bit_path < indexed[p]
      BY <1>1, <1>3, <2>1, <2>3, <3>2 DEF Under, Below
    <3>4. QED
      BY <1>1, <2>1, <3>3
  <2>6. QED
    BY <2>4, <2>5
<1>5. y[1] = c.bit_path /\ Len(<<y>>) = 1 /\ <<y>>[1] = y
  OBVIOUS
<1> HIDE DEF y
<1>6. Found(<<y>>)
  BY <1>1, <1>2, <1>4, <1>5 DEF Found
<1>7. QED
  BY <1>6 DEF Sought, y

\* One that is not is left behind.
LEMMA LeafPassed ==
  ASSUME Indexes, walk_of.start \in Nat, walk_of.end \in Nat, walk_of.end <= n, walk_of.target \in Nat,
         NEW s, Stacked(s), s # <<>>, NEW c, Covers(c, s[Len(s)]), c.level = n_levels,
         NEW t, Pushes(t, s, c), NEW ys, Sought(s, ys, "open"), ~(walk_of.target <= c.bit_path)
  PROVE  Sought(t, ys, "open")
<1> DEFINE P == 0..(n - 1)
<1>1. /\ Len(s) \in Nat \ {0} /\ FrameOk(c) /\ c.bit_path \in Nat
      /\ t \in Seq(Frames) /\ Len(t) \in Nat /\ Len(s) - 1 <= Len(t)
  BY DEF Stacked, Covers, FrameOk, Frames, Pushes
<1>2. \A x \in Nat : Top(x, c.level) = c.bit_path <=> x = c.bit_path
  BY <1>1, LeafIs
<1>3. ASSUME NEW p \in P, OnStack(p, s) PROVE indexed[p] < walk_of.target \/ OnStack(p, t)
  <2>1. indexed[p] \in Nat
    BY IndexTrack
  <2>2. PICK i \in 1..Len(s) : Below(p, s[i].bit_path, s[i].level)
    BY <1>3 DEF OnStack
  <2>3. CASE i = Len(s)
    <3>1. Top(indexed[p], c.level) = c.bit_path
      BY <2>2, <2>3 DEF Covers, Below
    <3>2. QED
      BY <1>1, <1>2, <2>1, <3>1
  <2>4. CASE i # Len(s)
    <3>1. i \in 1..(Len(s) - 1) /\ i \in 1..Len(t)
      BY <1>1, <2>4
    <3>2. t[i] = s[i]
      BY <3>1 DEF Pushes
    <3>3. QED
      BY <2>2, <3>1, <3>2 DEF OnStack
  <2>5. QED
    BY <2>3, <2>4
<1>4. QED
  BY <1>3 DEF Sought

\* A child that is left out has no row that is large enough.
LEMMA BranchSeeks ==
  ASSUME Indexes, 2 * n_levels <= T_BITS, T_BITS < USIZE_BITS, walk_of.target \in Nat,
         NEW s, Stacked(s), s # <<>>, NEW c, Covers(c, s[Len(s)]), c.level # n_levels,
         NEW t, Pushes(t, s, c), NEW ys, Sought(s, ys, "open")
  PROVE  Sought(t, ys, "open")
<1>1. c \in Frames
  BY DEF Covers, FrameOk
<1>2. ASSUME NEW p \in 0..(n - 1), OnStack(p, s) PROVE indexed[p] < walk_of.target \/ OnStack(p, t)
  <2>1. CASE OnStack(p, t)
    BY <2>1
  <2>2. CASE \E d \in Quads : too_small(c, d) /\ Top(indexed[p], c.level + 1) = c.bit_path * 4 + d
    BY <1>1, <2>2, TooSmall
  <2>3. QED
    BY <1>2, <2>1, <2>2, RowsStay
<1>3. QED
  BY <1>2 DEF Sought

\* What is true of a walk over a range of rows.
Walked(s, ys, st) ==
  /\ Stacked(s) /\ Bounded(s)
  /\ walk_of.kind # "next" => Yielded(s, ys) /\ (st = "done" => s = <<>>)
  /\ (walk_of.kind = "next" /\ T_BITS < USIZE_BITS) => Sought(s, ys, st)

\* One popped frame keeps that.
LEMMA PopWalked ==
  ASSUME Indexes, 2 * n_levels <= T_BITS, walk_of.start \in Nat, walk_of.end \in Nat,
         walk_of.end <= n, walk_of.target \in Nat,
         NEW s, s # <<>>, NEW ys, Walked(s, ys, "open")
  PROVE  LET c == collapse(Last(s))
             leaf == c.level = n_levels
             hit == walk_of.kind # "next" \/ c.bit_path >= walk_of.target
         IN Walked(IF leaf THEN Front(s) ELSE Front(s) \o pushed(children(c)),
                   IF leaf /\ hit THEN Append(ys, <<c.bit_path, c.end - c.start>>) ELSE ys,
                   IF leaf /\ hit /\ walk_of.kind = "next" THEN "done" ELSE "open")
<1> DEFINE c == collapse(Last(s))
           leaf == c.level = n_levels
           hit == walk_of.kind # "next" \/ c.bit_path >= walk_of.target
           t == IF leaf THEN Front(s) ELSE Front(s) \o pushed(children(c))
           y == <<c.bit_path, c.end - c.start>>
           zs == IF leaf /\ hit THEN Append(ys, y) ELSE ys
           st == IF leaf /\ hit /\ walk_of.kind = "next" THEN "done" ELSE "open"
<1>1. Stacked(s) /\ Bounded(s) /\ s \in Seq(Frames) /\ Len(s) \in Nat \ {0}
  BY DEF Walked, Stacked
<1>2. Last(s) = s[Len(s)] /\ FrameOk(s[Len(s)])
  BY <1>1 DEF Last, Stacked
<1>3. Covers(c, s[Len(s)])
  BY <1>2, CollapseCovers
<1> HIDE DEF c
<1>4. c \in Frames /\ c.bit_path \in Nat /\ FrameOk(c)
  BY <1>3 DEF Covers, FrameOk, Frames
<1>5. Pushes(t, s, c)
  BY <1>1, <1>4, PushesIs
<1> HIDE DEF t
<1>6. Stacked(t) /\ Bounded(t)
  BY <1>1, <1>3, <1>5, PopStacked
<1>7. c.bit_path >= walk_of.target <=> walk_of.target <= c.bit_path
  BY <1>4
<1>8. CASE walk_of.kind # "next"
  <2>1. Yielded(s, ys) /\ hit /\ st = "open"
    BY <1>8 DEF Walked
  <2>2. Yielded(t, zs)
    <3>1. CASE leaf
      <4>1. Yielded(t, Append(ys, y))
        BY <1>1, <1>3, <1>5, <2>1, <3>1, LeafYields
      <4>2. QED
        BY <2>1, <3>1, <4>1
    <3>2. CASE ~leaf
      <4>1. Yielded(t, ys)
        BY <1>1, <1>3, <1>5, <1>8, <2>1, <3>2, BranchYields
      <4>2. QED
        BY <3>2, <4>1
    <3>3. QED
      BY <3>1, <3>2
  <2> HIDE DEF zs, st
  <2>3. Walked(t, zs, st)
    BY <1>6, <1>8, <2>1, <2>2 DEF Walked
  <2>4. QED
    BY <2>3 DEF c, t, zs, st
<1>9. CASE walk_of.kind = "next"
  <2>1. ASSUME T_BITS < USIZE_BITS PROVE Sought(t, zs, st)
    <3>1. Sought(s, ys, "open") /\ ys = <<>>
      BY <1>9, <2>1 DEF Walked, Sought
    <3>2. CASE leaf /\ hit
      <4>1. Sought(s, <<>>, "open") /\ walk_of.target <= c.bit_path
        BY <1>7, <1>9, <3>1, <3>2
      <4>2. Sought(<<>>, <<y>>, "done")
        BY <1>1, <1>3, <3>2, <4>1, LeafFound
      <4>3. Append(ys, y) = <<y>>
        BY <3>1
      <4>4. zs = <<y>> /\ st = "done"
        BY <1>9, <3>2, <4>3
      <4>5. QED
        BY <4>2, <4>4 DEF Sought
    <3>3. CASE leaf /\ ~hit
      <4>1. ~(walk_of.target <= c.bit_path)
        BY <1>7, <3>3
      <4>2. Sought(t, ys, "open")
        BY <1>1, <1>3, <1>5, <3>1, <3>3, <4>1, LeafPassed
      <4>3. QED
        BY <3>3, <4>2
    <3>4. CASE ~leaf
      <4>1. Sought(t, ys, "open")
        BY <1>1, <1>3, <1>5, <2>1, <3>1, <3>4, BranchSeeks
      <4>2. QED
        BY <3>4, <4>1
    <3>5. QED
      BY <3>2, <3>3, <3>4
  <2> HIDE DEF zs, st
  <2>2. Walked(t, zs, st)
    BY <1>6, <1>9, <2>1 DEF Walked
  <2>3. QED
    BY <2>2 DEF c, t, zs, st
<1>10. QED
  BY <1>8, <1>9

------------------------------------------------------------------------------
(* WTIterator.                                                             *)

\* 1 if row p has symbol x.
Here(x, p) == IF indexed[p] = x THEN 1 ELSE 0

\* The occurrences between a and b, with the row at either end taken off.
LEMMA OccsEnds ==
  ASSUME NEW x, NEW a \in Nat, NEW b \in Nat, a < b
  PROVE  /\ Occs(x, a, b) = Occs(x, a + 1, b) + Here(x, a) /\ Occs(x, a + 1, b) \in Nat
         /\ Occs(x, a, b) = Occs(x, a, b - 1) + Here(x, b - 1) /\ Occs(x, a, b - 1) \in Nat
<1> DEFINE In(c, d) == {p \in c..(d - 1) : indexed[p] = x}
<1>1. \A c, d \in Int : IsFiniteSet(In(c, d)) /\ Cardinality(In(c, d)) \in Nat
  <2> SUFFICES ASSUME NEW c \in Int, NEW d \in Int
               PROVE  IsFiniteSet(In(c, d)) /\ Cardinality(In(c, d)) \in Nat
    OBVIOUS
  <2>1. IsFiniteSet(c..(d - 1))
    BY FS_Interval
  <2>2. In(c, d) \subseteq c..(d - 1)
    OBVIOUS
  <2>3. QED
    BY <2>1, <2>2, FS_Subset, FS_CardinalityType
<1>0. a + 1 \in Int /\ b - 1 \in Int /\ a \in Int /\ b \in Int
  OBVIOUS
<1>2. ASSUME NEW S, IsFiniteSet(S), NEW T, NEW p, p \notin S, T = IF indexed[p] = x THEN S \cup {p} ELSE S
      PROVE  Cardinality(T) = Cardinality(S) + Here(x, p)
  <2>1. Cardinality(S) \in Nat
    BY <1>2, FS_CardinalityType
  <2>2. CASE indexed[p] = x
    <3>1. Cardinality(S \cup {p}) = Cardinality(S) + 1
      BY <1>2, FS_AddElement
    <3>2. QED
      BY <1>2, <2>2, <3>1 DEF Here
  <2>3. CASE indexed[p] # x
    BY <1>2, <2>1, <2>3 DEF Here
  <2>4. QED
    BY <2>2, <2>3
<1>3. Cardinality(In(a, b)) = Cardinality(In(a + 1, b)) + Here(x, a)
  <2>1. a \notin In(a + 1, b)
    OBVIOUS
  <2>2. In(a, b) = IF indexed[a] = x THEN In(a + 1, b) \cup {a} ELSE In(a + 1, b)
    OBVIOUS
  <2> HIDE DEF In
  <2>3. IsFiniteSet(In(a + 1, b))
    BY <1>0, <1>1
  <2>4. QED
    BY <1>2, <2>1, <2>2, <2>3
<1>4. Cardinality(In(a, b)) = Cardinality(In(a, b - 1)) + Here(x, b - 1)
  <2>1. b - 1 \notin In(a, b - 1)
    OBVIOUS
  <2>2. In(a, b) = IF indexed[b - 1] = x THEN In(a, b - 1) \cup {b - 1} ELSE In(a, b - 1)
    OBVIOUS
  <2> HIDE DEF In
  <2>3. IsFiniteSet(In(a, b - 1))
    BY <1>0, <1>1
  <2>4. QED
    BY <1>2, <2>1, <2>2, <2>3
<1>5. Cardinality(In(a + 1, b)) \in Nat /\ Cardinality(In(a, b - 1)) \in Nat
  <2> HIDE DEF In
  <2> QED
    BY <1>0, <1>1
<1>6. QED
  BY <1>3, <1>4, <1>5 DEF Occs

\* How often x is in what has been yielded.
Out(ys, x) == Cardinality({k \in 1..Len(ys) : ys[k][1] = x})

\* One more if it is yielded once more.
LEMMA OutStep ==
  ASSUME NEW ys \in Seq(Nat \X Nat), NEW y \in Nat \X Nat, NEW x
  PROVE  /\ Out(ys, x) \in Nat
         /\ Out(Append(ys, y), x) = Out(ys, x) + IF y[1] = x THEN 1 ELSE 0
<1> DEFINE zs == Append(ys, y)
           m == Len(ys)
           S == {k \in 1..m : ys[k][1] = x}
           T == {k \in 1..Len(zs) : zs[k][1] = x}
<1>1. m \in Nat /\ Len(zs) = m + 1 /\ zs[m + 1] = y /\ \A k \in 1..m : zs[k] = ys[k]
  OBVIOUS
<1>2. IsFiniteSet(S) /\ Cardinality(S) \in Nat /\ m + 1 \notin S
  <2>1. IsFiniteSet(1..m) /\ S \subseteq 1..m
    BY <1>1, FS_Interval
  <2>2. QED
    BY <1>1, <2>1, FS_Subset, FS_CardinalityType
<1> HIDE DEF zs
<1>3. \A k : k \in 1..Len(zs) <=> (k \in 1..m \/ k = m + 1)
  BY <1>1
<1>4. T = IF y[1] = x THEN S \cup {m + 1} ELSE S
  BY <1>1, <1>3
<1> HIDE DEF S, T
<1>5. Cardinality(S \cup {m + 1}) = Cardinality(S) + 1
  BY <1>2, FS_AddElement
<1>6. Cardinality(T) = Cardinality(S) + IF y[1] = x THEN 1 ELSE 0
  BY <1>2, <1>4, <1>5
<1>7. Out(ys, x) = Cardinality(S) /\ Out(zs, x) = Cardinality(T)
  BY DEF Out, S, T
<1>8. QED
  BY <1>2, <1>6, <1>7 DEF zs

\* The one frame of a WTIterator.
RowFrame(a, b) == [start |-> a, end |-> b, level |-> 0, bit_path |-> 0]

\* The rows that it has yielded are those outside the frame.
Taken(s, ys) ==
  \E a, b \in 0..n :
    /\ a <= b /\ s = <<RowFrame(a, b)>>
    /\ ys \in Seq(Nat \X Nat) /\ Len(ys) + (b - a) = n
    /\ \A k \in 1..Len(ys) : ys[k][2] = 1
    /\ \A x : Out(ys, x) + Occs(x, a, b) = Occs(x, 0, n)

\* One row comes off at either end.
LEMMA RowTaken ==
  ASSUME Indexes, NEW s, NEW ys, Taken(s, ys), Last(s).start < Last(s).end
  PROVE  /\ LET t == [s EXCEPT ![1].start = @ + 1]
            IN Taken(t, Append(ys, <<get(Last(t).start - 1), 1>>))
         /\ LET t == [s EXCEPT ![1].end = @ - 1]
            IN Taken(t, Append(ys, <<get(Last(t).end), 1>>))
<1>1. PICK a \in 0..n, b \in 0..n :
        /\ a <= b /\ s = <<RowFrame(a, b)>>
        /\ ys \in Seq(Nat \X Nat) /\ Len(ys) + (b - a) = n
        /\ \A k \in 1..Len(ys) : ys[k][2] = 1
        /\ \A x : Out(ys, x) + Occs(x, a, b) = Occs(x, 0, n)
  BY DEF Taken
<1>2. n \in Nat /\ \A p \in 0..(n - 1) : indexed[p] \in Nat /\ get(p) = indexed[p]
  <2>1. n \in Nat /\ \A p \in 0..(n - 1) : indexed[p] = spelled(path(p))
    BY DEF Indexes, WellFormed
  <2>2. \A p \in 0..(n - 1) : get(p) = spelled(path(p))
    BY <2>1 DEF get
  <2>3. QED
    BY <2>1, <2>2, IndexTrack
<1>3. Last(s) = RowFrame(a, b) /\ a < b /\ a \in Nat /\ b \in Nat
  <2>1. \A f : Last(<<f>>) = f
    BY DEF Last
  <2>2. Last(s) = RowFrame(a, b)
    BY <1>1, <2>1
  <2>3. QED
    BY <1>2, <2>2 DEF RowFrame
<1>4. ASSUME NEW p \in 0..(n - 1), NEW c \in 0..n, NEW e \in 0..n, c <= e, (e - c) + 1 = b - a,
             \A x : Occs(x, a, b) = Occs(x, c, e) + Here(x, p) /\ Occs(x, c, e) \in Nat
      PROVE  Taken(<<RowFrame(c, e)>>, Append(ys, <<get(p), 1>>))
  <2> DEFINE y == <<get(p), 1>>
             zs == Append(ys, y)
             m == Len(ys)
  <2>1. y \in Nat \X Nat /\ y[1] = indexed[p] /\ y[2] = 1
    BY <1>2
  <2> HIDE DEF y
  <2>2. /\ m \in Nat /\ zs \in Seq(Nat \X Nat) /\ Len(zs) = m + 1 /\ zs[m + 1] = y
        /\ \A k \in 1..m : zs[k] = ys[k]
    BY <1>1, <2>1
  <2>3. \A x : Out(zs, x) = Out(ys, x) + Here(x, p) /\ Out(ys, x) \in Nat
    BY <1>1, <2>1, OutStep DEF Here
  <2> HIDE DEF zs
  <2>4. \A k \in 1..Len(zs) : zs[k][2] = 1
    <3>1. \A k \in 1..Len(zs) : k \in 1..m \/ k = m + 1
      BY <2>2
    <3>2. QED
      BY <1>1, <2>1, <2>2, <3>1
  <2>5. Len(zs) + (e - c) = n
    <3> DEFINE z == Len(zs)
    <3>1. m \in Nat /\ z = m + 1 /\ m + (b - a) = n
      BY <1>1, <2>2
    <3> HIDE DEF m, z
    <3>2. z + (e - c) = n
      BY <1>2, <1>3, <1>4, <3>1
    <3>3. QED
      BY <3>2 DEF z
  <2>6. ASSUME NEW x PROVE Out(zs, x) + Occs(x, c, e) = Occs(x, 0, n)
    <3> DEFINE u == Out(ys, x)
               v == Occs(x, c, e)
               w == Here(x, p)
    <3>1. u \in Nat /\ v \in Nat /\ w \in Nat
      BY <1>4, <2>3 DEF Here
    <3>2. Out(zs, x) = u + w /\ u + Occs(x, a, b) = Occs(x, 0, n) /\ Occs(x, a, b) = v + w
      BY <1>1, <1>4, <2>3
    <3> HIDE DEF u, v, w
    <3>3. (u + w) + v = u + (v + w)
      BY <3>1
    <3>4. QED
      BY <3>2, <3>3 DEF v
  <2>7. Taken(<<RowFrame(c, e)>>, zs)
    BY <1>4, <2>2, <2>4, <2>5, <2>6 DEF Taken
  <2>8. QED
    BY <2>7 DEF zs, y
<1>5. \A x : /\ Occs(x, a, b) = Occs(x, a + 1, b) + Here(x, a) /\ Occs(x, a + 1, b) \in Nat
             /\ Occs(x, a, b) = Occs(x, a, b - 1) + Here(x, b - 1) /\ Occs(x, a, b - 1) \in Nat
  BY <1>3, OccsEnds
<1>6. \A f : Last(<<f>>) = f
  BY DEF Last
<1>7. LET t == [s EXCEPT ![1].start = @ + 1]
      IN Taken(t, Append(ys, <<get(Last(t).start - 1), 1>>))
  <2> DEFINE t == [s EXCEPT ![1].start = @ + 1]
  <2>1. t = <<RowFrame(a + 1, b)>>
    <3>1. s[1] = RowFrame(a, b) /\ DOMAIN s = {1} /\ s = [k \in {1} |-> s[k]]
      BY <1>1
    <3>2. t = [k \in {1} |-> [RowFrame(a, b) EXCEPT !.start = @ + 1]]
      BY <3>1
    <3>3. [RowFrame(a, b) EXCEPT !.start = @ + 1] = RowFrame(a + 1, b)
      BY DEF RowFrame
    <3>4. \A f : <<f>> = [k \in {1} |-> f]
      OBVIOUS
    <3> HIDE DEF t
    <3>5. QED
      BY <3>2, <3>3, <3>4
  <2> HIDE DEF t
  <2>2. Last(t).start - 1 = a
    <3>1. Last(t) = RowFrame(a + 1, b)
      BY <1>6, <2>1
    <3>2. Last(t).start = a + 1
      BY <3>1 DEF RowFrame
    <3>3. QED
      BY <1>3, <3>2
  <2>3. Taken(<<RowFrame(a + 1, b)>>, Append(ys, <<get(a), 1>>))
    <3>1. a \in 0..(n - 1) /\ a + 1 \in 0..n /\ a + 1 <= b /\ (b - (a + 1)) + 1 = b - a
      BY <1>2, <1>3
    <3>2. QED
      BY <1>4, <1>5, <3>1
  <2>4. QED
    BY <2>1, <2>2, <2>3 DEF t
<1>8. LET t == [s EXCEPT ![1].end = @ - 1]
      IN Taken(t, Append(ys, <<get(Last(t).end), 1>>))
  <2> DEFINE t == [s EXCEPT ![1].end = @ - 1]
  <2>1. t = <<RowFrame(a, b - 1)>>
    <3>1. s[1] = RowFrame(a, b) /\ DOMAIN s = {1} /\ s = [k \in {1} |-> s[k]]
      BY <1>1
    <3>2. t = [k \in {1} |-> [RowFrame(a, b) EXCEPT !.end = @ - 1]]
      BY <3>1
    <3>3. [RowFrame(a, b) EXCEPT !.end = @ - 1] = RowFrame(a, b - 1)
      BY DEF RowFrame
    <3>4. \A f : <<f>> = [k \in {1} |-> f]
      OBVIOUS
    <3> HIDE DEF t
    <3>5. QED
      BY <3>2, <3>3, <3>4
  <2> HIDE DEF t
  <2>2. Last(t).end = b - 1
    <3>1. Last(t) = RowFrame(a, b - 1)
      BY <1>6, <2>1
    <3>2. QED
      BY <3>1 DEF RowFrame
  <2>3. Taken(<<RowFrame(a, b - 1)>>, Append(ys, <<get(b - 1), 1>>))
    <3>1. b - 1 \in 0..(n - 1) /\ b - 1 \in 0..n /\ a <= b - 1 /\ ((b - 1) - a) + 1 = b - a
      BY <1>2, <1>3
    <3>2. QED
      BY <1>4, <1>5, <3>1
  <2>4. QED
    BY <2>1, <2>2, <2>3 DEF t
<1>9. QED
  BY <1>7, <1>8

------------------------------------------------------------------------------
(* The invariant of the walks.                                             *)

\* What the tree indexes stays as it is.
LEMMA IndexStable ==
  ASSUME UNCHANGED treeVars
  PROVE  indexed' = indexed /\ Track' = Track /\ Frames' = Frames
<1>1. n' = n /\ n_levels' = n_levels /\ qvs' = qvs /\ origin' = origin /\ data' = data
  BY DEF treeVars
<1>2. \A i : spelled(path(i))' = spelled(path(i))
  BY SpelledStable
<1>3. \A i : get(i)' = get(i)
  BY <1>1, <1>2 DEF get
<1>4. indexed' = indexed
  BY <1>1, <1>3 DEF indexed
<1>5. Track' = Track
  BY <1>1, <1>4 DEF Track, IsTrack, two_bits
<1>6. QED
  BY <1>1, <1>4, <1>5 DEF Frames

\* So does what is true of it.
LEMMA ReadyStable == ASSUME Ready, UNCHANGED treeVars PROVE Ready'
<1>1. n' = n /\ n_levels' = n_levels /\ qvs' = qvs /\ sigma' = sigma
  BY DEF treeVars
<1>2. indexed' = indexed
  BY IndexStable
<1>3. \A i : spelled(path(i))' = spelled(path(i))
  BY SpelledStable
<1>4. WellFormed => WellFormed'
  BY <1>1 DEF WellFormed, LastLevel, qv
<1>5. Indexes => Indexes'
  BY <1>1, <1>2, <1>3, <1>4 DEF Indexes
<1>6. QED
  BY <1>1, <1>5 DEF Ready

\* And what is true of a walk over it.
LEMMA WalkedStable ==
  ASSUME UNCHANGED treeVars, walk_of' = walk_of, Walked(stack', yielded', state')
  PROVE  Walked(stack, yielded, state)'
<1>1. /\ n' = n /\ n_levels' = n_levels /\ walk_of' = walk_of
      /\ indexed' = indexed /\ Track' = Track /\ Frames' = Frames
  BY IndexStable DEF treeVars
<1>2. Stacked(stack)'
  <2>1. \A k \in 1..Len(stack') : FrameOk(stack'[k]) => FrameOk(stack[k])'
    BY <1>1 DEF FrameOk, Below, InWalk, Top
  <2>2. \A j, k \in 1..Len(stack') : Under(stack'[k], stack'[j]) => Under(stack[k], stack[j])'
    BY <1>1 DEF Under, Top
  <2>3. QED
    BY <1>1, <2>1, <2>2 DEF Walked, Stacked
<1>3. Bounded(stack)'
  BY <1>1 DEF Walked, Bounded, Waiting
<1>4. \A p : OnStack(p, stack') => OnStack(p, stack)'
  BY <1>1 DEF OnStack, Below, InWalk, Top
<1>5. Yielded(stack', yielded') => Yielded(stack, yielded)'
  <2>1. \A k \in 1..Len(yielded') : Counted(yielded'[k]) => Counted(yielded[k])'
    BY <1>1 DEF Counted, Occs, InWalk
  <2>2. \A p : InWalk(p)' <=> InWalk(p)
    BY <1>1 DEF InWalk
  <2>3. \A x, l : Top(x, l)' = Top(x, l)
    BY <1>1 DEF Top
  <2>4. \A i \in 1..Len(stack'), x \in Nat :
          Top(x, stack[i].level)' = stack[i].bit_path' => Top(x, stack'[i].level) = stack'[i].bit_path
    BY <1>1 DEF Top
  <2>5. QED
    BY <1>1, <1>4, <2>1, <2>2, <2>4 DEF Yielded
<1>6. Sought(stack', yielded', state') => Sought(stack, yielded, state)'
  <2>1. \A p : InWalk(p)' <=> InWalk(p)
    BY <1>1 DEF InWalk
  <2>2. QED
    BY <1>1, <1>4, <2>1 DEF Sought, Found
<1>7. QED
  BY <1>1, <1>2, <1>3, <1>5, <1>6 DEF Walked

LEMMA TakenStable ==
  ASSUME UNCHANGED treeVars, Taken(stack', yielded')
  PROVE  Taken(stack, yielded)'
<1>1. n' = n /\ indexed' = indexed
  BY IndexStable DEF treeVars
<1>2. \A x, a, b : Occs(x, a, b)' = Occs(x, a, b)
  BY <1>1 DEF Occs
<1>3. \A x : Out(yielded, x)' = Out(yielded', x)
  BY DEF Out
<1>4. \A x : Occs(x, 0, n)' = Occs(x, 0, n)
  BY <1>1 DEF Occs
<1>5. QED
  BY <1>1, <1>2, <1>3, <1>4 DEF Taken, RowFrame

\* A walk that has just been opened over a range with rows.
LEMMA RootWalked ==
  (Indexes /\ walk_of.start \in 0..n /\ walk_of.end \in 0..n /\ walk_of.start < walk_of.end)
    => Walked(<<RowFrame(walk_of.start, walk_of.end)>>, <<>>, "open")
<1> SUFFICES ASSUME Indexes, walk_of.start \in 0..n, walk_of.end \in 0..n, walk_of.start < walk_of.end
             PROVE  Walked(<<RowFrame(walk_of.start, walk_of.end)>>, <<>>, "open")
  OBVIOUS
<1> DEFINE f == RowFrame(walk_of.start, walk_of.end)
           s == <<f>>
           P == 0..(n - 1)
<1>1. n \in Nat /\ n_levels \in Nat
  BY DEF Indexes, WellFormed
<1>2. /\ f \in Frames /\ f.start = walk_of.start /\ f.end = walk_of.end /\ f.level = 0 /\ f.bit_path = 0
  BY <1>1 DEF RowFrame, Frames
<1> HIDE DEF f
<1>3. s \in Seq(Frames) /\ Len(s) = 1 /\ s[1] = f /\ 1..Len(s) = {1}
  BY <1>2
<1> HIDE DEF s
<1>4. \A p \in P : Track[0][p] = p /\ Top(indexed[p], 0) = 0
  <2>1. \A p \in P : indexed[p] \in Nat /\ indexed[p] < Quarters(n_levels)
    BY IndexTrack
  <2>2. \A p \in P : Track[0][p] = p
    BY IndexTrack DEF IsTrack
  <2>3. QED
    BY <1>1, <2>1, <2>2, TopStep
<1>5. \A p \in P : InWalk(p) <=> Below(p, f.bit_path, f.level)
  BY <1>2, <1>4 DEF Below
<1>6. FrameOk(f)
  BY <1>2, <1>4, <1>5 DEF FrameOk, InWalk
<1>7. Stacked(s)
  BY <1>3, <1>6 DEF Stacked
<1>8. Bounded(s)
  <2>1. \A l : Waiting(s, l) = {}
    BY <1>3 DEF Waiting
  <2>2. Cardinality({}) = 0
    BY FS_EmptySet
  <2>3. QED
    BY <1>1, <2>1, <2>2 DEF Bounded
<1>9. \A p \in P : InWalk(p) => OnStack(p, s)
  BY <1>3, <1>5 DEF OnStack
<1>10. <<>> \in Seq(Nat \X Nat) /\ Len(<<>>) = 0 /\ 1..0 = {}
  OBVIOUS
<1>11. Yielded(s, <<>>)
  BY <1>9, <1>10 DEF Yielded
<1>12. Sought(s, <<>>, "open")
  BY <1>9 DEF Sought
<1>13. QED
  BY <1>7, <1>8, <1>11, <1>12 DEF Walked, s, f

\* A WTIterator that has just been opened.
LEMMA RootTaken == n \in Nat => Taken(<<RowFrame(0, n)>>, <<>>)
<1> SUFFICES ASSUME n \in Nat PROVE Taken(<<RowFrame(0, n)>>, <<>>)
  OBVIOUS
<1>1. <<>> \in Seq(Nat \X Nat) /\ Len(<<>>) = 0 /\ 1..0 = {} /\ 0 + (n - 0) = n /\ 0 <= n
  OBVIOUS
<1>2. \A x : Out(<<>>, x) = 0
  <2>1. \A x : {k \in 1..Len(<<>>) : <<>>[k][1] = x} = {}
    BY <1>1
  <2>2. QED
    BY <2>1, FS_EmptySet DEF Out
<1>3. ASSUME NEW x PROVE Out(<<>>, x) + Occs(x, 0, n) = Occs(x, 0, n)
  <2>1. IsFiniteSet(0..(n - 1)) /\ {p \in 0..(n - 1) : indexed[p] = x} \subseteq 0..(n - 1)
    BY FS_Interval
  <2>2. Occs(x, 0, n) \in Nat
    BY <2>1, FS_Subset, FS_CardinalityType DEF Occs
  <2>3. QED
    BY <1>2, <2>2
<1>4. QED
  BY <1>1, <1>3 DEF Taken

\* The invariant of a walk: over a range with rows, over one without, or over all rows.
Walking(s, ys, st) ==
  /\ walk_of.kind \in Kinds /\ walk_of.start \in 0..n /\ walk_of.end \in 0..(n + 1)
  /\ walk_of.target \in Nat /\ st \in {"open", "refused", "done"}
  /\ walk_of.kind = "values" => walk_of.start = 0 /\ walk_of.end = n /\ Taken(s, ys)
  /\ walk_of.kind # "values" => IF live(walk_of.start, walk_of.end)
                                  THEN Walked(s, ys, st) /\ st # "refused"
                                  ELSE s = <<>> /\ ys = <<>>

IterInv ==
  /\ pc # "used" => /\ TreeInv /\ state = "closed" /\ stack = <<>> /\ yielded = <<>>
                    /\ walk_of = [kind |-> "occs", start |-> 0, end |-> 0, target |-> 0]
  /\ pc = "used" => Ready /\ 2 * n_levels <= T_BITS /\ Walking(stack, yielded, state)

LEMMA WalkingStable ==
  ASSUME UNCHANGED treeVars, walk_of' = walk_of, Walking(stack', yielded', state')
  PROVE  Walking(stack, yielded, state)'
<1>1. n' = n /\ n_levels' = n_levels
  BY DEF treeVars
<1>2. live(walk_of.start, walk_of.end)' <=> live(walk_of.start, walk_of.end)
  BY <1>1 DEF live
<1>3. QED
  BY <1>1, <1>2, WalkedStable, TakenStable DEF Walking, Kinds

\* A tree that has been built has no more levels than T has digits.
LEMMA FewLevels == ASSUME TreeInv, Built PROVE 2 * n_levels <= T_BITS
<1>1. T_BITS \in Nat
  BY TreeAssumption
<1>2. CASE n_levels = 0
  BY <1>1, <1>2
<1>3. CASE Partitioned
  <2>1. n \in Nat /\ n > 0 /\ data \in [0..(n - 1) -> Ts]
    BY <1>3 DEF TreeInv, Partitioned
  <2>2. sigma \in Ts
    BY <1>3, <2>1, SigmaIs DEF Partitioned
  <2>3. QED
    BY <1>3, <2>2, LevelsFor DEF Partitioned
<1>4. CASE n > 0 /\ Handed /\ accepts
  <2>1. sigma \in Ts /\ n_levels = levels_for(sigma)
    BY <1>4 DEF Handed, accepts
  <2>2. QED
    BY <2>1, LevelsFor
<1>5. QED
  BY <1>2, <1>3, <1>4 DEF TreeInv, Built

LEMMA OpenWalks == IterInv /\ Open => IterInv'
<1> SUFFICES ASSUME IterInv, Open PROVE IterInv'
  OBVIOUS
<1>1. pc = "built" /\ pc' = "used" /\ UNCHANGED treeVars /\ yielded' = yielded
  BY DEF Open, InUse
<1>2. TreeInv /\ Built /\ yielded = <<>>
  BY <1>1 DEF IterInv, Built
<1>3. Ready /\ 2 * n_levels <= T_BITS /\ n \in Nat
  BY <1>2, BuiltIsReady, FewLevels DEF Ready
<1>4. n' = n /\ n_levels' = n_levels
  BY <1>1 DEF treeVars
<1>5. Ready' /\ 2 * n_levels' <= T_BITS
  BY <1>1, <1>3, <1>4, ReadyStable
<1>6. PICK kind \in Kinds, start \in 0..n, end \in 0..(n + 1) :
       \E target \in IF kind = "next" THEN Targets ELSE {0} :
         /\ kind = "values" => all_rows(start, end)
         /\ walk_of' = [kind |-> kind, start |-> start, end |-> end, target |-> target]
         /\ stack' = IF live(start, end) \/ kind = "values"
                       THEN <<[start |-> start, end |-> end, level |-> 0, bit_path |-> 0]>>
                       ELSE <<>>
         /\ state' = IF kind = "occs" /\ ~in_bounds(start, end) THEN "refused" ELSE "open"
  BY DEF Open
<1>7. PICK target \in IF kind = "next" THEN Targets ELSE {0} :
         /\ kind = "values" => all_rows(start, end)
         /\ walk_of' = [kind |-> kind, start |-> start, end |-> end, target |-> target]
         /\ stack' = IF live(start, end) \/ kind = "values"
                       THEN <<[start |-> start, end |-> end, level |-> 0, bit_path |-> 0]>>
                       ELSE <<>>
         /\ state' = IF kind = "occs" /\ ~in_bounds(start, end) THEN "refused" ELSE "open"
  BY <1>6
<1>8. /\ walk_of'.kind = kind /\ walk_of'.start = start /\ walk_of'.end = end /\ walk_of'.target = target
      /\ target \in Nat
  BY <1>7, IterAssumption DEF Ts
<1>9. CASE kind = "values"
  <2>1. start = 0 /\ end = n /\ stack' = <<RowFrame(0, n)>> /\ state' = "open"
    BY <1>7, <1>9 DEF all_rows, RowFrame
  <2>2. (n \in Nat => Taken(<<RowFrame(0, n)>>, <<>>))'
    BY RootTaken, PTL
  <2>3. Taken(stack, yielded)'
    BY <1>1, <1>2, <1>3, <1>4, <2>1, <2>2 DEF Taken, RowFrame
  <2>4. QED
    BY <1>1, <1>3, <1>4, <1>5, <1>8, <1>9, <2>1, <2>3 DEF IterInv, Walking
<1>10. CASE kind # "values" /\ live(start, end)
  <2>1. stack' = <<RowFrame(start, end)>> /\ start < end /\ end <= n /\ n > 0
    BY <1>3, <1>7, <1>10 DEF live, RowFrame
  <2>2. state' = "open"
    BY <1>3, <1>7, <2>1 DEF in_bounds
  <2>3. Indexes'
    BY <1>4, <1>5, <2>1 DEF Ready
  <2>4. ((Indexes /\ walk_of.start \in 0..n /\ walk_of.end \in 0..n /\ walk_of.start < walk_of.end)
         => Walked(<<RowFrame(walk_of.start, walk_of.end)>>, <<>>, "open"))'
    BY RootWalked, PTL
  <2>5. Walked(<<RowFrame(walk_of.start, walk_of.end)>>, <<>>, "open")'
    BY <1>3, <1>4, <1>8, <2>1, <2>3, <2>4
  <2>6. Walked(stack, yielded, state)'
    BY <1>1, <1>2, <1>8, <2>1, <2>2, <2>5
  <2>7. live(walk_of.start, walk_of.end)'
    BY <1>4, <1>8, <1>10 DEF live
  <2>8. QED
    BY <1>1, <1>3, <1>4, <1>5, <1>8, <1>10, <2>2, <2>6, <2>7 DEF IterInv, Walking
<1>11. CASE kind # "values" /\ ~live(start, end)
  <2>1. stack' = <<>> /\ yielded' = <<>> /\ state' \in {"open", "refused"}
    BY <1>1, <1>2, <1>7, <1>11
  <2>2. ~live(walk_of.start, walk_of.end)'
    BY <1>4, <1>8, <1>11 DEF live
  <2>3. QED
    BY <1>1, <1>3, <1>4, <1>5, <1>8, <1>11, <2>1, <2>2 DEF IterInv, Walking
<1>12. QED
  BY <1>9, <1>10, <1>11

\* A step of the walk leaves the tree as it is.
LEMMA TreeStays ==
  ASSUME IterInv, pc = "used", UNCHANGED <<walk_of, vars>>, Walking(stack', yielded', state')
  PROVE  IterInv'
<1>1. UNCHANGED treeVars /\ pc' = pc /\ walk_of' = walk_of
  BY DEF vars
<1>2. Ready /\ 2 * n_levels <= T_BITS /\ n_levels' = n_levels
  BY <1>1 DEF IterInv, treeVars
<1>3. Ready' /\ Walking(stack, yielded, state)'
  BY <1>1, <1>2, ReadyStable, WalkingStable
<1>4. QED
  BY <1>1, <1>2, <1>3 DEF IterInv

LEMMA OpenIsUsed == ASSUME IterInv, state = "open" PROVE pc = "used"
BY DEF IterInv

LEMMA PopWalks == IterInv /\ Pop => IterInv'
<1> SUFFICES ASSUME IterInv, Pop PROVE IterInv'
  OBVIOUS
<1>1. state = "open" /\ stack # <<>> /\ walk_of.kind # "values" /\ UNCHANGED <<walk_of, vars>>
  BY DEF Pop
<1>2. pc = "used" /\ Ready /\ 2 * n_levels <= T_BITS /\ Walking(stack, yielded, state)
  BY <1>1, OpenIsUsed DEF IterInv
<1>3. live(walk_of.start, walk_of.end) /\ Walked(stack, yielded, "open")
  BY <1>1, <1>2 DEF Walking
<1>4. /\ walk_of.start \in Nat /\ walk_of.end \in Nat /\ walk_of.end <= n /\ walk_of.target \in Nat
      /\ Indexes
  <2>1. n \in Nat /\ walk_of.start \in 0..n /\ walk_of.end \in 0..(n + 1) /\ walk_of.target \in Nat
    BY <1>2 DEF Ready, Walking
  <2>2. walk_of.start < walk_of.end /\ walk_of.end <= n
    BY <1>3 DEF live
  <2>3. n > 0
    BY <2>1, <2>2
  <2>4. QED
    BY <1>2, <2>1, <2>2, <2>3 DEF Ready
<1> DEFINE c == collapse(Last(stack))
           leaf == c.level = n_levels
           hit == walk_of.kind # "next" \/ c.bit_path >= walk_of.target
<1>5. /\ stack' = IF leaf THEN Front(stack) ELSE Front(stack) \o pushed(children(c))
      /\ yielded' = IF leaf /\ hit THEN Append(yielded, <<c.bit_path, c.end - c.start>>) ELSE yielded
      /\ state' = IF leaf /\ hit /\ walk_of.kind = "next" THEN "done" ELSE "open"
  BY DEF Pop, popped
<1>6. Walked(IF leaf THEN Front(stack) ELSE Front(stack) \o pushed(children(c)),
             IF leaf /\ hit THEN Append(yielded, <<c.bit_path, c.end - c.start>>) ELSE yielded,
             IF leaf /\ hit /\ walk_of.kind = "next" THEN "done" ELSE "open")
  BY <1>1, <1>2, <1>3, <1>4, PopWalked
<1> HIDE DEF c
<1>7. Walked(stack', yielded', state') /\ state' \in {"open", "done"}
  BY <1>5, <1>6
<1>8. Walking(stack', yielded', state')
  BY <1>1, <1>2, <1>3, <1>7 DEF Walking
<1>9. QED
  BY <1>1, <1>2, <1>8, TreeStays

LEMMA TakeWalks == IterInv /\ (TakeFront \/ TakeBack) => IterInv'
<1> SUFFICES ASSUME IterInv, TakeFront \/ TakeBack PROVE IterInv'
  OBVIOUS
<1>1. /\ state = "open" /\ walk_of.kind = "values" /\ Last(stack).start < Last(stack).end
      /\ UNCHANGED <<walk_of, vars>> /\ state' = state
  BY DEF TakeFront, TakeBack
<1>2. pc = "used" /\ Ready /\ Walking(stack, yielded, state) /\ Taken(stack, yielded)
  BY <1>1, OpenIsUsed DEF IterInv, Walking
<1>3. Indexes
  <2>1. PICK a \in 0..n, b \in 0..n : stack = <<RowFrame(a, b)>>
    BY <1>2 DEF Taken
  <2>2. \A f : Last(<<f>>) = f
    BY DEF Last
  <2>3. Last(stack).start = a /\ Last(stack).end = b
    BY <2>1, <2>2 DEF RowFrame
  <2>4. n > 0
    BY <1>1, <1>2, <2>3 DEF Ready
  <2>5. QED
    BY <1>2, <2>4 DEF Ready
<1>4. Taken(stack', yielded')
  <2>1. CASE TakeFront
    <3>1. /\ stack' = [stack EXCEPT ![1].start = @ + 1]
          /\ yielded' = Append(yielded, <<get(Last(stack').start - 1), 1>>)
      BY <2>1 DEF TakeFront
    <3>2. QED
      BY <1>1, <1>2, <1>3, <3>1, RowTaken
  <2>2. CASE TakeBack
    <3>1. /\ stack' = [stack EXCEPT ![1].end = @ - 1]
          /\ yielded' = Append(yielded, <<get(Last(stack').end), 1>>)
      BY <2>2 DEF TakeBack
    <3>2. QED
      BY <1>1, <1>2, <1>3, <3>1, RowTaken
  <2>3. QED
    BY <2>1, <2>2
<1>5. Walking(stack', yielded', state')
  BY <1>1, <1>2, <1>4 DEF Walking
<1>6. QED
  BY <1>1, <1>2, <1>5, TreeStays

\* Frames have rows: when none of those on the stack has, there is none.
LEMMA ExhaustedWalks == IterInv /\ Exhausted => IterInv'
<1> SUFFICES ASSUME IterInv, Exhausted PROVE IterInv'
  OBVIOUS
<1>1. /\ state = "open" /\ \A k \in 1..Len(stack) : stack[k].start = stack[k].end
      /\ state' = "done" /\ stack' = stack /\ yielded' = yielded /\ UNCHANGED <<walk_of, vars>>
  BY DEF Exhausted
<1>2. pc = "used" /\ Ready /\ Walking(stack, yielded, state)
  BY <1>1, OpenIsUsed DEF IterInv
<1>3. ASSUME Walked(stack, yielded, "open") PROVE Walked(stack, yielded, "done")
  <2>1. Stacked(stack) /\ n \in Nat
    BY <1>2, <1>3 DEF Walked, Ready
  <2>2. stack \in Seq(Frames) /\ Len(stack) \in Nat
    BY <2>1 DEF Stacked
  <2>3. Len(stack) = 0
    <3> SUFFICES ASSUME Len(stack) # 0 PROVE FALSE
      OBVIOUS
    <3>1. 1 \in 1..Len(stack)
      BY <2>2
    <3>2. FrameOk(stack[1]) /\ stack[1].start = stack[1].end
      BY <1>1, <2>1, <3>1 DEF Stacked
    <3>3. stack[1].start \in 0..n /\ stack[1].end \in 0..n /\ stack[1].start < stack[1].end
      BY <3>2 DEF FrameOk, Frames
    <3>4. QED
      BY <2>1, <3>2, <3>3
  <2>4. stack = <<>> /\ \A p : ~OnStack(p, stack)
    BY <2>2, <2>3 DEF OnStack
  <2>5. Sought(stack, yielded, "open") => Sought(stack, yielded, "done")
    BY <2>4 DEF Sought, Found
  <2>6. QED
    BY <1>3, <2>4, <2>5 DEF Walked
<1>4. Walking(stack', yielded', state')
  BY <1>1, <1>2, <1>3 DEF Walking
<1>5. QED
  BY <1>1, <1>2, <1>4, TreeStays

\* The construction goes on as without walks, and a finished one stays as it is.
LEMMA BuildWalks ==
  IterInv /\ (((Start \/ Level \/ FromParts) /\ UNCHANGED iterVars) \/ UNCHANGED <<vars, iterVars>>) => IterInv'
<1> SUFFICES ASSUME IterInv,
                    ((Start \/ Level \/ FromParts) /\ UNCHANGED iterVars) \/ UNCHANGED <<vars, iterVars>>
             PROVE  IterInv'
  OBVIOUS
<1>1. UNCHANGED iterVars
  OBVIOUS
<1>2. walk_of' = walk_of /\ stack' = stack /\ yielded' = yielded /\ state' = state
  BY <1>1 DEF iterVars
<1>3. CASE pc # "used"
  <2>1. TreeInv
    BY <1>3 DEF IterInv
  <2>2. TreeInv'
    BY <2>1, StartTree, LevelTree, PartsTree, StutterTree
  <2>3. pc' # "used"
    BY <2>2 DEF TreeInv
  <2>4. QED
    BY <1>2, <1>3, <2>2, <2>3 DEF IterInv
<1>4. CASE pc = "used"
  <2>1. UNCHANGED vars
    BY <1>4 DEF Start, Level, FromParts
  <2>2. Walking(stack', yielded', state')
    BY <1>2, <1>4 DEF IterInv
  <2>3. QED
    BY <1>2, <1>4, <2>1, <2>2, TreeStays
<1>5. QED
  BY <1>3, <1>4

\* Before anything is built nothing is walked.
LEMMA InitWalks == InitIter => IterInv
<1> SUFFICES ASSUME InitIter PROVE IterInv
  OBVIOUS
<1>1. TreeInv
  BY InitTree DEF InitIter
<1>2. pc # "used"
  BY <1>1 DEF TreeInv
<1>3. QED
  BY <1>1, <1>2 DEF InitIter, IterInv

\* The invariant of the walks holds throughout.
LEMMA IterInvHolds == SpecIter => []IterInv
<1>1. IterInv /\ [NextIter]_<<vars, iterVars>> => IterInv'
  BY OpenWalks, PopWalks, TakeWalks, ExhaustedWalks, BuildWalks DEF NextIter
<1>2. QED
  BY <1>1, InitWalks, PTL DEF SpecIter

\* The invariant of the walks bounds the frames of each level.
LEMMA BoundedHold == IterInv => StackBounded
<1> SUFFICES ASSUME IterInv PROVE StackBounded
  OBVIOUS
<1>1. Bounded(stack) => StackBounded
  BY DEF Bounded, Waiting, StackBounded
<1>2. ASSUME Len(stack) \in {0, 1} PROVE StackBounded
  <2> DEFINE m == Len(stack)
  <2>1. 1..(m - 1) = {}
    <3>1. m \in {0, 1}
      BY <1>2
    <3> HIDE DEF m
    <3>2. QED
      BY <3>1
  <2>2. \A l : {k \in 1..(Len(stack) - 1) : stack[k].level = l} = {}
    BY <2>1
  <2>3. QED
    BY <2>2, FS_EmptySet DEF StackBounded
<1>3. Len(<<>>) = 0 /\ \A f : Len(<<f>>) = 1
  OBVIOUS
<1>4. CASE stack = <<>>
  BY <1>2, <1>3, <1>4
<1>5. CASE stack # <<>>
  <2>1. Walking(stack, yielded, state)
    BY <1>5 DEF IterInv
  <2>2. CASE walk_of.kind = "values"
    <3>1. Len(stack) = 1
      BY <1>3, <2>1, <2>2 DEF Walking, Taken
    <3>2. QED
      BY <1>2, <3>1
  <2>3. CASE walk_of.kind # "values"
    BY <1>1, <1>5, <2>1, <2>3 DEF Walking, Walked
  <2>4. QED
    BY <2>2, <2>3
<1>6. QED
  BY <1>4, <1>5

\* The fixed stacks of RangeDistinctIter and range_next_value are never overrun, however
\* deep the tree and however the digits are spread: at every level but the root's at most
\* three frames wait below the top.
THEOREM StacksAreBounded == SpecIter => []StackBounded
BY BoundedHold, IterInvHolds, PTL

\* The symbols of the range are those of the rows walked over; a range that is reversed
\* or empty has none.
LEMMA RangeIs ==
  ASSUME Ready, walk_of.start \in 0..n, walk_of.end \in 0..n
  PROVE  /\ \A x : x \in InRange <=> \E p \in 0..(n - 1) : InWalk(p) /\ indexed[p] = x
         /\ ~live(walk_of.start, walk_of.end) => InRange = {} /\ ~(walk_of.start < walk_of.end)
<1>1. n \in Nat /\ (n > 0 => n_levels > 0)
  BY DEF Ready, Indexes, WellFormed
<1>2. MinOf(walk_of.end, n) = walk_of.end
  BY <1>1 DEF MinOf
<1>3. \A p : p \in walk_of.start..(walk_of.end - 1) <=> (p \in 0..(n - 1) /\ InWalk(p))
  BY <1>1 DEF InWalk
<1>4. InRange = {indexed[p] : p \in walk_of.start..(walk_of.end - 1)}
  BY <1>2 DEF InRange
<1>5. \A x : x \in InRange <=> \E p \in 0..(n - 1) : InWalk(p) /\ indexed[p] = x
  BY <1>3, <1>4
<1>6. ASSUME ~live(walk_of.start, walk_of.end) PROVE InRange = {} /\ ~(walk_of.start < walk_of.end)
  <2>1. ~(walk_of.start < walk_of.end)
    <3> SUFFICES ASSUME walk_of.start < walk_of.end PROVE FALSE
      OBVIOUS
    <3>1. n > 0 /\ walk_of.end <= n
      BY <1>1
    <3>2. QED
      BY <1>1, <1>6, <3>1 DEF live
  <2>2. walk_of.start..(walk_of.end - 1) = {}
    BY <1>1, <2>1
  <2>3. QED
    BY <1>4, <2>1, <2>2
<1>7. QED
  BY <1>5, <1>6

\* It puts what has been yielded in order.
LEMMA YieldsHold == IterInv => YieldsInOrder
<1> SUFFICES ASSUME IterInv, walk_of.kind \in {"occs", "distinct"} PROVE YieldsInOrder
  BY DEF YieldsInOrder
<1> DEFINE symbols == {yielded[k][1] : k \in 1..Len(yielded)}
<1>1. CASE yielded = <<>> /\ ((state = "done" /\ walk_of.end <= n) => InRange = {})
  <2>1. Len(yielded) = 0 /\ 1..Len(yielded) = {} /\ 1..(Len(yielded) - 1) = {}
    BY <1>1
  <2>2. symbols = {}
    BY <2>1
  <2>3. QED
    BY <1>1, <2>1, <2>2 DEF YieldsInOrder
<1>2. CASE pc # "used"
  BY <1>1, <1>2 DEF IterInv
<1>3. CASE pc = "used"
  <2>1. Ready /\ Walking(stack, yielded, state) /\ n \in Nat
    BY <1>3 DEF IterInv, Ready
  <2>2. walk_of.start \in 0..n /\ walk_of.end \in 0..(n + 1)
    BY <2>1 DEF Walking
  <2>3. CASE ~live(walk_of.start, walk_of.end)
    <3>1. yielded = <<>>
      BY <2>1, <2>3 DEF Walking
    <3>2. walk_of.end <= n => InRange = {}
      <4>1. walk_of.end <= n => walk_of.end \in 0..n
        BY <2>1, <2>2
      <4>2. QED
        BY <2>1, <2>2, <2>3, <4>1, RangeIs
    <3>3. QED
      BY <1>1, <3>1, <3>2
  <2>4. CASE live(walk_of.start, walk_of.end)
    <3>1. Walked(stack, yielded, state)
      BY <2>1, <2>4 DEF Walking
    <3>2. Yielded(stack, yielded) /\ (state = "done" => stack = <<>>)
      BY <3>1 DEF Walked
    <3>3. walk_of.end \in 0..n
      BY <2>1, <2>2, <2>4 DEF live
    <3>4. \A x : x \in InRange <=> \E p \in 0..(n - 1) : InWalk(p) /\ indexed[p] = x
      BY <2>1, <2>2, <3>3, RangeIs
    <3>5. yielded \in Seq(Nat \X Nat) /\ Len(yielded) \in Nat
      BY <3>2 DEF Yielded
    <3>6. \A k \in 1..Len(yielded) : Counted(yielded[k])
      BY <3>2 DEF Yielded
    <3>7. ASSUME NEW k \in 1..(Len(yielded) - 1) PROVE yielded[k][1] < yielded[k + 1][1]
      <4>1. k \in 1..Len(yielded) /\ k + 1 \in 1..Len(yielded) /\ k < k + 1
        BY <3>5
      <4>2. QED
        BY <3>2, <4>1 DEF Yielded
    <3>8. symbols \subseteq InRange
      BY <3>4, <3>6 DEF Counted
    <3>9. ASSUME NEW x \in InRange, x \notin symbols
          PROVE  /\ \A k \in 1..Len(yielded) : yielded[k][1] < x
                 /\ stack # <<>>
      <4>1. PICK p \in 0..(n - 1) : InWalk(p) /\ indexed[p] = x
        BY <3>4
      <4>2. OnStack(p, stack)
        BY <3>2, <3>9, <4>1 DEF Yielded
      <4>3. PICK i \in 1..Len(stack) : Below(p, stack[i].bit_path, stack[i].level)
        BY <4>2 DEF OnStack
      <4>4. x \in Nat
        <5>1. n > 0
          BY <2>1
        <5>2. QED
          BY <2>1, <4>1, <5>1, IndexTrack DEF Ready
      <4>5. Top(x, stack[i].level) = stack[i].bit_path
        BY <4>1, <4>3 DEF Below
      <4>6. \A k \in 1..Len(yielded) : yielded[k][1] < x
        BY <3>2, <4>4, <4>5 DEF Yielded
      <4>7. stack # <<>>
        BY <4>3
      <4>8. QED
        BY <4>6, <4>7
    <3>10. \A x \in InRange \ symbols, y \in symbols : y < x
      BY <3>9
    <3>11. state = "done" => symbols = InRange
      BY <3>2, <3>8, <3>9
    <3>12. \A k \in 1..Len(yielded) : yielded[k][2] = Occs(yielded[k][1], walk_of.start, walk_of.end)
      BY <3>6 DEF Counted
    <3>13. QED
      BY <3>7, <3>8, <3>10, <3>11, <3>12 DEF YieldsInOrder
  <2>5. QED
    BY <2>3, <2>4
<1>4. QED
  BY <1>2, <1>3

\* OccsRangeIter and RangeDistinctIter yield the symbols of a range in ascending order,
\* each once and with the number of its rows, and all of them.
THEOREM WalksYieldInOrder == SpecIter => []YieldsInOrder
BY YieldsHold, IterInvHolds, PTL

\* And finds the next value, if no end of an interval wraps.
LEMMA NextValuesHold == T_BITS < USIZE_BITS => (IterInv => NextValueExact)
<1> SUFFICES ASSUME T_BITS < USIZE_BITS PROVE IterInv => NextValueExact
  OBVIOUS
<1> SUFFICES ASSUME IterInv, walk_of.kind = "next", state = "done" PROVE NextValueExact
  BY DEF NextValueExact
<1> DEFINE above == {x \in InRange : x >= walk_of.target}
<1>1. pc = "used" /\ Ready /\ Walking(stack, yielded, state) /\ n \in Nat
  BY DEF IterInv, Ready
<1>2. walk_of.start \in 0..n /\ walk_of.end \in 0..(n + 1) /\ walk_of.target \in Nat
  BY <1>1 DEF Walking
<1>3. CASE ~live(walk_of.start, walk_of.end)
  <2>1. yielded = <<>>
    BY <1>1, <1>3 DEF Walking
  <2>2. ~(walk_of.start < walk_of.end /\ walk_of.end <= n)
    <3>1. walk_of.end <= n => walk_of.end \in 0..n
      BY <1>1, <1>2
    <3>2. QED
      BY <1>1, <1>2, <1>3, <3>1, RangeIs
  <2>3. QED
    BY <2>1, <2>2 DEF NextValueExact
<1>4. CASE live(walk_of.start, walk_of.end)
  <2>1. walk_of.start < walk_of.end /\ walk_of.end <= n /\ walk_of.end \in 0..n /\ n > 0
    BY <1>1, <1>2, <1>4 DEF live
  <2>2. Found(yielded)
    BY <1>1, <1>4 DEF Walking, Walked, Sought
  <2>3. \A x : x \in InRange <=> \E p \in 0..(n - 1) : InWalk(p) /\ indexed[p] = x
    BY <1>1, <1>2, <2>1, RangeIs
  <2>4. \A p \in 0..(n - 1) : indexed[p] \in Nat
    BY <1>1, <2>1, IndexTrack DEF Ready
  <2>5. \A x : x \in above <=> (x \in Nat /\ walk_of.target <= x
                                 /\ \E p \in 0..(n - 1) : InWalk(p) /\ indexed[p] = x)
    BY <1>2, <2>3, <2>4
  <2> HIDE DEF above
  <2>6. CASE yielded = <<>> /\ \A p \in 0..(n - 1) : InWalk(p) => indexed[p] < walk_of.target
    <3>1. above = {}
      BY <1>2, <2>4, <2>5, <2>6
    <3>2. QED
      BY <2>6, <3>1 DEF NextValueExact, above
  <2>7. CASE /\ Len(yielded) = 1 /\ yielded[1][1] \in Nat /\ walk_of.target <= yielded[1][1]
             /\ \E p \in 0..(n - 1) : InWalk(p) /\ indexed[p] = yielded[1][1]
             /\ \A p \in 0..(n - 1) : (InWalk(p) /\ walk_of.target <= indexed[p]) => yielded[1][1] <= indexed[p]
    <3> DEFINE z == yielded[1][1]
    <3>1. z \in above /\ z \in Nat
      BY <2>5, <2>7
    <3>2. \A x \in above : x \in Nat /\ z <= x
      BY <2>5, <2>7
    <3> HIDE DEF z
    <3>3. \A w \in above : (\A x \in above : w <= x) => w = z
      BY <3>1, <3>2
    <3>4. Min(above) = z
      BY <3>1, <3>2, <3>3 DEF Min
    <3>5. QED
      BY <2>1, <2>7, <3>1, <3>4 DEF NextValueExact, above, z
  <2>8. QED
    BY <2>2, <2>6, <2>7 DEF Found
<1>5. QED
  BY <1>3, <1>4

\* If usize is wider than T, range_next_value returns the smallest symbol of the range
\* that is not below the target, or None if there is none: the upper end of the interval
\* of a child, which decides whether the child is visited, does not wrap.
THEOREM NextValuesAreExact == T_BITS < USIZE_BITS => (SpecIter => []NextValueExact)
<1> SUFFICES ASSUME T_BITS < USIZE_BITS PROVE SpecIter => []NextValueExact
  OBVIOUS
<1>1. IterInv => NextValueExact
  BY NextValuesHold
<1>2. QED
  BY <1>1, IterInvHolds, PTL

------------------------------------------------------------------------------
(* No row is lost.                                                         *)

\* A[x], for x in S, are finite sets without a common element; and what they hold.
Parts(A, S) ==
  /\ IsFiniteSet(S) /\ \A x \in S : IsFiniteSet(A[x])
  /\ \A x, y \in S : x # y => A[x] \cap A[y] = {}
AllOf(A, S) == UNION {A[x] : x \in S}

\* Their sizes add up.
LEMMA SizesAdd ==
  ASSUME NEW A, NEW S, Parts(A, S), NEW s \in SUBSET S
  PROVE  /\ IsFiniteSet(s) /\ IsFiniteSet(AllOf(A, s))
         /\ s = {} => Cardinality(AllOf(A, s)) = 0
         /\ \A x \in s : Cardinality(AllOf(A, s)) = Cardinality(A[x]) + Cardinality(AllOf(A, s \ {x}))
<1>1. ASSUME NEW u \in SUBSET S PROVE IsFiniteSet(u) /\ IsFiniteSet(AllOf(A, u))
  <2>1. IsFiniteSet(u)
    BY FS_Subset DEF Parts
  <2>2. IsFiniteSet({A[x] : x \in u})
    <3> DEFINE f == [x \in u |-> A[x]]
               T == {A[x] : x \in u}
    <3>1. f \in Surjection(u, T)
      BY DEF Surjection
    <3> HIDE DEF f, T
    <3>2. IsFiniteSet(T)
      BY <2>1, <3>1, FS_Surjection
    <3>3. QED
      BY <3>2 DEF T
  <2>3. \A T \in {A[x] : x \in u} : IsFiniteSet(T)
    BY DEF Parts
  <2>4. QED
    BY <2>1, <2>2, <2>3, FS_UNION DEF AllOf
<1>2. s = {} => Cardinality(AllOf(A, s)) = 0
  <2>1. AllOf(A, {}) = {}
    BY DEF AllOf
  <2>2. QED
    BY <2>1, FS_EmptySet
<1>3. ASSUME NEW x \in s
      PROVE  Cardinality(AllOf(A, s)) = Cardinality(A[x]) + Cardinality(AllOf(A, s \ {x}))
  <2> DEFINE U == AllOf(A, s \ {x})
  <2>1. AllOf(A, s) = A[x] \cup U
    BY DEF AllOf
  <2>2. A[x] \cap U = {}
    BY DEF AllOf, Parts
  <2>3. IsFiniteSet(A[x]) /\ IsFiniteSet(U)
    <3>1. s \ {x} \in SUBSET S
      OBVIOUS
    <3>2. QED
      BY <1>1, <3>1 DEF Parts
  <2> HIDE DEF U
  <2>4. Cardinality(A[x] \cup U) = Cardinality(A[x]) + Cardinality(U) - Cardinality(A[x] \cap U)
    BY <2>3, FS_Union
  <2>5. Cardinality(A[x]) \in Nat /\ Cardinality(U) \in Nat /\ Cardinality({}) = 0
    BY <2>3, FS_CardinalityType, FS_EmptySet
  <2>6. Cardinality(A[x] \cup U) = Cardinality(A[x]) + Cardinality(U)
    <3> DEFINE a == Cardinality(A[x])
               b == Cardinality(U)
               c == Cardinality(A[x] \cup U)
    <3>1. c = a + b - 0 /\ a \in Nat /\ b \in Nat
      BY <2>2, <2>4, <2>5
    <3> HIDE DEF a, b, c
    <3>2. c = a + b
      BY <3>1
    <3>3. QED
      BY <3>2 DEF a, b, c
  <2>7. QED
    BY <2>1, <2>6 DEF U
<1>4. QED
  BY <1>1, <1>2, <1>3

\* What h gets by adding up the numbers v, one at a time.
AddsUp(h, v, S) ==
  \A s \in SUBSET S : h[s] = IF s = {} THEN 0
                             ELSE v[CHOOSE x \in s : TRUE] + h[s \ {CHOOSE x \in s : TRUE}]

\* There is such a function for the sizes of those sets, and any such function is the
\* number of elements they have.
LEMMA SumOfSizes ==
  ASSUME NEW A, NEW S, Parts(A, S), NEW v, \A x \in S : v[x] = Cardinality(A[x])
  PROVE  /\ \E F : F \in [SUBSET S -> Nat] /\ AddsUp(F, v, S)
         /\ \A h : AddsUp(h, v, S) => h[S] = Cardinality(AllOf(A, S))
<1> DEFINE pick(s) == CHOOSE x \in s : TRUE
<1>1. \A s \in SUBSET S : /\ IsFiniteSet(s) /\ Cardinality(AllOf(A, s)) \in Nat
                          /\ s = {} => Cardinality(AllOf(A, s)) = 0
                          /\ s # {} => Cardinality(AllOf(A, s)) = v[pick(s)] + Cardinality(AllOf(A, s \ {pick(s)}))
  <2> SUFFICES ASSUME NEW s \in SUBSET S
               PROVE  /\ IsFiniteSet(s) /\ Cardinality(AllOf(A, s)) \in Nat
                      /\ s = {} => Cardinality(AllOf(A, s)) = 0
                      /\ s # {} => Cardinality(AllOf(A, s)) = v[pick(s)] + Cardinality(AllOf(A, s \ {pick(s)}))
    OBVIOUS
  <2>1. s # {} => pick(s) \in s
    OBVIOUS
  <2> HIDE DEF pick
  <2>2. /\ IsFiniteSet(s) /\ IsFiniteSet(AllOf(A, s))
        /\ s = {} => Cardinality(AllOf(A, s)) = 0
        /\ \A x \in s : Cardinality(AllOf(A, s)) = Cardinality(A[x]) + Cardinality(AllOf(A, s \ {x}))
    BY SizesAdd
  <2>3. QED
    BY <2>1, <2>2, FS_CardinalityType
<1> DEFINE F == [s \in SUBSET S |-> Cardinality(AllOf(A, s))]
<1>2. F \in [SUBSET S -> Nat]
  BY <1>1
<1>3. AddsUp(F, v, S)
  <2> SUFFICES ASSUME NEW s \in SUBSET S
               PROVE  F[s] = IF s = {} THEN 0 ELSE v[pick(s)] + F[s \ {pick(s)}]
    BY DEF AddsUp
  <2>1. s \ {pick(s)} \in SUBSET S
    OBVIOUS
  <2> HIDE DEF pick
  <2>2. QED
    BY <1>1, <2>1
<1>4. ASSUME NEW h, AddsUp(h, v, S) PROVE h[S] = Cardinality(AllOf(A, S))
  <2> DEFINE Bad == {c \in Nat : \E s \in SUBSET S : Cardinality(s) = c /\ h[s] # F[s]}
  <2> HIDE DEF F
  <2>1. Bad = {}
    <3> SUFFICES ASSUME Bad # {} PROVE FALSE
      OBVIOUS
    <3>1. PICK c \in Bad : \A e \in Bad : c <= e
      BY LeastNat
    <3>2. PICK s \in SUBSET S : Cardinality(s) = c /\ h[s] # F[s]
      BY <3>1
    <3> DEFINE x == pick(s)
    <3>3. s # {}
      BY <3>2, <1>3, <1>4 DEF AddsUp
    <3>4. x \in s
      BY <3>3
    <3>5. h[s] = v[x] + h[s \ {x}] /\ F[s] = v[x] + F[s \ {x}]
      BY <1>3, <1>4, <3>3 DEF AddsUp
    <3> HIDE DEF x
    <3>6. IsFiniteSet(s) /\ IsFiniteSet(s \ {x}) /\ Cardinality(s \ {x}) = Cardinality(s) - 1
      BY <1>1, <3>4, FS_RemoveElement
    <3>7. h[s \ {x}] = F[s \ {x}]
      <4>1. c \in Nat
        BY <3>1
      <4>2. s \ {x} \in SUBSET S /\ Cardinality(s \ {x}) \in Nat /\ Cardinality(s \ {x}) < c
        BY <3>2, <3>6, <4>1, FS_CardinalityType
      <4>3. Cardinality(s \ {x}) \notin Bad
        <5> HIDE DEF Bad
        <5> QED
          BY <3>1, <4>1, <4>2
      <4>4. QED
        BY <4>2, <4>3
    <3>8. QED
      BY <3>2, <3>5, <3>7
  <2>2. Cardinality(S) \in Nat /\ S \in SUBSET S
    BY FS_CardinalityType DEF Parts
  <2>3. Cardinality(S) \notin Bad
    BY <2>1
  <2>4. h[S] = F[S]
    BY <2>2, <2>3
  <2>5. QED
    BY <2>2, <2>4 DEF F
<1>5. QED
  BY <1>2, <1>3, <1>4

\* The rows that wait, and those that have been yielded.
LEMMA WaitingRows ==
  ASSUME NEW s, NEW A, Parts(A, DOMAIN s), \A k \in DOMAIN s : s[k].end - s[k].start = Cardinality(A[k])
  PROVE  RowsIn(s, LAMBDA f : f.end - f.start) = Cardinality(AllOf(A, DOMAIN s))
<1> DEFINE S == DOMAIN s
           v == [k \in S |-> s[k].end - s[k].start]
           step(h, u) == IF u = {} THEN 0
                         ELSE (s[CHOOSE x \in u : TRUE].end - s[CHOOSE x \in u : TRUE].start)
                                + h[u \ {CHOOSE x \in u : TRUE}]
           G(h) == [u \in SUBSET S |-> step(h, u)]
           iter == CHOOSE h : h = G(h)
<1>1. RowsIn(s, LAMBDA f : f.end - f.start) = iter[S]
  BY DEF RowsIn, MapThenSumSet, MapThenFoldSet
<1>2. \A k \in S : v[k] = Cardinality(A[k])
  OBVIOUS
<1>3. \A u \in SUBSET S : u # {} =>
        s[CHOOSE x \in u : TRUE].end - s[CHOOSE x \in u : TRUE].start = v[CHOOSE x \in u : TRUE]
  OBVIOUS
<1> HIDE DEF S, v
<1>4. /\ \E F : F \in [SUBSET S -> Nat] /\ AddsUp(F, v, S)
      /\ \A h : AddsUp(h, v, S) => h[S] = Cardinality(AllOf(A, S))
  BY <1>2, SumOfSizes DEF S
<1>5. PICK F : F \in [SUBSET S -> Nat] /\ AddsUp(F, v, S)
  BY <1>4
<1>6. F = G(F)
  <2>1. \A u \in SUBSET S : F[u] = step(F, u)
    BY <1>3, <1>5 DEF AddsUp
  <2>2. F = [u \in SUBSET S |-> F[u]]
    BY <1>5
  <2> HIDE DEF step
  <2>3. QED
    BY <2>1, <2>2
<1>7. iter = G(iter)
  <2> HIDE DEF G
  <2> QED
    BY <1>6
<1>8. \A u \in SUBSET S : iter[u] = step(iter, u)
  <2> HIDE DEF iter, step
  <2> QED
    BY <1>7
<1> HIDE DEF iter
<1>9. AddsUp(iter, v, S)
  BY <1>3, <1>8 DEF AddsUp
<1>10. QED
  BY <1>1, <1>4, <1>9 DEF S

LEMMA YieldedRows ==
  ASSUME NEW s, NEW A, Parts(A, DOMAIN s), \A k \in DOMAIN s : s[k][2] = Cardinality(A[k])
  PROVE  RowsIn(s, LAMBDA y : y[2]) = Cardinality(AllOf(A, DOMAIN s))
<1> DEFINE S == DOMAIN s
           v == [k \in S |-> s[k][2]]
           step(h, u) == IF u = {} THEN 0
                         ELSE s[CHOOSE x \in u : TRUE][2] + h[u \ {CHOOSE x \in u : TRUE}]
           G(h) == [u \in SUBSET S |-> step(h, u)]
           iter == CHOOSE h : h = G(h)
<1>1. RowsIn(s, LAMBDA y : y[2]) = iter[S]
  BY DEF RowsIn, MapThenSumSet, MapThenFoldSet
<1>2. \A k \in S : v[k] = Cardinality(A[k])
  OBVIOUS
<1>3. \A u \in SUBSET S : u # {} => s[CHOOSE x \in u : TRUE][2] = v[CHOOSE x \in u : TRUE]
  OBVIOUS
<1> HIDE DEF S, v
<1>4. /\ \E F : F \in [SUBSET S -> Nat] /\ AddsUp(F, v, S)
      /\ \A h : AddsUp(h, v, S) => h[S] = Cardinality(AllOf(A, S))
  BY <1>2, SumOfSizes DEF S
<1>5. PICK F : F \in [SUBSET S -> Nat] /\ AddsUp(F, v, S)
  BY <1>4
<1>6. F = G(F)
  <2>1. \A u \in SUBSET S : F[u] = step(F, u)
    BY <1>3, <1>5 DEF AddsUp
  <2>2. F = [u \in SUBSET S |-> F[u]]
    BY <1>5
  <2> HIDE DEF step
  <2>3. QED
    BY <2>1, <2>2
<1>7. iter = G(iter)
  <2> HIDE DEF G
  <2> QED
    BY <1>6
<1>8. \A u \in SUBSET S : iter[u] = step(iter, u)
  <2> HIDE DEF iter, step
  <2> QED
    BY <1>7
<1> HIDE DEF iter
<1>9. AddsUp(iter, v, S)
  BY <1>3, <1>8 DEF AddsUp
<1>10. QED
  BY <1>1, <1>4, <1>9 DEF S

\* Two sets without a common element that make up a range are together as large as it is.
LEMMA TwoParts ==
  ASSUME NEW a \in Nat, NEW b \in Nat, a <= b, NEW X, NEW Y, X \cup Y = a..(b - 1), X \cap Y = {}
  PROVE  Cardinality(X) + Cardinality(Y) = b - a
<1>1. IsFiniteSet(a..(b - 1)) /\ Cardinality(a..(b - 1)) = b - a
  <2> DEFINE c == b - 1
  <2>1. a \in Int /\ c \in Int /\ (a > c => b - a = 0) /\ (~(a > c) => c - a + 1 = b - a)
    OBVIOUS
  <2> HIDE DEF c
  <2>2. IsFiniteSet(a..c) /\ Cardinality(a..c) = IF a > c THEN 0 ELSE c - a + 1
    BY <2>1, FS_Interval
  <2>3. QED
    BY <2>1, <2>2 DEF c
<1>2. IsFiniteSet(X) /\ IsFiniteSet(Y)
  <2>1. X \subseteq a..(b - 1) /\ Y \subseteq a..(b - 1)
    OBVIOUS
  <2>2. QED
    BY <1>1, <2>1, FS_Subset
<1>3. Cardinality(X) \in Nat /\ Cardinality(Y) \in Nat /\ Cardinality({}) = 0
  BY <1>2, FS_CardinalityType, FS_EmptySet
<1>4. Cardinality(X \cup Y) = Cardinality(X) + Cardinality(Y) - Cardinality(X \cap Y)
  BY <1>2, FS_Union
<1> DEFINE x == Cardinality(X)
           y == Cardinality(Y)
<1>5. x \in Nat /\ y \in Nat /\ b - a = x + y - 0
  BY <1>1, <1>3, <1>4
<1> HIDE DEF x, y
<1>6. x + y = b - a
  BY <1>5
<1>7. QED
  BY <1>6 DEF x, y

\* The frames of a walk and the symbols it has yielded share out the rows of the range.
LEMMA WalkedRows ==
  ASSUME Indexes, walk_of.start \in 0..n, walk_of.end \in 0..n, walk_of.start <= walk_of.end,
         NEW s, Stacked(s), NEW ys, Yielded(s, ys)
  PROVE  RowsIn(s, LAMBDA f : f.end - f.start) + RowsIn(ys, LAMBDA y : y[2]) = walk_of.end - walk_of.start
<1> DEFINE R == walk_of.start..(walk_of.end - 1)
           P == 0..(n - 1)
           A == [k \in DOMAIN s |-> FrameRows(s[k])]
           B == [k \in DOMAIN ys |-> {p \in R : indexed[p] = ys[k][1]}]
<1>1. n \in Nat /\ walk_of.start \in Nat /\ walk_of.end \in Nat
  BY DEF Indexes, WellFormed
<1>2. \A p : p \in R <=> (p \in P /\ InWalk(p))
  BY <1>1 DEF InWalk
<1>3. s \in Seq(Frames) /\ Len(s) \in Nat /\ DOMAIN s = 1..Len(s)
  BY DEF Stacked
<1>4. ys \in Seq(Nat \X Nat) /\ Len(ys) \in Nat /\ DOMAIN ys = 1..Len(ys)
  BY DEF Yielded
<1>5. \A p \in P : indexed[p] \in Nat
  BY IndexTrack
<1> HIDE DEF R
<1>6. /\ \A k \in DOMAIN s : A[k] = FrameRows(s[k])
      /\ \A k \in DOMAIN ys : B[k] = {p \in R : indexed[p] = ys[k][1]}
  OBVIOUS
<1> HIDE DEF A, B
<1>7. \A k \in DOMAIN s : \A p : p \in A[k] <=> (p \in R /\ Top(indexed[p], s[k].level) = s[k].bit_path)
  BY <1>2, <1>6 DEF FrameRows, Below
<1>8. Parts(A, DOMAIN s) /\ \A k \in DOMAIN s : s[k].end - s[k].start = Cardinality(A[k])
  <2>1. \A k \in DOMAIN s : /\ IsFiniteSet(A[k])
                            /\ s[k].end - s[k].start = Cardinality(A[k])
    BY <1>3, <1>6, FrameSize DEF Stacked
  <2>2. ASSUME NEW j \in DOMAIN s, NEW k \in DOMAIN s, j < k PROVE A[j] \cap A[k] = {}
    <3> SUFFICES ASSUME NEW p, p \in A[j], p \in A[k] PROVE FALSE
      OBVIOUS
    <3>1. Under(s[k], s[j])
      BY <1>3, <2>2 DEF Stacked
    <3>2. indexed[p] \in Nat
      BY <1>2, <1>5, <1>7
    <3>3. indexed[p] < indexed[p]
      BY <1>7, <3>1, <3>2 DEF Under
    <3>4. QED
      BY <3>2, <3>3
  <2>3. \A j, k \in DOMAIN s : j # k => A[j] \cap A[k] = {}
    <3>1. \A j, k \in DOMAIN s : j # k => (j < k \/ k < j)
      BY <1>3
    <3>2. QED
      BY <2>2, <3>1
  <2>4. IsFiniteSet(DOMAIN s)
    BY <1>3, FS_Interval
  <2>5. QED
    BY <2>1, <2>3, <2>4 DEF Parts
<1>9. Parts(B, DOMAIN ys) /\ \A k \in DOMAIN ys : ys[k][2] = Cardinality(B[k])
  <2>1. IsFiniteSet(R)
    <3> DEFINE a == walk_of.start
               b == walk_of.end - 1
    <3>1. a \in Int /\ b \in Int
      BY <1>1
    <3> HIDE DEF a, b
    <3>2. IsFiniteSet(a..b)
      BY <3>1, FS_Interval
    <3>3. QED
      BY <3>2 DEF R, a, b
  <2>2. \A k \in DOMAIN ys : IsFiniteSet(B[k])
    BY <1>6, <2>1, FS_Subset
  <2>3. ASSUME NEW j \in DOMAIN ys, NEW k \in DOMAIN ys, j # k PROVE B[j] \cap B[k] = {}
    <3>1. ys[j][1] # ys[k][1]
      <4>1. (j < k \/ k < j) /\ ys[j][1] \in Nat /\ ys[k][1] \in Nat
        BY <1>4, <2>3 DEF Yielded, Counted
      <4>2. ys[j][1] < ys[k][1] \/ ys[k][1] < ys[j][1]
        BY <1>4, <4>1 DEF Yielded
      <4>3. QED
        BY <4>1, <4>2
    <3>2. QED
      BY <1>6, <3>1
  <2>4. IsFiniteSet(DOMAIN ys)
    BY <1>4, FS_Interval
  <2>5. \A k \in DOMAIN ys : ys[k][2] = Cardinality(B[k])
    BY <1>4, <1>6 DEF Yielded, Counted, Occs, R
  <2>6. QED
    BY <2>2, <2>3, <2>4, <2>5 DEF Parts
<1> DEFINE X == AllOf(A, DOMAIN s)
           Y == AllOf(B, DOMAIN ys)
<1>10. X \cup Y = R
  <2>1. X \subseteq R /\ Y \subseteq R
    BY <1>6, <1>7 DEF AllOf
  <2>2. ASSUME NEW p \in R PROVE p \in X \/ p \in Y
    <3>1. p \in P /\ InWalk(p)
      BY <1>2
    <3>2. CASE OnStack(p, s)
      <4>1. PICK k \in DOMAIN s : Below(p, s[k].bit_path, s[k].level)
        BY <1>3, <3>2 DEF OnStack
      <4>2. p \in A[k]
        BY <1>7, <4>1 DEF Below
      <4>3. QED
        BY <4>2 DEF AllOf
    <3>3. CASE \E k \in 1..Len(ys) : ys[k][1] = indexed[p]
      <4>1. PICK k \in DOMAIN ys : ys[k][1] = indexed[p]
        BY <1>4, <3>3
      <4>2. p \in B[k]
        BY <1>6, <4>1
      <4>3. QED
        BY <4>2 DEF AllOf
    <3>4. QED
      BY <3>1, <3>2, <3>3 DEF Yielded
  <2> HIDE DEF X, Y
  <2>3. QED
    BY <2>1, <2>2
<1>11. X \cap Y = {}
  <2> SUFFICES ASSUME NEW p, p \in X, p \in Y PROVE FALSE
    OBVIOUS
  <2>1. PICK i \in DOMAIN s : p \in A[i]
    BY DEF AllOf
  <2>2. PICK k \in DOMAIN ys : p \in B[k]
    BY DEF AllOf
  <2>3. indexed[p] \in Nat /\ indexed[p] = ys[k][1] /\ Top(indexed[p], s[i].level) = s[i].bit_path
    BY <1>2, <1>5, <1>6, <1>7, <2>1, <2>2
  <2>4. ys[k][1] < indexed[p]
    BY <1>3, <1>4, <2>3 DEF Yielded
  <2>5. QED
    BY <2>3, <2>4
<1>12. /\ RowsIn(s, LAMBDA f : f.end - f.start) = Cardinality(X)
       /\ RowsIn(ys, LAMBDA y : y[2]) = Cardinality(Y)
  <2>1. RowsIn(s, LAMBDA f : f.end - f.start) = Cardinality(X)
    BY <1>8, WaitingRows
  <2>2. RowsIn(ys, LAMBDA y : y[2]) = Cardinality(Y)
    BY <1>9, YieldedRows
  <2>3. QED
    BY <2>1, <2>2
<1> HIDE DEF X, Y
<1>13. Cardinality(X) + Cardinality(Y) = walk_of.end - walk_of.start
  BY <1>1, <1>10, <1>11, TwoParts DEF R
<1>14. QED
  BY <1>12, <1>13

\* Those of a WTIterator: as many as it has yielded are outside its frame.
LEMMA TakenRows ==
  ASSUME n \in Nat, NEW s, NEW ys, Taken(s, ys)
  PROVE  /\ RowsIn(s, LAMBDA f : f.end - f.start) + RowsIn(ys, LAMBDA y : y[2]) = n
         /\ \A x : Out(ys, x) + Occs(x, Last(s).start, Last(s).end) = Occs(x, 0, n)
<1>1. PICK a \in 0..n, b \in 0..n :
        /\ a <= b /\ s = <<RowFrame(a, b)>>
        /\ ys \in Seq(Nat \X Nat) /\ Len(ys) + (b - a) = n
        /\ \A k \in 1..Len(ys) : ys[k][2] = 1
        /\ \A x : Out(ys, x) + Occs(x, a, b) = Occs(x, 0, n)
  BY DEF Taken
<1>2. DOMAIN s = {1} /\ s[1] = RowFrame(a, b) /\ Last(s) = RowFrame(a, b)
  <2>1. \A f : DOMAIN <<f>> = {1} /\ <<f>>[1] = f /\ Last(<<f>>) = f
    BY DEF Last
  <2>2. QED
    BY <1>1, <2>1
<1>3. s[1].end - s[1].start = b - a /\ Last(s).start = a /\ Last(s).end = b
  BY <1>2 DEF RowFrame
<1> DEFINE A == [k \in {1} |-> a..(b - 1)]
           B == [k \in DOMAIN ys |-> {k}]
<1>4. IsFiniteSet(a..(b - 1)) /\ Cardinality(a..(b - 1)) = b - a
  <2>1. a \in Nat /\ b \in Nat /\ IsFiniteSet(a..(b - 1))
    BY FS_Interval
  <2>2. Cardinality(a..(b - 1)) + Cardinality({}) = b - a
    BY <1>1, <2>1, TwoParts
  <2>3. Cardinality(a..(b - 1)) \in Nat /\ Cardinality({}) = 0
    BY <2>1, FS_CardinalityType, FS_EmptySet
  <2>4. QED
    BY <2>1, <2>2, <2>3
<1>5. RowsIn(s, LAMBDA f : f.end - f.start) = b - a
  <2>1. IsFiniteSet({1})
    BY FS_Singleton
  <2>2. Parts(A, DOMAIN s)
    BY <1>2, <1>4, <2>1 DEF Parts
  <2>3. AllOf(A, DOMAIN s) = a..(b - 1)
    BY <1>2 DEF AllOf
  <2>4. A[1] = a..(b - 1)
    OBVIOUS
  <2> HIDE DEF A
  <2>5. \A k \in DOMAIN s : s[k].end - s[k].start = Cardinality(A[k])
    BY <1>2, <1>3, <1>4, <2>4
  <2>6. RowsIn(s, LAMBDA f : f.end - f.start) = Cardinality(AllOf(A, DOMAIN s))
    BY <2>2, <2>5, WaitingRows
  <2>7. QED
    BY <1>4, <2>3, <2>6
<1>6. RowsIn(ys, LAMBDA y : y[2]) = Len(ys)
  <2>1. DOMAIN ys = 1..Len(ys) /\ Len(ys) \in Nat
    BY <1>1
  <2>2. \A k : IsFiniteSet({k}) /\ Cardinality({k}) = 1
    BY FS_Singleton
  <2>3. IsFiniteSet(DOMAIN ys) /\ Cardinality(DOMAIN ys) = Len(ys)
    <3> DEFINE m == Len(ys)
    <3>1. m \in Nat
      BY <2>1
    <3> HIDE DEF m
    <3>2. IsFiniteSet(1..m) /\ Cardinality(1..m) = IF 1 > m THEN 0 ELSE m - 1 + 1
      BY <3>1, FS_Interval
    <3>3. Cardinality(1..m) = m
      BY <3>1, <3>2
    <3>4. QED
      BY <2>1, <3>2, <3>3 DEF m
  <2>4. \A k \in DOMAIN ys : B[k] = {k}
    OBVIOUS
  <2> HIDE DEF B
  <2>5. Parts(B, DOMAIN ys)
    BY <2>2, <2>3, <2>4 DEF Parts
  <2>6. AllOf(B, DOMAIN ys) = DOMAIN ys
    BY <2>4 DEF AllOf
  <2>7. \A k \in DOMAIN ys : ys[k][2] = Cardinality(B[k])
    BY <1>1, <2>1, <2>2, <2>4
  <2>8. RowsIn(ys, LAMBDA y : y[2]) = Cardinality(AllOf(B, DOMAIN ys))
    BY <2>5, <2>7, YieldedRows
  <2>9. QED
    BY <2>3, <2>6, <2>8
<1>7. (b - a) + Len(ys) = n
  <2> DEFINE m == Len(ys)
  <2>1. m \in Nat /\ m + (b - a) = n
    BY <1>1
  <2> HIDE DEF m
  <2>2. (b - a) + m = n
    BY <2>1
  <2>3. QED
    BY <2>2 DEF m
<1>8. QED
  BY <1>1, <1>3, <1>5, <1>6, <1>7

\* And accounts for every row.
LEMMA RowsHold == IterInv => NoRowLost
<1> SUFFICES ASSUME IterInv, walk_of.kind # "next", state \in {"open", "done"},
                    walk_of.start <= walk_of.end, walk_of.end <= n
             PROVE  /\ RowsIn(stack, LAMBDA f : f.end - f.start) + RowsIn(yielded, LAMBDA y : y[2])
                         = walk_of.end - walk_of.start
                    /\ walk_of.kind = "values" => \A x \in Symbols :
                         Out(yielded, x) + Occs(x, Last(stack).start, Last(stack).end) = Occs(x, 0, n)
  BY DEF NoRowLost, Out
<1>1. pc = "used" /\ Ready /\ Walking(stack, yielded, state) /\ n \in Nat
  BY DEF IterInv, Ready
<1>2. walk_of.start \in 0..n /\ walk_of.end \in 0..n
  BY <1>1 DEF Walking
<1>3. CASE walk_of.kind = "values"
  <2>1. walk_of.start = 0 /\ walk_of.end = n /\ Taken(stack, yielded) /\ n - 0 = n
    BY <1>1, <1>3 DEF Walking
  <2>2. QED
    BY <1>1, <2>1, TakenRows
<1>4. CASE walk_of.kind # "values" /\ live(walk_of.start, walk_of.end)
  <2>1. Walked(stack, yielded, state)
    BY <1>1, <1>4 DEF Walking
  <2>2. Stacked(stack) /\ Yielded(stack, yielded)
    BY <2>1 DEF Walked
  <2>3. Indexes
    BY <1>1, <1>2, <1>4 DEF Ready, live
  <2>4. QED
    BY <1>2, <1>4, <2>2, <2>3, WalkedRows
<1>5. CASE walk_of.kind # "values" /\ ~live(walk_of.start, walk_of.end)
  <2>1. stack = <<>> /\ yielded = <<>>
    BY <1>1, <1>5 DEF Walking
  <2>2. walk_of.end - walk_of.start = 0
    BY <1>1, <1>2, <1>5, RangeIs
  <2>3. DOMAIN <<>> = {} /\ IsFiniteSet({}) /\ Cardinality({}) = 0
    BY FS_EmptySet
  <2>4. Parts(<<>>, DOMAIN <<>>) /\ AllOf(<<>>, DOMAIN <<>>) = {}
    BY <2>3 DEF Parts, AllOf
  <2>5. RowsIn(stack, LAMBDA f : f.end - f.start) = 0
    <3>1. RowsIn(stack, LAMBDA f : f.end - f.start) = Cardinality(AllOf(<<>>, DOMAIN stack))
      BY <2>1, <2>3, <2>4, WaitingRows
    <3>2. QED
      BY <2>1, <2>3, <2>4, <3>1
  <2>6. RowsIn(yielded, LAMBDA y : y[2]) = 0
    <3>1. RowsIn(yielded, LAMBDA y : y[2]) = Cardinality(AllOf(<<>>, DOMAIN yielded))
      BY <2>1, <2>3, <2>4, YieldedRows
    <3>2. QED
      BY <2>1, <2>3, <2>4, <3>1
  <2>7. 0 + 0 = 0
    OBVIOUS
  <2>8. QED
    BY <1>5, <2>2, <2>5, <2>6, <2>7, Zenon
<1>6. QED
  BY <1>3, <1>4, <1>5

\* Between any two calls the stack of an iterator holds exactly the rows of its range that
\* it has not yielded, and WTIterator, from whichever end it is called, has yielded the
\* symbols of the rows outside its frame.
THEOREM RowsAreNeverLost == SpecIter => []NoRowLost
BY RowsHold, IterInvHolds, PTL

\* At most three frames wait at each level down to l.
LEMMA WaitingBelow ==
  ASSUME n_levels \in Nat, NEW s, Stacked(s), Bounded(s), NEW l \in 0..n_levels
  PROVE  /\ IsFiniteSet({k \in 1..(Len(s) - 1) : s[k].level <= l})
         /\ Cardinality({k \in 1..(Len(s) - 1) : s[k].level <= l}) <= 3 * l
<1> DEFINE K == 1..(Len(s) - 1)
           W(m) == {k \in K : s[k].level <= m}
           Bad == {m \in Nat : m <= n_levels /\ ~(Cardinality(W(m)) <= 3 * m)}
<1>1. Len(s) \in Nat /\ \A k \in K : s[k].level \in 0..n_levels
  <2>1. Len(s) \in Nat
    BY DEF Stacked
  <2>2. \A k \in K : k \in 1..Len(s)
    BY <2>1
  <2>3. QED
    BY <2>1, <2>2 DEF Stacked, FrameOk, Frames
<1>2. \A m : IsFiniteSet(W(m)) /\ Cardinality(W(m)) \in Nat
  <2>1. IsFiniteSet(K)
    BY <1>1, FS_Interval
  <2>2. \A m : W(m) \subseteq K
    OBVIOUS
  <2> HIDE DEF W, K
  <2>3. QED
    BY <2>1, <2>2, FS_Subset, FS_CardinalityType
<1>3. \A m \in 0..n_levels : /\ Waiting(s, m) \subseteq K /\ IsFiniteSet(Waiting(s, m))
                             /\ Cardinality(Waiting(s, m)) \in Nat
                             /\ Cardinality(Waiting(s, m)) <= IF m = 0 THEN 0 ELSE 3
  <2>1. IsFiniteSet(K)
    BY <1>1, FS_Interval
  <2>2. \A m : Waiting(s, m) \subseteq K
    BY DEF Waiting
  <2> HIDE DEF K
  <2>3. \A m : IsFiniteSet(Waiting(s, m)) /\ Cardinality(Waiting(s, m)) \in Nat
    BY <2>1, <2>2, FS_Subset, FS_CardinalityType
  <2>4. QED
    BY <2>2, <2>3 DEF Bounded
<1>4. Bad = {}
  <2> SUFFICES ASSUME Bad # {} PROVE FALSE
    OBVIOUS
  <2>1. PICK m \in Bad : \A j \in Bad : m <= j
    BY LeastNat
  <2>2. m \in Nat /\ m <= n_levels /\ ~(Cardinality(W(m)) <= 3 * m)
    BY <2>1
  <2>3. m \in 0..n_levels
    BY <2>2
  <2>4. CASE m = 0
    <3>1. W(0) = Waiting(s, 0)
      BY <1>1 DEF Waiting
    <3> HIDE DEF W
    <3>2. Cardinality(W(0)) <= 0
      BY <1>3, <2>3, <2>4, <3>1
    <3>3. QED
      BY <2>2, <2>4, <3>2
  <2>5. CASE m # 0
    <3> DEFINE j == m - 1
               X == W(j)
               Y == Waiting(s, m)
    <3>1. j \in Nat /\ j < m /\ j <= n_levels /\ m = j + 1
      BY <2>2, <2>5
    <3>2. j \notin Bad
      <4> HIDE DEF Bad
      <4> QED
        BY <2>1, <2>2, <3>1
    <3>3. Cardinality(X) <= 3 * j
      BY <3>1, <3>2
    <3>4. W(m) = X \cup Y
      BY <1>1, <2>2 DEF Waiting
    <3>5. Cardinality(Y) <= 3 /\ Cardinality(Y) \in Nat /\ IsFiniteSet(Y)
      BY <1>3, <2>3, <2>5
    <3>6. Cardinality(X) \in Nat /\ IsFiniteSet(X)
      BY <1>2
    <3> HIDE DEF W, X, Y, j
    <3>7. Cardinality(X \cup Y) = Cardinality(X) + Cardinality(Y) - Cardinality(X \cap Y)
      BY <3>5, <3>6, FS_Union
    <3>8. Cardinality(X \cap Y) \in Nat
      BY <3>6, FS_Intersection, FS_CardinalityType
    <3> DEFINE x == Cardinality(X)
               y == Cardinality(Y)
               z == Cardinality(X \cap Y)
               w == Cardinality(W(m))
    <3>9. x \in Nat /\ y \in Nat /\ z \in Nat /\ w = x + y - z /\ x <= 3 * j /\ y <= 3 /\ ~(w <= 3 * m)
      BY <2>2, <3>3, <3>4, <3>5, <3>6, <3>7, <3>8
    <3> HIDE DEF x, y, z, w
    <3>10. QED
      BY <3>1, <3>9
  <2>6. QED
    BY <2>4, <2>5
<1>5. l \notin Bad
  BY <1>4
<1>6. Cardinality(W(l)) <= 3 * l
  <2>1. l \in Nat /\ l <= n_levels
    OBVIOUS
  <2> HIDE DEF W
  <2>2. QED
    BY <1>5, <2>1
<1>7. IsFiniteSet(W(l))
  BY <1>2
<1>8. QED
  BY <1>6, <1>7

\* Together, no more than the STACK_SIZE frames that the fixed stacks have room for.
THEOREM StacksFit == SpecIter => [](Len(stack) <= STACK_SIZE)
<1>1. IterInv => Len(stack) <= STACK_SIZE
  <2> SUFFICES ASSUME IterInv PROVE Len(stack) <= STACK_SIZE
    OBVIOUS
  <2>1. /\ STACK_SIZE \in Nat /\ T_BITS \in Nat /\ T_BITS % 2 = 0
        /\ 3 * (T_BITS \div 2) + 1 <= STACK_SIZE
    BY IterAssumption, TreeAssumption
  <2>2. Len(<<>>) = 0 /\ \A f : Len(<<f>>) = 1
    OBVIOUS
  <2>3. 1 <= STACK_SIZE
    BY <2>1
  <2>4. CASE stack = <<>>
    BY <2>1, <2>2, <2>4
  <2>5. CASE stack # <<>>
    <3>1. Ready /\ Walking(stack, yielded, state) /\ 2 * n_levels <= T_BITS
      BY <2>5 DEF IterInv
    <3>2. CASE walk_of.kind = "values"
      <4>1. Len(stack) = 1
        BY <2>2, <3>1, <3>2 DEF Walking, Taken
      <4>2. QED
        BY <2>3, <4>1
    <3>3. CASE walk_of.kind # "values"
      <4>1. live(walk_of.start, walk_of.end) /\ Stacked(stack) /\ Bounded(stack)
        BY <2>5, <3>1, <3>3 DEF Walking, Walked
      <4>2. n_levels \in Nat
        <5>1. n \in Nat /\ walk_of.start \in 0..n /\ walk_of.end \in 0..(n + 1)
          BY <3>1 DEF Ready, Walking
        <5>2. n > 0
          BY <4>1, <5>1 DEF live
        <5>3. QED
          BY <3>1, <5>2 DEF Ready, Indexes, WellFormed
      <4> DEFINE W == {k \in 1..(Len(stack) - 1) : stack[k].level <= n_levels}
      <4>3. Len(stack) \in Nat
        BY <4>1 DEF Stacked
      <4>4. W = 1..(Len(stack) - 1)
        <5>1. \A k \in 1..(Len(stack) - 1) : k \in 1..Len(stack)
          BY <4>3
        <5>2. \A k \in 1..(Len(stack) - 1) : stack[k].level \in 0..n_levels
          BY <4>1, <5>1 DEF Stacked, FrameOk, Frames
        <5>3. QED
          BY <4>2, <5>2
      <4>5. Cardinality(W) <= 3 * n_levels
        BY <4>1, <4>2, WaitingBelow
      <4> HIDE DEF W
      <4> DEFINE m == Len(stack)
      <4>6. m \in Nat /\ Cardinality(1..(m - 1)) <= 3 * n_levels
        BY <4>3, <4>4, <4>5
      <4> HIDE DEF m
      <4>7. m <= 3 * n_levels + 1
        <5> DEFINE c == m - 1
        <5>1. c \in Int /\ m = c + 1
          BY <4>6
        <5> HIDE DEF c
        <5>2. Cardinality(1..c) = IF 1 > c THEN 0 ELSE c - 1 + 1
          BY <5>1, FS_Interval
        <5>3. Cardinality(1..c) <= 3 * n_levels
          BY <4>6 DEF c
        <5>4. QED
          BY <4>2, <5>1, <5>2, <5>3
      <4>8. n_levels <= T_BITS \div 2
        BY <2>1, <3>1, <4>2
      <4>9. m <= STACK_SIZE
        <5> DEFINE h == T_BITS \div 2
        <5>1. h \in Int /\ n_levels <= h /\ 3 * h + 1 <= STACK_SIZE
          BY <2>1, <4>8
        <5> HIDE DEF h
        <5>2. QED
          BY <2>1, <4>2, <4>6, <4>7, <5>1
      <4>10. QED
        BY <4>9 DEF m
    <3>4. QED
      BY <3>2, <3>3
  <2>6. QED
    BY <2>4, <2>5
<1>2. QED
  BY <1>1, IterInvHolds, PTL

------------------------------------------------------------------------------
(* extract_range and extract_range_distinct.                               *)

\* A symbol stands at the child of where it stood, and where it stands is its digit.
LEMMA TrackIs ==
  ASSUME Indexes, NEW l \in 0..LastLevel, NEW p \in 0..(n - 1)
  PROVE  /\ Track[l][p] \in 0..(n - 1) /\ Track[l + 1][p] \in 0..(n - 1)
         /\ qv(l)[Track[l][p]] = digit(indexed[p], l)
         /\ digit(indexed[p], l) \in Quads
         /\ Track[l + 1][p] = child(l, qv(l)[Track[l][p]], Track[l][p])
         /\ Track[l + 1][p] = ChildOf(qv(l), n, qv(l)[Track[l][p]], Track[l][p])
         /\ indexed[p] \in Nat
         /\ Top(indexed[p], l + 1) = Top(indexed[p], l) * 4 + digit(indexed[p], l)
<1>1. WellFormed /\ n_levels \in Nat /\ n \in Nat
  BY DEF Indexes, WellFormed
<1>2. l \in 0..(n_levels - 1) /\ l \in 0..n_levels /\ l + 1 \in 0..n_levels
  BY <1>1 DEF LastLevel
<1>3. Track[l] \in [0..(n - 1) -> 0..(n - 1)] /\ Track[l + 1] \in [0..(n - 1) -> 0..(n - 1)]
  BY <1>2, TrackBijective
<1>4. /\ qv(l)[Track[l][p]] = digit(indexed[p], l)
      /\ Track[l + 1][p] = ChildOf(qv(l), n, qv(l)[Track[l][p]], Track[l][p])
      /\ indexed[p] \in Nat
  BY <1>2, IndexTrack DEF IsTrack, qv, digit
<1>5. Track[l][p] \in 0..(n - 1) /\ Track[l + 1][p] \in 0..(n - 1)
  BY <1>3
<1>6. child(l, qv(l)[Track[l][p]], Track[l][p]) = ChildOf(qv(l), n, qv(l)[Track[l][p]], Track[l][p])
  BY <1>1, <1>5, ChildIs
<1>7. /\ digit(indexed[p], l) \in Quads
      /\ Top(indexed[p], l + 1) = Top(indexed[p], l) * 4 + digit(indexed[p], l)
  BY <1>1, <1>4, TopStep
<1>8. QED
  BY <1>4, <1>5, <1>6, <1>7

\* extract_singleton_from finds the symbol that stands at a position, if it is
\* given the digits that led there.
LEMMA SingletonIs ==
  ASSUME Indexes, NEW l \in 0..LastLevel, NEW p \in 0..(n - 1)
  PROVE  extract_singleton_from(l, Track[l][p], Top(indexed[p], l)) = indexed[p]
<1> DEFINE x == Track[l][p]
           prefix == Top(indexed[p], l)
           A(f) == [k \in l..LastLevel |->
                     IF k = l THEN x ELSE child(k - 1, qv(k - 1)[f[k - 1]], f[k - 1])]
           at == CHOOSE f : f = A(f)
           V(f) == [k \in l..n_levels |->
                     IF k = l THEN prefix ELSE f[k - 1] * 4 + qv(k - 1)[at[k - 1]]]
           value == CHOOSE f : f = V(f)
<1>1. extract_singleton_from(l, x, prefix) = value[n_levels]
  BY DEF extract_singleton_from
<1>2. n_levels \in Nat /\ LastLevel = n_levels - 1 /\ l \in Nat /\ l < n_levels
  BY DEF LastLevel, Indexes, WellFormed
<1> DEFINE T == [k \in l..LastLevel |-> Track[k][p]]
           S == [k \in l..n_levels |-> Top(indexed[p], k)]
<1>3. ASSUME NEW k \in (l + 1)..n_levels
      PROVE  /\ k - 1 \in l..LastLevel /\ k - 1 \in 0..LastLevel /\ k # l /\ k \in Nat
             /\ Track[k][p] = child(k - 1, qv(k - 1)[Track[k - 1][p]], Track[k - 1][p])
             /\ Top(indexed[p], k) = Top(indexed[p], k - 1) * 4 + qv(k - 1)[Track[k - 1][p]]
  <2>1. k - 1 \in l..LastLevel /\ k - 1 \in 0..LastLevel /\ k # l /\ k \in Nat /\ (k - 1) + 1 = k
    BY <1>2
  <2>2. QED
    BY <2>1, TrackIs
<1>4. T = A(T)
  <2>1. ASSUME NEW k \in l..LastLevel
        PROVE  T[k] = IF k = l THEN x ELSE child(k - 1, qv(k - 1)[T[k - 1]], T[k - 1])
    <3>1. CASE k = l
      BY <3>1
    <3>2. CASE k # l
      <4>1. k \in (l + 1)..n_levels
        BY <1>2, <3>2
      <4>2. k - 1 \in l..LastLevel
        BY <1>3, <4>1
      <4>3. T[k - 1] = Track[k - 1][p] /\ T[k] = Track[k][p]
        BY <4>2
      <4> HIDE DEF T
      <4>4. QED
        BY <1>3, <3>2, <4>1, <4>3
    <3>3. QED
      BY <3>1, <3>2
  <2>2. T = [k \in l..LastLevel |-> T[k]]
    OBVIOUS
  <2> HIDE DEF T, x
  <2>3. QED
    BY <2>1, <2>2
<1>5. at = A(at)
  <2> HIDE DEF A, T
  <2> QED
    BY <1>4
<1> HIDE DEF at, T
<1>6. ASSUME NEW k \in l..LastLevel PROVE at[k] = Track[k][p]
  <2> DEFINE Bad == {i \in Nat : i \in l..LastLevel /\ at[i] # Track[i][p]}
  <2> SUFFICES ASSUME Bad # {} PROVE FALSE
    BY <1>2
  <2>1. PICK i \in Bad : \A j \in Bad : i <= j
    BY LeastNat
  <2>2. i \in l..LastLevel /\ at[i] = IF i = l THEN x ELSE child(i - 1, qv(i - 1)[at[i - 1]], at[i - 1])
    BY <1>5, <2>1
  <2>3. i # l
    BY <2>1, <2>2
  <2>4. i \in (l + 1)..n_levels /\ i - 1 \in Nat /\ i - 1 < i
    BY <1>2, <2>2, <2>3
  <2>5. i - 1 \in l..LastLevel
    BY <1>3, <2>4
  <2>6. at[i - 1] = Track[i - 1][p]
    BY <2>1, <2>4, <2>5
  <2>7. at[i] = Track[i][p]
    BY <1>3, <2>2, <2>3, <2>4, <2>6
  <2>8. QED
    BY <2>1, <2>7
<1>7. S = V(S)
  <2>1. ASSUME NEW k \in l..n_levels
        PROVE  S[k] = IF k = l THEN prefix ELSE S[k - 1] * 4 + qv(k - 1)[at[k - 1]]
    <3>1. CASE k = l
      BY <3>1
    <3>2. CASE k # l
      <4>1. k \in (l + 1)..n_levels
        BY <1>2, <3>2
      <4>2. k - 1 \in l..LastLevel /\ k - 1 \in l..n_levels
        BY <1>2, <1>3, <4>1
      <4>3. S[k - 1] = Top(indexed[p], k - 1) /\ S[k] = Top(indexed[p], k)
        BY <4>2
      <4>4. at[k - 1] = Track[k - 1][p]
        BY <1>6, <4>2
      <4> HIDE DEF S
      <4>5. QED
        BY <1>3, <3>2, <4>1, <4>3, <4>4
    <3>3. QED
      BY <3>1, <3>2
  <2>2. S = [k \in l..n_levels |-> S[k]]
    OBVIOUS
  <2> HIDE DEF S, prefix
  <2>3. QED
    BY <2>1, <2>2
<1>8. value = V(value)
  <2> HIDE DEF V, S
  <2> QED
    BY <1>7
<1> HIDE DEF value, S
<1>9. value[n_levels] = Top(indexed[p], n_levels)
  <2> DEFINE Bad == {i \in Nat : i \in l..n_levels /\ value[i] # Top(indexed[p], i)}
  <2> SUFFICES ASSUME Bad # {} PROVE FALSE
    BY <1>2
  <2>1. PICK i \in Bad : \A j \in Bad : i <= j
    BY LeastNat
  <2>2. i \in l..n_levels /\ value[i] = IF i = l THEN prefix ELSE value[i - 1] * 4 + qv(i - 1)[at[i - 1]]
    BY <1>8, <2>1
  <2>3. i # l
    BY <2>1, <2>2
  <2>4. i \in (l + 1)..n_levels /\ i - 1 \in Nat /\ i - 1 < i /\ i - 1 \in l..n_levels
    BY <1>2, <2>2, <2>3
  <2>5. i - 1 \in l..LastLevel
    BY <1>3, <2>4
  <2>6. at[i - 1] = Track[i - 1][p] /\ value[i - 1] = Top(indexed[p], i - 1)
    BY <1>6, <2>1, <2>4, <2>5
  <2>7. value[i] = Top(indexed[p], i)
    BY <1>3, <2>2, <2>3, <2>4, <2>6
  <2>8. QED
    BY <2>1, <2>7
<1>10. Top(indexed[p], n_levels) = indexed[p]
  BY <1>2, IndexTrack, TopStep
<1>11. QED
  BY <1>1, <1>9, <1>10

\* The range of the rows of r with digit d at the next level, and how wide a range is.
RangeBelow(r, d) ==
  [level |-> r.level + 1, start |-> child(r.level, d, r.start), end |-> child(r.level, d, r.end),
   prefix |-> r.prefix * 4 + d]
Width(r) == r.end - r.start

\* What the recursion makes of digit d of r, and of r, if h is what it makes of the
\* ranges below.
DigitOf(h, r, d, distinct) ==
  IF Width(RangeBelow(r, d)) = 0 THEN <<>>
  ELSE IF r.level = LastLevel THEN Repeat(r.prefix * 4 + d, copies(distinct, Width(RangeBelow(r, d))))
  ELSE h[RangeBelow(r, d)]
RangeOf(h, r, distinct) ==
  IF r.start >= r.end THEN <<>>
  ELSE IF r.end - r.start = 1 THEN <<extract_singleton_from(r.level, r.start, r.prefix)>>
  ELSE DigitOf(h, r, 0, distinct) \o DigitOf(h, r, 1, distinct) \o DigitOf(h, r, 2, distinct)
         \o DigitOf(h, r, 3, distinct)
Recurses(h, distinct) == h = [r \in Ranges |-> RangeOf(h, r, distinct)]

\* Below a range of a level that is not the last is a range.
LEMMA RangeBelowType ==
  ASSUME WellFormed, NEW r \in Ranges, NEW d \in Quads
  PROVE  /\ r.level \in 0..LastLevel
         /\ r.level # LastLevel => RangeBelow(r, d) \in Ranges
         /\ RangeBelow(r, d).start \in 0..n /\ RangeBelow(r, d).end \in 0..n
         /\ RangeBelow(r, d).start = ChildOf(qv(r.level), n, d, r.start)
         /\ RangeBelow(r, d).end = ChildOf(qv(r.level), n, d, r.end)
         /\ RangeBelow(r, d).level = r.level + 1 /\ RangeBelow(r, d).prefix = r.prefix * 4 + d
         /\ Width(RangeBelow(r, d)) = rank_in(r.level, d, r.end) - rank_in(r.level, d, r.start)
<1>1. n \in Nat /\ n_levels \in Nat \ {0} /\ LastLevel = n_levels - 1
  BY DEF WellFormed, LastLevel
<1>2. r.level \in 0..LastLevel /\ r.start \in 0..n /\ r.end \in 0..n /\ r.prefix \in Nat
  BY DEF Ranges
<1>3. \A x \in 0..n : child(r.level, d, x) = ChildOf(qv(r.level), n, d, x) /\ child(r.level, d, x) \in 0..n
  BY <1>2, ChildIs
<1>4. /\ child(r.level, d, r.start) = rank_in(r.level, d, r.start) + occs_smaller(r.level, d)
      /\ child(r.level, d, r.end) = rank_in(r.level, d, r.end) + occs_smaller(r.level, d)
  BY DEF child
<1>5. rank_in(r.level, d, r.start) \in Nat /\ rank_in(r.level, d, r.end) \in Nat
  BY <1>1, <1>2, CountType DEF rank_in
<1>6. occs_smaller(r.level, d) \in Nat
  <2>1. qvs[r.level + 1].len = n /\ \A p \in 0..(n - 1) : qv(r.level)[p] \in Quads
    BY <1>2 DEF WellFormed
  <2>2. Smaller(qv(r.level), n, d) \in Nat
    BY <1>1, <2>1, SmallerStep
  <2>3. QED
    BY <2>1, <2>2 DEF occs_smaller
<1>7. Width(RangeBelow(r, d)) = rank_in(r.level, d, r.end) - rank_in(r.level, d, r.start)
  BY <1>4, <1>5, <1>6 DEF RangeBelow, Width
<1>8. r.prefix * 4 + d \in Nat
  BY <1>2 DEF Quads
<1>9. r.level # LastLevel => RangeBelow(r, d) \in Ranges
  <2> SUFFICES ASSUME r.level # LastLevel PROVE RangeBelow(r, d) \in Ranges
    OBVIOUS
  <2>1. r.level + 1 \in 0..LastLevel
    BY <1>1, <1>2
  <2>2. child(r.level, d, r.start) \in 0..n /\ child(r.level, d, r.end) \in 0..n
    BY <1>2, <1>3
  <2>3. QED
    BY <1>8, <2>1, <2>2 DEF RangeBelow, Ranges
<1>10. QED
  BY <1>2, <1>3, <1>7, <1>9 DEF RangeBelow

\* What is made of a range depends on what is made of those below only.
LEMMA RangeOfDepends ==
  ASSUME NEW h, NEW g, NEW r, NEW distinct,
         r.level # LastLevel => \A d \in Quads : h[RangeBelow(r, d)] = g[RangeBelow(r, d)]
  PROVE  RangeOf(h, r, distinct) = RangeOf(g, r, distinct)
<1>1. \A d \in Quads : DigitOf(h, r, d, distinct) = DigitOf(g, r, d, distinct)
  BY DEF DigitOf
<1>2. 0 \in Quads /\ 1 \in Quads /\ 2 \in Quads /\ 3 \in Quads
  BY DEF Quads
<1>3. QED
  BY <1>1, <1>2 DEF RangeOf

\* The recursion is well founded: there is such an h.
LEMMA RecursesExists ==
  ASSUME WellFormed, NEW distinct
  PROVE  \E h : Recurses(h, distinct)
<1> DEFINE m == n_levels
           Dom(k) == {r \in Ranges : m - r.level <= k}
           Ok(h, k) == h = [r \in Dom(k) |-> RangeOf(h, r, distinct)]
           Bad == {k \in Nat : ~\E h : Ok(h, k)}
<1>1. m \in Nat \ {0} /\ LastLevel = m - 1 /\ \A r \in Ranges : r.level \in 0..(m - 1)
  BY DEF WellFormed, LastLevel, Ranges
<1> HIDE DEF m
<1>2. Bad = {}
  <2> SUFFICES ASSUME Bad # {} PROVE FALSE
    OBVIOUS
  <2>1. PICK k \in Bad : \A j \in Bad : k <= j
    BY LeastNat
  <2>2. CASE k = 0
    <3> DEFINE h == [r \in {} |-> RangeOf(<<>>, r, distinct)]
    <3>1. Dom(0) = {}
      BY <1>1
    <3>2. Ok(h, 0)
      BY <3>1
    <3>3. QED
      BY <2>1, <2>2, <3>2
  <2>3. CASE k # 0
    <3>1. k \in Nat /\ k - 1 \in Nat /\ ~(k <= k - 1)
      BY <2>1, <2>3
    <3>2. PICK g : Ok(g, k - 1)
      <4>1. k - 1 \notin Bad
        <5> HIDE DEF Bad
        <5> QED
          BY <2>1, <3>1
      <4> HIDE DEF Ok
      <4>2. QED
        BY <3>1, <4>1
    <3> DEFINE h == [r \in Dom(k) |-> RangeOf(g, r, distinct)]
    <3>3. ASSUME NEW r \in Dom(k - 1) PROVE g[r] = RangeOf(g, r, distinct)
      <4> HIDE DEF Dom
      <4> QED
        BY <3>2
    <3>4. Dom(k - 1) \subseteq Dom(k)
      BY <1>1, <3>1
    <3>5. ASSUME NEW r \in Dom(k - 1) PROVE h[r] = g[r]
      <4> HIDE DEF Dom
      <4> QED
        BY <3>3, <3>4
    <3>6. ASSUME NEW r \in Dom(k) PROVE RangeOf(h, r, distinct) = RangeOf(g, r, distinct)
      <4>1. ASSUME NEW d \in Quads, r.level # LastLevel PROVE h[RangeBelow(r, d)] = g[RangeBelow(r, d)]
        <5>0. r \in Ranges
          OBVIOUS
        <5>1. RangeBelow(r, d) \in Ranges /\ RangeBelow(r, d).level = r.level + 1
          <6> HIDE DEF Dom, h
          <6> QED
            BY <4>1, <5>0, RangeBelowType
        <5>2. RangeBelow(r, d) \in Dom(k - 1)
          <6>1. k \in Nat /\ r.level \in 0..(m - 1) /\ m - r.level <= k
            BY <1>1, <2>1, <5>0
          <6>2. m - RangeBelow(r, d).level <= k - 1
            BY <1>1, <5>1, <6>1
          <6> HIDE DEF h
          <6>3. QED
            BY <5>1, <6>2
        <5> HIDE DEF h
        <5>3. QED
          BY <3>5, <5>2
      <4> HIDE DEF h
      <4>2. QED
        BY <4>1, RangeOfDepends
    <3>7. Ok(h, k)
      <4>1. ASSUME NEW r \in Dom(k) PROVE h[r] = RangeOf(h, r, distinct)
        <5>1. h[r] = RangeOf(g, r, distinct)
          <6> HIDE DEF Dom
          <6> QED
            OBVIOUS
        <5> HIDE DEF h
        <5>2. QED
          BY <5>1, <3>6
      <4>2. h = [r \in Dom(k) |-> h[r]]
        <5> HIDE DEF Dom
        <5> QED
          OBVIOUS
      <4> HIDE DEF h, Dom
      <4>3. QED
        BY <4>1, <4>2
    <3>8. QED
      BY <2>1, <3>7
  <2>4. QED
    BY <2>2, <2>3
<1>3. PICK h : Ok(h, m)
  BY <1>1, <1>2
<1>4. Dom(m) = Ranges
  BY <1>1
<1> HIDE DEF Dom
<1>5. QED
  BY <1>3, <1>4 DEF Recurses

\* extract is the recursion from the whole range.
LEMMA ExtractIs ==
  ASSUME WellFormed, NEW start, NEW end, NEW distinct
  PROVE  \E h : /\ Recurses(h, distinct)
                /\ extract(start, end, distinct) =
                     IF start >= end \/ end > n \/ n_levels = 0 THEN <<>>
                     ELSE h[[level |-> 0, start |-> start, end |-> end, prefix |-> 0]]
<1> DEFINE cnt(r, d) == rank_in(r.level, d, r.end) - rank_in(r.level, d, r.start)
           from(r, d) == child_start(r.level, d, r.start)
           symbol(r, d) == r.prefix * 4 + d
           below(f, r, d) == f[[level |-> r.level + 1, start |-> from(r, d),
                                end |-> from(r, d) + cnt(r, d), prefix |-> symbol(r, d)]]
           part(f, r, d) == IF cnt(r, d) = 0 THEN <<>>
                            ELSE IF r.level = LastLevel THEN Repeat(symbol(r, d), copies(distinct, cnt(r, d)))
                            ELSE below(f, r, d)
           G(f) == [r \in Ranges |->
                     IF r.start >= r.end THEN <<>>
                     ELSE IF r.end - r.start = 1
                            THEN <<extract_singleton_from(r.level, r.start, r.prefix)>>
                     ELSE part(f, r, 0) \o part(f, r, 1) \o part(f, r, 2) \o part(f, r, 3)]
           rec == CHOOSE f : f = G(f)
<1>1. extract(start, end, distinct) = IF start >= end \/ end > n \/ n_levels = 0 THEN <<>>
                     ELSE rec[[level |-> 0, start |-> start, end |-> end, prefix |-> 0]]
  BY DEF extract
<1>2. ASSUME NEW f, NEW r \in Ranges, NEW d \in Quads PROVE part(f, r, d) = DigitOf(f, r, d, distinct)
  <2>1. cnt(r, d) = Width(RangeBelow(r, d))
    BY RangeBelowType
  <2>2. from(r, d) = RangeBelow(r, d).start /\ from(r, d) + cnt(r, d) = RangeBelow(r, d).end
    <3>1. from(r, d) = RangeBelow(r, d).start
      BY DEF child_start, RangeBelow
    <3>2. n \in Nat /\ RangeBelow(r, d).start \in 0..n /\ RangeBelow(r, d).end \in 0..n
      BY RangeBelowType DEF WellFormed
    <3> HIDE DEF cnt, from
    <3>3. QED
      BY <2>1, <3>1, <3>2 DEF Width
  <2>3. below(f, r, d) = f[RangeBelow(r, d)]
    <3> HIDE DEF cnt, from
    <3>1. [level |-> r.level + 1, start |-> from(r, d), end |-> from(r, d) + cnt(r, d),
           prefix |-> symbol(r, d)] = RangeBelow(r, d)
      BY <2>2 DEF RangeBelow
    <3>2. QED
      BY <3>1
  <2> HIDE DEF cnt, below
  <2>4. QED
    BY <2>1, <2>3 DEF DigitOf
<1>3. 0 \in Quads /\ 1 \in Quads /\ 2 \in Quads /\ 3 \in Quads
  BY DEF Quads
<1> HIDE DEF part
<1>4. ASSUME NEW f PROVE G(f) = [r \in Ranges |-> RangeOf(f, r, distinct)]
  BY <1>2, <1>3 DEF RangeOf
<1>5. PICK h : Recurses(h, distinct)
  BY RecursesExists
<1>6. h = G(h)
  <2> HIDE DEF G
  <2> QED
    BY <1>4, <1>5 DEF Recurses
<1>7. rec = G(rec)
  <2> HIDE DEF G
  <2> QED
    BY <1>6
<1> HIDE DEF rec, G
<1>8. Recurses(rec, distinct)
  BY <1>4, <1>7 DEF Recurses
<1>9. QED
  BY <1>1, <1>8

------------------------------------------------------------------------------
\* The rows of a range, and those of them with a symbol, or with some digits.
RangeRows(r) == {p \in 0..(n - 1) : r.start <= Track[r.level][p] /\ Track[r.level][p] < r.end}
With(R, symbol) == {p \in R : indexed[p] = symbol}
WithDigit(R, l, d) == {p \in R : digit(indexed[p], l) = d}

\* All of them stand below the prefix.
Prefixed(r) == \A p \in RangeRows(r) : Top(indexed[p], r.level) = r.prefix

\* The rows below a range are its rows with the digit.
LEMMA RowsBelow ==
  ASSUME Indexes, NEW r \in Ranges, Prefixed(r), NEW d \in Quads
  PROVE  /\ RangeRows(RangeBelow(r, d)) = WithDigit(RangeRows(r), r.level, d)
         /\ Prefixed(RangeBelow(r, d))
<1> DEFINE l == r.level
           P == 0..(n - 1)
           v == qv(l)
           b == RangeBelow(r, d)
<1>1. WellFormed /\ n \in Nat
  BY DEF Indexes, WellFormed
<1>2. l \in 0..LastLevel /\ r.start \in 0..n /\ r.end \in 0..n
  BY DEF Ranges
<1>3. b.level = l + 1 /\ b.prefix = r.prefix * 4 + d /\ b.start = ChildOf(v, n, d, r.start) /\ b.end = ChildOf(v, n, d, r.end)
  BY <1>1, RangeBelowType
<1>4. \A p \in P : v[p] \in Quads
  BY <1>1, <1>2 DEF WellFormed
<1> HIDE DEF b, v, l
<1>5. ASSUME NEW p \in P PROVE p \in RangeRows(b) <=> p \in WithDigit(RangeRows(r), l, d)
  <2> DEFINE x == Track[l][p]
  <2>1. /\ x \in P /\ v[x] = digit(indexed[p], l)
        /\ Track[l + 1][p] = ChildOf(v, n, v[x], x)
    BY <1>2, TrackIs DEF v
  <2>2. p \in RangeRows(r) <=> (r.start <= x /\ x < r.end)
    BY DEF RangeRows, l
  <2>3. p \in RangeRows(b) <=> (b.start <= Track[l + 1][p] /\ Track[l + 1][p] < b.end)
    BY <1>3 DEF RangeRows
  <2> HIDE DEF x
  <2>4. (b.start <= Track[l + 1][p] /\ Track[l + 1][p] < b.end) <=> (r.start <= x /\ x < r.end /\ v[x] = d)
    BY <1>1, <1>2, <1>3, <1>4, <2>1, ChildSlots
  <2>5. QED
    BY <2>1, <2>2, <2>3, <2>4 DEF WithDigit
<1>6. RangeRows(b) = WithDigit(RangeRows(r), l, d)
  BY <1>5 DEF RangeRows, WithDigit
<1>7. ASSUME NEW p \in RangeRows(b) PROVE Top(indexed[p], b.level) = b.prefix
  <2>1. p \in P /\ p \in RangeRows(r) /\ digit(indexed[p], l) = d
    BY <1>6, <1>7 DEF WithDigit, RangeRows
  <2>2. Top(indexed[p], l + 1) = Top(indexed[p], l) * 4 + d /\ Top(indexed[p], l) = r.prefix
    BY <1>2, <2>1, TrackIs DEF Prefixed, l
  <2>3. QED
    BY <1>3, <2>2
<1>8. QED
  BY <1>6, <1>7 DEF Prefixed, b, l

\* A range has as many rows as it is wide.
LEMMA RangeSize ==
  ASSUME Indexes, NEW l \in 0..n_levels, NEW a \in 0..n, NEW b \in 0..n
  PROVE  LET R == {p \in 0..(n - 1) : a <= Track[l][p] /\ Track[l][p] < b}
         IN  IsFiniteSet(R) /\ Cardinality(R) = IF a < b THEN b - a ELSE 0
<1> DEFINE P == 0..(n - 1)
           t == Track[l]
           A == {p \in P : a <= t[p] /\ t[p] < b}
           B == a..(b - 1)
           h == [p \in A |-> t[p]]
<1>1. n \in Nat /\ a \in 0..n /\ b \in 0..n
  BY DEF Indexes, WellFormed
<1>3. /\ t \in [P -> P]
      /\ \A p, q \in P : t[p] = t[q] => p = q
      /\ \A x \in P : \E p \in P : t[p] = x
  BY TrackBijective
<1> HIDE DEF t
<1>4. \A p : p \in A <=> (p \in P /\ a <= t[p] /\ t[p] < b)
  OBVIOUS
<1> HIDE DEF A
<1>5. h \in [A -> B]
  <2>1. ASSUME NEW p \in A PROVE t[p] \in B
    <3>1. t[p] \in P /\ a <= t[p] /\ t[p] < b
      BY <1>3, <1>4
    <3>2. QED
      BY <1>1, <3>1
  <2> HIDE DEF B
  <2>2. QED
    BY <2>1
<1>6. \A p, q \in A : h[p] = h[q] => p = q
  BY <1>3, <1>4
<1>7. ASSUME NEW y \in B PROVE \E p \in A : h[p] = y
  <2>1. y \in P /\ a <= y /\ y < b
    BY <1>1
  <2>2. PICK p \in P : t[p] = y
    BY <1>3, <2>1
  <2>3. p \in A
    BY <1>4, <2>1, <2>2
  <2>4. QED
    BY <2>2, <2>3
<1> HIDE DEF h
<1>9. IsFiniteSet(A)
  <2>1. IsFiniteSet(P)
    BY <1>1, FS_Interval
  <2>2. A \subseteq P
    BY <1>4
  <2>3. QED
    BY <2>1, <2>2, FS_Subset
<1>10. Cardinality(B) = IF a < b THEN b - a ELSE 0
  <2> DEFINE c == b - 1
  <2>1. a \in Int /\ c \in Int /\ (a > c <=> ~(a < b)) /\ c - a + 1 = b - a
    BY <1>1
  <2>2. Cardinality(a..c) = IF a > c THEN 0 ELSE c - a + 1
    <3> HIDE DEF c
    <3> QED
      BY <2>1, FS_Interval
  <2>3. QED
    BY <2>1, <2>2
<1> HIDE DEF B
<1>11. h \in Bijection(A, B)
  BY <1>5, <1>6, <1>7, Fun_IsBij
<1>12. Cardinality(B) = Cardinality(A)
  <2>1. ExistsBijection(A, B)
    BY <1>11, Fun_ExistsBij
  <2>2. QED
    BY <1>9, <2>1, FS_Bijection
<1>13. QED
  BY <1>9, <1>10, <1>12 DEF A, t

\* Symbols that agree above a level are in the order of their digits there.
LEMMA DigitsOrder ==
  ASSUME n_levels \in Nat, NEW l \in 0..LastLevel, NEW x \in Nat, NEW y \in Nat,
         Top(x, l) = Top(y, l), digit(x, l) < digit(y, l)
  PROVE  x < y
<1> SUFFICES ASSUME y <= x PROVE FALSE
  OBVIOUS
<1> DEFINE q == Quarters(n_levels - (l + 1))
<1>1. q \in Nat \ {0}
  <2>1. n_levels - (l + 1) \in Nat
    BY DEF LastLevel
  <2>2. QED
    BY <2>1, QuartersStep
<1>2. /\ x \div q = Top(x, l) * 4 + digit(x, l) /\ y \div q = Top(y, l) * 4 + digit(y, l)
      /\ digit(x, l) \in 0..3 /\ digit(y, l) \in 0..3
  BY TopStep DEF Top, Quads
<1>3. Top(x, l) \in Nat
  <2>1. l \in 0..n_levels
    BY DEF LastLevel
  <2>2. QED
    BY <2>1, TopStep
<1> HIDE DEF q
<1>4. y \div q \in 0..(x \div q)
  BY <1>1, DivMono
<1>5. QED
  BY <1>2, <1>3, <1>4

\* How long a sorted sequence of the symbols of R is, with every symbol as often as
\* it occurs or once.
SizeOf(R, distinct) == Cardinality(IF distinct THEN {indexed[p] : p \in R} ELSE R)
Times(out, symbol) == Cardinality({k \in DOMAIN out : out[k] = symbol})

Sorts(out, R, distinct) ==
  /\ out \in Seq(Nat)
  /\ Ascending(out)
  /\ \A k \in 1..Len(out) : \E p \in R : indexed[p] = out[k]
  /\ Len(out) = SizeOf(R, distinct)
  /\ \A symbol \in Nat : Times(out, symbol) = SizeOf(With(R, symbol), distinct)

\* Sizes of sets of rows that have no symbol in common add up.
LEMMA SizeOfUnion ==
  ASSUME NEW R, NEW S, IsFiniteSet(R), IsFiniteSet(S), NEW distinct \in BOOLEAN,
         \A p \in R, q \in S : indexed[p] # indexed[q]
  PROVE  /\ SizeOf(R \cup S, distinct) = SizeOf(R, distinct) + SizeOf(S, distinct)
         /\ SizeOf(R, distinct) \in Nat /\ SizeOf(S, distinct) \in Nat
<1> DEFINE I(T) == IF distinct THEN {indexed[p] : p \in T} ELSE T
<1>1. IsFiniteSet(I(R)) /\ IsFiniteSet(I(S))
  <2>1. IsFiniteSet({indexed[p] : p \in R}) /\ IsFiniteSet({indexed[p] : p \in S})
    <3>1. ASSUME NEW T, IsFiniteSet(T) PROVE IsFiniteSet({indexed[p] : p \in T})
      <4> DEFINE f == [p \in T |-> indexed[p]]
                 U == {indexed[p] : p \in T}
      <4>1. f \in [T -> U] /\ \A u \in U : \E p \in T : f[p] = u
        OBVIOUS
      <4> HIDE DEF f, U
      <4>2. f \in Surjection(T, U)
        BY <4>1 DEF Surjection
      <4>3. IsFiniteSet(U)
        BY <3>1, <4>2, FS_Surjection
      <4>4. QED
        BY <4>3 DEF U
    <3>2. QED
      BY <3>1
  <2>2. QED
    BY <2>1
<1>2. I(R \cup S) = I(R) \cup I(S) /\ I(R) \cap I(S) = {}
  <2>1. CASE distinct
    BY <2>1
  <2>2. CASE ~distinct
    BY <2>2
  <2>3. QED
    BY <2>1, <2>2
<1>3. \A T : SizeOf(T, distinct) = Cardinality(I(T))
  BY DEF SizeOf
<1> HIDE DEF I
<1>4. Cardinality(I(R) \cup I(S)) = Cardinality(I(R)) + Cardinality(I(S)) - Cardinality(I(R) \cap I(S))
  BY <1>1, FS_Union
<1>5. Cardinality(I(R)) \in Nat /\ Cardinality(I(S)) \in Nat
  BY <1>1, FS_CardinalityType
<1>6. Cardinality({}) = 0
  BY FS_EmptySet
<1>7. Cardinality(I(R \cup S)) = Cardinality(I(R)) + Cardinality(I(S))
  <2> DEFINE a == Cardinality(I(R))
             b == Cardinality(I(S))
  <2>1. a \in Nat /\ b \in Nat /\ Cardinality(I(R \cup S)) = a + b - 0
    BY <1>2, <1>4, <1>5, <1>6
  <2> HIDE DEF a, b
  <2>2. Cardinality(I(R \cup S)) = a + b
    BY <2>1
  <2>3. QED
    BY <2>2 DEF a, b
<1>8. QED
  BY <1>3, <1>5, <1>7

\* How often a symbol stands in a concatenation.
LEMMA TimesConcat ==
  ASSUME NEW s \in Seq(Nat), NEW t \in Seq(Nat), NEW x
  PROVE  /\ Times(s \o t, x) = Times(s, x) + Times(t, x)
         /\ Times(s, x) \in Nat /\ Times(t, x) \in Nat
<1> DEFINE u == s \o t
           A == {k \in 1..Len(s) : s[k] = x}
           B == {k \in 1..Len(t) : t[k] = x}
           C == {k \in 1..Len(u) : u[k] = x}
           h == [k \in B |-> k + Len(s)]
           D == {k + Len(s) : k \in B}
<1>1. /\ Len(s) \in Nat /\ Len(t) \in Nat /\ Len(u) = Len(s) + Len(t)
      /\ \A k \in 1..Len(s) : u[k] = s[k]
      /\ \A k \in 1..Len(t) : u[k + Len(s)] = t[k]
      /\ DOMAIN s = 1..Len(s) /\ DOMAIN t = 1..Len(t) /\ DOMAIN u = 1..Len(u)
  OBVIOUS
<1> HIDE DEF u
<1>2. IsFiniteSet(A) /\ IsFiniteSet(B)
  <2>1. IsFiniteSet(1..Len(s)) /\ IsFiniteSet(1..Len(t))
    BY <1>1, FS_Interval
  <2>2. A \subseteq 1..Len(s) /\ B \subseteq 1..Len(t)
    OBVIOUS
  <2>3. QED
    BY <2>1, <2>2, FS_Subset
<1>3. C = A \cup D /\ A \cap D = {}
  <2>1. ASSUME NEW k \in C PROVE k \in A \cup D
    <3>1. CASE k <= Len(s)
      <4>1. k \in 1..Len(s) /\ s[k] = x
        BY <1>1, <3>1
      <4>2. QED
        BY <4>1
    <3>2. CASE ~(k <= Len(s))
      <4> DEFINE j == k - Len(s)
      <4>1. j \in 1..Len(t) /\ k = j + Len(s)
        BY <1>1, <3>2
      <4> HIDE DEF j
      <4>2. j \in B
        BY <1>1, <4>1
      <4>3. QED
        BY <4>1, <4>2
    <3>3. QED
      BY <3>1, <3>2
  <2>2. ASSUME NEW k \in A PROVE k \in C /\ k \notin D
    BY <1>1
  <2>3. ASSUME NEW k \in D PROVE k \in C
    <3>1. PICK j \in B : k = j + Len(s)
      OBVIOUS
    <3>2. j \in 1..Len(t) /\ t[j] = x
      OBVIOUS
    <3>3. k \in 1..Len(u) /\ u[k] = x
      BY <1>1, <3>1, <3>2
    <3>4. QED
      BY <3>3
  <2> HIDE DEF A, C, D
  <2>4. QED
    BY <2>1, <2>2, <2>3
<1>4. IsFiniteSet(D) /\ Cardinality(D) = Cardinality(B)
  <2>1. \A k \in B : k \in Nat
    OBVIOUS
  <2> HIDE DEF B
  <2>2. h \in Bijection(B, D)
    <3>1. h \in [B -> D]
      OBVIOUS
    <3>2. \A j, k \in B : h[j] = h[k] => j = k
      BY <1>1, <2>1
    <3>3. \A y \in D : \E k \in B : h[k] = y
      OBVIOUS
    <3> HIDE DEF h, D
    <3>4. QED
      BY <3>1, <3>2, <3>3, Fun_IsBij
  <2> HIDE DEF h, D
  <2>3. ExistsBijection(B, D)
    BY <2>2, Fun_ExistsBij
  <2>4. QED
    BY <1>2, <2>3, FS_Bijection
<1>5. Times(s, x) = Cardinality(A) /\ Times(t, x) = Cardinality(B) /\ Times(u, x) = Cardinality(C)
  BY <1>1 DEF Times
<1> HIDE DEF A, B, C, D
<1>6. Cardinality(A \cup D) = Cardinality(A) + Cardinality(D) - Cardinality(A \cap D)
  BY <1>2, <1>4, FS_Union
<1>7. Cardinality({}) = 0 /\ Cardinality(A) \in Nat /\ Cardinality(B) \in Nat
  BY <1>2, FS_EmptySet, FS_CardinalityType
<1>8. Cardinality(C) = Cardinality(A) + Cardinality(B)
  <2> DEFINE a == Cardinality(A)
             b == Cardinality(B)
  <2>1. a \in Nat /\ b \in Nat /\ Cardinality(C) = a + b - 0
    BY <1>3, <1>4, <1>6, <1>7
  <2> HIDE DEF a, b
  <2>2. Cardinality(C) = a + b
    BY <2>1
  <2>3. QED
    BY <2>2 DEF a, b
<1>9. QED
  BY <1>5, <1>7, <1>8 DEF u

\* Sorted symbols after sorted symbols that are all smaller are sorted.
LEMMA SortedConcat ==
  ASSUME NEW R, NEW S, IsFiniteSet(R), IsFiniteSet(S), NEW distinct \in BOOLEAN,
         \A p \in R, q \in S : indexed[p] \in Nat /\ indexed[q] \in Nat /\ indexed[p] < indexed[q],
         NEW s, NEW t, Sorts(s, R, distinct), Sorts(t, S, distinct)
  PROVE  Sorts(s \o t, R \cup S, distinct)
<1> DEFINE u == s \o t
<1>1. /\ s \in Seq(Nat) /\ Ascending(s) /\ Len(s) = SizeOf(R, distinct)
      /\ \A k \in 1..Len(s) : \E p \in R : indexed[p] = s[k]
      /\ \A x \in Nat : Times(s, x) = SizeOf(With(R, x), distinct)
  BY DEF Sorts
<1>2. /\ t \in Seq(Nat) /\ Ascending(t) /\ Len(t) = SizeOf(S, distinct)
      /\ \A k \in 1..Len(t) : \E p \in S : indexed[p] = t[k]
      /\ \A x \in Nat : Times(t, x) = SizeOf(With(S, x), distinct)
  BY DEF Sorts
<1>3. /\ u \in Seq(Nat) /\ Len(s) \in Nat /\ Len(t) \in Nat /\ Len(u) = Len(s) + Len(t)
      /\ \A k \in 1..Len(s) : u[k] = s[k] /\ s[k] \in Nat
      /\ \A k \in 1..Len(t) : u[k + Len(s)] = t[k] /\ t[k] \in Nat
      /\ DOMAIN s = 1..Len(s) /\ DOMAIN t = 1..Len(t) /\ DOMAIN u = 1..Len(u)
  <2>1. s \in Seq(Nat) /\ t \in Seq(Nat)
    BY <1>1, <1>2
  <2>2. u \in Seq(Nat) /\ Len(s) \in Nat /\ Len(t) \in Nat /\ Len(u) = Len(s) + Len(t)
    BY <2>1
  <2>3. \A k \in 1..Len(s) : u[k] = s[k] /\ s[k] \in Nat
    BY <2>1
  <2>4. \A k \in 1..Len(t) : u[k + Len(s)] = t[k] /\ t[k] \in Nat
    BY <2>1
  <2>5. DOMAIN s = 1..Len(s) /\ DOMAIN t = 1..Len(t) /\ DOMAIN u = 1..Len(u)
    BY <2>1
  <2>6. QED
    BY <2>2, <2>3, <2>4, <2>5
<1> HIDE DEF u
<1>4. \A k \in 1..Len(u) : k \in 1..Len(s) \/ \E j \in 1..Len(t) : k = j + Len(s)
  <2> SUFFICES ASSUME NEW k \in 1..Len(u), k \notin 1..Len(s)
               PROVE  k - Len(s) \in 1..Len(t) /\ k = (k - Len(s)) + Len(s)
    OBVIOUS
  <2>1. QED
    BY <1>3
<1>5. ASSUME NEW x \in DOMAIN u, NEW y \in DOMAIN u, x < y PROVE u[x] <= u[y]
  <2>1. CASE x \in 1..Len(s) /\ y \in 1..Len(s)
    BY <1>1, <1>3, <1>5, <2>1 DEF Ascending
  <2>2. CASE x \in 1..Len(s) /\ y \notin 1..Len(s)
    <3>1. PICK j \in 1..Len(t) : y = j + Len(s)
      BY <1>3, <1>4, <2>2
    <3>2. PICK p \in R : indexed[p] = s[x]
      BY <1>1, <2>2
    <3>3. PICK q \in S : indexed[q] = t[j]
      BY <1>2
    <3>4. u[x] = indexed[p] /\ u[y] = indexed[q]
      BY <1>3, <2>2, <3>1, <3>2, <3>3
    <3>5. QED
      BY <3>4
  <2>3. CASE x \notin 1..Len(s)
    <3>1. PICK i \in 1..Len(t) : x = i + Len(s)
      BY <1>3, <1>4, <2>3
    <3>2. y \notin 1..Len(s)
      BY <1>3, <1>5, <3>1
    <3>3. PICK j \in 1..Len(t) : y = j + Len(s)
      BY <1>3, <1>4, <3>2
    <3>4. i < j
      BY <1>3, <1>5, <3>1, <3>3
    <3>5. t[i] <= t[j]
      BY <1>2, <1>3, <3>4 DEF Ascending
    <3>6. QED
      BY <1>3, <3>1, <3>3, <3>5
  <2>4. QED
    BY <2>1, <2>2, <2>3
<1>6. ASSUME NEW k \in 1..Len(u) PROVE \E p \in R \cup S : indexed[p] = u[k]
  <2>1. CASE k \in 1..Len(s)
    BY <1>1, <1>3, <2>1
  <2>2. CASE k \notin 1..Len(s)
    <3>1. PICK j \in 1..Len(t) : k = j + Len(s)
      BY <1>4, <2>2
    <3>2. u[k] = t[j]
      BY <1>3, <3>1
    <3>3. QED
      BY <1>2, <3>2
  <2>3. QED
    BY <2>1, <2>2
<1>7. Len(u) = SizeOf(R \cup S, distinct)
  <2>1. \A p \in R, q \in S : indexed[p] # indexed[q]
    OBVIOUS
  <2>2. QED
    BY <1>1, <1>2, <1>3, <2>1, SizeOfUnion
<1>8. ASSUME NEW x \in Nat PROVE Times(u, x) = SizeOf(With(R \cup S, x), distinct)
  <2>1. With(R \cup S, x) = With(R, x) \cup With(S, x)
    BY DEF With
  <2>2. IsFiniteSet(With(R, x)) /\ IsFiniteSet(With(S, x))
    <3>1. With(R, x) \subseteq R /\ With(S, x) \subseteq S
      BY DEF With
    <3>2. QED
      BY <3>1, FS_Subset
  <2>3. \A p \in With(R, x), q \in With(S, x) : indexed[p] # indexed[q]
    BY DEF With
  <2>4. SizeOf(With(R, x) \cup With(S, x), distinct) = SizeOf(With(R, x), distinct) + SizeOf(With(S, x), distinct)
    BY <2>2, <2>3, SizeOfUnion
  <2>5. Times(u, x) = Times(s, x) + Times(t, x)
    BY <1>1, <1>2, TimesConcat DEF u
  <2>6. QED
    BY <1>1, <1>2, <2>1, <2>4, <2>5
<1>9. Ascending(u)
  BY <1>5 DEF Ascending
<1>10. Sorts(u, R \cup S, distinct)
  BY <1>3, <1>6, <1>7, <1>8, <1>9 DEF Sorts
<1>11. QED
  BY <1>10 DEF u

\* So is one symbol, as often as there are rows with it or once, and nothing for no rows.
LEMMA SortedSame ==
  ASSUME NEW R, IsFiniteSet(R), R # {}, NEW distinct \in BOOLEAN, NEW x \in Nat,
         \A p \in R : indexed[p] = x
  PROVE  Sorts(Repeat(x, copies(distinct, Cardinality(R))), R, distinct)
<1> DEFINE m == copies(distinct, Cardinality(R))
           out == Repeat(x, m)
<1>1. m = SizeOf(R, distinct) /\ m \in Nat
  <2>1. CASE distinct
    <3>1. {indexed[p] : p \in R} = {x}
      OBVIOUS
    <3>2. QED
      BY <2>1, <3>1, FS_Singleton DEF SizeOf, copies
  <2>2. CASE ~distinct
    BY <2>2, FS_CardinalityType DEF SizeOf, copies
  <2>3. QED
    BY <2>1, <2>2
<1> HIDE DEF m
<1>2. out \in Seq(Nat) /\ Len(out) = m /\ DOMAIN out = 1..m /\ \A k \in 1..m : out[k] = x
  BY <1>1 DEF Repeat
<1> HIDE DEF out
<1>3. Ascending(out)
  BY <1>2 DEF Ascending
<1>4. ASSUME NEW k \in 1..Len(out) PROVE \E p \in R : indexed[p] = out[k]
  BY <1>2
<1>5. ASSUME NEW symbol \in Nat PROVE Times(out, symbol) = SizeOf(With(R, symbol), distinct)
  <2>1. CASE symbol = x
    <3>1. With(R, symbol) = R
      BY <2>1 DEF With
    <3>2. {k \in DOMAIN out : out[k] = symbol} = 1..m
      BY <1>2, <2>1
    <3>3. Cardinality(1..m) = m
      BY <1>1, FS_Interval
    <3>4. QED
      BY <1>1, <3>1, <3>2, <3>3 DEF Times
  <2>2. CASE symbol # x
    <3>1. With(R, symbol) = {}
      BY <2>2 DEF With
    <3>2. {k \in DOMAIN out : out[k] = symbol} = {}
      BY <1>2, <2>2
    <3>3. {indexed[p] : p \in {}} = {}
      OBVIOUS
    <3>4. QED
      BY <3>1, <3>2, <3>3 DEF Times, SizeOf
  <2>3. QED
    BY <2>1, <2>2
<1>6. QED
  BY <1>1, <1>2, <1>3, <1>4, <1>5 DEF Sorts, out, m

\* No rows give no symbols.
LEMMA SortedNone == ASSUME NEW distinct \in BOOLEAN PROVE Sorts(<<>>, {}, distinct)
<1>1. <<>> \in Seq(Nat) /\ Len(<<>>) = 0 /\ DOMAIN <<>> = {} /\ 1..0 = {}
  OBVIOUS
<1>2. \A symbol : With({}, symbol) = {}
  BY DEF With
<1>3. {indexed[p] : p \in {}} = {}
  OBVIOUS
<1>4. SizeOf({}, distinct) = 0
  BY <1>3, FS_EmptySet DEF SizeOf
<1>5. \A symbol : Times(<<>>, symbol) = 0
  BY <1>1, FS_EmptySet DEF Times
<1>6. Ascending(<<>>)
  BY <1>1 DEF Ascending
<1>7. QED
  BY <1>1, <1>2, <1>4, <1>5, <1>6 DEF Sorts

\* A range of several rows: if what is made of the ranges below it is sorted, then
\* what is made of each of its digits is.
LEMMA DigitSorted ==
  ASSUME Indexes, NEW distinct \in BOOLEAN, NEW r \in Ranges, Prefixed(r), r.start < r.end,
         NEW d \in Quads, NEW h,
         (r.level # LastLevel) =>
            Sorts(h[RangeBelow(r, d)], RangeRows(RangeBelow(r, d)), distinct)
  PROVE  Sorts(DigitOf(h, r, d, distinct), WithDigit(RangeRows(r), r.level, d), distinct)
<1> DEFINE b == RangeBelow(r, d)
           W == WithDigit(RangeRows(r), r.level, d)
<1>1. WellFormed /\ n \in Nat /\ n_levels \in Nat \ {0} /\ LastLevel = n_levels - 1
  BY DEF Indexes, WellFormed, LastLevel
<1>2. r.level \in 0..LastLevel /\ r.start \in 0..n /\ r.end \in 0..n /\ r.prefix \in Nat
  BY DEF Ranges
<1>3. /\ b.level = r.level + 1 /\ b.prefix = r.prefix * 4 + d /\ b.start \in 0..n /\ b.end \in 0..n
      /\ Width(b) = rank_in(r.level, d, r.end) - rank_in(r.level, d, r.start)
  BY <1>1, RangeBelowType
<1>4. RangeRows(b) = W /\ Prefixed(b)
  BY RowsBelow
<1>5. Width(b) >= 0
  <2>1. /\ rank_in(r.level, d, r.start) \in Nat /\ rank_in(r.level, d, r.end) \in Nat
        /\ rank_in(r.level, d, r.start) <= rank_in(r.level, d, r.end)
    BY <1>1, <1>2, CountType, CountMono DEF rank_in
  <2>2. QED
    BY <1>3, <2>1
<1> HIDE DEF b, W
<1>6. IsFiniteSet(W) /\ Cardinality(W) = Width(b) /\ Width(b) \in Nat
  <2>1. b.level \in 0..n_levels
    BY <1>1, <1>2, <1>3
  <2>2. IsFiniteSet(W) /\ Cardinality(W) = IF b.start < b.end THEN b.end - b.start ELSE 0
    BY <1>3, <1>4, <2>1, RangeSize DEF RangeRows
  <2>3. QED
    BY <1>1, <1>3, <1>5, <2>2 DEF Width
<1>7. CASE Width(b) = 0
  <2>1. W = {}
    BY <1>6, <1>7, FS_EmptySet
  <2>2. DigitOf(h, r, d, distinct) = <<>>
    BY <1>7 DEF DigitOf, b
  <2>3. QED
    BY <2>1, <2>2, SortedNone DEF W
<1>8. CASE Width(b) # 0 /\ r.level = LastLevel
  <2>1. b.level = n_levels
    BY <1>1, <1>3, <1>8
  <2>2. \A p \in W : indexed[p] = b.prefix
    <3> SUFFICES ASSUME NEW p \in W PROVE indexed[p] = b.prefix
      OBVIOUS
    <3>1. Top(indexed[p], n_levels) = b.prefix
      BY <1>4, <2>1 DEF Prefixed
    <3>2. indexed[p] \in Nat
      BY <1>4, IndexTrack DEF RangeRows
    <3>3. QED
      BY <1>1, <3>1, <3>2, TopStep
  <2>3. W # {}
    BY <1>6, <1>8, FS_EmptySet
  <2>4. b.prefix \in Nat
    BY <1>2, <1>3 DEF Quads
  <2>5. DigitOf(h, r, d, distinct) = Repeat(b.prefix, copies(distinct, Cardinality(W)))
    BY <1>3, <1>6, <1>8 DEF DigitOf, b
  <2>6. QED
    BY <1>6, <2>2, <2>3, <2>4, <2>5, SortedSame DEF W
<1>9. CASE Width(b) # 0 /\ r.level # LastLevel
  <2>1. DigitOf(h, r, d, distinct) = h[b]
    BY <1>9 DEF DigitOf, b
  <2>2. QED
    BY <1>4, <1>9, <2>1 DEF b, W
<1>10. QED
  BY <1>7, <1>8, <1>9

\* What the recursion makes of a range is what its rows hold, sorted.
LEMMA RangeSorted ==
  ASSUME Indexes, NEW distinct \in BOOLEAN, NEW h, Recurses(h, distinct),
         NEW r \in Ranges, Prefixed(r)
  PROVE  Sorts(h[r], RangeRows(r), distinct)
<1>1. WellFormed /\ n \in Nat /\ n_levels \in Nat \ {0} /\ LastLevel = n_levels - 1
  BY DEF Indexes, WellFormed, LastLevel
<1> DEFINE Bad == {i \in Nat : \E s \in Ranges :
                     Prefixed(s) /\ n_levels - s.level = i /\ ~Sorts(h[s], RangeRows(s), distinct)}
<1>2. Bad = {}
  <2> SUFFICES ASSUME Bad # {} PROVE FALSE
    OBVIOUS
  <2>1. PICK i \in Bad : \A j \in Bad : i <= j
    BY LeastNat
  <2>2. PICK s \in Ranges : Prefixed(s) /\ n_levels - s.level = i /\ ~Sorts(h[s], RangeRows(s), distinct)
    BY <2>1
  <2>3. i \in Nat /\ s.level \in 0..LastLevel /\ s.start \in 0..n /\ s.end \in 0..n
    BY <2>1 DEF Ranges
  <2> DEFINE R == RangeRows(s)
             l == s.level
             W(d) == WithDigit(R, l, d)
             out(d) == DigitOf(h, s, d, distinct)
  <2>4. h[s] = RangeOf(h, s, distinct)
    BY DEF Recurses
  <2>5. IsFiniteSet(R) /\ Cardinality(R) = IF s.start < s.end THEN s.end - s.start ELSE 0
    <3>1. s.level \in 0..n_levels
      BY <1>1, <2>3
    <3>2. QED
      BY <2>3, <3>1, RangeSize DEF RangeRows
  <2>6. CASE s.start >= s.end
    <3>1. ~(s.start < s.end)
      BY <2>3, <2>6
    <3>2. RangeRows(s) = {}
      BY <2>5, <3>1, FS_EmptySet
    <3>3. h[s] = <<>>
      BY <2>4, <2>6 DEF RangeOf
    <3>4. QED
      BY <2>2, <3>2, <3>3, SortedNone
  <2>7. CASE ~(s.start >= s.end) /\ s.end - s.start = 1
    <3>1. Cardinality(R) = 1
      BY <2>3, <2>5, <2>7
    <3>2. PICK p : R = {p}
      BY <2>5, <3>1, FS_Singleton
    <3>3. p \in RangeRows(s) /\ p \in 0..(n - 1)
      BY <3>2 DEF RangeRows
    <3>4. Track[l][p] \in 0..(n - 1) /\ indexed[p] \in Nat
      BY <2>3, <3>3, TrackIs
    <3>5. s.start <= Track[l][p] /\ Track[l][p] < s.end
      BY <3>3 DEF RangeRows
    <3>6. Track[l][p] = s.start
      BY <2>3, <2>7, <3>4, <3>5
    <3>7. s.prefix = Top(indexed[p], l)
      BY <2>2, <3>3 DEF Prefixed
    <3>8. extract_singleton_from(l, s.start, s.prefix) = indexed[p]
      BY <2>3, <3>3, <3>6, <3>7, SingletonIs
    <3>9. h[s] = <<indexed[p]>>
      BY <2>4, <2>7, <3>8 DEF RangeOf
    <3>10. Repeat(indexed[p], copies(distinct, Cardinality(R))) = <<indexed[p]>>
      <4>1. copies(distinct, Cardinality(R)) = 1
        BY <3>1 DEF copies
      <4> DEFINE x == indexed[p]
      <4> HIDE DEF x
      <4>2. Repeat(x, 1) = <<x>>
        BY DEF Repeat
      <4>3. QED
        BY <4>1, <4>2 DEF x
    <3>11. Sorts(<<indexed[p]>>, R, distinct)
      <4>1. R # {} /\ \A q \in R : indexed[q] = indexed[p]
        BY <3>2
      <4>2. Sorts(Repeat(indexed[p], copies(distinct, Cardinality(R))), R, distinct)
        BY <2>5, <3>4, <4>1, SortedSame
      <4>3. QED
        BY <3>10, <4>2
    <3>12. QED
      BY <2>2, <3>9, <3>11
  <2>8. CASE ~(s.start >= s.end) /\ s.end - s.start # 1
    <3>1. s.start < s.end
      BY <2>3, <2>8
    <3>2. ASSUME NEW d \in Quads PROVE Sorts(out(d), W(d), distinct)
      <4>1. ASSUME s.level # LastLevel
            PROVE  Sorts(h[RangeBelow(s, d)], RangeRows(RangeBelow(s, d)), distinct)
        <5>1. RangeBelow(s, d) \in Ranges /\ RangeBelow(s, d).level = s.level + 1
          BY <1>1, <4>1, RangeBelowType
        <5>2. Prefixed(RangeBelow(s, d))
          BY <2>2, RowsBelow
        <5>3. n_levels - RangeBelow(s, d).level \in Nat /\ ~(i <= n_levels - RangeBelow(s, d).level)
          BY <1>1, <2>2, <2>3, <4>1, <5>1
        <5>4. n_levels - RangeBelow(s, d).level \notin Bad
          <6> HIDE DEF Bad
          <6> QED
            BY <2>1, <5>3
        <5>5. QED
          BY <5>1, <5>2, <5>3, <5>4
      <4>2. QED
        BY <2>2, <3>1, <4>1, DigitSorted
    <3>3. ASSUME NEW p \in R, NEW q \in R, digit(indexed[p], l) < digit(indexed[q], l)
          PROVE  indexed[p] \in Nat /\ indexed[q] \in Nat /\ indexed[p] < indexed[q]
      <4>1. p \in 0..(n - 1) /\ q \in 0..(n - 1)
        BY DEF RangeRows
      <4>2. indexed[p] \in Nat /\ indexed[q] \in Nat
        BY <2>3, <4>1, TrackIs
      <4>3. Top(indexed[p], l) = Top(indexed[q], l)
        BY <2>2 DEF Prefixed
      <4>4. QED
        BY <1>1, <2>3, <3>3, <4>2, <4>3, DigitsOrder
    <3>4. \A p \in R : digit(indexed[p], l) \in Quads
      <4> SUFFICES ASSUME NEW p \in R PROVE digit(indexed[p], l) \in Quads
        OBVIOUS
      <4>1. p \in 0..(n - 1)
        BY DEF RangeRows
      <4>2. QED
        BY <2>3, <4>1, TrackIs
    <3>5. \A d \in Quads : IsFiniteSet(W(d)) /\ \A p \in W(d) : p \in R /\ digit(indexed[p], l) = d
      <4>1. \A d : W(d) \subseteq R
        BY DEF WithDigit
      <4>2. \A d : IsFiniteSet(W(d))
        BY <2>5, <4>1, FS_Subset
      <4>3. QED
        BY <4>1, <4>2 DEF WithDigit
    <3>6. R = W(0) \cup W(1) \cup W(2) \cup W(3)
      <4>1. \A p \in R : p \in W(digit(indexed[p], l))
        BY DEF WithDigit
      <4>2. \A d : W(d) \subseteq R
        BY DEF WithDigit
      <4> HIDE DEF W
      <4>3. QED
        BY <3>4, <4>1, <4>2 DEF Quads
    <3>7. 0 \in Quads /\ 1 \in Quads /\ 2 \in Quads /\ 3 \in Quads
      BY DEF Quads
    <3> HIDE DEF W, out, R
    <3>8. Sorts(out(0) \o out(1), W(0) \cup W(1), distinct)
      <4>1. \A p \in W(0), q \in W(1) : indexed[p] \in Nat /\ indexed[q] \in Nat /\ indexed[p] < indexed[q]
        BY <3>3, <3>5, <3>7
      <4>2. QED
        BY <3>2, <3>5, <3>7, <4>1, SortedConcat
    <3>9. Sorts(out(0) \o out(1) \o out(2), W(0) \cup W(1) \cup W(2), distinct)
      <4>1. \A p \in W(0) \cup W(1), q \in W(2) :
               indexed[p] \in Nat /\ indexed[q] \in Nat /\ indexed[p] < indexed[q]
        BY <3>3, <3>5, <3>7
      <4>2. IsFiniteSet(W(0) \cup W(1))
        BY <3>5, <3>7, FS_Union
      <4>3. QED
        BY <3>2, <3>5, <3>7, <3>8, <4>1, <4>2, SortedConcat
    <3>10. Sorts(out(0) \o out(1) \o out(2) \o out(3), W(0) \cup W(1) \cup W(2) \cup W(3), distinct)
      <4>1. \A p \in W(0) \cup W(1) \cup W(2), q \in W(3) :
               indexed[p] \in Nat /\ indexed[q] \in Nat /\ indexed[p] < indexed[q]
        BY <3>3, <3>5, <3>7
      <4>2. IsFiniteSet(W(0) \cup W(1)) /\ IsFiniteSet(W(2))
        BY <3>5, <3>7, FS_Union
      <4>3. IsFiniteSet(W(0) \cup W(1) \cup W(2))
        BY <4>2, FS_Union
      <4>4. QED
        BY <3>2, <3>5, <3>7, <3>9, <4>1, <4>3, SortedConcat
    <3>11. h[s] = out(0) \o out(1) \o out(2) \o out(3)
      BY <2>4, <2>8 DEF RangeOf, out
    <3>12. QED
      BY <2>2, <3>6, <3>10, <3>11 DEF R
  <2>9. QED
    BY <2>6, <2>7, <2>8
<1>3. n_levels - r.level \in Nat
  BY <1>1 DEF Ranges
<1>4. n_levels - r.level \notin Bad
  BY <1>2
<1>5. QED
  BY <1>3, <1>4

\* extract_range and extract_range_distinct sort what the rows of the range hold.
LEMMA ExtractSorts ==
  ASSUME Indexes, NEW a \in 0..n, NEW b \in 0..n, a < b, NEW distinct \in BOOLEAN
  PROVE  Sorts(extract(a, b, distinct), a..(b - 1), distinct)
<1> DEFINE r == [level |-> 0, start |-> a, end |-> b, prefix |-> 0]
<1>1. WellFormed /\ n \in Nat /\ n_levels \in Nat \ {0} /\ LastLevel = n_levels - 1
  BY DEF Indexes, WellFormed, LastLevel
<1>2. PICK h : /\ Recurses(h, distinct)
               /\ extract(a, b, distinct) =
                     IF a >= b \/ b > n \/ n_levels = 0 THEN <<>> ELSE h[r]
  BY <1>1, ExtractIs
<1>3. extract(a, b, distinct) = h[r]
  BY <1>1, <1>2
<1>4. r \in Ranges
  BY <1>1 DEF Ranges
<1>5. RangeRows(r) = a..(b - 1)
  <2>1. \A p \in 0..(n - 1) : Track[0][p] = p
    BY IndexTrack DEF IsTrack
  <2>2. RangeRows(r) = {p \in 0..(n - 1) : a <= Track[0][p] /\ Track[0][p] < b}
    BY DEF RangeRows
  <2>3. RangeRows(r) = {p \in 0..(n - 1) : a <= p /\ p < b}
    BY <2>1, <2>2
  <2>4. {p \in 0..(n - 1) : a <= p /\ p < b} = a..(b - 1)
    BY <1>1
  <2>5. QED
    BY <2>3, <2>4
<1>6. Prefixed(r)
  <2> SUFFICES ASSUME NEW p \in RangeRows(r) PROVE Top(indexed[p], 0) = 0
    BY DEF Prefixed
  <2>1. p \in 0..(n - 1)
    BY DEF RangeRows
  <2>2. indexed[p] \in Nat /\ indexed[p] < Quarters(n_levels)
    BY <2>1, IndexTrack
  <2>3. QED
    BY <1>1, <2>2, TopStep
<1> HIDE DEF r
<1>7. Sorts(h[r], RangeRows(r), distinct)
  BY <1>2, <1>4, <1>6, RangeSorted
<1>8. QED
  BY <1>3, <1>5, <1>7

\* So the two extractions are exact on a finished tree.
LEMMA ExtractsHold == TreeInv => ExtractIsSort
<1> SUFFICES ASSUME TreeInv, Built, NEW a \in 0..(n + 1), NEW b \in 0..(n + 1)
             PROVE  LET all == extract_range(a, b)
                        distinct == extract_range_distinct(a, b)
                        times(seq, symbol) == Cardinality({x \in DOMAIN seq : seq[x] = symbol})
                        valid == a < b /\ b <= n
                        there == IF valid THEN {indexed[p] : p \in a..(b - 1)} ELSE {}
                    IN  /\ Ascending(all) /\ Ascending(distinct)
                        /\ Len(all) = (IF valid THEN b - a ELSE 0)
                        /\ \A symbol \in there : /\ times(all, symbol) = Occs(symbol, a, b)
                                                 /\ times(distinct, symbol) = 1
                        /\ Len(distinct) = Cardinality(there)
  BY DEF ExtractIsSort
<1> DEFINE all == extract(a, b, FALSE)
           some == extract(a, b, TRUE)
           valid == a < b /\ b <= n
           there == IF valid THEN {indexed[p] : p \in a..(b - 1)} ELSE {}
<1>1. Ready /\ n \in Nat
  BY BuiltIsReady DEF Ready
<1>2. CASE valid
  <2>1. Indexes /\ a \in 0..n /\ b \in 0..n /\ a < b
    BY <1>1, <1>2 DEF Ready
  <2> DEFINE R == a..(b - 1)
  <2>2. Sorts(all, R, FALSE) /\ Sorts(some, R, TRUE)
    BY <2>1, ExtractSorts
  <2>3. Cardinality(R) = b - a
    <3> DEFINE c == b - 1
    <3>1. a \in Int /\ c \in Int /\ ~(a > c) /\ c - a + 1 = b - a
      BY <2>1
    <3>2. Cardinality(a..c) = IF a > c THEN 0 ELSE c - a + 1
      <4> HIDE DEF c
      <4> QED
        BY <3>1, FS_Interval
    <3>3. QED
      BY <3>1, <3>2
  <2>4. Len(all) = b - a /\ Len(some) = Cardinality(there)
    BY <1>2, <2>2, <2>3 DEF Sorts, SizeOf
  <2>5. ASSUME NEW symbol \in there
        PROVE  Times(all, symbol) = Occs(symbol, a, b) /\ Times(some, symbol) = 1
    <3>1. PICK p \in R : indexed[p] = symbol
      BY <1>2
    <3>2. p \in 0..(n - 1)
      BY <1>1, <2>1
    <3>3. symbol \in Nat
      BY <2>1, <3>1, <3>2, IndexTrack
    <3>4. Times(all, symbol) = SizeOf(With(R, symbol), FALSE) /\ Times(some, symbol) = SizeOf(With(R, symbol), TRUE)
      BY <2>2, <3>3 DEF Sorts
    <3>5. SizeOf(With(R, symbol), FALSE) = Occs(symbol, a, b)
      BY DEF SizeOf, With, Occs
    <3>6. {indexed[q] : q \in With(R, symbol)} = {symbol}
      <4>1. p \in With(R, symbol) /\ \A q \in With(R, symbol) : indexed[q] = symbol
        BY <3>1 DEF With
      <4>2. QED
        BY <4>1
    <3>7. SizeOf(With(R, symbol), TRUE) = 1
      BY <3>6, FS_Singleton DEF SizeOf
    <3>8. QED
      BY <3>4, <3>5, <3>7
  <2>6. QED
    BY <1>2, <2>2, <2>4, <2>5 DEF extract_range, extract_range_distinct, Times, Sorts
<1>3. CASE ~valid
  <2>1. a >= b \/ b > n \/ n_levels = 0
    BY <1>1, <1>3
  <2>2. all = <<>> /\ some = <<>>
    BY <2>1 DEF extract
  <2>3. Ascending(<<>>) /\ Len(<<>>) = 0 /\ Cardinality({}) = 0
    BY FS_EmptySet DEF Ascending
  <2>4. QED
    BY <1>3, <2>2, <2>3 DEF extract_range, extract_range_distinct
<1>4. QED
  BY <1>2, <1>3

\* extract_range returns the symbols of the range sorted, each as often as it is in
\* it, and extract_range_distinct each once, on every finished tree and for every
\* range: no branch of the recursion is lost, met twice or out of order, also
\* where it is left early for a single row.
THEOREM ExtractsAreSorts == Spec => []ExtractIsSort
BY ExtractsHold, TreeInvHolds, PTL

------------------------------------------------------------------------------
(* Trees that are saved, and files that are read, beside the walks.        *)

\* A tree that went into a file is not walked.
Unwalked ==
  /\ pc = "used" /\ state = "closed" /\ stack = <<>> /\ yielded = <<>>
  /\ walk_of = [kind |-> "occs", start |-> 0, end |-> 0, target |-> 0]

\* Saving a tree, or writing a file from parts, ends what the tree is used for;
\* altering the file and reading it leave the tree alone.
LEMMA FileStep ==
  (IterInv \/ Unwalked) /\ [NextFile]_<<vars, iterVars, fileVars>> => (IterInv \/ Unwalked)'
<1> SUFFICES ASSUME IterInv \/ Unwalked, [NextFile]_<<vars, iterVars, fileVars>>
             PROVE  (IterInv \/ Unwalked)'
  OBVIOUS
<1>1. CASE Save \/ Foreign
  <2>1. pc # "used" /\ pc' = "used" /\ UNCHANGED iterVars
    BY <1>1 DEF Save, Foreign, InUse
  <2>2. IterInv
    BY <2>1 DEF Unwalked
  <2>3. QED
    BY <2>1, <2>2 DEF IterInv, Unwalked, iterVars
<1>2. CASE Alter \/ FromBytes \/ ViewFromBytes \/ OpenCursor \/ NextPosition
           \/ UNCHANGED <<vars, iterVars, fileVars>>
  <2>1. UNCHANGED <<vars, iterVars>>
    BY <1>2 DEF Alter, FromBytes, ViewFromBytes, OpenCursor, NextPosition
  <2>2. IterInv => IterInv'
    BY <2>1, BuildWalks
  <2>3. Unwalked => Unwalked'
    BY <2>1 DEF Unwalked, vars, iterVars
  <2>4. QED
    BY <2>2, <2>3
<1>3. CASE \/ (Start \/ Level \/ FromParts) /\ UNCHANGED iterVars
           \/ Open \/ Pop \/ TakeFront \/ TakeBack \/ Exhausted
  <2>1. ~Unwalked
    BY <1>3 DEF Unwalked, Start, Level, FromParts, Open, InUse, Pop, TakeFront, TakeBack, Exhausted
  <2>2. QED
    BY <1>3, <2>1, OpenWalks, PopWalks, TakeWalks, ExhaustedWalks, BuildWalks
<1>4. QED
  BY <1>1, <1>2, <1>3 DEF NextFile

\* Whatever else is done with trees and files, a tree that from_owned has built or
\* from_parts accepted answers exactly, and walks over it stay within their stacks,
\* in order and complete: saving, altering and reading containers, and the cursors
\* of their views, never touch it.
THEOREM TreesStayExact ==
  SpecFile => [](/\ LevelsExact /\ PointQueriesExact /\ SelectExact /\ ExtractIsSort
                 /\ StackBounded /\ YieldsInOrder /\ NoRowLost)
<1> DEFINE Exact == /\ LevelsExact /\ PointQueriesExact /\ SelectExact /\ ExtractIsSort
                    /\ StackBounded /\ YieldsInOrder /\ NoRowLost
<1>1. InitFile => IterInv
  BY InitWalks DEF InitFile
<1>2. IterInv => Exact
  <2> SUFFICES ASSUME IterInv PROVE Exact
    OBVIOUS
  <2>1. LevelsExact /\ PointQueriesExact /\ SelectExact /\ ExtractIsSort
    <3>1. CASE pc # "used"
      BY <3>1, LevelsHold, PointQueriesHold, SelectsHold, ExtractsHold DEF IterInv
    <3>2. CASE pc = "used"
      BY <3>2 DEF LevelsExact, PointQueriesExact, SelectExact, ExtractIsSort, Built
    <3>3. QED
      BY <3>1, <3>2
  <2>2. StackBounded /\ YieldsInOrder /\ NoRowLost
    BY BoundedHold, YieldsHold, RowsHold
  <2>3. QED
    BY <2>1, <2>2
<1>3. Unwalked => Exact
  <2> SUFFICES ASSUME Unwalked PROVE Exact
    OBVIOUS
  <2>1. LevelsExact /\ PointQueriesExact /\ SelectExact /\ ExtractIsSort
    BY DEF Unwalked, LevelsExact, PointQueriesExact, SelectExact, ExtractIsSort, Built
  <2>2. Len(stack) = 0 /\ Len(yielded) = 0
    BY DEF Unwalked
  <2>3. StackBounded
    <3>1. \A l : {k \in 1..(Len(stack) - 1) : stack[k].level = l} = {}
      BY <2>2
    <3>2. QED
      BY <3>1, FS_EmptySet DEF StackBounded
  <2>4. YieldsInOrder
    <3>1. {yielded[k][1] : k \in 1..Len(yielded)} = {}
      BY <2>2
    <3>2. 1..Len(yielded) = {} /\ 1..(Len(yielded) - 1) = {}
      BY <2>2
    <3>3. state # "done"
      BY DEF Unwalked
    <3>4. QED
      BY <3>1, <3>2, <3>3 DEF YieldsInOrder
  <2>5. NoRowLost
    BY DEF Unwalked, NoRowLost
  <2>6. QED
    BY <2>1, <2>3, <2>4, <2>5
<1>4. QED
  BY <1>1, <1>2, <1>3, FileStep, PTL DEF SpecFile

==============================================================================
