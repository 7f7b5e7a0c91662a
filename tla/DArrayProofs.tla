---------------------------- MODULE DArrayProofs -----------------------------
(***************************************************************************)
(* Proofs about bit vectors and the structures built on them, for vectors  *)
(* of any length and for words, lines and blocks of any size.              *)
(***************************************************************************)
EXTENDS DArray, FiniteSetTheorems, SequenceTheorems, WellFoundedInduction, TLAPS

\* The lines of a vector of m bits hold it.
LEMMA LinesHold ==
  ASSUME NEW m \in Nat
  PROVE  /\ LINE \in Nat \ {0}
         /\ lines_for(m) \in Nat
         /\ lines_for(m) * LINE \in Nat
         /\ m <= lines_for(m) * LINE
<1>1. LINE \in Nat \ {0}
  BY BitVectorAssumption DEF LINE
<1> DEFINE q == (m + LINE - 1) \div LINE
           r == (m + LINE - 1) % LINE
<1>2. q \in Int /\ r \in 0..(LINE - 1) /\ m + LINE - 1 = LINE * q + r
  BY <1>1
<1>3. q \in Nat
  BY <1>1
<1> HIDE DEF q, r
<1>4. LINE * q \in Nat /\ LINE * q = q * LINE
  BY <1>1, <1>3
<1> DEFINE t == LINE * q
<1>5. t \in Nat /\ m + LINE - 1 = t + r /\ r \in 0..(LINE - 1)
  BY <1>2, <1>4
<1>6. m <= t
  <2> HIDE DEF t
  <2> QED
    BY <1>1, <1>5
<1>7. QED
  BY <1>1, <1>3, <1>4, <1>6 DEF lines_for, q

\* More bits need no fewer lines.
LEMMA LinesGrow ==
  ASSUME NEW m \in Nat, NEW l \in Nat, m <= l
  PROVE  lines_for(m) * LINE <= lines_for(l) * LINE
<1> DEFINE a == lines_for(m)
           b == lines_for(l)
<1>1. /\ LINE \in Nat \ {0} /\ a \in Nat /\ b \in Nat /\ a * LINE \in Nat /\ b * LINE \in Nat
  BY LinesHold
<1>2. a <= b
  BY <1>1 DEF lines_for
<1> HIDE DEF a, b
<1>3. a * LINE <= b * LINE
  BY <1>1, <1>2
<1>4. QED
  BY <1>3 DEF a, b

\* The positions of the ones of a function on positions.
OnesOf(f) == {p \in DOMAIN f : f[p]}

\* Ones written from index on where there were none.
Shifted(bits, index) == {p \in Nat : p - index \in OnesOf(bits)}

\* The positions of an extended piece: as many as its ones, each inside the piece.
LEMMA ShiftedCount ==
  ASSUME NEW k \in Nat, NEW bits \in [0..(k - 1) -> BOOLEAN], NEW index \in Nat
  PROVE  /\ IsFiniteSet(Shifted(bits, index))
         /\ Cardinality(Shifted(bits, index)) = Ones(bits)
         /\ \A p \in Shifted(bits, index) : p >= index /\ p < index + k
<1> DEFINE S == OnesOf(bits)
           T == Shifted(bits, index)
           f == [x \in S |-> x + index]
<1>1. S \subseteq 0..(k - 1) /\ 0 \in Int /\ k - 1 \in Int
  BY DEF OnesOf
<1>2. IsFiniteSet(S)
  <2>1. IsFiniteSet(0..(k - 1))
    BY <1>1, FS_Interval
  <2> HIDE DEF S
  <2>2. QED
    BY <1>1, <2>1, FS_Subset
<1>3. \A p \in T : p \in Nat /\ p - index \in S /\ p >= index /\ p < index + k
  BY <1>1 DEF Shifted
<1>4. \A x \in S : x + index \in T /\ x \in Nat
  <2> SUFFICES ASSUME NEW x \in S PROVE x + index \in T /\ x \in Nat
    OBVIOUS
  <2> HIDE DEF S
  <2>1. x \in Nat /\ x + index \in Nat /\ (x + index) - index = x
    BY <1>1
  <2>2. QED
    BY <2>1 DEF Shifted, S
<1> HIDE DEF S, T
<1>5. f \in [S -> T] /\ \A x \in S : f[x] = x + index
  BY <1>4
<1>6. f \in Injection(S, T)
  BY <1>4, <1>5 DEF Injection, IsInjective
<1>7. f \in Surjection(S, T)
  <2>1. ASSUME NEW p \in T PROVE \E x \in S : f[x] = p
    <3>1. p - index \in S /\ f[p - index] = (p - index) + index /\ p \in Nat
      BY <1>3, <1>5
    <3>2. (p - index) + index = p
      BY <3>1
    <3>3. QED
      BY <3>1, <3>2
  <2>2. QED
    BY <1>5, <2>1 DEF Surjection
<1>8. ExistsBijection(S, T)
  BY <1>6, <1>7 DEF ExistsBijection, Bijection
<1>9. IsFiniteSet(T) /\ Cardinality(T) = Cardinality(S)
  BY <1>2, <1>8, FS_Bijection
<1>10. Cardinality(S) = Ones(bits)
  BY DEF S, OnesOf, Ones
<1>11. QED
  BY <1>3, <1>9, <1>10 DEF T

------------------------------------------------------------------------------
(* The inductive invariant: a vector d of n bits whose count is c.         *)

\* It has the lines its length needs, its count is the number of ones of all of
\* its lines, and none of those ones is in the padding.
Good(d, n, c) ==
  /\ n \in 0..MaxLen
  /\ d \in [0..(lines_for(n) * LINE - 1) -> BOOLEAN]
  /\ c = Cardinality(OnesOf(d))
  /\ \A p \in OnesOf(d) : p < n

GoodInv == Good(data, n_bits, count_ones)

\* The ones are positions of the vector, finitely many.
LEMMA OnesFinite ==
  ASSUME NEW d, NEW n, NEW c, Good(d, n, c)
  PROVE  /\ n \in Nat
         /\ OnesOf(d) \subseteq 0..(n - 1)
         /\ IsFiniteSet(OnesOf(d))
         /\ c \in Nat
<1>1. n \in Nat /\ n - 1 \in Int /\ 0 \in Int
  BY BitVectorAssumption DEF Good
<1>2. lines_for(n) * LINE \in Nat
  BY <1>1, LinesHold
<1>3. OnesOf(d) \subseteq 0..(n - 1)
  <2>1. ASSUME NEW p \in OnesOf(d) PROVE p \in 0..(n - 1)
    <3>1. p \in 0..(lines_for(n) * LINE - 1) /\ p < n
      BY DEF Good, OnesOf
    <3>2. QED
      BY <1>1, <1>2, <3>1
  <2>2. QED
    BY <2>1
<1>4. IsFiniteSet(0..(n - 1))
  BY <1>1, FS_Interval
<1>5. IsFiniteSet(OnesOf(d))
  BY <1>3, <1>4, FS_Subset
<1>6. c \in Nat
  BY <1>5, FS_CardinalityType DEF Good
<1>7. QED
  BY <1>1, <1>3, <1>5, <1>6

\* What Good says is what the run checks.
LEMMA GoodIsExact ==
  ASSUME GoodInv
  PROVE  VectorExact
<1> USE DEF GoodInv
<1>1. n_bits \in Nat /\ OnesOf(data) \subseteq 0..(n_bits - 1)
  BY OnesFinite
<1>2. lines_for(n_bits) * LINE \in Nat /\ n_bits <= lines_for(n_bits) * LINE
  BY <1>1, LinesHold
<1> DEFINE t == lines_for(n_bits) * LINE
<1>3. DOMAIN data = 0..(t - 1)
  BY DEF Good
<1>4. Cardinality(DOMAIN data) = t
  <2> HIDE DEF t
  <2>1. t \in Nat /\ t - 1 \in Int /\ 0 \in Int
    BY <1>2 DEF t
  <2>2. Cardinality(0..(t - 1)) = IF 0 > t - 1 THEN 0 ELSE (t - 1) - 0 + 1
    BY <2>1, FS_Interval
  <2>3. QED
    BY <1>3, <2>1, <2>2
<1>5. {p \in 0..(n_bits - 1) : data[p]} = OnesOf(data)
  <2>1. 0..(n_bits - 1) \subseteq DOMAIN data
    <3> HIDE DEF t
    <3> QED
      BY <1>1, <1>2, <1>3 DEF t
  <2>2. QED
    BY <1>1, <2>1 DEF OnesOf
<1>6. \A p \in DOMAIN data : p >= n_bits => ~data[p]
  <2>1. SUFFICES ASSUME NEW p \in DOMAIN data, p >= n_bits, data[p] PROVE FALSE
    OBVIOUS
  <2>2. p \in OnesOf(data)
    BY <2>1 DEF OnesOf
  <2>3. p \in 0..(n_bits - 1)
    BY <1>1, <2>2
  <2>4. QED
    BY <1>1, <2>1, <2>3
<1>7. QED
  BY <1>4, <1>5, <1>6 DEF VectorExact, Good

\* Lengthening the vector adds no one.
LEMMA ResizeGood ==
  ASSUME GoodInv, NEW m \in 0..MaxLen, n_bits <= m
  PROVE  /\ Good(resized(m), m, count_ones)
         /\ OnesOf(resized(m)) = OnesOf(data)
<1> USE DEF GoodInv
<1> DEFINE s == lines_for(n_bits) * LINE
           t == lines_for(m) * LINE
<1>1. n_bits \in Nat /\ m \in Nat /\ OnesOf(data) \subseteq 0..(n_bits - 1)
  BY OnesFinite, BitVectorAssumption
<1>2. s \in Nat /\ t \in Nat /\ s <= t
  BY <1>1, LinesHold, LinesGrow
<1>3. DOMAIN data = 0..(s - 1) /\ data \in [0..(s - 1) -> BOOLEAN]
  BY DEF Good
<1>4. resized(m) = [p \in 0..(t - 1) |-> IF p \in DOMAIN data THEN data[p] ELSE FALSE]
  BY DEF resized
<1> HIDE DEF s, t
<1>5. DOMAIN data \subseteq 0..(t - 1)
  BY <1>2, <1>3
<1>6. resized(m) \in [0..(t - 1) -> BOOLEAN]
  BY <1>3, <1>4
<1>7. OnesOf(resized(m)) = OnesOf(data)
  BY <1>4, <1>5 DEF OnesOf
<1>8. \A p \in OnesOf(data) : p < m
  BY <1>1
<1>9. resized(m) \in [0..(lines_for(m) * LINE - 1) -> BOOLEAN]
  BY <1>6 DEF t
<1>10. QED
  BY <1>7, <1>8, <1>9 DEF Good

\* Bits written where there were no ones add their ones.
LEMMA WriteGood ==
  ASSUME NEW d, NEW n, NEW c, Good(d, n, c),
         NEW k \in Nat, NEW bits \in [0..(k - 1) -> BOOLEAN],
         NEW index \in Nat, index + k <= n,
         \A p \in OnesOf(d) : ~(index <= p /\ p < index + k)
  PROVE  Good(overwritten(d, index, bits), n, c + Ones(bits))
<1> DEFINE S == OnesOf(d)
           T == Shifted(bits, index)
           e == overwritten(d, index, bits)
           t == lines_for(n) * LINE
<1>1. n \in Nat /\ S \subseteq 0..(n - 1) /\ IsFiniteSet(S) /\ c \in Nat
  BY OnesFinite
<1>2. IsFiniteSet(T) /\ Cardinality(T) = Ones(bits) /\ \A p \in T : p >= index /\ p < index + k
  BY ShiftedCount
<1>3. t \in Nat /\ n <= t /\ DOMAIN d = 0..(t - 1) /\ d \in [0..(t - 1) -> BOOLEAN]
  BY <1>1, LinesHold DEF Good
<1>4. e = [p \in 0..(t - 1) |-> IF p - index \in DOMAIN bits THEN bits[p - index] ELSE d[p]]
  BY <1>3 DEF overwritten
<1> HIDE DEF t
<1>5. e \in [0..(t - 1) -> BOOLEAN]
  BY <1>3, <1>4
<1>6. OnesOf(e) = S \cup T
  <2>1. ASSUME NEW p \in OnesOf(e) PROVE p \in S \cup T
    <3>1. p \in 0..(t - 1) /\ p \in Nat /\ e[p] = IF p - index \in DOMAIN bits THEN bits[p - index] ELSE d[p]
      BY <1>3, <1>4 DEF OnesOf
    <3>2. e[p]
      BY DEF OnesOf
    <3>3. CASE p - index \in DOMAIN bits
      BY <3>1, <3>2, <3>3 DEF Shifted, OnesOf
    <3>4. CASE p - index \notin DOMAIN bits
      BY <1>3, <3>1, <3>2, <3>4 DEF OnesOf
    <3>5. QED
      BY <3>3, <3>4
  <2>2. ASSUME NEW p \in T PROVE p \in OnesOf(e)
    <3>1. p \in Nat /\ p - index \in DOMAIN bits /\ bits[p - index]
      BY DEF Shifted, OnesOf
    <3>2. p \in 0..(t - 1)
      <4> HIDE DEF T
      <4> QED
        BY <1>1, <1>2, <1>3, <3>1
    <3>3. e[p] = bits[p - index]
      BY <1>4, <3>1, <3>2
    <3>4. QED
      BY <1>5, <3>1, <3>2, <3>3 DEF OnesOf
  <2>3. ASSUME NEW p \in S PROVE p \in OnesOf(e)
    <3>1. p \in 0..(t - 1) /\ d[p] /\ ~(index <= p /\ p < index + k)
      BY <1>3 DEF OnesOf
    <3>2. p - index \notin 0..(k - 1)
      BY <3>1, <1>3
    <3>3. e[p] = d[p]
      BY <1>4, <3>1, <3>2
    <3>4. QED
      BY <1>5, <3>1, <3>3 DEF OnesOf
  <2>4. QED
    BY <2>1, <2>2, <2>3
<1>7. S \cap T = {}
  BY <1>2
<1>8. Cardinality(S \cup T) = c + Ones(bits)
  <2>1. Cardinality(S \cup T) = Cardinality(S) + Cardinality(T) - Cardinality(S \cap T)
    BY <1>1, <1>2, FS_Union
  <2>2. Cardinality(S \cap T) = 0
    BY <1>7, FS_EmptySet
  <2>3. Cardinality(S) = c /\ Cardinality(T) \in Nat
    BY <1>2, FS_CardinalityType DEF Good
  <2> HIDE DEF S, T
  <2>4. QED
    BY <1>1, <1>2, <2>1, <2>2, <2>3
<1>9. \A p \in S \cup T : p < n
  <2>1. \A p \in S : p < n
    BY DEF Good
  <2>2. \A p \in T : p < n
    <3>1. ASSUME NEW p \in T PROVE p < n
      <4>1. p \in Nat /\ p < index + k
        BY <1>2 DEF Shifted
      <4> HIDE DEF T
      <4>2. QED
        BY <1>1, <4>1
    <3>2. QED
      BY <3>1
  <2>3. QED
    BY <2>1, <2>2
<1>10. e \in [0..(lines_for(n) * LINE - 1) -> BOOLEAN]
  BY <1>5 DEF t
<1> HIDE DEF e, S, T
<1>11. Good(e, n, c + Ones(bits))
  <2>1. n \in 0..MaxLen
    BY DEF Good
  <2>2. QED
    BY <1>6, <1>8, <1>9, <1>10, <2>1 DEF Good
<1>12. QED
  BY <1>11 DEF e

\* One bit put keeps the count.
LEMMA PutGood ==
  ASSUME NEW d, NEW n, NEW c, Good(d, n, c), NEW index \in 0..(n - 1), NEW b \in BOOLEAN
  PROVE  Good([d EXCEPT ![index] = b], n, counted(c, d[index], b))
<1> DEFINE S == OnesOf(d)
           e == [d EXCEPT ![index] = b]
           t == lines_for(n) * LINE
<1>1. n \in Nat /\ S \subseteq 0..(n - 1) /\ IsFiniteSet(S) /\ c \in Nat
  BY OnesFinite
<1>2. t \in Nat /\ n <= t /\ DOMAIN d = 0..(t - 1) /\ d \in [0..(t - 1) -> BOOLEAN]
  BY <1>1, LinesHold DEF Good
<1> HIDE DEF t
<1>3. index \in DOMAIN d
  BY <1>1, <1>2
<1>4. e \in [0..(t - 1) -> BOOLEAN] /\ DOMAIN e = DOMAIN d
  BY <1>2, <1>3
<1>5. \A p \in DOMAIN d : e[p] = IF p = index THEN b ELSE d[p]
  BY <1>2, <1>3
<1>6. OnesOf(e) = IF b THEN S \cup {index} ELSE S \ {index}
  <2> HIDE DEF e
  <2> QED
    BY <1>3, <1>4, <1>5 DEF OnesOf
<1>7. index \in S <=> d[index]
  BY <1>3 DEF OnesOf
<1>8. Cardinality(S) = c
  BY DEF Good
<1>9. d[index] \in BOOLEAN
  BY <1>2, <1>3
<1>10. Cardinality(OnesOf(e)) = counted(c, d[index], b)
  <2> HIDE DEF S, e
  <2>1. Cardinality(S \cup {index}) = IF index \in S THEN c ELSE c + 1
    BY <1>1, <1>8, FS_AddElement
  <2>2. Cardinality(S \ {index}) = IF index \in S THEN c - 1 ELSE c
    BY <1>1, <1>8, FS_RemoveElement
  <2>3. QED
    BY <1>6, <1>7, <1>9, <2>1, <2>2 DEF counted
<1>11. \A p \in OnesOf(e) : p < n
  <2>1. \A p \in S : p < n
    BY DEF Good
  <2>2. index < n
    BY <1>1
  <2>3. QED
    BY <1>6, <2>1, <2>2
<1>12. e \in [0..(lines_for(n) * LINE - 1) -> BOOLEAN]
  BY <1>4 DEF t
<1> HIDE DEF e
<1>13. Good(e, n, counted(c, d[index], b))
  <2>1. n \in 0..MaxLen
    BY DEF Good
  <2>2. QED
    BY <1>10, <1>11, <1>12, <2>1 DEF Good
<1>14. QED
  BY <1>13 DEF e

\* A chunk is a function on the places of its bits.
LEMMA ChunkIs ==
  ASSUME NEW bits \in Chunks
  PROVE  Size(bits) \in Nat \ {0} /\ bits \in [0..(Size(bits) - 1) -> BOOLEAN]
<1>1. PICK k \in 1..WORD_BITS : bits \in [0..(k - 1) -> BOOLEAN]
  BY DEF Chunks
<1>2. k \in Nat \ {0} /\ 0 \in Int /\ k - 1 \in Int
  BY BitVectorAssumption
<1>3. Cardinality(0..(k - 1)) = IF 0 > k - 1 THEN 0 ELSE (k - 1) - 0 + 1
  BY <1>2, FS_Interval
<1>4. Cardinality(0..(k - 1)) = k
  BY <1>2, <1>3
<1>5. Size(bits) = k
  BY <1>1, <1>4 DEF Size
<1>6. QED
  BY <1>1, <1>2, <1>5

\* append_bits fills what the vector is lengthened by, which holds no one.
LEMMA AppendKeeps ==
  ASSUME GoodInv, AppendBits
  PROVE  GoodInv'
<1>1. PICK bits \in Chunks :
        /\ n_bits + Size(bits) <= MaxLen
        /\ data' = overwritten(resized(n_bits + Size(bits)), n_bits, bits)
        /\ n_bits' = n_bits + Size(bits)
        /\ count_ones' = count_ones + Ones(bits)
  BY DEF AppendBits
<1> DEFINE k == Size(bits)
           m == n_bits + k
<1>2. k \in Nat \ {0} /\ bits \in [0..(k - 1) -> BOOLEAN]
  BY ChunkIs
<1> HIDE DEF k
<1>3. n_bits \in Nat /\ OnesOf(data) \subseteq 0..(n_bits - 1)
  BY OnesFinite DEF GoodInv
<1>4. m \in 0..MaxLen /\ n_bits <= m
  BY <1>1, <1>2, <1>3, BitVectorAssumption DEF k
<1>5. Good(resized(m), m, count_ones) /\ OnesOf(resized(m)) = OnesOf(data)
  BY <1>4, ResizeGood
<1>6. \A p \in OnesOf(resized(m)) : ~(n_bits <= p /\ p < n_bits + k)
  BY <1>3, <1>5
<1>7. n_bits + k <= m
  BY <1>2, <1>3
<1>8. Good(overwritten(resized(m), n_bits, bits), m, count_ones + Ones(bits))
  BY <1>2, <1>3, <1>5, <1>6, <1>7, WriteGood
<1>9. QED
  BY <1>1, <1>8 DEF GoodInv, k

\* set_bits counts right where it overwrites no one.
LEMMA SetBitsKeeps ==
  ASSUME GoodInv, SetBits, Overwriting = FALSE
  PROVE  GoodInv'
<1>1. PICK index \in 0..(n_bits - 1), bits \in Chunks :
        /\ index + Size(bits) <= n_bits
        /\ \A k \in DOMAIN bits : ~data[index + k]
        /\ data' = overwritten(data, index, bits)
        /\ count_ones' = count_ones + Ones(bits)
  BY DEF SetBits
<1> DEFINE k == Size(bits)
<1>2. k \in Nat \ {0} /\ bits \in [0..(k - 1) -> BOOLEAN]
  BY ChunkIs
<1> HIDE DEF k
<1>3. n_bits \in Nat /\ OnesOf(data) \subseteq 0..(n_bits - 1)
  BY OnesFinite DEF GoodInv
<1>4. index \in Nat /\ index + k <= n_bits
  BY <1>1, <1>3 DEF k
<1>5. \A p \in OnesOf(data) : ~(index <= p /\ p < index + k)
  <2>1. SUFFICES ASSUME NEW p \in OnesOf(data), index <= p, p < index + k PROVE FALSE
    OBVIOUS
  <2>2. p \in Nat /\ data[p]
    BY <1>3 DEF OnesOf
  <2>3. p - index \in 0..(k - 1) /\ index + (p - index) = p
    BY <1>2, <1>4, <2>1, <2>2
  <2>4. ~data[index + (p - index)]
    BY <1>1, <1>2, <2>3
  <2>5. QED
    BY <2>2, <2>3, <2>4
<1>6. Good(overwritten(data, index, bits), n_bits, count_ones + Ones(bits))
  BY <1>2, <1>4, <1>5, WriteGood DEF GoodInv
<1>7. n_bits' = n_bits
  BY DEF SetBits
<1>8. QED
  BY <1>1, <1>6, <1>7 DEF GoodInv

\* A length and content that deserialization accepts are those of a vector.
LEMMA ValidIsGood ==
  ASSUME NEW l \in 0..MaxLen, NEW s \in Nat, NEW d \in [0..(s - 1) -> BOOLEAN],
         validate_deserialized_data(d, l)
  PROVE  Good(d, l, Ones(d))
<1>1. l \in Nat
  BY BitVectorAssumption
<1> DEFINE t == lines_for(l) * LINE
<1>2. t \in Nat
  BY <1>1, LinesHold
<1>3. Cardinality(DOMAIN d) = t /\ DOMAIN d = 0..(s - 1)
  BY DEF validate_deserialized_data
<1> HIDE DEF t
<1>4. Cardinality(0..(s - 1)) = IF 0 > s - 1 THEN 0 ELSE (s - 1) - 0 + 1
  <2>1. 0 \in Int /\ s - 1 \in Int
    OBVIOUS
  <2>2. QED
    BY <2>1, FS_Interval
<1>5. s = t
  BY <1>2, <1>3, <1>4
<1>6. d \in [0..(lines_for(l) * LINE - 1) -> BOOLEAN]
  BY <1>5 DEF t
<1>7. Ones(d) = Cardinality(OnesOf(d))
  BY DEF Ones, OnesOf
<1>8. \A p \in OnesOf(d) : p < l
  <2>1. SUFFICES ASSUME NEW p \in OnesOf(d) PROVE p < l
    OBVIOUS
  <2>2. p \in 0..(s - 1) /\ d[p]
    BY DEF OnesOf
  <2>3. ~(p >= l)
    BY <2>2, <1>3 DEF validate_deserialized_data, padding_clear
  <2>4. QED
    BY <1>1, <2>2, <2>3
<1>9. QED
  BY <1>6, <1>7, <1>8 DEF Good

\* Deserializing: what passes the validation is a vector again, its ones recounted.
LEMMA DeserializeKeeps ==
  ASSUME GoodInv, Deserialize
  PROVE  GoodInv'
<1>1. PICK l \in {n_bits - 1, n_bits, n_bits + 1} \cap 0..MaxLen :
      \E d \in {data} \cup {[data EXCEPT ![p] = ~ @] : p \in DOMAIN data} :
        /\ validate_deserialized_data(d, l)
        /\ data' = d /\ n_bits' = l /\ count_ones' = Ones(d)
  BY DEF Deserialize
<1>2. PICK d \in {data} \cup {[data EXCEPT ![p] = ~ @] : p \in DOMAIN data} :
        /\ validate_deserialized_data(d, l)
        /\ data' = d /\ n_bits' = l /\ count_ones' = Ones(d)
  BY <1>1
<1> DEFINE s == lines_for(n_bits) * LINE
<1>3. n_bits \in Nat
  BY OnesFinite DEF GoodInv
<1>4. s \in Nat /\ data \in [0..(s - 1) -> BOOLEAN]
  BY <1>3, LinesHold DEF GoodInv, Good
<1> HIDE DEF s
<1>5. d \in [0..(s - 1) -> BOOLEAN]
  <2>1. CASE d = data
    BY <1>4, <2>1
  <2>2. CASE d \in {[data EXCEPT ![p] = ~ @] : p \in DOMAIN data}
    <3>1. PICK p \in DOMAIN data : d = [data EXCEPT ![p] = ~ data[p]]
      BY <2>2
    <3>2. QED
      BY <1>4, <3>1
  <2>3. QED
    BY <2>1, <2>2
<1>6. Good(d, l, Ones(d))
  BY <1>2, <1>4, <1>5, ValidIsGood
<1>7. QED
  BY <1>2, <1>6 DEF GoodInv

\* extend(usize) lengthens the vector where it must and puts one bit.
LEMMA ExtendOnesKeeps ==
  ASSUME GoodInv, ExtendOnes
  PROVE  GoodInv'
<1>1. PICK pos \in 0..(MaxLen - 1) :
        LET longer == IF pos >= n_bits THEN pos + 1 ELSE n_bits IN
        /\ n_bits' = longer
        /\ data' = [resized(longer) EXCEPT ![pos] = TRUE]
        /\ count_ones' = counted(count_ones, resized(longer)[pos], TRUE)
  BY DEF ExtendOnes
<1> DEFINE m == IF pos >= n_bits THEN pos + 1 ELSE n_bits
<1>2. /\ n_bits' = m
      /\ data' = [resized(m) EXCEPT ![pos] = TRUE]
      /\ count_ones' = counted(count_ones, resized(m)[pos], TRUE)
  BY <1>1
<1>3. n_bits \in Nat /\ n_bits <= MaxLen
  BY OnesFinite, BitVectorAssumption DEF GoodInv, Good
<1>4. m \in 0..MaxLen /\ n_bits <= m /\ pos \in 0..(m - 1)
  BY <1>3, BitVectorAssumption
<1> HIDE DEF m
<1>5. Good(resized(m), m, count_ones)
  BY <1>4, ResizeGood
<1>6. Good([resized(m) EXCEPT ![pos] = TRUE], m, counted(count_ones, resized(m)[pos], TRUE))
  BY <1>4, <1>5, PutGood
<1>7. QED
  BY <1>2, <1>6 DEF GoodInv

\* Every operation of a vector keeps the invariant.
LEMMA BitsKeep ==
  ASSUME GoodInv, NextBits, Overwriting = FALSE
  PROVE  GoodInv'
<1>1. CASE AppendBits
  BY <1>1, AppendKeeps
<1>2. CASE ExtendWithZeros
  <2>1. PICK k \in 1..(MaxLen - n_bits) : n_bits' = n_bits + k
    BY <1>2 DEF ExtendWithZeros
  <2>2. n_bits \in Nat
    BY OnesFinite DEF GoodInv
  <2>3. n_bits' \in 0..MaxLen /\ n_bits <= n_bits'
    BY <2>1, <2>2, BitVectorAssumption
  <2>4. Good(resized(n_bits'), n_bits', count_ones)
    BY <2>3, ResizeGood
  <2>5. QED
    BY <1>2, <2>4 DEF ExtendWithZeros, GoodInv
<1>3. CASE Set
  <2>1. PICK index \in 0..(n_bits - 1), b \in BOOLEAN :
          /\ data' = [data EXCEPT ![index] = b]
          /\ count_ones' = counted(count_ones, data[index], b)
    BY <1>3 DEF Set
  <2>2. Good([data EXCEPT ![index] = b], n_bits, counted(count_ones, data[index], b))
    BY PutGood DEF GoodInv
  <2>3. QED
    BY <1>3, <2>1, <2>2 DEF Set, GoodInv
<1>4. CASE SetBits
  BY <1>4, SetBitsKeeps
<1>5. CASE ExtendOnes
  BY <1>5, ExtendOnesKeeps
<1>6. CASE Freeze
  BY <1>6 DEF Freeze, GoodInv
<1>7. CASE Thaw
  BY <1>7 DEF Thaw, GoodInv
<1>8. CASE Deserialize
  BY <1>8, DeserializeKeeps
<1>9. QED
  BY <1>1, <1>2, <1>3, <1>4, <1>5, <1>6, <1>7, <1>8 DEF NextBits

\* A new vector is empty.
LEMMA EmptyGood ==
  ASSUME InitBits
  PROVE  GoodInv
<1>1. 0 \in Nat /\ 0 \in 0..MaxLen
  BY BitVectorAssumption
<1>2. lines_for(0) = 0
  <2>1. LINE \in Nat \ {0}
    BY LinesHold
  <2>2. QED
    BY <2>1 DEF lines_for
<1>3. lines_for(0) * LINE = 0
  <2>1. LINE \in Nat \ {0}
    BY LinesHold
  <2>2. QED
    BY <1>2, <2>1
<1>4. 0..(0 - 1) = {}
  OBVIOUS
<1>5. OnesOf(data) = {}
  BY DEF InitBits, OnesOf
<1>6. data \in [0..(lines_for(0) * LINE - 1) -> BOOLEAN]
  BY <1>3, <1>4 DEF InitBits
<1>7. count_ones = Cardinality(OnesOf(data))
  BY <1>5, FS_EmptySet DEF InitBits
<1>8. QED
  BY <1>1, <1>5, <1>6, <1>7 DEF InitBits, GoodInv, Good

\* Where set_bits overwrites no one, the invariant holds.
LEMMA GoodInvHolds ==
  ASSUME Overwriting = FALSE
  PROVE  Spec => []GoodInv
<1>1. Init => GoodInv
  BY EmptyGood DEF Init
<1>2. GoodInv /\ [Next]_<<vars, bitVars>> => GoodInv'
  <2>1. SUFFICES ASSUME GoodInv, [Next]_<<vars, bitVars>> PROVE GoodInv'
    OBVIOUS
  <2>2. CASE NextBits
    BY <2>1, <2>2, BitsKeep
  <2>3. CASE UNCHANGED <<data, n_bits, count_ones>>
    BY <2>1, <2>3 DEF GoodInv
  <2>4. NextBits \/ UNCHANGED <<data, n_bits, count_ones>>
    BY <2>1 DEF Next, New, LoadWord, TakePosition, Finish, bitVars
  <2>5. QED
    BY <2>2, <2>3, <2>4
<1>3. QED
  BY <1>1, <1>2, PTL DEF Spec

\* Where set_bits overwrites no one, count_ones is the number of ones of the
\* vector and its padding is clear after every sequence of pushes, writes,
\* extensions, freezes, thaws and accepted deserializations, and while a DArray
\* is built on it: for words, lines and vectors of any size.
THEOREM VectorIsExact ==
  ASSUME Overwriting = FALSE
  PROVE  Spec => []VectorExact
<1>1. Spec => []GoodInv
  BY GoodInvHolds
<1>2. GoodInv => VectorExact
  BY GoodIsExact
<1>3. QED
  BY <1>1, <1>2, PTL

------------------------------------------------------------------------------
(* A DArray: the inductive invariant of Inventories::new.                  *)

\* The vector has the lines its length needs, whatever its count.
ShapeInv ==
  /\ n_bits \in 0..MaxLen
  /\ data \in [0..(lines_for(n_bits) * LINE - 1) -> BOOLEAN]

\* The positions by rank, and those the iterator has yielded.
Places == [i \in Nat |-> Position(bit, i)]
Taken == {p \in Positions(bit) : p < cur_word_pos * WORD_BITS /\ p \notin cur_word}

\* What is left of the current word comes after everything that was yielded.
IteratorInv ==
  /\ cur_word_pos \in 0..n_words
  /\ \A p \in cur_word : /\ p \in Nat /\ data[p] = bit
                         /\ cur_word_pos * WORD_BITS - WORD_BITS <= p
                         /\ p < cur_word_pos * WORD_BITS
  /\ \A p \in Taken, q \in cur_word : p < q
  /\ n_sets = Cardinality(Taken)

\* Subblocks of a full block.
PER_BLOCK == BLOCK_SIZE \div SUBBLOCK_SIZE

\* Inventories bi, sub and ov of the first n positions, which places gives: in
\* every block the entry leads to the positions, and as long as all blocks are
\* dense, the distances are where select looks for them.
EntryExact(places, bi, ov, n, b) ==
  IF bi[b + 1] >= 0 THEN bi[b + 1] = places[b * BLOCK_SIZE]
  ELSE \A k \in 0..(BLOCK_SIZE - 1) : b * BLOCK_SIZE + k < n =>
         /\ -bi[b + 1] - 1 + k \in 0..(Len(ov) - 1)
         /\ ov[(-bi[b + 1] - 1 + k) + 1] = places[b * BLOCK_SIZE + k]
DenseTo(bi, b) == \A x \in 0..b : bi[x + 1] >= 0
DistancesExact(places, bi, sub, n, b) ==
  DenseTo(bi, b) =>
    \A j \in 0..(PER_BLOCK - 1) : b * BLOCK_SIZE + j * SUBBLOCK_SIZE < n =>
      /\ b * PER_BLOCK + j < Len(sub)
      /\ sub[(b * PER_BLOCK + j) + 1]
           = places[b * BLOCK_SIZE + j * SUBBLOCK_SIZE] - places[b * BLOCK_SIZE]
Tables(places, bi, sub, ov, n) ==
  /\ bi \in Seq(Int) /\ sub \in Seq(Nat) /\ ov \in Seq(Nat)
  /\ \A b \in 0..(Len(bi) - 1) :
       /\ EntryExact(places, bi, ov, n, b)
       /\ DistancesExact(places, bi, sub, n, b)

\* As long as all full blocks are dense, their distances have no gaps.
Aligned(bi, sub) == DenseTo(bi, Len(bi) - 1) => Len(sub) = Len(bi) * PER_BLOCK

\* While the positions are read, all blocks flushed are full and the current one
\* is not.
BlocksInv ==
  /\ Tables(Places, block_inventory, subblock_inventory, overflow_positions,
            Len(block_inventory) * BLOCK_SIZE)
  /\ Aligned(block_inventory, subblock_inventory)
  /\ curr_block_positions \in Seq(Nat)
  /\ Len(curr_block_positions) < BLOCK_SIZE
  /\ n_sets = Len(block_inventory) * BLOCK_SIZE + Len(curr_block_positions)
  /\ \A k \in 1..Len(curr_block_positions) :
       curr_block_positions[k] = Places[Len(block_inventory) * BLOCK_SIZE + (k - 1)]

\* In the end there is a block for every position and no empty one.
DoneInv ==
  /\ Tables(Places, block_inventory, subblock_inventory, overflow_positions, n_sets)
  /\ n_sets = Cardinality(Positions(bit))
  /\ n_sets <= Len(block_inventory) * BLOCK_SIZE
  /\ Len(block_inventory) * BLOCK_SIZE < n_sets + BLOCK_SIZE

DArrayInv ==
  /\ ShapeInv
  /\ bit \in BOOLEAN
  /\ pc \in {"none", "scan", "done"}
  /\ pc = "none" =>
       /\ cur_word_pos = 0 /\ cur_word = {} /\ curr_block_positions = <<>> /\ n_sets = 0
       /\ block_inventory = <<>> /\ subblock_inventory = <<>> /\ overflow_positions = <<>>
  /\ pc # "none" => kind = "moved"
  /\ pc = "scan" => IteratorInv /\ BlocksInv
  /\ pc = "done" => DoneInv

------------------------------------------------------------------------------
(* Positions and their ranks.                                              *)

\* A set of natural numbers that is not empty has a least element, and the
\* community modules' Min is that element.
LEMMA MinNat ==
  ASSUME NEW T \in SUBSET Nat, T # {}
  PROVE  Min(T) \in T /\ \A y \in T : Min(T) <= y
<1>1. PICK x \in T : \A y \in T : ~(<<y, x>> \in OpToRel(<, Nat))
  BY NatLessThanWellFounded, WFMin, Zenon
<1>2. \A y \in T : y \in Nat /\ x \in Nat /\ ~(y < x)
  BY <1>1 DEF OpToRel
<1>3. \A y \in T : x <= y
  BY <1>2
<1>4. QED
  BY <1>3 DEF Min

\* Quotient and remainder.
LEMMA DivMod ==
  ASSUME NEW n \in Nat, NEW d \in Nat \ {0}
  PROVE  /\ n \div d \in Nat /\ n % d \in 0..(d - 1)
         /\ n = d * (n \div d) + (n % d)
OBVIOUS

\* Quotient and remainder are determined by their equation.
LEMMA DivUnique ==
  ASSUME NEW n \in Nat, NEW d \in Nat \ {0}, NEW q \in Int, NEW r \in 0..(d - 1),
         n = d * q + r
  PROVE  n \div d = q /\ n % d = r
OBVIOUS

\* The elements of S before p.
Before(S, p) == {q \in S : q < p}

\* The elements before p are finitely many, and before a greater element of S
\* there are more.
LEMMA BeforeGrows ==
  ASSUME NEW S \in SUBSET Nat, NEW p \in Nat, NEW x \in S, x < p
  PROVE  /\ IsFiniteSet(Before(S, x)) /\ IsFiniteSet(Before(S, p))
         /\ Cardinality(Before(S, x)) \in Nat /\ Cardinality(Before(S, p)) \in Nat
         /\ Cardinality(Before(S, x)) < Cardinality(Before(S, p))
<1>1. x \in Nat /\ \A q \in Before(S, p) : q \in Nat /\ q <= p
  BY DEF Before
<1>2. Before(S, p) \in SUBSET Nat
  BY DEF Before
<1>3. IsFiniteSet(Before(S, p))
  BY <1>1, <1>2, FS_BoundedSetOfNaturals
<1>4. Before(S, x) \in SUBSET Before(S, p)
  <2>1. \A q \in S : q \in Nat /\ (q < x => q < p)
    BY <1>1
  <2>2. QED
    BY <2>1 DEF Before
<1>5. x \in Before(S, p) /\ x \notin Before(S, x)
  BY <1>1 DEF Before
<1>6. /\ IsFiniteSet(Before(S, x))
      /\ Cardinality(Before(S, x)) <= Cardinality(Before(S, p))
      /\ Cardinality(Before(S, p)) = Cardinality(Before(S, x)) => Before(S, p) = Before(S, x)
  BY <1>3, <1>4, FS_Subset
<1>7. Cardinality(Before(S, x)) \in Nat /\ Cardinality(Before(S, p)) \in Nat
  BY <1>3, <1>6, FS_CardinalityType
<1>8. Cardinality(Before(S, x)) # Cardinality(Before(S, p))
  BY <1>5, <1>6
<1>9. QED
  BY <1>3, <1>6, <1>7, <1>8

\* So an element is determined by how many are before it.
LEMMA RankDetermines ==
  ASSUME NEW S \in SUBSET Nat, NEW p \in S, NEW x \in S,
         Cardinality(Before(S, x)) = Cardinality(Before(S, p))
  PROVE  x = p
<1>1. x \in Nat /\ p \in Nat
  OBVIOUS
<1>2. CASE x < p
  BY <1>1, <1>2, BeforeGrows
<1>3. CASE p < x
  BY <1>1, <1>3, BeforeGrows
<1>4. QED
  BY <1>1, <1>2, <1>3

\* Position finds the element with i before it.
LEMMA PositionIs ==
  ASSUME NEW v, NEW p \in Positions(v), n_bits \in Nat
  PROVE  Position(v, Cardinality(Before(Positions(v), p))) = p
<1> DEFINE S == Positions(v)
           i == Cardinality(Before(S, p))
<1>1. S \in SUBSET Nat
  BY DEF Positions
<1>2. Position(v, i) = CHOOSE x \in S : Cardinality(Before(S, x)) = i
  BY DEF Position, Before
<1> HIDE DEF S
<1>3. (CHOOSE x \in S : Cardinality(Before(S, x)) = i) \in S
  BY DEF S
<1>4. Cardinality(Before(S, CHOOSE x \in S : Cardinality(Before(S, x)) = i)) = i
  BY DEF S
<1>5. (CHOOSE x \in S : Cardinality(Before(S, x)) = i) = p
  BY <1>1, <1>3, <1>4, RankDetermines DEF S
<1>6. QED
  BY <1>2, <1>5 DEF S

\* The number of positions, and a position for every rank below it.
LEMMA PositionThere ==
  ASSUME n_bits \in Nat, NEW v, NEW i \in Nat, i < Cardinality(Positions(v))
  PROVE  /\ Position(v, i) \in Positions(v)
         /\ Cardinality(Before(Positions(v), Position(v, i))) = i
<1> DEFINE S == Positions(v)
           T == {p \in Nat : Cardinality(Before(S, p + 1)) > i}
<1>1. S \in SUBSET Nat /\ \A p \in S : p \in Nat /\ p < n_bits
  BY DEF Positions
<1> HIDE DEF S
<1>f. ASSUME NEW p \in Nat PROVE IsFiniteSet(Before(S, p)) /\ Cardinality(Before(S, p)) \in Nat
  <2>1. Before(S, p) \in SUBSET Nat /\ \A q \in Before(S, p) : q <= p
    <3>1. \A q \in Before(S, p) : q \in Nat /\ q < p
      BY <1>1 DEF Before
    <3>2. QED
      BY <3>1
  <2>2. IsFiniteSet(Before(S, p))
    BY <2>1, FS_BoundedSetOfNaturals
  <2>3. QED
    BY <2>2, FS_CardinalityType
<1>2. Before(S, n_bits + 1) = S
  <2>1. \A q \in S : q < n_bits + 1
    BY <1>1
  <2>2. QED
    BY <2>1 DEF Before
<1>3. n_bits \in T
  BY <1>2 DEF S
<1>4. PICK p \in T : \A y \in T : p <= y
  <2>1. T \in SUBSET Nat /\ T # {}
    BY <1>3
  <2> HIDE DEF T
  <2>2. QED
    BY <2>1, MinNat
<1>5. p \in Nat /\ Cardinality(Before(S, p + 1)) > i
  OBVIOUS
<1>6. Cardinality(Before(S, p)) <= i
  <2>1. CASE p = 0
    <3>1. Before(S, p) = {}
      <4>1. \A q \in S : ~(q < p)
        BY <1>1, <2>1
      <4>2. QED
        BY <4>1 DEF Before
    <3>2. Cardinality(Before(S, p)) = 0
      BY <3>1, FS_EmptySet
    <3>3. QED
      BY <3>2
  <2>2. CASE p # 0
    <3>1. p - 1 \in Nat /\ (p - 1) + 1 = p /\ ~(p <= p - 1)
      BY <1>5, <2>2
    <3>2. ~(Cardinality(Before(S, (p - 1) + 1)) > i)
      BY <1>4, <3>1
    <3>3. QED
      BY <1>f, <1>5, <3>1, <3>2
  <2>3. QED
    BY <2>1, <2>2
<1>7. p \in S
  <2>1. SUFFICES ASSUME p \notin S PROVE FALSE
    OBVIOUS
  <2>2. Before(S, p + 1) = Before(S, p)
    <3>1. \A q \in S : q < p + 1 <=> q < p
      BY <1>1, <1>5, <2>1
    <3>2. QED
      BY <3>1 DEF Before
  <2>3. QED
    BY <1>f, <1>5, <1>6, <2>2
<1>8. Before(S, p + 1) = Before(S, p) \cup {p}
  <2>1. \A q \in S : q < p + 1 <=> q < p \/ q = p
    BY <1>1, <1>5
  <2>2. QED
    BY <1>7, <2>1 DEF Before
<1>9. p \notin Before(S, p)
  BY <1>5 DEF Before
<1>10. Cardinality(Before(S, p + 1)) = Cardinality(Before(S, p)) + 1
  BY <1>f, <1>5, <1>8, <1>9, FS_AddElement
<1>11. Cardinality(Before(S, p)) = i
  BY <1>f, <1>5, <1>6, <1>10
<1>12. Position(v, i) = p
  BY <1>7, <1>11, PositionIs DEF S
<1>13. QED
  BY <1>7, <1>11, <1>12 DEF S

\* Positions come in the order of their ranks.
LEMMA PositionsGrow ==
  ASSUME n_bits \in Nat, NEW i \in Nat, NEW k \in Nat, i < k, k < Cardinality(Positions(bit))
  PROVE  /\ Position(bit, i) \in Nat /\ Position(bit, k) \in Nat
         /\ Position(bit, i) < Position(bit, k)
<1> DEFINE S == Positions(bit)
           x == Position(bit, i)
           y == Position(bit, k)
<1>1. S \in SUBSET Nat
  BY DEF Positions
<1>0. Cardinality(S) \in Nat
  <2>1. S \in SUBSET Nat /\ \A q \in S : q <= n_bits
    BY DEF Positions
  <2>2. IsFiniteSet(S)
    BY <2>1, FS_BoundedSetOfNaturals
  <2>3. QED
    BY <2>2, FS_CardinalityType
<1>2. i < Cardinality(S)
  BY <1>0
<1>3. x \in S /\ Cardinality(Before(S, x)) = i
  BY <1>2, PositionThere
<1>4. y \in S /\ Cardinality(Before(S, y)) = k
  BY PositionThere
<1> HIDE DEF S, x, y
<1>5. x \in Nat /\ y \in Nat
  BY <1>1, <1>3, <1>4
<1>6. ASSUME y < x PROVE FALSE
  <2>1. Cardinality(Before(S, y)) < Cardinality(Before(S, x))
    BY <1>1, <1>4, <1>5, <1>6, BeforeGrows
  <2>2. FALSE
    BY <1>3, <1>4, <2>1
  <2>3. QED
    BY <2>2
<1>7. x # y
  BY <1>3, <1>4
<1>8. x < y
  <2>1. ~(y < x)
    BY <1>6
  <2>2. QED
    BY <1>5, <1>7, <2>1
<1>9. QED
  BY <1>5, <1>8 DEF x, y

------------------------------------------------------------------------------
(* The vector of a DArray.                                                 *)

\* Its words are those of its lines.
LEMMA WordsOf ==
  ASSUME ShapeInv
  PROVE  /\ n_bits \in Nat /\ n_words \in Nat /\ n_words * WORD_BITS \in Nat
         /\ DOMAIN data = 0..(n_words * WORD_BITS - 1)
         /\ \A p \in DOMAIN data : data[p] \in BOOLEAN
         /\ n_bits <= n_words * WORD_BITS
<1> DEFINE l == lines_for(n_bits)
           t == l * LINE
<1>1. n_bits \in Nat
  BY BitVectorAssumption DEF ShapeInv
<1>2. l \in Nat /\ t \in Nat /\ n_bits <= t
  BY <1>1, LinesHold
<1>3. DOMAIN data = 0..(t - 1) /\ \A p \in DOMAIN data : data[p] \in BOOLEAN
  BY DEF ShapeInv
<1>4. WORD_BITS \in Nat \ {0} /\ LINE_WORDS \in Nat \ {0}
  BY BitVectorAssumption
<1> DEFINE w == l * LINE_WORDS
<1>5. w \in Nat /\ t = WORD_BITS * w + 0 /\ t = w * WORD_BITS /\ 0 \in 0..(WORD_BITS - 1)
  <2> HIDE DEF l
  <2> QED
    BY <1>2, <1>4 DEF LINE
<1>6. Cardinality(DOMAIN data) = t
  <2> HIDE DEF t
  <2>1. t - 1 \in Int /\ 0 \in Int
    BY <1>2
  <2>2. Cardinality(0..(t - 1)) = IF 0 > t - 1 THEN 0 ELSE (t - 1) - 0 + 1
    BY <2>1, FS_Interval
  <2>3. QED
    BY <1>2, <1>3, <2>2
<1> HIDE DEF t, w
<1>7. n_words = w
  <2>1. t \div WORD_BITS = w
    BY <1>2, <1>4, <1>5, DivUnique
  <2>2. QED
    BY <1>6, <2>1 DEF n_words
<1>8. QED
  BY <1>1, <1>2, <1>3, <1>5, <1>7

\* A function on the places of a vector of m bits.
VectorOf(m) == [0..(lines_for(m) * LINE - 1) -> BOOLEAN]

\* Every operation of a vector keeps its shape.
LEMMA ShapeKept ==
  ASSUME ShapeInv, NextBits
  PROVE  ShapeInv'
<1>1. n_bits \in 0..MaxLen /\ n_bits \in Nat /\ data \in VectorOf(n_bits) /\ MaxLen \in Nat
  BY BitVectorAssumption DEF ShapeInv, VectorOf
<1>2. ASSUME NEW m \in Nat PROVE resized(m) \in VectorOf(m)
  <2>1. \A p \in DOMAIN data : data[p] \in BOOLEAN
    BY <1>1 DEF VectorOf
  <2>2. QED
    BY <2>1 DEF resized, VectorOf
<1>3. ASSUME NEW m \in Nat, NEW d \in VectorOf(m), NEW index, NEW bits \in Chunks
      PROVE  overwritten(d, index, bits) \in VectorOf(m)
  <2>1. \A x \in DOMAIN bits : bits[x] \in BOOLEAN
    BY ChunkIs
  <2>2. \A x \in DOMAIN d : d[x] \in BOOLEAN
    BY DEF VectorOf
  <2>3. DOMAIN d = 0..(lines_for(m) * LINE - 1)
    BY DEF VectorOf
  <2>4. QED
    BY <2>1, <2>2, <2>3 DEF overwritten, VectorOf
<1>4. SUFFICES n_bits' \in 0..MaxLen /\ data' \in VectorOf(n_bits')
  BY DEF ShapeInv, VectorOf, lines_for, LINE
<1>5. CASE AppendBits
  <2>1. PICK bits \in Chunks :
          /\ n_bits + Size(bits) <= MaxLen
          /\ data' = overwritten(resized(n_bits + Size(bits)), n_bits, bits)
          /\ n_bits' = n_bits + Size(bits)
    BY <1>5 DEF AppendBits
  <2>2. Size(bits) \in Nat
    BY ChunkIs
  <2> DEFINE m == n_bits + Size(bits)
  <2>3. m \in Nat /\ m \in 0..MaxLen
    BY <1>1, <2>1, <2>2
  <2> HIDE DEF m
  <2>4. overwritten(resized(m), n_bits, bits) \in VectorOf(m)
    BY <1>2, <1>3, <2>3
  <2>5. QED
    BY <2>1, <2>3, <2>4 DEF m
<1>6. CASE ExtendWithZeros
  <2>1. PICK k \in 1..(MaxLen - n_bits) : n_bits' = n_bits + k
    BY <1>6 DEF ExtendWithZeros
  <2>2. n_bits' \in Nat /\ n_bits' \in 0..MaxLen /\ data' = resized(n_bits')
    BY <1>1, <1>6, <2>1 DEF ExtendWithZeros
  <2>3. QED
    BY <1>2, <2>2
<1>7. CASE Set
  <2>1. PICK index \in 0..(n_bits - 1), b \in BOOLEAN : data' = [data EXCEPT ![index] = b]
    BY <1>7 DEF Set
  <2>2. data' \in VectorOf(n_bits)
    BY <1>1, <2>1 DEF VectorOf
  <2>3. QED
    BY <1>1, <1>7, <2>2 DEF Set
<1>8. CASE SetBits
  <2>1. PICK index \in 0..(n_bits - 1), bits \in Chunks : data' = overwritten(data, index, bits)
    BY <1>8 DEF SetBits
  <2>2. data' \in VectorOf(n_bits)
    BY <1>1, <1>3, <2>1
  <2>3. QED
    BY <1>1, <1>8, <2>2 DEF SetBits
<1>9. CASE ExtendOnes
  <2>1. PICK pos \in 0..(MaxLen - 1) :
          LET longer == IF pos >= n_bits THEN pos + 1 ELSE n_bits IN
          /\ n_bits' = longer
          /\ data' = [resized(longer) EXCEPT ![pos] = TRUE]
    BY <1>9 DEF ExtendOnes
  <2> DEFINE m == IF pos >= n_bits THEN pos + 1 ELSE n_bits
  <2>2. m \in Nat /\ m \in 0..MaxLen
    BY <1>1
  <2>3. n_bits' = m /\ data' = [resized(m) EXCEPT ![pos] = TRUE]
    BY <2>1
  <2> HIDE DEF m
  <2>4. resized(m) \in VectorOf(m)
    BY <1>2, <2>2
  <2>5. [resized(m) EXCEPT ![pos] = TRUE] \in VectorOf(m)
    BY <2>4 DEF VectorOf
  <2>6. QED
    BY <2>2, <2>3, <2>5
<1>10. CASE Freeze \/ Thaw
  BY <1>1, <1>10 DEF Freeze, Thaw
<1>11. CASE Deserialize
  <2>1. PICK l \in {n_bits - 1, n_bits, n_bits + 1} \cap 0..MaxLen :
        \E d \in {data} \cup {[data EXCEPT ![p] = ~ @] : p \in DOMAIN data} :
          /\ validate_deserialized_data(d, l)
          /\ data' = d /\ n_bits' = l
    BY <1>11 DEF Deserialize
  <2>2. PICK d \in {data} \cup {[data EXCEPT ![p] = ~ @] : p \in DOMAIN data} :
          /\ validate_deserialized_data(d, l)
          /\ data' = d /\ n_bits' = l
    BY <2>1
  <2> DEFINE s == lines_for(n_bits) * LINE
  <2>3. s \in Nat /\ data \in [0..(s - 1) -> BOOLEAN]
    BY <1>1, LinesHold DEF VectorOf
  <2> HIDE DEF s
  <2>4. d \in [0..(s - 1) -> BOOLEAN]
    <3>1. CASE d = data
      BY <2>3, <3>1
    <3>2. CASE d \in {[data EXCEPT ![p] = ~ @] : p \in DOMAIN data}
      <4>1. PICK p \in DOMAIN data : d = [data EXCEPT ![p] = ~ data[p]]
        BY <3>2
      <4>2. QED
        BY <2>3, <4>1
    <3>3. QED
      BY <3>1, <3>2
  <2>5. Good(d, l, Ones(d))
    BY <2>2, <2>3, <2>4, ValidIsGood
  <2>6. QED
    BY <2>2, <2>5 DEF Good, VectorOf
<1>12. QED
  BY <1>5, <1>6, <1>7, <1>8, <1>9, <1>10, <1>11 DEF NextBits

------------------------------------------------------------------------------
(* BitVectorBitPositionsIter.                                              *)

\* Numbers, and finite sets of them.
LEMMA IteratorTypes ==
  ASSUME ShapeInv, IteratorInv
  PROVE  /\ WORD_BITS \in Nat \ {0} /\ cur_word_pos \in Nat
         /\ cur_word_pos * WORD_BITS \in Nat
         /\ (cur_word_pos + 1) * WORD_BITS = cur_word_pos * WORD_BITS + WORD_BITS
         /\ Positions(bit) \in SUBSET Nat /\ IsFiniteSet(Positions(bit))
         /\ \A p \in Positions(bit) : p \in Nat /\ p < n_bits /\ data[p] = bit
         /\ Taken \in SUBSET Positions(bit) /\ IsFiniteSet(Taken) /\ n_sets \in Nat
<1>1. n_bits \in Nat /\ n_words \in Nat
  BY WordsOf
<1>2. WORD_BITS \in Nat \ {0} /\ cur_word_pos \in Nat
  BY <1>1, BitVectorAssumption DEF IteratorInv
<1>3. /\ cur_word_pos * WORD_BITS \in Nat
      /\ (cur_word_pos + 1) * WORD_BITS = cur_word_pos * WORD_BITS + WORD_BITS
  BY <1>2
<1>4. /\ Positions(bit) \in SUBSET Nat
      /\ \A p \in Positions(bit) : p \in Nat /\ p < n_bits /\ p <= n_bits /\ data[p] = bit
  BY <1>1 DEF Positions
<1>5. IsFiniteSet(Positions(bit))
  BY <1>1, <1>4, FS_BoundedSetOfNaturals
<1>6. Taken \in SUBSET Positions(bit)
  BY DEF Taken
<1>7. IsFiniteSet(Taken) /\ Cardinality(Taken) \in Nat
  BY <1>5, <1>6, FS_Subset, FS_CardinalityType
<1>8. QED
  BY <1>2, <1>3, <1>4, <1>5, <1>6, <1>7 DEF IteratorInv

\* Loading a word yields nothing.
LEMMA LoadStep ==
  ASSUME ShapeInv, IteratorInv, LoadWord
  PROVE  IteratorInv'
<1> DEFINE t == cur_word_pos * WORD_BITS
           W == WORD_BITS
<1>1. /\ cur_word = {} /\ cur_word_pos < n_words /\ cur_word' = word(cur_word_pos)
      /\ cur_word_pos' = cur_word_pos + 1 /\ n_sets' = n_sets
      /\ n_bits' = n_bits /\ data' = data /\ bit' = bit
  BY DEF LoadWord, bitVars
<1>2. /\ W \in Nat \ {0} /\ cur_word_pos \in Nat /\ t \in Nat /\ cur_word_pos' * W = t + W
      /\ \A p \in Positions(bit) : p \in Nat /\ data[p] = bit
  BY <1>1, IteratorTypes
<1>3. n_words' = n_words /\ Positions(bit)' = Positions(bit) /\ n_words \in Nat
  BY <1>1, WordsOf DEF n_words, Positions
<1>4. cur_word' = {p \in t..((t + W) - 1) : data[p] = bit}
  <2>1. (cur_word_pos + 1) * W = t + W
    BY <1>1, <1>2
  <2>2. QED
    BY <1>1, <2>1 DEF word
<1>5. Taken' = {p \in Positions(bit) : p < t + W /\ p \notin cur_word'}
  BY <1>2, <1>3 DEF Taken
<1>6. Taken = {p \in Positions(bit) : p < t}
  BY <1>1 DEF Taken
<1> HIDE DEF t, W
<1>7. \A p \in Positions(bit) : (p < t + W /\ p \notin cur_word') <=> p < t
  BY <1>2, <1>4
<1>8. Taken' = Taken
  BY <1>5, <1>6, <1>7
<1>9. \A p \in cur_word' : /\ p \in Nat /\ data[p] = bit /\ t <= p /\ p < t + W
  BY <1>2, <1>4
<1>10. \A p \in Taken', q \in cur_word' : p < q
  <2>1. \A p \in Taken : p \in Nat /\ p < t
    BY <1>2, <1>6
  <2>2. QED
    BY <1>2, <1>8, <1>9, <2>1
<1>11. n_sets' = Cardinality(Taken')
  BY <1>1, <1>8 DEF IteratorInv
<1>12. cur_word_pos' \in 0..n_words'
  BY <1>1, <1>2, <1>3
<1>13. \A p \in cur_word' : /\ p \in Nat /\ data'[p] = bit'
                            /\ cur_word_pos' * WORD_BITS - WORD_BITS <= p
                            /\ p < cur_word_pos' * WORD_BITS
  <2>1. cur_word_pos' * WORD_BITS = t + W /\ W = WORD_BITS
    BY <1>2 DEF W
  <2>2. QED
    BY <1>1, <1>2, <1>9, <2>1
<1>14. QED
  BY <1>10, <1>11, <1>12, <1>13 DEF IteratorInv

\* The next position yielded is the one whose rank is the number yielded before.
LEMMA TakeStep ==
  ASSUME ShapeInv, IteratorInv, TakePosition
  PROVE  /\ IteratorInv'
         /\ n_sets \in Nat /\ n_sets < Cardinality(Positions(bit)) /\ n_sets' = n_sets + 1
         /\ Min(cur_word) \in Nat /\ Min(cur_word) = Position(bit, n_sets)
<1> DEFINE t == cur_word_pos * WORD_BITS
           m == Min(cur_word)
           S == Positions(bit)
<1>1. /\ cur_word # {} /\ m < n_bits /\ cur_word' = cur_word \ {m}
      /\ cur_word_pos' = cur_word_pos /\ n_sets' = n_sets + 1
      /\ n_bits' = n_bits /\ data' = data /\ bit' = bit
  BY DEF TakePosition, in_vector, bitVars
<1>2. /\ n_bits \in Nat /\ t \in Nat /\ WORD_BITS \in Nat
      /\ S \in SUBSET Nat /\ IsFiniteSet(S) /\ IsFiniteSet(Taken)
      /\ n_sets \in Nat /\ n_sets = Cardinality(Taken) /\ Taken \in SUBSET S
      /\ \A p \in S : p \in Nat
  BY IteratorTypes, WordsOf DEF IteratorInv
<1>3. \A p \in cur_word : p \in Nat /\ data[p] = bit /\ p < t
  BY DEF IteratorInv
<1>4. m \in cur_word /\ \A y \in cur_word : m <= y
  <2>1. cur_word \in SUBSET Nat
    BY <1>3
  <2>2. QED
    BY <1>1, <2>1, MinNat
<1>5. m \in Nat /\ m < t /\ m \in S /\ m \notin Taken
  <2>1. m \in Nat /\ m < t /\ data[m] = bit
    BY <1>3, <1>4
  <2>2. m \in 0..(n_bits - 1)
    BY <1>1, <1>2, <2>1
  <2>3. m \in S
    BY <2>1, <2>2 DEF Positions
  <2>4. m \notin Taken
    BY <1>4 DEF Taken
  <2>5. QED
    BY <2>1, <2>3, <2>4
<1>6. n_words' = n_words /\ S' = S
  BY <1>1 DEF n_words, Positions
<1>7. Taken = {p \in S : p < t /\ p \notin cur_word}
  BY DEF Taken
<1>8. Taken' = {p \in S : p < t /\ p \notin cur_word'}
  BY <1>1, <1>6 DEF Taken
<1>o. \A p \in Taken, q \in cur_word : p < q
  BY DEF IteratorInv
<1> HIDE DEF t, S, m
<1>9. Taken' = Taken \cup {m}
  BY <1>1, <1>4, <1>5, <1>7, <1>8
<1>10. Cardinality(Taken') = n_sets + 1
  BY <1>2, <1>5, <1>9, FS_AddElement
<1>11. Before(S, m) = Taken
  <2>1. ASSUME NEW q \in S PROVE q < m <=> q < t /\ q \notin cur_word
    <3>1. q \in Nat /\ m \in Nat /\ t \in Nat /\ m < t
      BY <1>2, <1>5
    <3>2. ASSUME q < m PROVE q < t /\ q \notin cur_word
      <4>1. q < t
        BY <3>1, <3>2
      <4>2. q \in cur_word => m <= q
        BY <1>4
      <4>3. QED
        BY <3>1, <3>2, <4>1, <4>2
    <3>3. ASSUME q < t, q \notin cur_word PROVE q < m
      <4>1. q \in Taken
        BY <1>7, <3>3
      <4>2. QED
        BY <1>o, <1>4, <4>1
    <3>4. QED
      BY <3>2, <3>3
  <2>2. QED
    BY <1>7, <2>1 DEF Before
<1>12. Position(bit, n_sets) = m
  BY <1>2, <1>5, <1>11, PositionIs DEF S
<1>13. n_sets < Cardinality(S)
  <2>1. Taken' \in SUBSET S
    BY <1>2, <1>5, <1>9
  <2>2. Cardinality(Taken') <= Cardinality(S) /\ Cardinality(S) \in Nat
    BY <1>2, <2>1, FS_Subset, FS_CardinalityType
  <2>3. QED
    BY <1>2, <1>10, <2>2
<1>14. \A p \in Taken', q \in cur_word' : p < q
  <2>1. ASSUME NEW q \in cur_word' PROVE q \in cur_word /\ m < q
    <3>1. q \in cur_word /\ q # m
      BY <1>1
    <3>2. q \in Nat /\ m <= q
      BY <1>3, <1>4, <3>1
    <3>3. QED
      BY <1>5, <3>1, <3>2
  <2>2. QED
    BY <1>o, <1>9, <2>1
<1>15. \A p \in cur_word' : p \in cur_word
  BY <1>1
<1>16. IteratorInv'
  <2>1. cur_word_pos' \in 0..n_words'
    BY <1>1, <1>6 DEF IteratorInv
  <2>2. \A p \in cur_word' : /\ p \in Nat /\ data'[p] = bit'
                             /\ cur_word_pos' * WORD_BITS - WORD_BITS <= p
                             /\ p < cur_word_pos' * WORD_BITS
    BY <1>1, <1>15 DEF IteratorInv
  <2>3. n_sets' = Cardinality(Taken')
    BY <1>1, <1>10
  <2>4. QED
    BY <1>14, <2>1, <2>2, <2>3 DEF IteratorInv
<1>17. QED
  BY <1>1, <1>2, <1>5, <1>12, <1>13, <1>16 DEF m, S

\* When the iterator stops it has yielded every position: a word that reaches
\* beyond the vector has none after that.
LEMMA ScanEnds ==
  ASSUME ShapeInv, IteratorInv, Finish
  PROVE  n_sets = Cardinality(Positions(bit))
<1> DEFINE t == cur_word_pos * WORD_BITS
           S == Positions(bit)
<1>1. /\ n_bits \in Nat /\ t \in Nat /\ n_bits <= n_words * WORD_BITS /\ n_words \in Nat
      /\ \A p \in S : p \in Nat /\ p < n_bits
  BY IteratorTypes, WordsOf
<1>2. Taken = {p \in S : p < t /\ p \notin cur_word}
  BY DEF Taken
<1>3. \A p \in S : p < t /\ p \notin cur_word
  <2>1. CASE cur_word = {} /\ cur_word_pos = n_words
    BY <1>1, <2>1
  <2>2. CASE cur_word # {} /\ ~in_vector(Min(cur_word))
    <3> DEFINE m == Min(cur_word)
    <3>1. cur_word \in SUBSET Nat /\ \A p \in cur_word : p \in Nat /\ p < t
      BY DEF IteratorInv
    <3>2. m \in cur_word /\ \A y \in cur_word : m <= y
      BY <2>2, <3>1, MinNat
    <3>3. m \in Nat /\ m < t /\ n_bits <= m
      <4>1. m \in Nat /\ m < t
        BY <3>1, <3>2
      <4>2. ~(m < n_bits)
        BY <2>2 DEF in_vector
      <4>3. QED
        BY <1>1, <4>1, <4>2
    <3> HIDE DEF m, t, S
    <3>4. ASSUME NEW p \in S PROVE p < t /\ p \notin cur_word
      <4>1. p \in Nat /\ p < m /\ p < t
        BY <1>1, <3>3
      <4>2. p \in cur_word => m <= p
        BY <3>2
      <4>3. QED
        BY <3>3, <4>1, <4>2
    <3>5. QED
      BY <3>4
  <2>3. QED
    BY <2>1, <2>2 DEF Finish
<1>4. Taken = S
  BY <1>2, <1>3
<1>5. QED
  BY <1>4 DEF IteratorInv

------------------------------------------------------------------------------
(* Flushing a block.                                                       *)

\* A block is a whole number of subblocks.
LEMMA Sizes ==
  /\ BLOCK_SIZE \in Nat \ {0} /\ SUBBLOCK_SIZE \in Nat \ {0}
  /\ MAX_IN_BLOCK_DISTANCE \in Nat \ {0}
  /\ PER_BLOCK \in Nat \ {0}
  /\ BLOCK_SIZE = SUBBLOCK_SIZE * PER_BLOCK
<1>1. /\ BLOCK_SIZE \in Nat \ {0} /\ SUBBLOCK_SIZE \in Nat \ {0}
      /\ MAX_IN_BLOCK_DISTANCE \in Nat \ {0} /\ BLOCK_SIZE % SUBBLOCK_SIZE = 0
  BY DArrayAssumption
<1>2. PER_BLOCK \in Nat /\ BLOCK_SIZE = SUBBLOCK_SIZE * PER_BLOCK
  BY <1>1, DivMod DEF PER_BLOCK
<1>3. PER_BLOCK # 0
  BY <1>1, <1>2
<1>4. QED
  BY <1>1, <1>2, <1>3

\* What is in block b is before the first place of a later block c.
LEMMA EarlierBlock ==
  ASSUME NEW b \in Nat, NEW c \in Nat, b < c, NEW d \in Nat \ {0}, NEW k \in 0..(d - 1)
  PROVE  /\ b * d \in Nat /\ c * d \in Nat
         /\ b * d + k < c * d
<1>1. PICK e \in Nat : c = (b + 1) + e
  <2>1. c - (b + 1) \in Nat /\ c = (b + 1) + (c - (b + 1))
    OBVIOUS
  <2>2. QED
    BY <2>1
<1>2. c * d = b * d + d + e * d
  BY <1>1
<1>3. b * d \in Nat /\ c * d \in Nat /\ e * d \in Nat
  OBVIOUS
<1>4. QED
  BY <1>2, <1>3

\* Subblock j of a block starts in it, and has a distance when it starts in the
\* first l positions.
LEMMA SubblockStarts ==
  ASSUME NEW j \in 0..(PER_BLOCK - 1)
  PROVE  /\ j * SUBBLOCK_SIZE \in 0..(BLOCK_SIZE - 1)
         /\ \A l \in Nat : j * SUBBLOCK_SIZE < l =>
              j + 1 \in 1..((l + SUBBLOCK_SIZE - 1) \div SUBBLOCK_SIZE)
<1>1. j \in Nat /\ j < PER_BLOCK /\ PER_BLOCK \in Nat
      /\ SUBBLOCK_SIZE \in Nat \ {0} /\ 0 \in 0..(SUBBLOCK_SIZE - 1)
  BY Sizes
<1>2. j * SUBBLOCK_SIZE \in Nat /\ j * SUBBLOCK_SIZE + 0 < PER_BLOCK * SUBBLOCK_SIZE
  BY <1>1, EarlierBlock
<1>3. PER_BLOCK * SUBBLOCK_SIZE = BLOCK_SIZE
  BY Sizes
<1>4. ASSUME NEW l \in Nat, j * SUBBLOCK_SIZE < l
      PROVE  j + 1 \in 1..((l + SUBBLOCK_SIZE - 1) \div SUBBLOCK_SIZE)
  <2> DEFINE n == l + SUBBLOCK_SIZE - 1
             q == n \div SUBBLOCK_SIZE
  <2>1. n \in Nat
    BY <1>1
  <2>2. q \in Nat /\ n < SUBBLOCK_SIZE * q + SUBBLOCK_SIZE
    <3> HIDE DEF n
    <3>1. q \in Nat /\ n % SUBBLOCK_SIZE \in 0..(SUBBLOCK_SIZE - 1)
          /\ n = SUBBLOCK_SIZE * q + (n % SUBBLOCK_SIZE)
      BY <1>1, <2>1, DivMod
    <3> HIDE DEF q
    <3>2. SUBBLOCK_SIZE * q \in Nat
      BY <1>1, <3>1
    <3>3. QED
      BY <1>1, <3>1, <3>2
  <2>3. ASSUME q <= j PROVE FALSE
    <3> HIDE DEF q
    <3>1. SUBBLOCK_SIZE * q <= j * SUBBLOCK_SIZE
      <4>1. CASE q = j
        BY <1>1, <2>2, <4>1
      <4>2. CASE q # j
        <5>1. q * SUBBLOCK_SIZE + 0 < j * SUBBLOCK_SIZE
          BY <1>1, <2>2, <2>3, <4>2, EarlierBlock
        <5>2. q * SUBBLOCK_SIZE = SUBBLOCK_SIZE * q
          BY <1>1, <2>2
        <5>3. SUBBLOCK_SIZE * q \in Nat
          BY <1>1, <2>2
        <5>4. QED
          BY <1>2, <5>1, <5>2, <5>3
      <4>3. QED
        BY <4>1, <4>2
    <3>2. SUBBLOCK_SIZE * q \in Nat
      BY <1>1, <2>2
    <3>3. QED
      BY <1>1, <1>2, <1>4, <2>2, <3>1, <3>2
  <2>4. QED
    BY <1>1, <2>2, <2>3
<1>5. QED
  BY <1>2, <1>3, <1>4, Sizes

\* A full block has PER_BLOCK distances.
LEMMA FullBlockDistances ==
  (BLOCK_SIZE + SUBBLOCK_SIZE - 1) \div SUBBLOCK_SIZE = PER_BLOCK
<1>1. BLOCK_SIZE + SUBBLOCK_SIZE - 1 = SUBBLOCK_SIZE * PER_BLOCK + (SUBBLOCK_SIZE - 1)
  BY Sizes
<1>2. /\ BLOCK_SIZE + SUBBLOCK_SIZE - 1 \in Nat
      /\ SUBBLOCK_SIZE - 1 \in 0..(SUBBLOCK_SIZE - 1)
      /\ PER_BLOCK \in Int /\ SUBBLOCK_SIZE \in Nat \ {0}
  BY Sizes
<1>3. QED
  BY <1>1, <1>2, DivUnique

\* The blocks flushed before stay exact when the inventories only grow.
LEMMA TablesPersist ==
  ASSUME NEW places, NEW bi, NEW sub, NEW ov, NEW bi2, NEW sub2, NEW ov2, NEW n,
         Tables(places, bi, sub, ov, Len(bi) * BLOCK_SIZE),
         bi2 \in Seq(Int), sub2 \in Seq(Nat), ov2 \in Seq(Nat),
         Len(sub) <= Len(sub2), Len(ov) <= Len(ov2),
         \A x \in 1..Len(bi) : bi2[x] = bi[x],
         \A x \in 1..Len(sub) : sub2[x] = sub[x],
         \A x \in 1..Len(ov) : ov2[x] = ov[x],
         NEW b \in 0..(Len(bi) - 1)
  PROVE  /\ EntryExact(places, bi2, ov2, n, b)
         /\ DistancesExact(places, bi2, sub2, n, b)
<1>1. /\ Len(bi) \in Nat /\ Len(sub) \in Nat /\ Len(ov) \in Nat
      /\ Len(bi2) \in Nat /\ Len(sub2) \in Nat /\ Len(ov2) \in Nat
  BY LenProperties DEF Tables
<1>2. b \in Nat /\ b < Len(bi) /\ b + 1 \in 1..Len(bi)
  BY <1>1
<1>3. bi2[b + 1] = bi[b + 1] /\ bi[b + 1] \in Int
  BY <1>2, ElementOfSeq DEF Tables
<1>4. \A k \in 0..(BLOCK_SIZE - 1) : b * BLOCK_SIZE + k < Len(bi) * BLOCK_SIZE
  BY <1>1, <1>2, EarlierBlock, Sizes
<1>5. EntryExact(places, bi, ov, Len(bi) * BLOCK_SIZE, b)
      /\ DistancesExact(places, bi, sub, Len(bi) * BLOCK_SIZE, b)
  BY DEF Tables
<1>6. EntryExact(places, bi2, ov2, n, b)
  <2>1. CASE bi[b + 1] >= 0
    BY <1>3, <1>5, <2>1 DEF EntryExact
  <2>2. CASE ~(bi[b + 1] >= 0)
    <3>1. ASSUME NEW k \in 0..(BLOCK_SIZE - 1)
          PROVE  /\ -bi[b + 1] - 1 + k \in 0..(Len(ov2) - 1)
                 /\ ov2[(-bi[b + 1] - 1 + k) + 1] = places[b * BLOCK_SIZE + k]
      <4> DEFINE x == -bi[b + 1] - 1 + k
      <4>1. x \in 0..(Len(ov) - 1) /\ ov[x + 1] = places[b * BLOCK_SIZE + k]
        BY <1>4, <1>5, <2>2 DEF EntryExact
      <4> HIDE DEF x
      <4>2. x + 1 \in 1..Len(ov) /\ x \in 0..(Len(ov2) - 1)
        BY <1>1, <4>1
      <4>3. ov2[x + 1] = places[b * BLOCK_SIZE + k]
        BY <4>1, <4>2
      <4>4. QED
        BY <4>2, <4>3 DEF x
    <3>2. QED
      BY <1>3, <2>2, <3>1 DEF EntryExact
  <2>3. QED
    BY <2>1, <2>2
<1>7. DistancesExact(places, bi2, sub2, n, b)
  <2>1. SUFFICES ASSUME DenseTo(bi2, b), NEW j \in 0..(PER_BLOCK - 1)
                 PROVE  /\ b * PER_BLOCK + j < Len(sub2)
                        /\ sub2[(b * PER_BLOCK + j) + 1]
                             = places[b * BLOCK_SIZE + j * SUBBLOCK_SIZE] - places[b * BLOCK_SIZE]
    BY DEF DistancesExact
  <2>2. DenseTo(bi, b)
    <3>1. \A x \in 0..b : x + 1 \in 1..Len(bi)
      BY <1>1, <1>2
    <3>2. QED
      BY <2>1, <3>1 DEF DenseTo
  <2>3. b * BLOCK_SIZE + j * SUBBLOCK_SIZE < Len(bi) * BLOCK_SIZE
    BY <1>4, SubblockStarts
  <2> DEFINE x == b * PER_BLOCK + j
  <2>4. x < Len(sub)
        /\ sub[x + 1] = places[b * BLOCK_SIZE + j * SUBBLOCK_SIZE] - places[b * BLOCK_SIZE]
    BY <1>5, <2>2, <2>3 DEF DistancesExact
  <2>5. x \in Nat
    <3>1. b * PER_BLOCK \in Nat /\ j \in Nat
      BY <1>2, Sizes
    <3>2. QED
      BY <3>1
  <2> HIDE DEF x
  <2>6. x + 1 \in 1..Len(sub) /\ x < Len(sub2)
    BY <1>1, <2>4, <2>5
  <2>7. QED
    BY <2>4, <2>6 DEF x
<1>8. QED
  BY <1>6, <1>7

\* A block of positions that is ready to be flushed as block number c.
BlockOf(places, c, ps) ==
  /\ ps \in Seq(Nat) /\ Len(ps) \in 1..BLOCK_SIZE
  /\ \A k \in 1..Len(ps) : ps[k] = places[c * BLOCK_SIZE + (k - 1)]
  /\ \A k \in 1..Len(ps) : ps[1] <= ps[k] /\ ps[k] <= ps[Len(ps)]

\* The distances of a dense block fit in 16 bits.
LEMMA DistancesFit ==
  ASSUME NEW places, NEW c \in Nat, NEW ps, BlockOf(places, c, ps), dense(ps)
  PROVE  /\ distances(ps) \in Seq(Nat)
         /\ Len(distances(ps)) = (Len(ps) + SUBBLOCK_SIZE - 1) \div SUBBLOCK_SIZE
         /\ \A j \in 0..(PER_BLOCK - 1) : j * SUBBLOCK_SIZE < Len(ps) =>
              /\ j + 1 \in 1..Len(distances(ps))
              /\ distances(ps)[j + 1]
                   = places[c * BLOCK_SIZE + j * SUBBLOCK_SIZE] - places[c * BLOCK_SIZE]
<1> DEFINE m == (Len(ps) + SUBBLOCK_SIZE - 1) \div SUBBLOCK_SIZE
<1>1. Len(ps) \in Nat \ {0} /\ ps[1] \in Nat /\ ps[Len(ps)] \in Nat
  <2>1. Len(ps) \in Nat \ {0} /\ ps \in Seq(Nat)
    BY LenProperties DEF BlockOf
  <2>2. 1 \in 1..Len(ps) /\ Len(ps) \in 1..Len(ps)
    BY <2>1
  <2>3. QED
    BY <2>1, <2>2, ElementOfSeq
<1>2. m \in Nat
  <2>1. Len(ps) + SUBBLOCK_SIZE - 1 \in Nat /\ SUBBLOCK_SIZE \in Nat \ {0}
    BY <1>1, Sizes
  <2>2. QED
    BY <2>1, DivMod
<1>d. distances(ps) = [k \in 1..m |->
                         (ps[(k - 1) * SUBBLOCK_SIZE + 1] - ps[1]) % MAX_IN_BLOCK_DISTANCE]
  BY DEF distances
<1>3. ASSUME NEW k \in 1..m
      PROVE  /\ (k - 1) * SUBBLOCK_SIZE \in Nat
             /\ (k - 1) * SUBBLOCK_SIZE + 1 \in 1..Len(ps)
  <2> DEFINE n == Len(ps) + SUBBLOCK_SIZE - 1
             j == k - 1
  <2>1. n \in Nat /\ SUBBLOCK_SIZE \in Nat \ {0}
    BY <1>1, Sizes
  <2>2. n % SUBBLOCK_SIZE \in 0..(SUBBLOCK_SIZE - 1) /\ n = SUBBLOCK_SIZE * m + (n % SUBBLOCK_SIZE)
    BY <2>1, DivMod
  <2>3. j \in Nat /\ j < m
    BY <1>2
  <2> HIDE DEF j, m
  <2>4. j * SUBBLOCK_SIZE \in Nat /\ m * SUBBLOCK_SIZE \in Nat
        /\ j * SUBBLOCK_SIZE + (SUBBLOCK_SIZE - 1) < m * SUBBLOCK_SIZE
    <3>1. SUBBLOCK_SIZE - 1 \in 0..(SUBBLOCK_SIZE - 1)
      BY <2>1
    <3>2. QED
      BY <1>2, <2>1, <2>3, <3>1, EarlierBlock
  <2>5. m * SUBBLOCK_SIZE = SUBBLOCK_SIZE * m
    BY <1>2, <2>1
  <2>6. m * SUBBLOCK_SIZE <= n
    <3> HIDE DEF n
    <3>1. n % SUBBLOCK_SIZE \in Nat /\ SUBBLOCK_SIZE * m \in Nat
      BY <2>2, <2>4, <2>5
    <3>2. QED
      BY <2>1, <2>2, <2>5, <3>1
  <2>7. j * SUBBLOCK_SIZE + 1 \in 1..Len(ps)
    BY <1>1, <2>1, <2>4, <2>6
  <2>8. QED
    BY <2>4, <2>7 DEF j
<1>4. ASSUME NEW x \in 1..Len(ps)
      PROVE  /\ ps[x] \in Nat /\ ps[x] - ps[1] \in Nat
             /\ (ps[x] - ps[1]) % MAX_IN_BLOCK_DISTANCE = ps[x] - ps[1]
  <2>1. ps[x] \in Nat /\ ps[1] <= ps[x] /\ ps[x] <= ps[Len(ps)]
    BY ElementOfSeq DEF BlockOf
  <2>2. ps[x] - ps[1] \in 0..(MAX_IN_BLOCK_DISTANCE - 1) /\ MAX_IN_BLOCK_DISTANCE \in Nat \ {0}
    BY <1>1, <2>1, Sizes DEF dense
  <2> DEFINE y == ps[x] - ps[1]
  <2>3. y = MAX_IN_BLOCK_DISTANCE * 0 + y
    BY <2>2
  <2>4. y % MAX_IN_BLOCK_DISTANCE = y
    <3> HIDE DEF y
    <3> QED
      BY <2>2, <2>3, DivUnique DEF y
  <2>5. QED
    BY <2>1, <2>2, <2>4
<1> HIDE DEF m
<1>5. \A k \in 1..m : distances(ps)[k] = ps[(k - 1) * SUBBLOCK_SIZE + 1] - ps[1]
                      /\ distances(ps)[k] \in Nat
  BY <1>3, <1>4, <1>d
<1>6. distances(ps) \in Seq(Nat) /\ Len(distances(ps)) = m
  <2>1. distances(ps) \in [1..m -> Nat]
    BY <1>3, <1>4, <1>d
  <2>2. QED
    BY <1>2, <2>1
<1>7. ASSUME NEW j \in 0..(PER_BLOCK - 1), j * SUBBLOCK_SIZE < Len(ps)
      PROVE  /\ j + 1 \in 1..Len(distances(ps))
             /\ distances(ps)[j + 1]
                  = places[c * BLOCK_SIZE + j * SUBBLOCK_SIZE] - places[c * BLOCK_SIZE]
  <2>1. j + 1 \in 1..m /\ j * SUBBLOCK_SIZE \in Nat
    <3>1. j * SUBBLOCK_SIZE \in 0..(BLOCK_SIZE - 1) /\ j + 1 \in 1..m
      BY <1>1, <1>7, SubblockStarts DEF m
    <3>2. QED
      BY <3>1
  <2>2. distances(ps)[j + 1] = ps[j * SUBBLOCK_SIZE + 1] - ps[1]
    <3>1. (j + 1) - 1 = j
      OBVIOUS
    <3>2. QED
      BY <1>5, <2>1, <3>1
  <2> DEFINE s == j * SUBBLOCK_SIZE
             t == c * BLOCK_SIZE
  <2>3. t \in Nat
    BY Sizes
  <2> HIDE DEF s, t
  <2>4. ps[s + 1] = places[t + s] /\ ps[1] = places[t]
    <3>1. s \in Nat /\ s < Len(ps)
      BY <1>7, <2>1 DEF s
    <3>2. s + 1 \in 1..Len(ps) /\ 1 \in 1..Len(ps) /\ (s + 1) - 1 = s /\ t + (1 - 1) = t
      BY <1>1, <2>3, <3>1
    <3>3. ps[s + 1] = places[t + ((s + 1) - 1)] /\ ps[1] = places[t + (1 - 1)]
      BY <3>2 DEF BlockOf, t
    <3>4. QED
      BY <3>2, <3>3
  <2>5. QED
    BY <1>6, <2>1, <2>2, <2>4 DEF s, t
<1>8. QED
  BY <1>6, <1>7 DEF m

\* Flushing a dense block keeps the tables exact.
LEMMA FlushDense ==
  ASSUME NEW places, NEW bi, NEW sub, NEW ov, NEW ps,
         Tables(places, bi, sub, ov, Len(bi) * BLOCK_SIZE), Aligned(bi, sub),
         BlockOf(places, Len(bi), ps), dense(ps)
  PROVE  /\ Tables(places, Append(bi, ps[1]), sub \o distances(ps), ov,
                   Len(bi) * BLOCK_SIZE + Len(ps))
         /\ Len(Append(bi, ps[1])) = Len(bi) + 1
         /\ Len(ps) = BLOCK_SIZE => Aligned(Append(bi, ps[1]), sub \o distances(ps))
<1> DEFINE c == Len(bi)
           ds == distances(ps)
           bi2 == Append(bi, ps[1])
           sub2 == sub \o ds
           n == c * BLOCK_SIZE + Len(ps)
<1>1. /\ bi \in Seq(Int) /\ sub \in Seq(Nat) /\ ov \in Seq(Nat)
      /\ c \in Nat /\ Len(sub) \in Nat /\ Len(ov) \in Nat
  BY LenProperties DEF Tables
<1>2. ps[1] \in Nat /\ Len(ps) \in Nat \ {0} /\ ps[1] = places[c * BLOCK_SIZE]
  <2>1. Len(ps) \in Nat \ {0} /\ ps \in Seq(Nat)
    BY LenProperties DEF BlockOf
  <2>2. 1 \in 1..Len(ps)
    BY <2>1
  <2>3. ps[1] = places[c * BLOCK_SIZE + (1 - 1)]
    BY <2>2 DEF BlockOf
  <2>4. c * BLOCK_SIZE + (1 - 1) = c * BLOCK_SIZE
    <3>1. c * BLOCK_SIZE \in Nat
      BY <1>1, Sizes
    <3>2. QED
      BY <3>1
  <2>5. QED
    BY <2>1, <2>2, <2>3, <2>4, ElementOfSeq
<1>3. /\ ds \in Seq(Nat) /\ Len(ds) \in Nat
      /\ Len(ds) = (Len(ps) + SUBBLOCK_SIZE - 1) \div SUBBLOCK_SIZE
      /\ \A j \in 0..(PER_BLOCK - 1) : j * SUBBLOCK_SIZE < Len(ps) =>
           /\ j + 1 \in 1..Len(ds)
           /\ ds[j + 1] = places[c * BLOCK_SIZE + j * SUBBLOCK_SIZE] - places[c * BLOCK_SIZE]
  <2>1. /\ ds \in Seq(Nat)
        /\ Len(ds) = (Len(ps) + SUBBLOCK_SIZE - 1) \div SUBBLOCK_SIZE
        /\ \A j \in 0..(PER_BLOCK - 1) : j * SUBBLOCK_SIZE < Len(ps) =>
             /\ j + 1 \in 1..Len(ds)
             /\ ds[j + 1] = places[c * BLOCK_SIZE + j * SUBBLOCK_SIZE] - places[c * BLOCK_SIZE]
    <3>1. Len(bi) \in Nat /\ BlockOf(places, Len(bi), ps) /\ dense(ps)
      BY <1>1
    <3>2. QED
      BY <3>1, DistancesFit
  <2> HIDE DEF ds
  <2>2. Len(ds) \in Nat
    BY <2>1, LenProperties
  <2>3. QED
    BY <2>1, <2>2
<1> HIDE DEF ds
<1>4. /\ bi2 \in Seq(Int) /\ Len(bi2) = c + 1
      /\ \A x \in 1..c : bi2[x] = bi[x]
      /\ bi2[c + 1] = ps[1]
  BY <1>1, <1>2, AppendProperties
<1>5. /\ sub2 \in Seq(Nat) /\ Len(sub2) = Len(sub) + Len(ds)
      /\ \A x \in 1..Len(sub) : sub2[x] = sub[x]
      /\ \A x \in 1..Len(ds) : sub2[Len(sub) + x] = ds[x]
  <2>1. sub \in Seq(Nat) /\ ds \in Seq(Nat)
    BY <1>1, <1>3
  <2>2. QED
    BY <2>1, ConcatProperties
<1> HIDE DEF bi2, sub2
<1>6. ASSUME NEW b \in 0..(Len(bi2) - 1)
      PROVE  EntryExact(places, bi2, ov, n, b) /\ DistancesExact(places, bi2, sub2, n, b)
  <2>1. CASE b < c
    <3>1. b \in 0..(Len(bi) - 1) /\ Len(sub) <= Len(sub2) /\ Len(ov) <= Len(ov)
      BY <1>1, <1>3, <1>5, <2>1
    <3>2. \A x \in 1..Len(ov) : ov[x] = ov[x]
      OBVIOUS
    <3> HIDE DEF n
    <3>3. QED
      BY <1>1, <1>4, <1>5, <3>1, <3>2, TablesPersist
  <2>2. CASE ~(b < c)
    <3>1. b = c
      BY <1>1, <1>4, <2>2
    <3>2. EntryExact(places, bi2, ov, n, c)
      <4>1. bi2[c + 1] >= 0 /\ bi2[c + 1] = places[c * BLOCK_SIZE]
        BY <1>2, <1>4
      <4>2. QED
        BY <4>1 DEF EntryExact
    <3>3. DistancesExact(places, bi2, sub2, n, c)
      <4>1. SUFFICES ASSUME DenseTo(bi2, c), NEW j \in 0..(PER_BLOCK - 1),
                            c * BLOCK_SIZE + j * SUBBLOCK_SIZE < n
                     PROVE  /\ c * PER_BLOCK + j < Len(sub2)
                            /\ sub2[(c * PER_BLOCK + j) + 1]
                                 = places[c * BLOCK_SIZE + j * SUBBLOCK_SIZE]
                                     - places[c * BLOCK_SIZE]
        BY DEF DistancesExact
      <4>2. Len(sub) = c * PER_BLOCK
        <5>1. \A x \in 0..(c - 1) : x \in 0..c /\ x + 1 \in 1..c
          BY <1>1
        <5>2. DenseTo(bi, c - 1)
          BY <1>4, <4>1, <5>1 DEF DenseTo
        <5>3. QED
          BY <5>2 DEF Aligned
      <4>3. j * SUBBLOCK_SIZE < Len(ps)
        <5>1. c * BLOCK_SIZE \in Nat
          BY <1>1, Sizes
        <5>2. j * SUBBLOCK_SIZE \in 0..(BLOCK_SIZE - 1)
          BY SubblockStarts
        <5>3. j * SUBBLOCK_SIZE \in Nat
          BY <5>2
        <5>4. QED
          BY <1>2, <4>1, <5>1, <5>3
      <4>4. /\ j + 1 \in 1..Len(ds)
            /\ ds[j + 1] = places[c * BLOCK_SIZE + j * SUBBLOCK_SIZE] - places[c * BLOCK_SIZE]
        BY <1>3, <4>3
      <4>5. sub2[Len(sub) + (j + 1)] = ds[j + 1]
        BY <1>5, <4>4
      <4>6. Len(sub) + (j + 1) = (Len(sub) + j) + 1 /\ Len(sub) + j < Len(sub2)
        BY <1>1, <1>3, <1>5, <4>4
      <4>7. QED
        BY <4>2, <4>4, <4>5, <4>6
    <3>4. QED
      BY <3>1, <3>2, <3>3
  <2>3. QED
    BY <2>1, <2>2
<1>7. ASSUME Len(ps) = BLOCK_SIZE PROVE Aligned(bi2, sub2)
  <2>1. SUFFICES ASSUME DenseTo(bi2, Len(bi2) - 1)
                 PROVE  Len(sub2) = Len(bi2) * PER_BLOCK
    BY DEF Aligned
  <2>2. Len(sub) = c * PER_BLOCK
    <3>1. \A x \in 0..(c - 1) : x \in 0..(Len(bi2) - 1) /\ x + 1 \in 1..c
      BY <1>1, <1>4
    <3>2. DenseTo(bi, c - 1)
      BY <1>4, <2>1, <3>1 DEF DenseTo
    <3>3. QED
      BY <3>2 DEF Aligned
  <2>3. Len(ds) = PER_BLOCK
    BY <1>3, <1>7, FullBlockDistances
  <2>4. QED
    BY <1>1, <1>4, <1>5, <2>2, <2>3, Sizes
<1>8. Tables(places, bi2, sub2, ov, n)
  BY <1>1, <1>4, <1>5, <1>6 DEF Tables
<1>9. QED
  BY <1>4, <1>7, <1>8 DEF bi2, sub2, ds

\* So does flushing a sparse one.
LEMMA FlushSparse ==
  ASSUME NEW places, NEW bi, NEW sub, NEW ov, NEW ps, NEW fill \in Seq(Nat),
         Tables(places, bi, sub, ov, Len(bi) * BLOCK_SIZE),
         BlockOf(places, Len(bi), ps)
  PROVE  /\ Tables(places, Append(bi, -Len(ov) - 1), sub \o fill, ov \o ps,
                   Len(bi) * BLOCK_SIZE + Len(ps))
         /\ Len(Append(bi, -Len(ov) - 1)) = Len(bi) + 1
         /\ Aligned(Append(bi, -Len(ov) - 1), sub \o fill)
<1> DEFINE c == Len(bi)
           e == -Len(ov) - 1
           bi2 == Append(bi, e)
           sub2 == sub \o fill
           ov2 == ov \o ps
           n == c * BLOCK_SIZE + Len(ps)
<1>1. /\ bi \in Seq(Int) /\ sub \in Seq(Nat) /\ ov \in Seq(Nat) /\ ps \in Seq(Nat)
      /\ c \in Nat /\ Len(sub) \in Nat /\ Len(ov) \in Nat
      /\ Len(ps) \in Nat /\ Len(fill) \in Nat
  BY LenProperties DEF Tables, BlockOf
<1>2. e \in Int /\ ~(e >= 0) /\ -e - 1 = Len(ov)
  BY <1>1
<1> HIDE DEF e
<1>4. /\ bi2 \in Seq(Int) /\ Len(bi2) = c + 1
      /\ \A x \in 1..c : bi2[x] = bi[x]
      /\ bi2[c + 1] = e
  BY <1>1, <1>2, AppendProperties
<1>5. /\ sub2 \in Seq(Nat) /\ Len(sub2) = Len(sub) + Len(fill)
      /\ \A x \in 1..Len(sub) : sub2[x] = sub[x]
  BY <1>1, ConcatProperties
<1>6. /\ ov2 \in Seq(Nat) /\ Len(ov2) = Len(ov) + Len(ps)
      /\ \A x \in 1..Len(ov) : ov2[x] = ov[x]
      /\ \A x \in 1..Len(ps) : ov2[Len(ov) + x] = ps[x]
  BY <1>1, ConcatProperties
<1> HIDE DEF bi2, sub2, ov2
<1>n. ASSUME NEW b \in Int, b >= c PROVE ~DenseTo(bi2, b)
  <2>1. c \in 0..b
    BY <1>1, <1>n
  <2>2. QED
    BY <1>2, <1>4, <2>1 DEF DenseTo
<1>7. ASSUME NEW b \in 0..(Len(bi2) - 1)
      PROVE  EntryExact(places, bi2, ov2, n, b) /\ DistancesExact(places, bi2, sub2, n, b)
  <2>1. CASE b < c
    <3>1. b \in 0..(Len(bi) - 1) /\ Len(sub) <= Len(sub2) /\ Len(ov) <= Len(ov2)
      BY <1>1, <1>5, <1>6, <2>1
    <3> HIDE DEF n
    <3>3. QED
      BY <1>1, <1>4, <1>5, <1>6, <3>1, TablesPersist
  <2>2. CASE ~(b < c)
    <3>1. b = c
      BY <1>1, <1>4, <2>2
    <3>2. EntryExact(places, bi2, ov2, n, c)
      <4>1. ASSUME NEW k \in 0..(BLOCK_SIZE - 1), c * BLOCK_SIZE + k < n
            PROVE  /\ -e - 1 + k \in 0..(Len(ov2) - 1)
                   /\ ov2[(-e - 1 + k) + 1] = places[c * BLOCK_SIZE + k]
        <5>1. c * BLOCK_SIZE \in Nat /\ k \in Nat
          BY <1>1, Sizes
        <5>2. k + 1 \in 1..Len(ps) /\ (k + 1) - 1 = k /\ Len(ov) + (k + 1) = (Len(ov) + k) + 1
          BY <1>1, <4>1, <5>1
        <5>3. ps[k + 1] = places[c * BLOCK_SIZE + ((k + 1) - 1)]
          BY <5>2 DEF BlockOf
        <5>4. ov2[(Len(ov) + k) + 1] = places[c * BLOCK_SIZE + k]
          <6>1. ov2[Len(ov) + (k + 1)] = ps[k + 1]
            BY <1>6, <5>2
          <6>2. ov2[(Len(ov) + k) + 1] = ps[k + 1]
            BY <5>2, <6>1
          <6>3. QED
            BY <5>2, <5>3, <6>2
        <5>5. Len(ov) + k \in 0..(Len(ov2) - 1)
          <6> DEFINE lo == Len(ov)
                     lp == Len(ps)
                     l2 == Len(ov2)
          <6>1. lo \in Nat /\ lp \in Nat /\ l2 = lo + lp /\ k + 1 \in 1..lp
            BY <1>1, <1>6, <5>2
          <6> HIDE DEF lo, lp, l2
          <6>2. lo + k \in 0..(l2 - 1)
            BY <5>1, <6>1
          <6>3. QED
            BY <6>2 DEF lo, l2
        <5>6. QED
          BY <1>2, <5>4, <5>5
      <4>2. QED
        BY <1>2, <1>4, <4>1 DEF EntryExact
    <3>3. DistancesExact(places, bi2, sub2, n, c)
      BY <1>1, <1>n DEF DistancesExact
    <3>4. QED
      BY <3>1, <3>2, <3>3
  <2>3. QED
    BY <2>1, <2>2
<1>8. Aligned(bi2, sub2)
  <2>1. Len(bi2) - 1 \in Int /\ Len(bi2) - 1 >= c
    BY <1>1, <1>4
  <2>2. QED
    BY <1>n, <2>1 DEF Aligned
<1>9. Tables(places, bi2, sub2, ov2, n)
  BY <1>4, <1>5, <1>6, <1>7 DEF Tables
<1>10. QED
  BY <1>4, <1>8, <1>9 DEF bi2, sub2, ov2, e

\* flush_block, whichever kind of block it finds.
LEMMA FlushStep ==
  ASSUME NEW places, NEW ps,
         Tables(places, block_inventory, subblock_inventory, overflow_positions,
                Len(block_inventory) * BLOCK_SIZE),
         Aligned(block_inventory, subblock_inventory),
         BlockOf(places, Len(block_inventory), ps), flush_block(ps)
  PROVE  /\ Tables(places, block_inventory', subblock_inventory', overflow_positions',
                   Len(block_inventory) * BLOCK_SIZE + Len(ps))
         /\ Len(block_inventory') = Len(block_inventory) + 1
         /\ Len(ps) = BLOCK_SIZE => Aligned(block_inventory', subblock_inventory')
<1>1. ps # <<>> /\ Len(ps) \in Nat
  BY LenProperties DEF BlockOf
<1>2. CASE dense(ps)
  <2>1. /\ block_inventory' = Append(block_inventory, ps[1])
        /\ subblock_inventory' = subblock_inventory \o distances(ps)
        /\ overflow_positions' = overflow_positions
    BY <1>1, <1>2 DEF flush_block
  <2>2. QED
    BY <1>2, <2>1, FlushDense
<1>3. CASE ~dense(ps)
  <2> DEFINE fill == [k \in 1..Len(ps) |-> MAX_IN_BLOCK_DISTANCE - 1]
  <2>1. /\ block_inventory' = Append(block_inventory, -Len(overflow_positions) - 1)
        /\ overflow_positions' = overflow_positions \o ps
        /\ subblock_inventory' = subblock_inventory \o fill
    BY <1>1, <1>3 DEF flush_block
  <2>2. fill \in Seq(Nat)
    <3>1. MAX_IN_BLOCK_DISTANCE - 1 \in Nat
      BY Sizes
    <3>2. fill \in [1..Len(ps) -> Nat]
      BY <3>1
    <3> HIDE DEF fill
    <3>3. QED
      BY <1>1, <3>2
  <2> HIDE DEF fill
  <2>3. QED
    BY <2>1, <2>2, FlushSparse
<1>4. QED
  BY <1>2, <1>3

\* Positions in the order of their ranks are a block.
LEMMA BlockReady ==
  ASSUME n_bits \in Nat, NEW c \in Nat, NEW ps \in Seq(Nat), Len(ps) \in 1..BLOCK_SIZE,
         Cardinality(Positions(bit)) \in Nat,
         c * BLOCK_SIZE + Len(ps) <= Cardinality(Positions(bit)),
         \A k \in 1..Len(ps) : ps[k] = Places[c * BLOCK_SIZE + (k - 1)]
  PROVE  BlockOf(Places, c, ps)
<1> DEFINE t == c * BLOCK_SIZE
<1>1. t \in Nat /\ Len(ps) \in Nat
  BY Sizes, LenProperties
<1>2. t + Len(ps) <= Cardinality(Positions(bit))
  OBVIOUS
<1>3. \A k \in 1..Len(ps) : ps[k] = Places[t + (k - 1)]
  OBVIOUS
<1> HIDE DEF t
<1>4. ASSUME NEW k \in 1..Len(ps), NEW m \in 1..Len(ps), k <= m PROVE ps[k] <= ps[m]
  <2>1. /\ t + (k - 1) \in Nat /\ t + (m - 1) \in Nat
        /\ t + (m - 1) < Cardinality(Positions(bit))
    BY <1>1, <1>2
  <2>2. ps[k] \in Nat /\ ps[m] \in Nat
    BY ElementOfSeq
  <2>3. ps[k] = Position(bit, t + (k - 1)) /\ ps[m] = Position(bit, t + (m - 1))
    BY <1>3, <2>1 DEF Places
  <2>4. CASE k = m
    BY <2>2, <2>4
  <2>5. CASE k # m
    <3>1. t + (k - 1) < t + (m - 1)
      BY <1>1, <1>4, <2>5
    <3>2. Position(bit, t + (k - 1)) < Position(bit, t + (m - 1))
      BY <2>1, <3>1, PositionsGrow
    <3>3. QED
      BY <2>2, <2>3, <3>2
  <2>6. QED
    BY <2>4, <2>5
<1>5. \A k \in 1..Len(ps) : ps[1] <= ps[k] /\ ps[k] <= ps[Len(ps)]
  <2>1. \A k \in 1..Len(ps) : 1 \in 1..Len(ps) /\ Len(ps) \in 1..Len(ps) /\ 1 <= k /\ k <= Len(ps)
    BY <1>1
  <2>2. QED
    BY <1>4, <2>1
<1>6. QED
  BY <1>5 DEF BlockOf

------------------------------------------------------------------------------
(* The steps of Inventories::new.                                          *)

\* While it runs, the vector, and so the positions, stay as they are.
LEMMA SameVector ==
  ASSUME UNCHANGED bitVars, bit' = bit
  PROVE  /\ ShapeInv => ShapeInv'
         /\ Places' = Places /\ Positions(bit)' = Positions(bit)
<1>1. data' = data /\ n_bits' = n_bits /\ bit' = bit
  BY DEF bitVars
<1>2. Positions(bit)' = Positions(bit)
  BY <1>1 DEF Positions
<1>3. Places' = Places
  BY <1>1 DEF Places, Position, Positions
<1>4. ShapeInv => ShapeInv'
  BY <1>1 DEF ShapeInv, lines_for, LINE
<1>5. QED
  BY <1>2, <1>3, <1>4

\* Taking a position keeps the blocks exact.
LEMMA BlocksTake ==
  ASSUME ShapeInv, IteratorInv, BlocksInv, TakePosition
  PROVE  BlocksInv'
<1> DEFINE c == Len(block_inventory)
           t == c * BLOCK_SIZE
           cur == curr_block_positions
           m == Min(cur_word)
           ps == Append(cur, m)
<1>1. /\ c \in Nat /\ t \in Nat /\ cur \in Seq(Nat) /\ Len(cur) \in Nat
      /\ Len(cur) < BLOCK_SIZE /\ n_sets = t + Len(cur)
      /\ \A k \in 1..Len(cur) : cur[k] = Places[t + (k - 1)]
      /\ BLOCK_SIZE \in Nat \ {0}
  <2>1. block_inventory \in Seq(Int) /\ cur \in Seq(Nat)
    BY DEF BlocksInv, Tables
  <2>2. c \in Nat /\ Len(cur) \in Nat
    BY <2>1, LenProperties
  <2>3. t \in Nat /\ BLOCK_SIZE \in Nat \ {0}
    BY <2>2, Sizes
  <2>4. QED
    BY <2>1, <2>2, <2>3 DEF BlocksInv
<1>2. /\ n_sets \in Nat /\ n_sets < Cardinality(Positions(bit)) /\ n_sets' = n_sets + 1
      /\ m \in Nat /\ m = Position(bit, n_sets)
  BY TakeStep
<1>3. Cardinality(Positions(bit)) \in Nat /\ n_bits \in Nat
  BY IteratorTypes, WordsOf, FS_CardinalityType
<1>4. Places' = Places
  BY SameVector DEF TakePosition
<1>5. /\ IF full(ps) THEN flush_block(ps) /\ curr_block_positions' = <<>>
                     ELSE curr_block_positions' = ps /\ UNCHANGED inventories
  BY DEF TakePosition
<1> HIDE DEF m
<1>6. /\ ps \in Seq(Nat) /\ Len(ps) = Len(cur) + 1
      /\ \A x \in 1..Len(cur) : ps[x] = cur[x]
      /\ ps[Len(cur) + 1] = m
  BY <1>1, <1>2, AppendProperties
<1> HIDE DEF ps, cur, t
<1>7. \A k \in 1..Len(ps) : ps[k] = Places[t + (k - 1)]
  <2>1. SUFFICES ASSUME NEW k \in 1..Len(ps) PROVE ps[k] = Places[t + (k - 1)]
    OBVIOUS
  <2>2. CASE k \in 1..Len(cur)
    BY <1>1, <1>6, <2>2
  <2>3. CASE k \notin 1..Len(cur)
    <3>1. k = Len(cur) + 1 /\ t + (k - 1) = n_sets
      BY <1>1, <1>6, <2>3
    <3>2. QED
      BY <1>2, <1>6, <3>1 DEF Places
  <2>4. QED
    BY <2>2, <2>3
<1>8. CASE full(ps)
  <2>1. Len(ps) = BLOCK_SIZE /\ flush_block(ps) /\ curr_block_positions' = <<>>
    BY <1>5, <1>8 DEF full
  <2>2. t + Len(ps) <= Cardinality(Positions(bit)) /\ Len(ps) \in 1..BLOCK_SIZE
    BY <1>1, <1>2, <1>3, <1>6, <2>1
  <2>3. BlockOf(Places, c, ps)
    BY <1>1, <1>3, <1>6, <1>7, <2>2, BlockReady DEF t
  <2>4. /\ Tables(Places, block_inventory', subblock_inventory', overflow_positions', t + BLOCK_SIZE)
        /\ Len(block_inventory') = c + 1
        /\ Aligned(block_inventory', subblock_inventory')
    BY <2>1, <2>3, FlushStep DEF BlocksInv, t
  <2>5. Len(block_inventory') * BLOCK_SIZE = t + BLOCK_SIZE
    BY <1>1, <2>4 DEF t
  <2>6. /\ Len(curr_block_positions') = 0 /\ curr_block_positions' \in Seq(Nat)
        /\ 1..Len(curr_block_positions') = {}
    <3>1. curr_block_positions' \in Seq(Nat) /\ Len(curr_block_positions') = 0
      BY <2>1
    <3>2. 1..0 = {}
      OBVIOUS
    <3>3. QED
      BY <3>1, <3>2
  <2>7. n_sets' = (t + BLOCK_SIZE) + Len(curr_block_positions')
    <3>1. n_sets' = t + BLOCK_SIZE
      <4> DEFINE l == Len(cur)
      <4>1. l \in Nat /\ l + 1 = BLOCK_SIZE /\ n_sets = t + l
        BY <1>1, <1>6, <2>1
      <4> HIDE DEF l
      <4>2. (t + l) + 1 = t + BLOCK_SIZE
        BY <1>1, <4>1
      <4>3. QED
        BY <1>2, <4>1, <4>2
    <3>2. (t + BLOCK_SIZE) + 0 = t + BLOCK_SIZE
      BY <1>1
    <3>3. QED
      BY <2>6, <3>1, <3>2
  <2>8. /\ Tables(Places', block_inventory', subblock_inventory', overflow_positions',
                  Len(block_inventory') * BLOCK_SIZE)
        /\ n_sets' = Len(block_inventory') * BLOCK_SIZE + Len(curr_block_positions')
    BY <1>4, <2>4, <2>5, <2>7
  <2>9. Len(curr_block_positions') < BLOCK_SIZE
    BY <1>1, <2>6
  <2>10. QED
    BY <2>4, <2>6, <2>8, <2>9 DEF BlocksInv
<1>9. CASE ~full(ps)
  <2>1. /\ curr_block_positions' = ps /\ Len(ps) # BLOCK_SIZE
        /\ block_inventory' = block_inventory /\ subblock_inventory' = subblock_inventory
        /\ overflow_positions' = overflow_positions
    BY <1>5, <1>9 DEF full, inventories
  <2>2. Len(ps) < BLOCK_SIZE /\ n_sets' = t + Len(ps)
    BY <1>1, <1>2, <1>6, <2>1
  <2>3. QED
    BY <1>4, <1>6, <1>7, <2>1, <2>2 DEF BlocksInv, t
<1>10. QED
  BY <1>8, <1>9

\* In the end the last block is flushed and everything is there.
LEMMA FinishDone ==
  ASSUME ShapeInv, IteratorInv, BlocksInv, Finish
  PROVE  DoneInv'
<1> DEFINE c == Len(block_inventory)
           t == c * BLOCK_SIZE
           ps == curr_block_positions
<1>1. /\ c \in Nat /\ t \in Nat /\ ps \in Seq(Nat) /\ Len(ps) \in Nat
      /\ Len(ps) < BLOCK_SIZE /\ n_sets = t + Len(ps)
      /\ \A k \in 1..Len(ps) : ps[k] = Places[t + (k - 1)]
      /\ BLOCK_SIZE \in Nat \ {0}
  <2>1. block_inventory \in Seq(Int) /\ ps \in Seq(Nat)
    BY DEF BlocksInv, Tables
  <2>2. c \in Nat /\ Len(ps) \in Nat
    BY <2>1, LenProperties
  <2>3. t \in Nat /\ BLOCK_SIZE \in Nat \ {0}
    BY <2>2, Sizes
  <2>4. QED
    BY <2>1, <2>2, <2>3 DEF BlocksInv
<1>2. n_sets = Cardinality(Positions(bit)) /\ n_sets \in Nat /\ n_bits \in Nat
  BY ScanEnds, IteratorTypes, WordsOf
<1>3. Places' = Places /\ Positions(bit)' = Positions(bit) /\ n_sets' = n_sets
  BY SameVector DEF Finish
<1>4. flush_block(ps)
  BY DEF Finish
<1> HIDE DEF ps, t
<1>5. CASE ps = <<>>
  <2>1. /\ block_inventory' = block_inventory /\ subblock_inventory' = subblock_inventory
        /\ overflow_positions' = overflow_positions
    BY <1>4, <1>5 DEF flush_block, inventories
  <2>2. n_sets = t
    BY <1>1, <1>5
  <2>3. Tables(Places, block_inventory, subblock_inventory, overflow_positions, n_sets)
    BY <2>2 DEF BlocksInv, t
  <2>4. n_sets <= t /\ t < n_sets + BLOCK_SIZE
    BY <1>1, <2>2
  <2>5. QED
    BY <1>2, <1>3, <2>1, <2>3, <2>4 DEF DoneInv, t
<1>6. CASE ps # <<>>
  <2>1. Len(ps) \in 1..BLOCK_SIZE /\ t + Len(ps) <= Cardinality(Positions(bit))
    <3>1. Len(ps) # 0
      BY <1>1, <1>6, EmptySeq
    <3>2. QED
      BY <1>1, <1>2, <3>1
  <2>2. BlockOf(Places, c, ps)
    BY <1>1, <1>2, <2>1, BlockReady DEF t
  <2>3. /\ Tables(Places, block_inventory', subblock_inventory', overflow_positions', t + Len(ps))
        /\ Len(block_inventory') = c + 1
    BY <1>4, <2>2, FlushStep DEF BlocksInv, t
  <2>4. Len(block_inventory') * BLOCK_SIZE = t + BLOCK_SIZE
    BY <1>1, <2>3 DEF t
  <2>5. /\ n_sets' <= Len(block_inventory') * BLOCK_SIZE
        /\ Len(block_inventory') * BLOCK_SIZE < n_sets' + BLOCK_SIZE
    BY <1>1, <1>2, <1>3, <2>1, <2>4
  <2>6. QED
    BY <1>1, <1>2, <1>3, <2>3, <2>5 DEF DoneInv
<1>7. QED
  BY <1>5, <1>6

\* A scan starts with nothing yielded and empty inventories.
LEMMA NewStarts ==
  ASSUME DArrayInv, New
  PROVE  ShapeInv' /\ IteratorInv' /\ BlocksInv'
<1>1. /\ cur_word_pos' = 0 /\ cur_word' = {} /\ curr_block_positions' = <<>> /\ n_sets' = 0
      /\ block_inventory' = <<>> /\ subblock_inventory' = <<>> /\ overflow_positions' = <<>>
      /\ data' = data /\ n_bits' = n_bits
  BY DEF New, DArrayInv, inventories
<1>2. ShapeInv'
  BY <1>1 DEF DArrayInv, ShapeInv, lines_for, LINE
<1>3. n_words' = n_words /\ n_words \in Nat /\ WORD_BITS \in Nat /\ n_bits \in Nat
  BY <1>1, WordsOf, BitVectorAssumption DEF DArrayInv, n_words
<1>4. Taken' = {}
  <2>1. \A p \in Positions(bit)' : p \in Nat
    BY <1>1, <1>3 DEF Positions
  <2>2. \A p \in Positions(bit)' : ~(p < cur_word_pos' * WORD_BITS)
    BY <1>1, <1>3, <2>1
  <2>3. QED
    BY <2>2 DEF Taken
<1>5. IteratorInv'
  <2>1. Cardinality(Taken') = 0
    BY <1>4, FS_EmptySet
  <2>2. cur_word_pos' \in 0..n_words'
    BY <1>1, <1>3
  <2>3. QED
    BY <1>1, <1>4, <2>1, <2>2 DEF IteratorInv
<1>6. BlocksInv'
  <2>1. /\ Len(block_inventory') = 0 /\ Len(subblock_inventory') = 0
        /\ Len(curr_block_positions') = 0
        /\ block_inventory' \in Seq(Int) /\ subblock_inventory' \in Seq(Nat)
        /\ overflow_positions' \in Seq(Nat) /\ curr_block_positions' \in Seq(Nat)
    BY <1>1
  <2>2. /\ 0 * BLOCK_SIZE = 0 /\ 0 * PER_BLOCK = 0 /\ 0 < BLOCK_SIZE
        /\ 0..(0 - 1) = {} /\ 1..0 = {} /\ 0 = 0 + 0
    BY Sizes
  <2>3. Tables(Places', block_inventory', subblock_inventory', overflow_positions',
               Len(block_inventory') * BLOCK_SIZE)
    BY <2>1, <2>2 DEF Tables
  <2>4. Aligned(block_inventory', subblock_inventory')
    BY <2>1, <2>2 DEF Aligned
  <2>5. QED
    BY <1>1, <2>1, <2>2, <2>3, <2>4 DEF BlocksInv
<1>7. QED
  BY <1>2, <1>5, <1>6

\* Nothing of it depends on the rest of the state.
LEMMA Stutters ==
  ASSUME UNCHANGED <<vars, bitVars>>
  PROVE  DArrayInv => DArrayInv'
<1>1. /\ data' = data /\ n_bits' = n_bits /\ kind' = kind /\ bit' = bit /\ pc' = pc
      /\ cur_word_pos' = cur_word_pos /\ cur_word' = cur_word /\ n_sets' = n_sets
      /\ curr_block_positions' = curr_block_positions /\ block_inventory' = block_inventory
      /\ subblock_inventory' = subblock_inventory /\ overflow_positions' = overflow_positions
  BY DEF vars, bitVars
<1>2. (ShapeInv => ShapeInv') /\ Places' = Places /\ Positions(bit)' = Positions(bit)
  BY SameVector DEF vars
<1>3. Taken' = Taken /\ n_words' = n_words
  BY <1>1, <1>2 DEF Taken, n_words
<1>4. IteratorInv => IteratorInv'
  BY <1>1, <1>3 DEF IteratorInv
<1>5. BlocksInv => BlocksInv'
  BY <1>1, <1>2 DEF BlocksInv
<1>6. DoneInv => DoneInv'
  BY <1>1, <1>2 DEF DoneInv
<1>7. QED
  BY <1>1, <1>2, <1>4, <1>5, <1>6 DEF DArrayInv

\* DArrayInv holds in every state.
LEMMA DArrayInvHolds == Spec => []DArrayInv
<1>1. Init => DArrayInv
  <2>1. SUFFICES ASSUME Init PROVE DArrayInv
    OBVIOUS
  <2>2. ShapeInv
    <3>1. GoodInv
      BY <2>1, EmptyGood DEF Init
    <3>2. QED
      BY <3>1 DEF GoodInv, Good, ShapeInv
  <2>3. bit \in BOOLEAN /\ pc = "none"
    BY <2>1 DEF Init
  <2>4. /\ cur_word_pos = 0 /\ cur_word = {} /\ curr_block_positions = <<>> /\ n_sets = 0
        /\ block_inventory = <<>> /\ subblock_inventory = <<>> /\ overflow_positions = <<>>
    BY <2>1 DEF Init
  <2>5. QED
    BY <2>2, <2>3, <2>4 DEF DArrayInv
<1>2. DArrayInv /\ [Next]_<<vars, bitVars>> => DArrayInv'
  <2>1. SUFFICES ASSUME DArrayInv, [Next]_<<vars, bitVars>> PROVE DArrayInv'
    OBVIOUS
  <2>2. CASE NextBits /\ UNCHANGED vars
    <3>1. kind # "moved"
      BY <2>2 DEF NextBits, AppendBits, ExtendWithZeros, Set, SetBits, ExtendOnes, Freeze, Thaw,
                  Deserialize
    <3>2. pc = "none"
      BY <2>1, <3>1 DEF DArrayInv
    <3>3. ShapeInv'
      BY <2>1, <2>2, ShapeKept DEF DArrayInv
    <3>4. QED
      BY <2>1, <2>2, <3>2, <3>3 DEF DArrayInv, vars
  <2>3. CASE New
    <3>1. ShapeInv' /\ IteratorInv' /\ BlocksInv'
      BY <2>1, <2>3, NewStarts
    <3>2. QED
      BY <2>3, <3>1 DEF New, DArrayInv
  <2>4. CASE LoadWord
    <3>1. ShapeInv /\ IteratorInv /\ BlocksInv /\ pc = "scan" /\ kind = "moved" /\ bit \in BOOLEAN
      BY <2>1, <2>4 DEF DArrayInv, LoadWord
    <3>2. ShapeInv' /\ Places' = Places
      BY <2>4, <3>1, SameVector DEF LoadWord
    <3>3. IteratorInv'
      BY <2>4, <3>1, LoadStep
    <3>4. BlocksInv'
      BY <2>4, <3>1, <3>2 DEF LoadWord, BlocksInv, inventories
    <3>5. QED
      BY <2>4, <3>1, <3>2, <3>3, <3>4 DEF LoadWord, DArrayInv, bitVars
  <2>5. CASE TakePosition
    <3>1. ShapeInv /\ IteratorInv /\ BlocksInv /\ pc = "scan" /\ kind = "moved" /\ bit \in BOOLEAN
      BY <2>1, <2>5 DEF DArrayInv, TakePosition
    <3>2. ShapeInv'
      BY <2>5, <3>1, SameVector DEF TakePosition
    <3>3. IteratorInv'
      BY <2>5, <3>1, TakeStep
    <3>4. BlocksInv'
      BY <2>5, <3>1, BlocksTake
    <3>5. pc' = "scan" /\ kind' = "moved" /\ bit' = bit
      BY <2>5, <3>1 DEF TakePosition, bitVars
    <3>6. QED
      BY <3>1, <3>2, <3>3, <3>4, <3>5 DEF DArrayInv
  <2>6. CASE Finish
    <3>1. ShapeInv /\ IteratorInv /\ BlocksInv /\ kind = "moved" /\ bit \in BOOLEAN
      BY <2>1, <2>6 DEF DArrayInv, Finish
    <3>2. ShapeInv'
      BY <2>6, <3>1, SameVector DEF Finish
    <3>3. DoneInv'
      BY <2>6, <3>1, FinishDone
    <3>4. pc' = "done" /\ kind' = "moved" /\ bit' = bit
      BY <2>6, <3>1 DEF Finish, bitVars
    <3>5. QED
      BY <3>1, <3>2, <3>3, <3>4 DEF DArrayInv
  <2>7. CASE UNCHANGED <<vars, bitVars>>
    BY <2>1, <2>7, Stutters
  <2>8. QED
    BY <2>1, <2>2, <2>3, <2>4, <2>5, <2>6, <2>7 DEF Next
<1>3. QED
  BY <1>1, <1>2, PTL DEF Spec

------------------------------------------------------------------------------
(* What the inventories answer.                                            *)

\* When a DArray is built, its iterator has yielded every position once and in
\* order, and every block entry leads to the positions of its block: for words,
\* lines, blocks and subblocks of any size.
THEOREM BlocksAreExact == Spec => []BlocksExact
<1>1. DArrayInv => BlocksExact
  <2>1. SUFFICES ASSUME DArrayInv, pc = "done"
                 PROVE  /\ n_sets = Cardinality(Positions(bit))
                        /\ Len(block_inventory) = (n_sets + BLOCK_SIZE - 1) \div BLOCK_SIZE
                        /\ \A b \in 0..(Len(block_inventory) - 1) :
                             LET entry == block_inventory[b + 1] IN
                             IF entry >= 0 THEN entry = Position(bit, b * BLOCK_SIZE)
                             ELSE \A k \in 0..(BLOCK_SIZE - 1) : b * BLOCK_SIZE + k < n_sets =>
                                    at(overflow_positions, -entry - 1 + k)
                                      = Position(bit, b * BLOCK_SIZE + k)
    BY DEF BlocksExact
  <2>2. DoneInv
    BY <2>1 DEF DArrayInv
  <2>3. n_sets = Cardinality(Positions(bit)) /\ n_sets \in Nat
    <3>1. n_bits \in Nat
      BY <2>1, WordsOf DEF DArrayInv
    <3>2. Positions(bit) \in SUBSET Nat /\ \A p \in Positions(bit) : p <= n_bits
      BY <3>1 DEF Positions
    <3>3. IsFiniteSet(Positions(bit))
      BY <3>1, <3>2, FS_BoundedSetOfNaturals
    <3>4. QED
      BY <2>2, <3>3, FS_CardinalityType DEF DoneInv
  <2>4. Len(block_inventory) \in Nat /\ BLOCK_SIZE \in Nat \ {0}
        /\ Len(overflow_positions) \in Nat
    BY <2>2, LenProperties, Sizes DEF DoneInv, Tables
  <2>5. Len(block_inventory) = (n_sets + BLOCK_SIZE - 1) \div BLOCK_SIZE
    <3> DEFINE c == Len(block_inventory)
               n == n_sets + BLOCK_SIZE - 1
               t == BLOCK_SIZE * c
    <3>1. c \in Nat /\ t \in Nat /\ n_sets <= t /\ t < n_sets + BLOCK_SIZE
      BY <2>2, <2>4 DEF DoneInv
    <3> HIDE DEF c, t
    <3>2. n \in Nat /\ n - t \in 0..(BLOCK_SIZE - 1) /\ n = t + (n - t)
      BY <2>3, <2>4, <3>1
    <3>3. n = BLOCK_SIZE * c + (n - t)
      BY <3>2 DEF t
    <3> HIDE DEF n
    <3>4. n \div BLOCK_SIZE = c
      BY <2>4, <3>1, <3>2, <3>3, DivUnique
    <3>5. QED
      BY <3>4 DEF c, n
  <2>6. ASSUME NEW b \in 0..(Len(block_inventory) - 1)
        PROVE  LET entry == block_inventory[b + 1] IN
               IF entry >= 0 THEN entry = Position(bit, b * BLOCK_SIZE)
               ELSE \A k \in 0..(BLOCK_SIZE - 1) : b * BLOCK_SIZE + k < n_sets =>
                      at(overflow_positions, -entry - 1 + k) = Position(bit, b * BLOCK_SIZE + k)
    <3> DEFINE entry == block_inventory[b + 1]
    <3>1. EntryExact(Places, block_inventory, overflow_positions, n_sets, b)
      BY <2>2 DEF DoneInv, Tables
    <3>2. b * BLOCK_SIZE \in Nat
      BY <2>4
    <3>3. CASE entry >= 0
      BY <3>1, <3>2, <3>3 DEF EntryExact, Places
    <3>4. CASE ~(entry >= 0)
      <4>1. ASSUME NEW k \in 0..(BLOCK_SIZE - 1), b * BLOCK_SIZE + k < n_sets
            PROVE  at(overflow_positions, -entry - 1 + k) = Position(bit, b * BLOCK_SIZE + k)
        <5> DEFINE x == -entry - 1 + k
        <5>1. /\ x \in 0..(Len(overflow_positions) - 1)
              /\ overflow_positions[x + 1] = Places[b * BLOCK_SIZE + k]
          BY <3>1, <3>4, <4>1 DEF EntryExact
        <5>2. Places[b * BLOCK_SIZE + k] = Position(bit, b * BLOCK_SIZE + k)
          BY <3>2 DEF Places
        <5> HIDE DEF x
        <5>3. x < Len(overflow_positions)
          BY <2>4, <5>1
        <5>4. QED
          BY <5>1, <5>2, <5>3 DEF at, x
      <4>2. QED
        BY <3>4, <4>1
    <3>5. QED
      BY <3>3, <3>4
  <2>7. QED
    BY <2>3, <2>5, <2>6
<1>2. QED
  BY <1>1, DArrayInvHolds, PTL

\* The scan of words from the position of rank i finds the one r ranks on.
LEMMA ScanFinds ==
  ASSUME ShapeInv, NEW i \in Nat, NEW r \in Nat, i + r < Cardinality(Positions(bit))
  PROVE  scan_select_words(Position(bit, i), r) = Position(bit, i + r)
<1> DEFINE S == Positions(bit)
           s == Position(bit, i)
           P == Position(bit, i + r)
           In(p) == {q \in s..(p - 1) : data[q] = bit}
           e == n_words * WORD_BITS
           found == {p \in s..(e - 1) : data[p] = bit /\ Cardinality(In(p)) = r}
<1>1. n_bits \in Nat /\ e \in Nat /\ n_bits <= e
  BY WordsOf
<1>2. S \in SUBSET Nat /\ \A p \in S : p \in Nat /\ p < n_bits /\ data[p] = bit
  BY <1>1 DEF Positions
<1>3. \A p \in Nat : p < n_bits /\ data[p] = bit => p \in S
  BY <1>1 DEF Positions
<1>4. Cardinality(S) \in Nat
  <2>1. \A q \in S : q <= n_bits
    BY <1>1, <1>2
  <2>2. IsFiniteSet(S)
    BY <1>1, <1>2, <2>1, FS_BoundedSetOfNaturals
  <2>3. QED
    BY <2>2, FS_CardinalityType
<1>5. P \in S /\ Cardinality(Before(S, P)) = i + r
  BY <1>1, PositionThere
<1>6. s \in S /\ Cardinality(Before(S, s)) = i
  <2>1. i < Cardinality(S)
    BY <1>4
  <2>2. QED
    BY <1>1, <2>1, PositionThere
<1>7. s <= P
  <2>1. CASE r = 0
    <3>1. s = P
      BY <2>1
    <3>2. QED
      BY <1>2, <1>5, <3>1
  <2>2. CASE r # 0
    <3>1. s < P /\ s \in Nat /\ P \in Nat
      BY <1>1, <2>2, PositionsGrow
    <3>2. QED
      BY <3>1
  <2>3. QED
    BY <2>1, <2>2
<1>8. scan_select_words(s, r) = IF found = {} THEN Panic ELSE Min(found)
  BY DEF scan_select_words
<1> HIDE DEF S, s, P, e
<1>9. s \in Nat /\ P \in Nat /\ P < n_bits /\ data[P] = bit
  BY <1>2, <1>5, <1>6
<1>f. ASSUME NEW p \in Nat PROVE IsFiniteSet(In(p)) /\ Cardinality(In(p)) \in Nat
  <2>1. In(p) \in SUBSET Nat /\ \A q \in In(p) : q <= p
    BY <1>9
  <2> HIDE DEF In
  <2>2. IsFiniteSet(In(p))
    BY <2>1, FS_BoundedSetOfNaturals
  <2>3. QED
    BY <2>2, FS_CardinalityType
<1>10. Cardinality(In(P)) = r
  <2>1. \A q \in In(P) : q \in S /\ q < P /\ ~(q < s)
    BY <1>1, <1>3, <1>9
  <2>2. \A q \in Before(S, P) : q \in S /\ q < P /\ (q < s \/ q \in In(P))
    <3>1. ASSUME NEW q \in Before(S, P) PROVE q \in S /\ q < P /\ (q < s \/ q \in In(P))
      <4>1. q \in S /\ q < P
        BY DEF Before
      <4>2. q \in Nat /\ data[q] = bit
        BY <1>2, <4>1
      <4>3. QED
        BY <1>9, <4>1, <4>2
    <3>2. QED
      BY <3>1
  <2> HIDE DEF In
  <2>3. \A q \in S : q \in Nat /\ (q < s => q < P)
    BY <1>2, <1>7, <1>9
  <2>4. Before(S, P) = Before(S, s) \cup In(P)
    BY <2>1, <2>2, <2>3 DEF Before
  <2>5. Before(S, s) \cap In(P) = {}
    BY <2>1 DEF Before
  <2>6. IsFiniteSet(Before(S, s))
    <3>1. Before(S, s) \in SUBSET Nat /\ \A q \in Before(S, s) : q <= s
      <4>1. \A q \in Before(S, s) : q \in Nat /\ q < s
        BY <1>2 DEF Before
      <4>2. QED
        BY <1>9, <4>1
    <3>2. QED
      BY <1>9, <3>1, FS_BoundedSetOfNaturals
  <2>7. Cardinality(Before(S, P)) = Cardinality(Before(S, s)) + Cardinality(In(P))
    <3>1. Cardinality(Before(S, s) \cup In(P))
            = Cardinality(Before(S, s)) + Cardinality(In(P)) - Cardinality(Before(S, s) \cap In(P))
      BY <1>f, <1>9, <2>6, FS_Union
    <3>2. Cardinality(Before(S, s) \cap In(P)) = 0
      BY <2>5, FS_EmptySet
    <3>3. Cardinality(Before(S, s)) \in Nat /\ Cardinality(In(P)) \in Nat
      BY <1>f, <1>9, <2>6, FS_CardinalityType
    <3>4. QED
      BY <2>4, <3>1, <3>2, <3>3
  <2>8. QED
    BY <1>5, <1>6, <1>f, <1>9, <2>7
<1>11. P \in found
  <2> HIDE DEF In
  <2>1. P \in s..(e - 1)
    BY <1>1, <1>7, <1>9
  <2>2. QED
    BY <1>9, <1>10, <2>1
<1>12. ASSUME NEW p \in found, p < P PROVE FALSE
  <2>1. p \in Nat /\ s <= p /\ data[p] = bit
    BY <1>1, <1>9
  <2>2. In(p) \in SUBSET In(P)
    BY <1>9, <1>12, <2>1
  <2>3. p \in In(P) /\ p \notin In(p)
    BY <1>9, <1>12, <2>1
  <2>4. Cardinality(In(p)) = r
    OBVIOUS
  <2> HIDE DEF In
  <2>5. In(p) = In(P)
    BY <1>f, <1>9, <1>10, <2>2, <2>4, FS_Subset
  <2>6. QED
    BY <2>3, <2>5
<1>13. found \in SUBSET Nat
  BY <1>1, <1>9
<1> HIDE DEF found
<1>14. Min(found) = P
  <2>1. Min(found) \in found /\ Min(found) <= P
    BY <1>11, <1>13, MinNat
  <2>2. ~(Min(found) < P)
    BY <1>12, <2>1
  <2> DEFINE y == Min(found)
  <2>3. y \in Nat /\ y <= P /\ ~(y < P)
    BY <1>13, <2>1, <2>2
  <2> HIDE DEF y
  <2>4. y = P
    BY <1>9, <2>3
  <2>5. QED
    BY <2>4 DEF y
<1>15. QED
  BY <1>8, <1>11, <1>14 DEF s, P

\* Where i is: the block, the subblock of the block, and the rest.
LEMMA SplitIndex ==
  ASSUME NEW i \in Nat
  PROVE  \E b \in Nat, k \in 0..(BLOCK_SIZE - 1), j \in 0..(PER_BLOCK - 1),
            r \in 0..(SUBBLOCK_SIZE - 1) :
           /\ i \div BLOCK_SIZE = b /\ i % BLOCK_SIZE = k
           /\ subblock(i) = b * PER_BLOCK + j /\ i % SUBBLOCK_SIZE = r
           /\ i = b * BLOCK_SIZE + k /\ k = j * SUBBLOCK_SIZE + r
<1> DEFINE b == i \div BLOCK_SIZE
           k == i % BLOCK_SIZE
           j == k \div SUBBLOCK_SIZE
           r == k % SUBBLOCK_SIZE
           SS == SUBBLOCK_SIZE
           PB == PER_BLOCK
<1>1. BLOCK_SIZE \in Nat \ {0} /\ SS \in Nat \ {0} /\ PB \in Nat \ {0} /\ BLOCK_SIZE = SS * PB
  BY Sizes
<1>2. b \in Nat /\ k \in 0..(BLOCK_SIZE - 1) /\ i = BLOCK_SIZE * b + k
  BY <1>1, DivMod
<1>3. k \in Nat /\ k < BLOCK_SIZE
  BY <1>1, <1>2
<1> HIDE DEF b, k
<1>4. j \in Nat /\ r \in 0..(SS - 1) /\ k = SS * j + r
  BY <1>1, <1>3, DivMod
<1> HIDE DEF j, r
<1>5. j < PB
  <2>1. SUFFICES ASSUME PB <= j PROVE FALSE
    BY <1>1, <1>4
  <2>2. PB * SS <= j * SS
    <3>1. CASE PB = j
      BY <1>1, <3>1
    <3>2. CASE PB # j
      <4>1. PB < j /\ PB \in Nat /\ 0 \in 0..(SS - 1)
        BY <1>1, <1>4, <2>1, <3>2
      <4>2. PB * SS \in Nat /\ j * SS \in Nat /\ PB * SS + 0 < j * SS
        BY <1>1, <1>4, <4>1, EarlierBlock
      <4>3. QED
        BY <4>2
    <3>3. QED
      BY <3>1, <3>2
  <2> DEFINE x == SS * j
             y == SS * PB
  <2>3. x \in Nat /\ y \in Nat /\ PB * SS = y /\ j * SS = x
    BY <1>1, <1>4
  <2>4. y <= x /\ k = x + r /\ k < y /\ r \in Nat
    BY <1>1, <1>3, <1>4, <2>2, <2>3
  <2> HIDE DEF x, y
  <2>5. QED
    BY <1>3, <2>3, <2>4
<1>6. i = SS * (b * PB + j) + r
  <2>1. BLOCK_SIZE * b = SS * (b * PB)
    BY <1>1, <1>2
  <2>2. SS * (b * PB + j) = SS * (b * PB) + SS * j
    <3> DEFINE x == b * PB
    <3>1. x \in Nat
      BY <1>1, <1>2
    <3> HIDE DEF x
    <3>2. SS * (x + j) = SS * x + SS * j
      BY <1>1, <1>4, <3>1
    <3>3. QED
      BY <3>2 DEF x
  <2> DEFINE u == SS * (b * PB)
             v == SS * j
  <2>3. u \in Nat /\ v \in Nat
    BY <1>1, <1>2, <1>4
  <2> HIDE DEF u, v
  <2>4. i = u + k /\ k = v + r /\ SS * (b * PB + j) = u + v
    BY <1>2, <1>4, <2>1, <2>2 DEF u, v
  <2>5. r \in Nat
    BY <1>1, <1>4
  <2>6. QED
    BY <2>3, <2>4, <2>5
<1>7. i \div SS = b * PB + j /\ i % SS = r
  <2> DEFINE q == b * PB + j
  <2>1. q \in Int /\ i = SS * q + r
    BY <1>1, <1>2, <1>4, <1>6
  <2> HIDE DEF q
  <2>2. i \div SS = q /\ i % SS = r
    BY <1>1, <1>4, <2>1, DivUnique
  <2>3. QED
    BY <2>2 DEF q
<1>8. i = b * BLOCK_SIZE + k /\ k = j * SS + r
  <2>1. b * BLOCK_SIZE = BLOCK_SIZE * b /\ j * SS = SS * j
    BY <1>1, <1>2, <1>4
  <2>2. QED
    BY <1>2, <1>4, <2>1
<1>9. i \div BLOCK_SIZE = b /\ i % BLOCK_SIZE = k
  BY DEF b, k
<1>10. j \in 0..(PER_BLOCK - 1)
  BY <1>1, <1>4, <1>5
<1>11. QED
  BY <1>2, <1>4, <1>7, <1>8, <1>9, <1>10 DEF subblock

\* select of the inventories, in a sparse and in a dense block.
LEMMA SelectFinds ==
  ASSUME ShapeInv, DoneInv, Unmixed, n_sets \in Nat, NEW i \in Nat, i < n_sets
  PROVE  select(i) = Position(bit, i)
<1>1. PICK b \in Nat, k \in 0..(BLOCK_SIZE - 1), j \in 0..(PER_BLOCK - 1),
           r \in 0..(SUBBLOCK_SIZE - 1) :
        /\ i \div BLOCK_SIZE = b /\ i % BLOCK_SIZE = k
        /\ subblock(i) = b * PER_BLOCK + j /\ i % SUBBLOCK_SIZE = r
        /\ i = b * BLOCK_SIZE + k /\ k = j * SUBBLOCK_SIZE + r
  BY SplitIndex
<1> DEFINE bi == block_inventory
           sub == subblock_inventory
           ov == overflow_positions
           c == Len(bi)
           entry == bi[b + 1]
           x == b * PER_BLOCK + j
<1>2. /\ bi \in Seq(Int) /\ sub \in Seq(Nat) /\ ov \in Seq(Nat)
      /\ c \in Nat /\ Len(sub) \in Nat /\ Len(ov) \in Nat
      /\ BLOCK_SIZE \in Nat \ {0} /\ SUBBLOCK_SIZE \in Nat \ {0} /\ PER_BLOCK \in Nat \ {0}
  BY LenProperties, Sizes DEF DoneInv, Tables
<1>3. b < c
  <2>1. SUFFICES ASSUME c <= b PROVE FALSE
    BY <1>2
  <2> DEFINE t == c * BLOCK_SIZE
             u == b * BLOCK_SIZE
  <2>2. t \in Nat /\ u \in Nat /\ n_sets <= t /\ i = u + k /\ k \in Nat
    BY <1>1, <1>2 DEF DoneInv
  <2>3. t <= u
    <3>1. CASE c = b
      BY <2>2, <3>1
    <3>2. CASE c # b
      <4>1. c < b /\ 0 \in 0..(BLOCK_SIZE - 1)
        BY <1>2, <2>1, <3>2
      <4>2. t + 0 < u
        BY <1>2, <4>1, EarlierBlock
      <4> HIDE DEF t, u
      <4>3. QED
        BY <2>2, <4>2
    <3>3. QED
      BY <3>1, <3>2
  <2> HIDE DEF t, u
  <2>4. QED
    BY <2>2, <2>3
<1>4. b \in 0..(c - 1) /\ b + 1 \in 1..c
  BY <1>2, <1>3
<1>5. entry \in Int
  BY <1>2, <1>4, ElementOfSeq
<1>6. EntryExact(Places, bi, ov, n_sets, b) /\ DistancesExact(Places, bi, sub, n_sets, b)
  BY <1>4 DEF DoneInv, Tables
<1>7. ~(i >= n_sets)
  OBVIOUS
<1>8. select(i) = IF entry < 0 THEN at(ov, k - entry - 1)
                  ELSE IF at(sub, x) = Panic THEN Panic
                  ELSE IF r = 0 THEN entry + at(sub, x)
                  ELSE scan_select_words(entry + at(sub, x), r)
  BY <1>1, <1>7 DEF select
<1>9. Places[i] = Position(bit, i)
  BY DEF Places
<1> HIDE DEF entry, x
<1>10. CASE entry < 0
  <2> DEFINE y == -entry - 1 + k
  <2>1. y \in 0..(Len(ov) - 1) /\ ov[y + 1] = Places[i]
    <3>1. ~(entry >= 0)
      BY <1>5, <1>10
    <3>2. b * BLOCK_SIZE + k < n_sets
      BY <1>1
    <3>3. QED
      BY <1>1, <1>6, <3>1, <3>2 DEF EntryExact, entry
  <2>2. k - entry - 1 = y
    BY <1>5
  <2> HIDE DEF y
  <2>3. at(ov, y) = Places[i]
    <3>1. y < Len(ov)
      BY <1>2, <2>1
    <3>2. QED
      BY <2>1, <3>1 DEF at
  <2>4. QED
    BY <1>8, <1>9, <1>10, <2>2, <2>3
<1>11. CASE ~(entry < 0)
  <2> DEFINE t == b * BLOCK_SIZE
             s == j * SUBBLOCK_SIZE
             i0 == t + s
  <2>1. t \in Nat /\ s \in Nat /\ r \in Nat /\ i = t + (s + r) /\ i0 \in Nat
        /\ i = i0 + r /\ i0 < n_sets
    <3>a. t \in Nat
      BY <1>2
    <3>1. t \in Nat /\ s \in 0..(BLOCK_SIZE - 1)
      BY <3>a, SubblockStarts
    <3>2. s \in Nat /\ r \in Nat /\ k = s + r /\ i = t + k
      BY <1>1, <3>1
    <3> HIDE DEF t, s
    <3>3. QED
      BY <3>1, <3>2
  <2>2. entry >= 0 /\ entry = Position(bit, t)
    <3>1. entry >= 0
      BY <1>5, <1>11
    <3>2. entry = Places[t]
      BY <1>6, <3>1 DEF EntryExact, entry
    <3>3. QED
      BY <2>1, <3>1, <3>2 DEF Places
  <2>3. DenseTo(bi, b)
    <3>1. SUFFICES ASSUME NEW z \in 0..b, ~(bi[z + 1] >= 0) PROVE FALSE
      BY DEF DenseTo
    <3>2. z + 1 \in 1..c /\ bi[z + 1] \in Int
      BY <1>2, <1>3, ElementOfSeq
    <3>3. bi[z + 1] < 0
      BY <3>1, <3>2
    <3>4. z # b
      BY <1>11, <3>3 DEF entry
    <3>5. z + 1 < b + 1
      BY <3>4
    <3>6. QED
      BY <1>4, <1>11, <3>2, <3>3, <3>5 DEF Unmixed, entry
  <2>4. x < Len(sub) /\ sub[x + 1] = Places[i0] - Places[t]
    BY <1>6, <2>1, <2>3 DEF DistancesExact, x
  <2>5. x \in Nat
    <3>1. b * PER_BLOCK \in Nat /\ j \in Nat
      BY <1>2
    <3>2. QED
      BY <3>1 DEF x
  <2>6. at(sub, x) = Position(bit, i0) - Position(bit, t) /\ at(sub, x) \in Nat
    <3>1. x + 1 \in 1..Len(sub)
      BY <1>2, <2>4, <2>5
    <3>2. sub[x + 1] \in Nat
      BY <1>2, <3>1, ElementOfSeq
    <3>3. at(sub, x) = sub[x + 1]
      BY <2>4 DEF at
    <3>4. Places[i0] = Position(bit, i0) /\ Places[t] = Position(bit, t)
      BY <2>1 DEF Places
    <3>5. QED
      BY <2>4, <3>2, <3>3, <3>4
  <2>7. Position(bit, i0) \in Nat /\ n_sets = Cardinality(Positions(bit))
    <3>1. n_bits \in Nat
      BY WordsOf
    <3>2. n_sets = Cardinality(Positions(bit))
      BY DEF DoneInv
    <3>3. Position(bit, i0) \in Positions(bit)
      BY <2>1, <3>1, <3>2, PositionThere
    <3>4. QED
      BY <3>1, <3>2, <3>3 DEF Positions
  <2> HIDE DEF i0, t, s
  <2>8. entry + at(sub, x) = Position(bit, i0)
    BY <1>5, <2>2, <2>6, <2>7
  <2>9. at(sub, x) # Panic
    BY <2>6 DEF Panic
  <2>10. CASE r = 0
    <3>1. i0 = i
      BY <2>1, <2>10
    <3>2. QED
      BY <1>8, <1>11, <2>8, <2>9, <2>10, <3>1
  <2>11. CASE r # 0
    <3>1. scan_select_words(Position(bit, i0), r) = Position(bit, i0 + r)
      BY <2>1, <2>7, ScanFinds
    <3>2. QED
      BY <1>8, <1>11, <2>1, <2>8, <2>9, <2>11, <3>1
  <2>12. QED
    BY <2>10, <2>11
<1>12. QED
  BY <1>10, <1>11

\* On a vector in which no dense block comes after a sparse one, select finds the
\* position of every rank and None past the last: for words, lines, blocks and
\* subblocks of any size.
THEOREM SelectIsExactUnmixed == Spec => []SelectExactUnmixed
<1>1. DArrayInv => SelectExactUnmixed
  <2>1. SUFFICES ASSUME DArrayInv, pc = "done", Unmixed, NEW i \in 0..n_bits
                 PROVE  SelectIsExact(i)
    BY DEF SelectExactUnmixed
  <2>2. ShapeInv /\ DoneInv
    BY <2>1 DEF DArrayInv
  <2>3. n_bits \in Nat /\ i \in Nat
    BY <2>2, WordsOf
  <2>4. n_sets \in Nat
    <3>1. Positions(bit) \in SUBSET Nat /\ \A p \in Positions(bit) : p <= n_bits
      BY <2>3 DEF Positions
    <3>2. IsFiniteSet(Positions(bit))
      BY <2>3, <3>1, FS_BoundedSetOfNaturals
    <3>3. QED
      BY <2>2, <3>2, FS_CardinalityType DEF DoneInv
  <2>5. CASE i < n_sets
    <3>1. select(i) = Position(bit, i)
      BY <2>1, <2>2, <2>3, <2>4, <2>5, SelectFinds
    <3>2. QED
      BY <2>5, <3>1 DEF SelectIsExact
  <2>6. CASE ~(i < n_sets)
    <3>1. i >= n_sets
      BY <2>3, <2>4, <2>6
    <3>2. select(i) = None
      BY <3>1 DEF select
    <3>3. QED
      BY <2>6, <3>2 DEF SelectIsExact
  <2>7. QED
    BY <2>5, <2>6
<1>2. QED
  BY <1>1, DArrayInvHolds, PTL

------------------------------------------------------------------------------
(* RSNarrow and RSWide: rank and select on a vector with clear padding.    *)

\* Recursive functions, powers and sums.
Levels == INSTANCE QuadLevelProofs

\* Places of the lines, and the bits of a value from one place to another.
Room == n_words * WORD_BITS
Between(v, x, y) == {p \in x..(y - 1) : p \in DOMAIN data /\ data[p] = v}

\* They are finitely many, and no more than the places.
LEMMA BetweenSize ==
  ASSUME NEW v, NEW x \in Nat, NEW y \in Nat, x <= y
  PROVE  /\ IsFiniteSet(Between(v, x, y))
         /\ Cardinality(Between(v, x, y)) \in Nat
         /\ Cardinality(Between(v, x, y)) <= y - x
<1>1. IsFiniteSet(x..(y - 1)) /\ Cardinality(x..(y - 1)) = IF x > y - 1 THEN 0 ELSE (y - 1) - x + 1
  BY FS_Interval
<1>2. Cardinality(x..(y - 1)) = y - x
  BY <1>1
<1>3. Between(v, x, y) \subseteq x..(y - 1)
  BY DEF Between
<1>4. IsFiniteSet(Between(v, x, y)) /\ Cardinality(Between(v, x, y)) <= Cardinality(x..(y - 1))
  BY <1>1, <1>3, FS_Subset
<1>5. QED
  BY <1>2, <1>4, FS_CardinalityType

\* Counted splits at any place.
LEMMA CountedSplit ==
  ASSUME NEW v, NEW x \in Nat, NEW y \in Nat, x <= y
  PROVE  /\ Counted(v, x) \in Nat /\ Counted(v, y) \in Nat
         /\ Counted(v, 0) = 0
         /\ Counted(v, y) = Counted(v, x) + Cardinality(Between(v, x, y))
         /\ Counted(v, x) <= Counted(v, y) /\ Counted(v, y) <= Counted(v, x) + (y - x)
         /\ Counted(v, x) <= x
<1> DEFINE A == Between(v, 0, x)
           B == Between(v, x, y)
           C == Between(v, 0, y)
<1>1. Counted(v, x) = Cardinality(A) /\ Counted(v, y) = Cardinality(C)
  BY DEF Counted, Between
<1>2. IsFiniteSet(A) /\ Cardinality(A) \in Nat /\ Cardinality(A) <= x - 0
  BY BetweenSize
<1>3. IsFiniteSet(B) /\ Cardinality(B) \in Nat /\ Cardinality(B) <= y - x
  BY BetweenSize
<1>4. C = A \cup B /\ A \cap B = {}
  BY DEF Between
<1>5. Counted(v, 0) = 0
  <2>1. {p \in 0..(0 - 1) : p \in DOMAIN data /\ data[p] = v} = {}
    OBVIOUS
  <2>2. QED
    BY <2>1, FS_EmptySet DEF Counted
<1> HIDE DEF A, B, C
<1>6. Cardinality(C) = Cardinality(A) + Cardinality(B) - Cardinality(A \cap B)
  BY <1>2, <1>3, <1>4, FS_Union
<1>7. Cardinality(A \cap B) = 0
  BY <1>4, FS_EmptySet
<1> DEFINE a == Cardinality(A)
           b == Cardinality(B)
           c == Cardinality(C)
<1>8. a \in Nat /\ b \in Nat /\ c = a + b - 0 /\ a <= x - 0 /\ b <= y - x
  BY <1>2, <1>3, <1>6, <1>7
<1>9. Counted(v, x) = a /\ Counted(v, y) = c /\ Cardinality(Between(v, x, y)) = b
  BY <1>1 DEF B
<1> HIDE DEF a, b, c
<1>10. c \in Nat /\ c = a + b /\ a <= c /\ c <= a + (y - x) /\ a <= x
  BY <1>8
<1>11. QED
  BY <1>5, <1>8, <1>9, <1>10

\* What a support counts up to place x: the ones, and the rest.
Reckoned(v, x) == IF v THEN Counted(TRUE, x) ELSE x - Counted(TRUE, x)

\* It grows by at most one a place.
LEMMA ReckonedGrows ==
  ASSUME NEW v \in BOOLEAN, NEW x \in Nat, NEW y \in Nat, x <= y
  PROVE  /\ Reckoned(v, x) \in Nat /\ Reckoned(v, y) \in Nat
         /\ Reckoned(v, 0) = 0
         /\ Reckoned(v, x) <= Reckoned(v, y) /\ Reckoned(v, y) <= Reckoned(v, x) + (y - x)
<1> DEFINE a == Counted(TRUE, x)
           c == Counted(TRUE, y)
<1>1. a \in Nat /\ c \in Nat /\ Counted(TRUE, 0) = 0 /\ a <= c /\ c <= a + (y - x) /\ a <= x
  BY CountedSplit, Zenon
<1> HIDE DEF a, c
<1>2. c <= y
  BY <1>1
<1>3. CASE v = TRUE
  <2>1. Reckoned(v, x) = a /\ Reckoned(v, y) = c /\ Reckoned(v, 0) = 0
    BY <1>1, <1>3 DEF Reckoned, a, c
  <2>2. QED
    BY <1>1, <2>1
<1>4. CASE v = FALSE
  <2>1. Reckoned(v, x) = x - a /\ Reckoned(v, y) = y - c /\ Reckoned(v, 0) = 0 - 0
    BY <1>1, <1>4 DEF Reckoned, a, c
  <2>2. QED
    BY <1>1, <1>2, <2>1
<1>5. QED
  BY <1>3, <1>4

\* Inside the lines it is the number of bits of that value, and past them at least.
LEMMA ReckonedIs ==
  ASSUME ShapeInv, NEW v \in BOOLEAN, NEW x \in Nat, x <= Room
  PROVE  Reckoned(v, x) = Counted(v, x)
<1>1. /\ DOMAIN data = 0..(Room - 1) /\ Room \in Nat
      /\ \A p \in DOMAIN data : data[p] \in BOOLEAN
  BY WordsOf DEF Room
<1>2. CASE v = TRUE
  BY <1>2 DEF Reckoned
<1>3. CASE v = FALSE
  <2> DEFINE A == Between(TRUE, 0, x)
             B == Between(FALSE, 0, x)
  <2>1. A \cup B = 0..(x - 1) /\ A \cap B = {}
    <3>1. \A p \in 0..(x - 1) : p \in DOMAIN data /\ data[p] \in BOOLEAN
      BY <1>1
    <3>2. QED
      BY <3>1 DEF Between
  <2>2. IsFiniteSet(A) /\ Cardinality(A) \in Nat /\ IsFiniteSet(B) /\ Cardinality(B) \in Nat
    <3>1. 0 \in Nat /\ 0 <= x
      OBVIOUS
    <3>2. QED
      BY <3>1, BetweenSize, Zenon
  <2>3. Cardinality(0..(x - 1)) = x
    BY FS_Interval
  <2>4. Counted(TRUE, x) = Cardinality(A) /\ Counted(FALSE, x) = Cardinality(B)
    BY DEF Counted, Between
  <2> HIDE DEF A, B
  <2>5. Cardinality(A \cup B) = Cardinality(A) + Cardinality(B) - Cardinality(A \cap B)
    BY <2>2, FS_Union
  <2>6. Cardinality(A \cap B) = 0
    BY <2>1, FS_EmptySet
  <2> DEFINE a == Cardinality(A)
             b == Cardinality(B)
  <2>7. a \in Nat /\ b \in Nat /\ x = a + b - 0 /\ Counted(TRUE, x) = a /\ Counted(FALSE, x) = b
    BY <2>1, <2>2, <2>3, <2>4, <2>5, <2>6
  <2> HIDE DEF a, b
  <2>8. x - a = b
    BY <2>7
  <2>9. Reckoned(FALSE, x) = x - Counted(TRUE, x)
    BY DEF Reckoned
  <2>10. QED
    BY <1>3, <2>7, <2>8, <2>9, Zenon
<1>4. QED
  BY <1>2, <1>3

\* What the queries use of a support r whose last block is last.
IsSupport(r, last) ==
  /\ r.sub \in Nat \ {0} /\ r.per \in Nat \ {0} /\ r.hint \in Nat /\ r.sub <= r.hint
  /\ last \in Nat
  /\ Cardinality(DOMAIN data) \div r.sub \in Nat
  /\ (Cardinality(DOMAIN data) \div r.sub) * r.sub = Room
  /\ Room <= last * r.per * r.sub
  /\ r.blocks = [b \in 0..last |-> counters(b, r.sub, r.per)]
  /\ r.select_samples =
       [v \in BOOLEAN |-> select_samples(v, r.sub, r.per, r.hint, last)]
  /\ r.ones = Counted(TRUE, Room) /\ r.zeros = n_bits - Counted(TRUE, Room)

\* The lines of the vector.
LEMMA LinesOf ==
  ASSUME ShapeInv
  PROVE  /\ n_lines \in Nat /\ n_lines * LINE = Room /\ Cardinality(DOMAIN data) = Room
         /\ Room \in Nat /\ LINE \in Nat \ {0} /\ LINE = WORD_BITS * LINE_WORDS
         /\ WORD_BITS \in Nat \ {0} /\ LINE_WORDS \in Nat \ {0}
         /\ n_words \in Nat /\ Cardinality(DOMAIN data) \div WORD_BITS = n_words
<1>1. n_bits \in Nat /\ n_words \in Nat /\ Room \in Nat /\ DOMAIN data = 0..(Room - 1)
  BY WordsOf DEF Room
<1> DEFINE l == lines_for(n_bits)
<1>2. LINE \in Nat \ {0} /\ l \in Nat /\ l * LINE \in Nat
  BY <1>1, LinesHold
<1>3. DOMAIN data = 0..(l * LINE - 1)
  BY DEF ShapeInv
<1>4. WORD_BITS \in Nat \ {0} /\ LINE_WORDS \in Nat \ {0} /\ LINE = WORD_BITS * LINE_WORDS
  BY BitVectorAssumption DEF LINE
<1>5. Cardinality(DOMAIN data) = Room
  BY <1>1, FS_Interval
<1>6. l * LINE = Room
  <2> DEFINE t == l * LINE
  <2>1. t \in Nat /\ DOMAIN data = 0..(t - 1)
    BY <1>2, <1>3
  <2> HIDE DEF t
  <2>2. Cardinality(DOMAIN data) = t
    BY <2>1, FS_Interval
  <2>3. QED
    BY <1>5, <2>2 DEF t
<1>7. n_lines = l
  <2> HIDE DEF l
  <2>1. Room = LINE * l + 0 /\ 0 \in 0..(LINE - 1)
    BY <1>2, <1>6
  <2>2. Room \div LINE = l
    BY <1>1, <1>2, <2>1, DivUnique
  <2>3. QED
    BY <1>5, <2>2 DEF n_lines
<1>8. QED
  BY <1>1, <1>2, <1>4, <1>5, <1>6, <1>7 DEF n_words

\* The ones of the lines are those of the vector, and the rest of its bits are zeros.
LEMMA TotalOnes ==
  ASSUME GoodInv
  PROVE  /\ ShapeInv /\ n_bits \in Nat /\ n_bits <= Room
         /\ Counted(TRUE, Room) = count_ones /\ Counted(TRUE, n_bits) = count_ones
         /\ count_ones \in Nat
<1>1. ShapeInv
  BY DEF GoodInv, Good, ShapeInv
<1>2. n_bits \in Nat /\ n_bits <= Room /\ Room \in Nat /\ DOMAIN data = 0..(Room - 1)
  BY <1>1, WordsOf DEF Room
<1>3. /\ OnesOf(data) \subseteq 0..(n_bits - 1) /\ count_ones \in Nat
      /\ count_ones = Cardinality(OnesOf(data))
  BY OnesFinite DEF GoodInv, Good
<1>4. \A p \in DOMAIN data : data[p] \in BOOLEAN
  BY <1>1, WordsOf
<1>5. {p \in 0..(Room - 1) : p \in DOMAIN data /\ data[p] = TRUE} = OnesOf(data)
  BY <1>2, <1>4 DEF OnesOf
<1>6. {p \in 0..(n_bits - 1) : p \in DOMAIN data /\ data[p] = TRUE} = OnesOf(data)
  BY <1>2, <1>3, <1>4 DEF OnesOf
<1>7. QED
  BY <1>1, <1>2, <1>3, <1>5, <1>6 DEF Counted

\* The last blocks of RSNarrow and RSWide.
narrow_last == IF n_lines % LINE_WORDS = 0 THEN n_lines ELSE n_lines + 1
wide_last == (n_lines + SUPERBLOCK_LINES - 1) \div SUPERBLOCK_LINES

\* Multiplication is monotone.
LEMMA TimesMono ==
  ASSUME NEW a \in Nat, NEW b \in Nat, NEW d \in Nat, a <= b
  PROVE  a * d <= b * d /\ a * d \in Nat /\ b * d \in Nat
OBVIOUS

\* What RSNarrow::new makes is such a support.
LEMMA NarrowSupports ==
  ASSUME GoodInv
  PROVE  IsSupport(narrow_new, narrow_last)
<1> DEFINE r == narrow_new
           m == narrow_last
<1>1. ShapeInv /\ Counted(TRUE, Room) = count_ones
  BY TotalOnes
<1>2. /\ n_lines \in Nat /\ n_lines * LINE = Room /\ Cardinality(DOMAIN data) = Room
      /\ Room \in Nat /\ LINE \in Nat \ {0} /\ LINE = WORD_BITS * LINE_WORDS
      /\ WORD_BITS \in Nat \ {0} /\ LINE_WORDS \in Nat \ {0}
      /\ n_words \in Nat /\ Cardinality(DOMAIN data) \div WORD_BITS = n_words
  BY <1>1, LinesOf
<1>3. /\ r.sub = WORD_BITS /\ r.per = LINE_WORDS /\ r.hint = NARROW_HINT
      /\ r.blocks = [b \in 0..m |-> counters(b, WORD_BITS, LINE_WORDS)]
      /\ r.select_samples =
           [v \in BOOLEAN |-> select_samples(v, WORD_BITS, LINE_WORDS, NARROW_HINT, m)]
      /\ r.ones = count_ones /\ r.zeros = n_bits - count_ones
  BY DEF narrow_new, narrow_last
<1>4. m \in Nat /\ n_lines <= m
  BY <1>2 DEF narrow_last
<1> HIDE DEF r, m
<1>5. Room <= m * LINE_WORDS * WORD_BITS
  <2>1. n_lines * LINE_WORDS <= m * LINE_WORDS /\ n_lines * LINE_WORDS \in Nat /\ m * LINE_WORDS \in Nat
    BY <1>2, <1>4, TimesMono
  <2>2. (n_lines * LINE_WORDS) * WORD_BITS <= (m * LINE_WORDS) * WORD_BITS
    <3> DEFINE a == n_lines * LINE_WORDS
               b == m * LINE_WORDS
    <3>1. a \in Nat /\ b \in Nat /\ a <= b
      BY <2>1
    <3> HIDE DEF a, b
    <3>2. a * WORD_BITS <= b * WORD_BITS
      BY <1>2, <3>1, TimesMono
    <3>3. QED
      BY <3>2 DEF a, b
  <2>3. (n_lines * LINE_WORDS) * WORD_BITS = n_lines * LINE
    BY <1>2
  <2>4. QED
    BY <1>2, <2>2, <2>3
<1>6. n_words * WORD_BITS = Room
  BY DEF Room
<1>7. NARROW_HINT \in Nat /\ WORD_BITS <= NARROW_HINT
  BY <1>2, RSAssumption
<1>8. IsSupport(r, m)
  BY <1>1, <1>2, <1>3, <1>4, <1>5, <1>6, <1>7 DEF IsSupport
<1>9. QED
  BY <1>8 DEF r, m

\* And what RSWide::new makes.
LEMMA WideSupports ==
  ASSUME GoodInv
  PROVE  IsSupport(wide_new, wide_last)
<1> DEFINE r == wide_new
           m == wide_last
           sb == SUPERBLOCK_LINES
<1>1. ShapeInv /\ Counted(TRUE, Room) = count_ones
  BY TotalOnes
<1>2. /\ n_lines \in Nat /\ n_lines * LINE = Room /\ Cardinality(DOMAIN data) = Room
      /\ Room \in Nat /\ LINE \in Nat \ {0} /\ sb \in Nat \ {0}
  BY <1>1, LinesOf, RSAssumption
<1>3. /\ r.sub = LINE /\ r.per = sb /\ r.hint = WIDE_HINT
      /\ r.blocks = [b \in 0..m |-> counters(b, LINE, sb)]
      /\ r.select_samples = [v \in BOOLEAN |-> select_samples(v, LINE, sb, WIDE_HINT, m)]
      /\ r.ones = Counted(TRUE, n_lines * LINE) /\ r.zeros = n_bits - Counted(TRUE, n_lines * LINE)
  BY DEF wide_new, wide_last
<1>4. m \in Nat /\ n_lines <= m * sb /\ m * sb \in Nat
  <2> DEFINE x == n_lines + sb - 1
  <2>1. x \in Nat /\ x = n_lines + sb - 1
    BY <1>2
  <2> HIDE DEF x
  <2>2. x \div sb \in Nat /\ x % sb \in 0..(sb - 1) /\ x = sb * (x \div sb) + (x % sb)
    BY <1>2, <2>1, DivMod
  <2>3. m = x \div sb
    BY DEF wide_last, x
  <2> DEFINE e == sb * m
  <2>4. e \in Nat /\ e = m * sb
    BY <1>2, <2>2, <2>3
  <2>5. x = e + (x % sb)
    BY <2>2, <2>3
  <2> HIDE DEF e, m
  <2>6. n_lines <= e
    BY <1>2, <2>1, <2>2, <2>4, <2>5
  <2>7. QED
    BY <2>2, <2>3, <2>4, <2>6
<1>5. Cardinality(DOMAIN data) \div LINE = n_lines
  BY DEF n_lines
<1> HIDE DEF r, m
<1>6. Room <= m * sb * LINE
  <2> DEFINE b == m * sb
  <2>1. b \in Nat /\ n_lines <= b
    BY <1>4
  <2> HIDE DEF b
  <2>2. n_lines * LINE <= b * LINE
    BY <1>2, <2>1, TimesMono
  <2>3. QED
    BY <1>2, <2>2 DEF b
<1>7. WIDE_HINT \in Nat /\ LINE <= WIDE_HINT
  BY <1>2, RSAssumption
<1>8. IsSupport(r, m)
  BY <1>1, <1>2, <1>3, <1>4, <1>5, <1>6, <1>7 DEF IsSupport
<1>9. QED
  BY <1>8 DEF r, m

\* The counters of a support are counts of ones, at every sub-block up to its last block.
LEMMA SubBlockRank ==
  ASSUME NEW r, NEW last, IsSupport(r, last), NEW s \in Nat, s \div r.per <= last
  PROVE  /\ sub_block_rank(r, s) = Counted(TRUE, s * r.sub)
         /\ \A v \in BOOLEAN : before_sub_block(r, v, s) = Reckoned(v, s * r.sub)
<1> DEFINE b == s \div r.per
           j == s % r.per
<1>1. /\ r.sub \in Nat \ {0} /\ r.per \in Nat \ {0} /\ last \in Nat
      /\ r.blocks = [k \in 0..last |-> counters(k, r.sub, r.per)]
  BY DEF IsSupport
<1>2. b \in Nat /\ j \in 0..(r.per - 1) /\ s = r.per * b + j
  BY <1>1, DivMod
<1>3. b <= last /\ sub_block_rank(r, s) = r.blocks[b].rank + r.blocks[b].subs[j]
  BY DEF sub_block_rank
<1> HIDE DEF b, j
<1>4. b * r.per + j = s
  BY <1>1, <1>2
<1>5. r.blocks[b] = counters(b, r.sub, r.per)
  BY <1>1, <1>2, <1>3
<1> DEFINE x == b * r.per * r.sub
           y == s * r.sub
<1>6. /\ counters(b, r.sub, r.per).rank = Counted(TRUE, x)
      /\ counters(b, r.sub, r.per).subs[j] = Counted(TRUE, (b * r.per + j) * r.sub) - Counted(TRUE, x)
  BY <1>2 DEF counters
<1>7. x \in Nat /\ y \in Nat
  BY <1>1, <1>2
<1>8. (b * r.per + j) * r.sub = y
  BY <1>4
<1> HIDE DEF x, y
<1>9. Counted(TRUE, x) \in Nat /\ Counted(TRUE, y) \in Nat
  <2>1. x <= x /\ y <= y
    BY <1>7
  <2>2. QED
    BY <1>7, <2>1, CountedSplit, Zenon
<1> DEFINE c == Counted(TRUE, x)
           e == Counted(TRUE, y)
<1>10. sub_block_rank(r, s) = c + (e - c)
  BY <1>3, <1>5, <1>6, <1>8
<1>11. sub_block_rank(r, s) = e
  <2>1. c \in Nat /\ e \in Nat
    BY <1>9
  <2> HIDE DEF c, e
  <2>2. QED
    BY <1>10, <2>1
<1>12. \A v \in BOOLEAN : before_sub_block(r, v, s) = Reckoned(v, y)
  BY <1>11 DEF before_sub_block, Reckoned, y
<1>13. QED
  BY <1>11, <1>12 DEF y

\* So are those before a block.
LEMMA BlockRank ==
  ASSUME NEW r, NEW last, IsSupport(r, last), NEW b \in 0..last, NEW v \in BOOLEAN
  PROVE  before_block(r, v, b) = Reckoned(v, b * r.per * r.sub)
<1>1. r.blocks = [k \in 0..last |-> counters(k, r.sub, r.per)]
  BY DEF IsSupport
<1>2. r.blocks[b] = counters(b, r.sub, r.per)
  BY <1>1
<1>3. counters(b, r.sub, r.per).rank = Counted(TRUE, b * r.per * r.sub)
  BY DEF counters
<1>4. QED
  BY <1>2, <1>3 DEF before_block, Reckoned

\* A sub-block that begins inside the lines belongs to a block.
LEMMA SubBlockThere ==
  ASSUME NEW r, NEW last, IsSupport(r, last), Room \in Nat, NEW s \in Nat, s * r.sub < Room
  PROVE  s \div r.per <= last
<1> DEFINE b == s \div r.per
<1>1. /\ r.sub \in Nat \ {0} /\ r.per \in Nat \ {0} /\ last \in Nat
      /\ Room <= last * r.per * r.sub
  BY DEF IsSupport
<1>2. b \in Nat /\ s % r.per \in 0..(r.per - 1) /\ s = r.per * b + (s % r.per)
  BY <1>1, DivMod
<1> HIDE DEF b
<1> SUFFICES ASSUME last < b PROVE FALSE
  BY <1>1, <1>2 DEF b
<1>3. last * r.per <= b * r.per /\ last * r.per \in Nat /\ b * r.per \in Nat
  BY <1>1, <1>2, TimesMono
<1> DEFINE x == last * r.per
           y == b * r.per
<1>4. x \in Nat /\ y \in Nat /\ x <= y /\ y = r.per * b
  BY <1>1, <1>2, <1>3
<1>5. Room <= x * r.sub
  BY <1>1
<1> HIDE DEF x, y
<1>6. x <= s
  BY <1>2, <1>4
<1>7. x * r.sub <= s * r.sub /\ x * r.sub \in Nat /\ s * r.sub \in Nat
  BY <1>1, <1>4, <1>6, TimesMono
<1>8. QED
  BY <1>5, <1>7

\* rank1 is the number of ones before i.
LEMMA RankFinds ==
  ASSUME GoodInv, NEW r, NEW last, IsSupport(r, last), NEW i \in 1..n_bits
  PROVE  rank1(r, i) = Counted(TRUE, i)
<1>1. ShapeInv /\ n_bits \in Nat /\ n_bits <= Room
  BY TotalOnes
<1>2. Room \in Nat /\ DOMAIN data = 0..(Room - 1) /\ \A p \in DOMAIN data : data[p] \in BOOLEAN
  BY <1>1, WordsOf DEF Room
<1>3. i \in Nat /\ i - 1 \in Nat /\ i # 0 /\ i <= n_bits /\ n_bits # 0
  BY <1>1
<1>4. r.sub \in Nat \ {0}
  BY DEF IsSupport
<1> DEFINE s == (i - 1) \div r.sub
           x == s * r.sub
<1>5. s \in Nat /\ (i - 1) % r.sub \in 0..(r.sub - 1) /\ i - 1 = r.sub * s + ((i - 1) % r.sub)
  BY <1>3, <1>4, DivMod
<1>6. rank1(r, i) = sub_block_rank(r, s) + Cardinality({p \in (s * r.sub)..(i - 1) : data[p]})
  BY <1>1, <1>3 DEF rank1
<1> HIDE DEF s
<1>7. x \in Nat /\ x = r.sub * s
  BY <1>4, <1>5
<1>8. x <= i - 1
  <2> HIDE DEF x
  <2> QED
    BY <1>3, <1>4, <1>5, <1>7
<1> HIDE DEF x
<1>9. x < Room /\ x <= i /\ i <= Room
  BY <1>1, <1>2, <1>3, <1>7, <1>8
<1>10. sub_block_rank(r, s) = Counted(TRUE, x)
  <2>1. s \div r.per <= last
    BY <1>2, <1>5, <1>9, SubBlockThere DEF x
  <2>2. QED
    BY <1>5, <2>1, SubBlockRank DEF x
<1>11. {p \in x..(i - 1) : data[p]} = Between(TRUE, x, i)
  <2>1. \A p \in x..(i - 1) : p \in DOMAIN data
    BY <1>2, <1>3, <1>7, <1>9
  <2>2. QED
    BY <1>2, <2>1 DEF Between
<1>12. Counted(TRUE, i) = Counted(TRUE, x) + Cardinality(Between(TRUE, x, i))
  BY <1>3, <1>7, <1>9, CountedSplit, Zenon
<1>13. QED
  BY <1>6, <1>10, <1>11, <1>12 DEF x

\* Before a place of the vector there are as many positions of a value as Counted says.
LEMMA CountedPositions ==
  ASSUME ShapeInv, NEW v, NEW x \in 0..n_bits
  PROVE  Counted(v, x) = Cardinality(Before(Positions(v), x))
<1>1. n_bits \in Nat /\ n_bits <= Room /\ Room \in Nat /\ DOMAIN data = 0..(Room - 1)
  BY WordsOf DEF Room
<1>2. {p \in 0..(x - 1) : p \in DOMAIN data /\ data[p] = v} = Before(Positions(v), x)
  <2>1. \A p : p \in 0..(x - 1) <=> (p \in 0..(n_bits - 1) /\ p < x)
    BY <1>1
  <2>2. \A p \in 0..(n_bits - 1) : p \in DOMAIN data
    BY <1>1
  <2>3. QED
    BY <2>1, <2>2 DEF Before, Positions
<1>3. QED
  BY <1>2 DEF Counted

\* All positions are before the end.
LEMMA CountedAll ==
  ASSUME ShapeInv, NEW v
  PROVE  Counted(v, n_bits) = Cardinality(Positions(v))
<1>1. n_bits \in Nat
  BY WordsOf
<1>2. Before(Positions(v), n_bits) = Positions(v)
  BY <1>1 DEF Before, Positions
<1>3. QED
  BY <1>1, <1>2, CountedPositions

\* The sample of the h-th hint is the block in which another hint bits were full.
SampleOk(v, u, per, hint, h, b) ==
  /\ b \in Nat
  /\ h = 0 => b = 0
  /\ h > 0 => /\ Counted(v, b * per * u) < h * hint
              /\ h * hint <= Counted(v, (b + 1) * per * u)

\* The samples that have been pushed after k units.
PushedOk(v, u, per, hint, k, seq) ==
  /\ seq \in Seq(Nat)
  /\ Len(seq) = Counted(v, k * u) \div hint + 1
  /\ \A h \in 0..(Len(seq) - 1) : SampleOk(v, u, per, hint, h, seq[h + 1]) /\ seq[h + 1] * per <= k

\* One unit pushes at most one, and the right one.
LEMMA PushStep ==
  ASSUME NEW v, NEW u \in Nat \ {0}, NEW per \in Nat \ {0}, NEW hint \in Nat, u <= hint,
         NEW k \in Nat, NEW seq, PushedOk(v, u, per, hint, k, seq)
  PROVE  PushedOk(v, u, per, hint, k + 1,
           IF another_full(Counted(v, (k + 1) * u), hint, Len(seq) - 1)
             THEN Append(seq, k \div per) ELSE seq)
<1> DEFINE x == k * u
           y == (k + 1) * u
           c == Counted(v, x)
           e == Counted(v, y)
           q == c \div hint
           z == e \div hint
           m == Len(seq)
<1>1. x \in Nat /\ y \in Nat /\ y = x + u
  OBVIOUS
<1>2. hint \in Nat \ {0}
  OBVIOUS
<1>3. c \in Nat /\ e \in Nat /\ c <= e /\ e <= c + u
  <2> HIDE DEF x, y
  <2>1. x <= y /\ y - x = u
    BY <1>1
  <2>2. QED
    BY <1>1, <2>1, CountedSplit
<1>4. seq \in Seq(Nat) /\ m \in Nat /\ m = q + 1
  BY DEF PushedOk
<1> HIDE DEF x, y, c, e
<1>5. /\ q \in Nat /\ c % hint \in 0..(hint - 1) /\ c = hint * q + (c % hint)
      /\ z \in Nat /\ e % hint \in 0..(hint - 1) /\ e = hint * z + (e % hint)
  BY <1>2, <1>3, DivMod
<1> HIDE DEF q, z
<1>6. z = q \/ z = q + 1
  <2>1. CASE z < q
    <3>1. z * hint <= q * hint /\ (z + 1) * hint <= q * hint
      BY <1>2, <1>5, <2>1, TimesMono
    <3> DEFINE a == z * hint
               b == q * hint
    <3>2. a \in Nat /\ b \in Nat /\ (z + 1) * hint = a + hint /\ hint * z = a /\ hint * q = b
      BY <1>2, <1>5
    <3> HIDE DEF a, b
    <3>3. a + hint <= b /\ e = a + (e % hint) /\ c = b + (c % hint)
      BY <1>5, <3>1, <3>2 DEF b
    <3>4. QED
      BY <1>2, <1>3, <1>5, <3>2, <3>3
  <2>2. CASE z > q + 1
    <3>1. (q + 2) * hint <= z * hint
      BY <1>2, <1>5, <2>2, TimesMono
    <3> DEFINE a == q * hint
               b == z * hint
    <3>2. a \in Nat /\ b \in Nat /\ (q + 2) * hint = a + hint + hint /\ hint * q = a /\ hint * z = b
      BY <1>2, <1>5
    <3> HIDE DEF a, b
    <3>3. a + hint + hint <= b /\ c = a + (c % hint) /\ e = b + (e % hint)
      BY <1>5, <3>1, <3>2 DEF b
    <3>4. QED
      BY <1>2, <1>3, <1>5, <3>2, <3>3
  <2>3. QED
    BY <1>5, <2>1, <2>2
<1>7. another_full(Counted(v, (k + 1) * u), hint, Len(seq) - 1) <=> z = q + 1
  <2>1. another_full(Counted(v, (k + 1) * u), hint, Len(seq) - 1) <=> z > m - 1
    <3>1. Counted(v, (k + 1) * u) = e
      BY DEF e, y
    <3>2. another_full(Counted(v, (k + 1) * u), hint, Len(seq) - 1)
            <=> Counted(v, (k + 1) * u) \div hint > Len(seq) - 1
      BY DEF another_full
    <3>3. QED
      BY <3>1, <3>2 DEF z, m
  <2> HIDE DEF m
  <2>2. q \in Nat /\ z \in Nat /\ m = q + 1
    BY <1>4, <1>5
  <2>3. z > m - 1 <=> z = q + 1
    BY <1>6, <2>2
  <2>4. QED
    BY <2>1, <2>3, Zenon
<1>8. \A h \in 0..(m - 1) : SampleOk(v, u, per, hint, h, seq[h + 1]) /\ seq[h + 1] * per <= k
  BY DEF PushedOk
<1>9. \A h \in 0..(m - 1) : seq[h + 1] \in Nat /\ seq[h + 1] * per <= k + 1
  <2> SUFFICES ASSUME NEW h \in 0..(m - 1) PROVE seq[h + 1] \in Nat /\ seq[h + 1] * per <= k + 1
    OBVIOUS
  <2>1. seq[h + 1] \in Nat /\ seq[h + 1] * per <= k
    BY <1>8 DEF SampleOk
  <2> DEFINE a == seq[h + 1] * per
  <2>2. a \in Nat /\ a <= k
    BY <2>1
  <2> HIDE DEF a
  <2>3. a <= k + 1
    BY <2>2
  <2>4. QED
    BY <2>1, <2>3 DEF a
<1>10. CASE z = q
  <2>1. ~another_full(Counted(v, (k + 1) * u), hint, Len(seq) - 1)
    BY <1>5, <1>7, <1>10
  <2>2. PushedOk(v, u, per, hint, k + 1, seq)
    BY <1>4, <1>8, <1>9, <1>10 DEF PushedOk, q, z, c, e, x, y
  <2>3. QED
    BY <2>1, <2>2
<1>11. CASE z = q + 1
  <2> DEFINE b == k \div per
             new == Append(seq, b)
             h == q + 1
  <2>1. another_full(Counted(v, (k + 1) * u), hint, Len(seq) - 1)
    BY <1>7, <1>11
  <2>2. b \in Nat /\ k % per \in 0..(per - 1) /\ k = per * b + (k % per)
    BY DivMod
  <2>3. /\ new \in Seq(Nat) /\ Len(new) = m + 1 /\ new[m + 1] = b
        /\ \A j \in 1..m : new[j] = seq[j]
    BY <1>4, <2>2
  <2> HIDE DEF b, new
  <2> DEFINE f == b * per
             g == (b + 1) * per
  <2>4. f \in Nat /\ g \in Nat /\ f = per * b /\ g = f + per
    BY <2>2
  <2> HIDE DEF f, g
  <2>5. f <= k /\ k + 1 <= g
    BY <2>2, <2>4
  <2>6. f * u \in Nat /\ g * u \in Nat /\ f * u <= x /\ y <= g * u
    BY <2>4, <2>5, TimesMono DEF x, y
  <2>7. Counted(v, f * u) <= c /\ e <= Counted(v, g * u) /\ Counted(v, f * u) \in Nat /\ Counted(v, g * u) \in Nat
    <3> DEFINE a == f * u
               d == g * u
    <3>1. a \in Nat /\ d \in Nat /\ a <= x /\ y <= d
      BY <2>6
    <3> HIDE DEF a, d
    <3>2. Counted(v, a) <= Counted(v, x) /\ Counted(v, y) <= Counted(v, d)
          /\ Counted(v, a) \in Nat /\ Counted(v, d) \in Nat
      BY <1>1, <3>1, CountedSplit
    <3>3. QED
      BY <3>2 DEF a, d, c, e
  <2>8. c < h * hint /\ h * hint <= e
    <3> DEFINE a == hint * q
    <3>1. a \in Nat /\ c = a + (c % hint) /\ h * hint = a + hint /\ hint * z = a + hint
      BY <1>2, <1>5, <1>11
    <3>2. e = (a + hint) + (e % hint)
      BY <1>5, <3>1
    <3> HIDE DEF a
    <3>3. QED
      BY <1>2, <1>3, <1>5, <3>1, <3>2
  <2>9. SampleOk(v, u, per, hint, h, b)
    <3> DEFINE w == h * hint
               a == Counted(v, f * u)
               d == Counted(v, g * u)
    <3>1. w \in Nat /\ a \in Nat /\ d \in Nat /\ a <= c /\ e <= d /\ c < w /\ w <= e
      BY <1>2, <1>5, <2>7, <2>8
    <3> HIDE DEF w, a, d
    <3>2. a < w /\ w <= d
      BY <1>3, <3>1
    <3>3. h # 0 /\ h \in Nat
      BY <1>5
    <3>4. QED
      BY <2>2, <3>2, <3>3 DEF SampleOk, w, a, d, f, g
  <2>10. ASSUME NEW j \in 0..((m + 1) - 1)
         PROVE  SampleOk(v, u, per, hint, j, new[j + 1]) /\ new[j + 1] * per <= k + 1
    <3>1. CASE j = m
      <4>1. new[j + 1] = b /\ j = h
        BY <1>4, <2>3, <3>1
      <4>2. b * per <= k + 1
        <5>1. f <= k + 1
          BY <2>4, <2>5
        <5>2. QED
          BY <5>1 DEF f
      <4>3. QED
        BY <2>9, <4>1, <4>2
    <3>2. CASE j # m
      <4>1. j \in 0..(m - 1) /\ j + 1 \in 1..m
        BY <1>4, <3>2
      <4>2. new[j + 1] = seq[j + 1]
        BY <2>3, <4>1
      <4>3. QED
        BY <1>8, <1>9, <4>1, <4>2
    <3>3. QED
      BY <3>1, <3>2
  <2>11. Len(new) = z + 1
    BY <1>4, <1>5, <1>11, <2>3
  <2>12. PushedOk(v, u, per, hint, k + 1, new)
    BY <2>3, <2>10, <2>11 DEF PushedOk, z, e, y
  <2>13. QED
    BY <2>1, <2>12 DEF new, b
<1>12. QED
  BY <1>6, <1>10, <1>11

\* In the end all of them, and then the last block.
Sampled(v, u, per, hint, last) ==
  \E seq : /\ PushedOk(v, u, per, hint, Cardinality(DOMAIN data) \div u, seq)
           /\ select_samples(v, u, per, hint, last) = Append(seq, last)

\* select_samples does that.
LEMMA SamplesAre ==
  ASSUME ShapeInv, NEW v, NEW u \in Nat \ {0}, NEW per \in Nat \ {0}, NEW hint \in Nat, u <= hint,
         NEW last, Cardinality(DOMAIN data) \div u \in Nat
  PROVE  Sampled(v, u, per, hint, last)
<1> DEFINE m == Cardinality(DOMAIN data) \div u
           push(k, y) == IF another_full(Counted(v, k * u), hint, Len(y) - 1)
                           THEN Append(y, (k - 1) \div per) ELSE y
           D == Seq(Nat)
           g == [l \in 0..(m - 1) |-> [y \in D |-> push(l + 1, y)]]
           G(f) == [k \in 0..m |-> IF k = 0 THEN <<0>> ELSE push(k, f[k - 1])]
           pushes == CHOOSE f : f = G(f)
<1>1. m \in Nat
  OBVIOUS
<1>2. select_samples(v, u, per, hint, last) = Append(pushes[m], last)
  BY DEF select_samples
<1>3. \A l \in 0..(m - 1), y \in D : push(l + 1, y) \in D
  <2> SUFFICES ASSUME NEW l \in 0..(m - 1), NEW y \in D PROVE push(l + 1, y) \in D
    OBVIOUS
  <2>1. l \in Nat /\ (l + 1) - 1 = l
    BY <1>1
  <2>2. ((l + 1) - 1) \div per \in Nat
    BY <2>1, DivMod
  <2> DEFINE b == ((l + 1) - 1) \div per
  <2>3. Append(y, b) \in Seq(Nat)
    <3> HIDE DEF b
    <3>1. b \in Nat
      BY <2>2 DEF b
    <3>2. QED
      BY <3>1
  <2>4. QED
    BY <2>3
<1>4. <<0>> \in D
  OBVIOUS
<1> HIDE DEF m, D, push
<1>5. \A l \in 0..(m - 1), y \in D : g[l][y] = push(l + 1, y)
  BY <1>1
<1>6. \A l \in 0..(m - 1), y \in D : g[l][y] \in D
  BY <1>3, <1>5
<1>7. PICK F \in [0..m -> D] : Levels!Follows(F, m, <<0>>, g)
  <2> DEFINE x == <<0>>
  <2> HIDE DEF g, x
  <2>1. x \in D
    BY <1>4 DEF x
  <2>2. \E f \in [0..m -> D] : Levels!Follows(f, m, x, g)
    BY <1>1, <1>6, <2>1, Levels!Recursion
  <2> QED
    BY <2>2 DEF x
<1>8. F = G(F)
  <2>1. ASSUME NEW l \in 0..m PROVE F[l] = IF l = 0 THEN <<0>> ELSE push(l, F[l - 1])
    <3>1. CASE l = 0
      <4> HIDE DEF g
      <4> QED
        BY <3>1, <1>7 DEF Levels!Follows
    <3>2. CASE l # 0
      <4>1. l - 1 \in 0..(m - 1) /\ (l - 1) + 1 = l /\ l - 1 \in 0..m
        BY <1>1, <3>2
      <4> HIDE DEF g
      <4>2. F[(l - 1) + 1] = g[l - 1][F[l - 1]] /\ F[l - 1] \in D
        BY <4>1, <1>7 DEF Levels!Follows
      <4>3. QED
        BY <3>2, <4>1, <4>2, <1>5
    <3>3. QED
      BY <3>1, <3>2
  <2>2. F = [l \in 0..m |-> F[l]]
    BY <1>7
  <2> HIDE DEF g
  <2>3. QED
    BY <2>1, <2>2
<1>9. pushes = G(pushes)
  <2> HIDE DEF G
  <2> QED
    BY <1>8
<1> HIDE DEF pushes
<1>10. \A l \in 0..m : pushes[l] = IF l = 0 THEN <<0>> ELSE push(l, pushes[l - 1])
  BY <1>9
<1>11. PushedOk(v, u, per, hint, 0, pushes[0])
  <2>1. pushes[0] = <<0>>
    BY <1>1, <1>10
  <2>2. 0 * u = 0 /\ 0 \div hint = 0 /\ 0 * per = 0 /\ hint \in Nat \ {0}
    OBVIOUS
  <2>3. Counted(v, 0) = 0
    <3>1. 0 \in Nat /\ 0 <= 0
      OBVIOUS
    <3>2. QED
      BY <3>1, CountedSplit, Zenon
  <2>4. <<0>> \in Seq(Nat) /\ Len(<<0>>) = 1 /\ <<0>>[1] = 0
    OBVIOUS
  <2>5. SampleOk(v, u, per, hint, 0, 0)
    BY DEF SampleOk
  <2>6. \A h \in 0..(1 - 1) : h = 0 /\ h + 1 = 1
    OBVIOUS
  <2>7. PushedOk(v, u, per, hint, 0, <<0>>)
    <3> DEFINE x == <<0>>
    <3>1. x \in Seq(Nat) /\ Len(x) = 1 /\ x[1] = 0
      BY <2>4
    <3> HIDE DEF x
    <3>2. Len(x) = Counted(v, 0 * u) \div hint + 1
      BY <2>2, <2>3, <3>1
    <3>3. PushedOk(v, u, per, hint, 0, x)
      BY <2>2, <2>5, <2>6, <3>1, <3>2 DEF PushedOk
    <3>4. QED
      BY <3>3 DEF x
  <2>8. QED
    BY <2>1, <2>7
<1>12. ASSUME NEW k \in Nat, k < m, PushedOk(v, u, per, hint, k, pushes[k])
       PROVE  PushedOk(v, u, per, hint, k + 1, pushes[k + 1])
  <2>1. k + 1 \in 0..m /\ k + 1 # 0 /\ (k + 1) - 1 = k
    BY <1>1, <1>12
  <2>2. pushes[k + 1] = push(k + 1, pushes[k])
    BY <2>1, <1>10
  <2>3. PushedOk(v, u, per, hint, k + 1,
           IF another_full(Counted(v, (k + 1) * u), hint, Len(pushes[k]) - 1)
             THEN Append(pushes[k], k \div per) ELSE pushes[k])
    BY <1>12, PushStep
  <2>4. push(k + 1, pushes[k]) = IF another_full(Counted(v, (k + 1) * u), hint, Len(pushes[k]) - 1)
                               THEN Append(pushes[k], ((k + 1) - 1) \div per) ELSE pushes[k]
    BY DEF push
  <2>5. QED
    BY <2>1, <2>2, <2>3, <2>4
<1>13. PushedOk(v, u, per, hint, m, pushes[m])
  <2> DEFINE Bad == {k \in Nat : k <= m /\ ~PushedOk(v, u, per, hint, k, pushes[k])}
  <2> SUFFICES ASSUME Bad # {} PROVE FALSE
    BY <1>1
  <2>1. PICK k \in Bad : \A j \in Bad : k <= j
    <3>1. Bad \in SUBSET Nat
      OBVIOUS
    <3> HIDE DEF Bad
    <3>2. QED
      BY <3>1, MinNat
  <2>2. k # 0 /\ k - 1 \in Nat /\ k - 1 < m /\ (k - 1) + 1 = k /\ ~(k <= k - 1) /\ k - 1 <= m
    BY <1>1, <1>11, <2>1
  <2>3. PushedOk(v, u, per, hint, k - 1, pushes[k - 1])
    BY <2>1, <2>2
  <2>4. PushedOk(v, u, per, hint, (k - 1) + 1, pushes[(k - 1) + 1])
    BY <2>2, <2>3, <1>12
  <2>5. QED
    BY <2>1, <2>2, <2>4
<1>14. QED
  BY <1>2, <1>13 DEF m, Sampled

\* Past the lines nothing more is counted, and what is reckoned never falls.
LEMMA CountedBelow ==
  ASSUME ShapeInv, NEW v \in BOOLEAN, NEW x \in Nat
  PROVE  Counted(v, x) <= Reckoned(v, x) /\ Counted(v, x) \in Nat /\ Reckoned(v, x) \in Nat
<1>1. Room \in Nat /\ DOMAIN data = 0..(Room - 1)
  BY WordsOf DEF Room
<1>2. Counted(v, x) \in Nat /\ Reckoned(v, x) \in Nat
  BY CountedSplit, ReckonedGrows
<1>3. CASE x <= Room
  BY <1>2, <1>3, ReckonedIs
<1>4. CASE Room < x
  <2>1. Room <= x /\ Room <= Room
    BY <1>1, <1>4
  <2>2. Between(v, Room, x) = {}
    BY <1>1 DEF Between
  <2>3. Cardinality(Between(v, Room, x)) = 0
    BY <2>2, FS_EmptySet
  <2>4. Counted(v, x) = Counted(v, Room) + Cardinality(Between(v, Room, x)) /\ Counted(v, Room) \in Nat
    BY <1>1, <2>1, CountedSplit
  <2>5. Reckoned(v, Room) = Counted(v, Room)
    BY <1>1, <2>1, ReckonedIs
  <2>6. Reckoned(v, Room) <= Reckoned(v, x) /\ Reckoned(v, Room) \in Nat
    BY <1>1, <2>1, ReckonedGrows
  <2> DEFINE a == Counted(v, Room)
             c == Counted(v, x)
             d == Reckoned(v, x)
  <2>7. c = a + 0 /\ a <= d /\ a \in Nat /\ c \in Nat /\ d \in Nat
    BY <1>2, <2>3, <2>4, <2>5, <2>6
  <2> HIDE DEF a, c, d
  <2>8. c <= d
    BY <2>7
  <2>9. QED
    BY <1>2, <2>8 DEF c, d
<1>5. QED
  BY <1>1, <1>3, <1>4

\* Where the reckoning is smaller, the place is.
LEMMA ReckonedLess ==
  ASSUME NEW v \in BOOLEAN, NEW x \in Nat, NEW y \in Nat, NEW i \in Nat,
         Reckoned(v, x) <= i, i < Reckoned(v, y)
  PROVE  x < y
<1> SUFFICES ASSUME y <= x PROVE FALSE
  OBVIOUS
<1>1. Reckoned(v, y) <= Reckoned(v, x) /\ Reckoned(v, y) \in Nat /\ Reckoned(v, x) \in Nat
  BY ReckonedGrows
<1> DEFINE a == Reckoned(v, x)
           b == Reckoned(v, y)
<1>2. a <= i /\ i < b /\ b <= a /\ a \in Nat /\ b \in Nat
  BY <1>1
<1> HIDE DEF a, b
<1>3. QED
  BY <1>2

\* Products compare as their factors do.
LEMMA TimesLess ==
  ASSUME NEW a \in Nat, NEW b \in Nat, NEW d \in Nat, a * d < b * d
  PROVE  a < b
<1> SUFFICES ASSUME b <= a PROVE FALSE
  OBVIOUS
<1>1. b * d <= a * d /\ a * d \in Nat /\ b * d \in Nat
  BY TimesMono
<1>2. QED
  BY <1>1

\* The samples around the i-th bit of a value: that bit is not before the block
\* of the first, and before the end of the second or, at the end, of all.
LEMMA SamplesAround ==
  ASSUME ShapeInv, NEW r, NEW last, IsSupport(r, last), NEW v \in BOOLEAN, NEW i \in Nat,
         i < Counted(v, Room)
  PROVE  LET samples == r.select_samples[v]
             start == samples[i \div r.hint + 1]
             end == 1 + samples[i \div r.hint + 2]
         IN /\ start \in Nat /\ end \in Nat /\ end <= last + 1
            /\ Reckoned(v, start * r.per * r.sub) <= i
            /\ end <= last => i < Reckoned(v, end * r.per * r.sub)
            /\ i < Reckoned(v, last * r.per * r.sub)
<1> DEFINE u == r.sub
           per == r.per
           hint == r.hint
           m == Cardinality(DOMAIN data) \div u
           T == Counted(v, Room)
           h == i \div hint
           samples == r.select_samples[v]
<1>1. /\ u \in Nat \ {0} /\ per \in Nat \ {0} /\ hint \in Nat /\ u <= hint
      /\ last \in Nat /\ m \in Nat /\ m * u = Room /\ Room <= last * per * u
      /\ samples = select_samples(v, u, per, hint, last)
  BY DEF IsSupport
<1>2. Room \in Nat
  BY LinesOf
<1>3. PICK seq : PushedOk(v, u, per, hint, m, seq) /\ samples = Append(seq, last)
  <2> HIDE DEF u, per, hint, samples
  <2>1. Cardinality(DOMAIN data) \div u \in Nat
    BY <1>1
  <2>2. u \in Nat \ {0} /\ per \in Nat \ {0} /\ hint \in Nat /\ u <= hint
    BY <1>1
  <2>3. Sampled(v, u, per, hint, last)
    BY <2>1, <2>2, SamplesAre
  <2>4. PICK seq : /\ PushedOk(v, u, per, hint, Cardinality(DOMAIN data) \div u, seq)
                   /\ select_samples(v, u, per, hint, last) = Append(seq, last)
    BY <2>3 DEF Sampled
  <2>5. samples = Append(seq, last)
    BY <1>1, <2>4
  <2>6. PushedOk(v, u, per, hint, m, seq)
    BY <2>4
  <2> HIDE DEF m
  <2>7. QED
    BY <2>5, <2>6
<1>4. T \in Nat /\ i < T
  BY <1>2, CountedBelow
<1> HIDE DEF u, per, hint, m, T, samples
<1>5. hint \in Nat \ {0}
  BY <1>1
<1>6. h \in Nat /\ i % hint \in 0..(hint - 1) /\ i = hint * h + (i % hint)
  BY <1>5, DivMod
<1>7. T \div hint \in Nat /\ T % hint \in 0..(hint - 1) /\ T = hint * (T \div hint) + (T % hint)
  BY <1>4, <1>5, DivMod
<1> DEFINE w == T \div hint
           a == hint * h
           b == hint * w
<1> HIDE DEF h
<1>8. a \in Nat /\ b \in Nat /\ a = h * hint /\ (h + 1) * hint = a + hint /\ b = w * hint
  BY <1>5, <1>6, <1>7
<1>9. i = a + (i % hint) /\ T = b + (T % hint) /\ w \in Nat
  BY <1>6, <1>7
<1> HIDE DEF w, a, b
<1>10. a <= i /\ i < a + hint
  BY <1>5, <1>6, <1>8, <1>9
<1>11. h <= w
  <2> SUFFICES ASSUME w + 1 <= h PROVE FALSE
    BY <1>6, <1>9
  <2>1. (w + 1) * hint <= h * hint
    BY <1>5, <1>6, <1>9, TimesMono
  <2>2. (w + 1) * hint = b + hint
    BY <1>5, <1>8, <1>9
  <2>3. b + hint <= a
    BY <1>8, <2>1, <2>2
  <2> DEFINE t == T % hint
  <2>4. t \in 0..(hint - 1) /\ T = b + t
    BY <1>7, <1>9
  <2> HIDE DEF t
  <2>5. QED
    BY <1>4, <1>5, <1>8, <1>10, <2>3, <2>4
<1>12. /\ seq \in Seq(Nat) /\ Len(seq) = w + 1
       /\ \A j \in 0..w : SampleOk(v, u, per, hint, j, seq[j + 1]) /\ seq[j + 1] * per <= m
  <2>1. /\ seq \in Seq(Nat) /\ Len(seq) = Counted(v, m * u) \div hint + 1
        /\ \A j \in 0..(Len(seq) - 1) : SampleOk(v, u, per, hint, j, seq[j + 1]) /\ seq[j + 1] * per <= m
    BY <1>3 DEF PushedOk
  <2>2. Counted(v, m * u) \div hint = w
    BY <1>1 DEF w, T
  <2>3. Len(seq) - 1 = w
    BY <1>9, <2>1, <2>2
  <2>4. QED
    BY <2>1, <2>2, <2>3
<1>13. /\ Len(samples) = w + 2 /\ samples[w + 2] = last
       /\ \A j \in 1..(w + 1) : samples[j] = seq[j]
  BY <1>1, <1>3, <1>9, <1>12
<1>14. ASSUME NEW j \in 0..w
       PROVE  /\ seq[j + 1] \in Nat /\ seq[j + 1] * per * u \in Nat /\ seq[j + 1] * per * u <= Room
              /\ Reckoned(v, seq[j + 1] * per * u) = Counted(v, seq[j + 1] * per * u)
  <2> DEFINE f == seq[j + 1] * per
  <2>1. seq[j + 1] \in Nat /\ f <= m
    BY <1>12 DEF SampleOk
  <2>2. f \in Nat
    BY <1>1, <2>1
  <2> HIDE DEF f
  <2>3. f * u <= m * u /\ f * u \in Nat
    BY <1>1, <2>1, <2>2, TimesMono
  <2>4. f * u <= Room
    BY <1>1, <2>3
  <2> DEFINE y == f * u
  <2>5. y \in Nat /\ y <= Room
    BY <2>3, <2>4
  <2> HIDE DEF y
  <2>6. Reckoned(v, y) = Counted(v, y)
    BY <2>5, ReckonedIs
  <2>7. QED
    BY <2>1, <2>5, <2>6 DEF y, f
<1> DEFINE start == samples[h + 1]
           next == samples[h + 2]
<1>15. start = seq[h + 1] /\ h \in 0..w
  BY <1>6, <1>9, <1>11, <1>13
<1>16. start \in Nat /\ Reckoned(v, start * per * u) <= i
  <2>1. /\ start \in Nat /\ start * per * u \in Nat
        /\ Reckoned(v, start * per * u) = Counted(v, start * per * u)
    BY <1>14, <1>15
  <2>2. SampleOk(v, u, per, hint, h, start)
    BY <1>12, <1>15
  <2>3. CASE h = 0
    <3>1. start = 0
      BY <2>2, <2>3 DEF SampleOk
    <3>2. start * per * u = 0
      BY <1>1, <3>1
    <3>3. Reckoned(v, 0) = 0
      <4>1. 0 \in Nat /\ 0 <= 0
        OBVIOUS
      <4>2. QED
        BY <4>1, ReckonedGrows
    <3>4. QED
      BY <2>1, <3>2, <3>3
  <2>4. CASE h > 0
    <3>1. Counted(v, start * per * u) < h * hint
      BY <2>2, <2>4 DEF SampleOk
    <3> DEFINE y == start * per * u
               c == Counted(v, y)
    <3>2. c \in Nat /\ c < a
      <4>1. y \in Nat
        BY <2>1
      <4> HIDE DEF y
      <4>2. Counted(v, y) \in Nat
        BY <4>1, CountedBelow
      <4>3. QED
        BY <1>8, <3>1, <4>2 DEF y
    <3>3. c <= i
      <4> HIDE DEF c
      <4> QED
        BY <1>8, <1>10, <3>2
    <3>4. QED
      BY <2>1, <3>3
  <2>5. QED
    BY <1>6, <2>3, <2>4
<1>17. i < Reckoned(v, last * per * u)
  <2> DEFINE y == last * per * u
  <2>1. y \in Nat /\ Room <= y
    BY <1>1
  <2> HIDE DEF y
  <2>2. Reckoned(v, Room) = T
    <3>1. Room <= Room
      BY <1>2
    <3>2. QED
      BY <1>2, <3>1, ReckonedIs DEF T
  <2>3. Reckoned(v, Room) <= Reckoned(v, y) /\ Reckoned(v, y) \in Nat
    BY <1>2, <2>1, ReckonedGrows
  <2> DEFINE d == Reckoned(v, y)
  <2>4. T <= d /\ d \in Nat
    BY <2>2, <2>3
  <2> HIDE DEF d
  <2>5. i < d
    BY <1>4, <2>4
  <2>6. QED
    BY <2>5 DEF d, y
<1>18. next \in Nat /\ 1 + next <= last + 1 /\ (1 + next <= last => i < Reckoned(v, (1 + next) * per * u))
  <2>1. CASE h = w
    <3>1. next = last
      BY <1>13, <2>1
    <3>2. QED
      BY <1>1, <3>1
  <2>2. CASE h # w
    <3>1. h + 1 \in 0..w /\ next = seq[(h + 1) + 1] /\ h + 1 > 0
      BY <1>6, <1>9, <1>11, <1>13, <2>2
    <3>2. next \in Nat /\ next * per * u \in Nat /\ next * per * u <= Room
      BY <1>14, <3>1
    <3>3. SampleOk(v, u, per, hint, h + 1, next)
      BY <1>12, <3>1
    <3>4. (h + 1) * hint <= Counted(v, (next + 1) * per * u)
      BY <3>1, <3>3 DEF SampleOk
    <3> HIDE DEF next
    <3> DEFINE y == (1 + next) * per * u
               c == Counted(v, y)
               d == Reckoned(v, y)
    <3>5. y \in Nat /\ (next + 1) * per * u = y
      BY <1>1, <3>2
    <3>6. c <= d /\ c \in Nat /\ d \in Nat
      <4> HIDE DEF y
      <4> QED
        BY <3>5, CountedBelow
    <3>7. a + hint <= c
      BY <1>8, <3>4, <3>5
    <3>8. i < d
      <4> HIDE DEF c, d
      <4> QED
        BY <1>5, <1>8, <1>10, <3>6, <3>7
    <3>9. next <= last
      <4> SUFFICES ASSUME last + 1 <= next PROVE FALSE
        BY <1>1, <3>2
      <4> DEFINE z == last * per
                 q == next * per
      <4>1. (last + 1) * per <= q /\ z \in Nat /\ q \in Nat /\ (last + 1) * per = z + per
        BY <1>1, <3>2, TimesMono
      <4>2. Room <= z * u /\ q * u <= Room
        BY <1>1, <3>2
      <4> HIDE DEF z, q
      <4>3. z + 1 <= q
        BY <1>1, <4>1
      <4>4. (z + 1) * u <= q * u /\ (z + 1) * u = z * u + u /\ z * u \in Nat /\ q * u \in Nat
        BY <1>1, <4>1, <4>3, TimesMono
      <4>5. QED
        BY <1>1, <1>2, <4>2, <4>4
    <3>10. QED
      BY <1>1, <3>2, <3>8, <3>9
  <2>3. QED
    BY <2>1, <2>2
<1>19. QED
  BY <1>16, <1>17, <1>18 DEF samples, u, per, hint, h

\* Sub-block s of support r holds the i-th bit of value v.
Holds(r, v, i, s) ==
  /\ s \in Nat
  /\ before_sub_block(r, v, s) = Reckoned(v, s * r.sub)
  /\ Reckoned(v, s * r.sub) <= i /\ i < Reckoned(v, (s + 1) * r.sub)

\* The search finds that sub-block.
LEMMA SubblockFinds ==
  ASSUME ShapeInv, NEW r, NEW last, IsSupport(r, last), NEW v \in BOOLEAN, NEW i \in Nat,
         i < Counted(v, Room)
  PROVE  Holds(r, v, i, select_subblock(r, v, i))
<1> DEFINE u == r.sub
           per == r.per
           samples == r.select_samples[v]
           h == i \div r.hint
           start == samples[h + 1]
           end == 1 + samples[h + 2]
           B == {b \in start..end : b = end \/ before_block(r, v, b) > i}
           stop == Min(B)
           first == (stop - 1) * per
           over == {j \in 0..(per - 1) : before_sub_block(r, v, first + j) > i}
<1>1. u \in Nat \ {0} /\ per \in Nat \ {0} /\ last \in Nat
  BY DEF IsSupport
<1>2. /\ start \in Nat /\ end \in Nat /\ end <= last + 1
      /\ Reckoned(v, start * per * u) <= i
      /\ end <= last => i < Reckoned(v, end * per * u)
      /\ i < Reckoned(v, last * per * u)
  BY SamplesAround
<1>3. select_subblock(r, v, i) =
        IF stop = 0 THEN Panic
        ELSE IF over = {} THEN first + per - 1
        ELSE IF Min(over) = 0 THEN Panic
        ELSE first + Min(over) - 1
  BY DEF select_subblock
<1> DEFINE R(b) == Reckoned(v, b * per * u)
<1> HIDE DEF start, end, u, per
<1>4. ASSUME NEW b \in Nat PROVE b * per * u \in Nat /\ R(b) \in Nat
  <2> DEFINE y == b * per * u
  <2>1. y \in Nat
    BY <1>1
  <2> HIDE DEF y
  <2>2. Reckoned(v, y) \in Nat
    BY <2>1, CountedBelow
  <2>3. QED
    BY <2>1, <2>2 DEF y
<1>5. ASSUME NEW b \in Nat, NEW d \in Nat, R(b) <= i, i < R(d) PROVE b < d
  <2> DEFINE x == b * per
             y == d * per
  <2>1. x \in Nat /\ y \in Nat /\ x * u \in Nat /\ y * u \in Nat
    BY <1>1
  <2>2. x * u < y * u
    <3> DEFINE p == x * u
               q == y * u
    <3>1. p \in Nat /\ q \in Nat /\ Reckoned(v, p) <= i /\ i < Reckoned(v, q)
      BY <1>5, <2>1
    <3> HIDE DEF p, q
    <3>2. p < q
      BY <3>1, ReckonedLess
    <3>3. QED
      BY <3>2 DEF p, q
  <2> HIDE DEF x, y
  <2>3. x < y
    BY <1>1, <2>1, <2>2, TimesLess
  <2>4. b * per < d * per
    BY <2>3 DEF x, y
  <2>5. QED
    BY <1>1, <2>4, TimesLess
<1>6. \A b \in 0..last : before_block(r, v, b) = R(b)
  BY BlockRank DEF per, u
<1>7. start < last /\ start < end
  <2>1. start < last
    BY <1>1, <1>2, <1>5
  <2>2. CASE end <= last
    <3>1. R(start) <= i /\ i < R(end)
      BY <1>2, <2>2
    <3> HIDE DEF R
    <3>2. start < end
      BY <1>2, <1>5, <3>1
    <3>3. QED
      BY <2>1, <3>2
  <2>3. CASE end = last + 1
    BY <1>1, <1>2, <2>1, <2>3
  <2>4. QED
    BY <1>1, <1>2, <2>1, <2>2, <2>3
<1>8. B \in SUBSET Nat /\ end \in B
  BY <1>2, <1>7
<1>9. stop \in B /\ \A y \in B : stop <= y
  <2> HIDE DEF B
  <2> QED
    BY <1>8, MinNat
<1>10. stop \in Nat /\ start <= stop /\ stop <= end /\ (stop = end \/ before_block(r, v, stop) > i)
  BY <1>2, <1>9
<1> HIDE DEF stop
<1>11. stop <= last /\ i < R(stop)
  <2>1. CASE end <= last
    <3>1. stop \in 0..last
      BY <1>1, <1>10, <1>2, <2>1
    <3>2. QED
      BY <1>2, <1>6, <1>10, <2>1, <3>1
  <2>2. CASE end = last + 1
    <3>1. last \in start..end /\ last \in 0..last
      BY <1>1, <1>2, <1>7, <2>2
    <3>2. before_block(r, v, last) > i
      <4>1. before_block(r, v, last) = R(last) /\ R(last) \in Nat
        BY <1>1, <1>4, <1>6, <3>1
      <4>2. QED
        BY <1>2, <4>1
    <3>3. last \in B
      BY <3>1, <3>2
    <3>4. stop <= last
      BY <1>9, <3>3
    <3>5. stop # end /\ stop \in 0..last
      BY <1>1, <1>10, <2>2, <3>4
    <3>6. before_block(r, v, stop) = R(stop) /\ R(stop) \in Nat
      BY <1>4, <1>6, <1>10, <3>5
    <3>7. QED
      BY <1>10, <3>4, <3>5, <3>6
  <2>3. QED
    BY <1>1, <1>2, <2>1, <2>2
<1>12. start < stop
  <2> HIDE DEF R
  <2> QED
    BY <1>2, <1>5, <1>10, <1>11 DEF R
<1> DEFINE b == stop - 1
<1>13. b \in Nat /\ b + 1 = stop /\ stop # 0 /\ b \in 0..last /\ start <= b /\ b < end /\ b < stop
  BY <1>1, <1>2, <1>10, <1>11, <1>12
<1>14. R(b) <= i
  <2>1. CASE b = start
    BY <1>2, <2>1
  <2>2. b \notin B
    <3> HIDE DEF B, b
    <3> QED
      BY <1>9, <1>10, <1>13
  <2>3. b \in start..end /\ b # end
    BY <1>2, <1>13
  <2>4. ~(before_block(r, v, b) > i)
    BY <2>2, <2>3
  <2>5. before_block(r, v, b) = R(b) /\ R(b) \in Nat
    <3> HIDE DEF b
    <3> QED
      BY <1>4, <1>6, <1>13
  <2>6. QED
    <3> HIDE DEF b, R
    <3> QED
      BY <2>4, <2>5
<1> HIDE DEF B
<1>15. first \in Nat /\ first = b * per /\ stop * per = first + per
  <2>1. stop = b + 1
    BY <1>13
  <2> HIDE DEF b
  <2>2. first = b * per
    BY DEF first, b
  <2>3. QED
    BY <1>1, <1>13, <2>1, <2>2
<1>16. Reckoned(v, first * u) <= i /\ i < Reckoned(v, (first + per) * u)
  BY <1>11, <1>14, <1>15
<1> HIDE DEF R, first
<1>17. ASSUME NEW j \in 0..(per - 1)
       PROVE  /\ first + j \in Nat /\ (first + j) * u \in Nat
              /\ before_sub_block(r, v, first + j) = Reckoned(v, (first + j) * u)
              /\ Reckoned(v, (first + j) * u) \in Nat
  <2> DEFINE s == first + j
  <2>1. s \in Nat /\ s = per * b + j
    <3> HIDE DEF b
    <3>1. per * b = b * per /\ b * per \in Nat
      BY <1>1, <1>13
    <3>2. QED
      BY <1>1, <1>15, <3>1
  <2> HIDE DEF s
  <2>2. s \div per = b
    <3> HIDE DEF b
    <3>1. b \in Int
      BY <1>13
    <3>2. QED
      BY <1>1, <2>1, <3>1, DivUnique
  <2>3. s \div per <= last
    BY <1>1, <1>13, <2>2
  <2>4. before_sub_block(r, v, s) = Reckoned(v, s * u)
    <3>1. s \div r.per <= last
      BY <2>3 DEF per
    <3>2. \A f \in BOOLEAN : before_sub_block(r, f, s) = Reckoned(f, s * r.sub)
      BY <2>1, <3>1, SubBlockRank
    <3>3. QED
      BY <3>2 DEF u
  <2> DEFINE y == s * u
  <2>5. y \in Nat
    BY <1>1, <2>1
  <2> HIDE DEF y
  <2>6. Reckoned(v, y) \in Nat
    BY <2>5, CountedBelow
  <2>7. QED
    BY <2>1, <2>4, <2>5, <2>6 DEF y, s
<1>18. over \in SUBSET Nat /\ over \in SUBSET (0..(per - 1))
  BY <1>1
<1>19. ASSUME NEW j \in 0..(per - 1), j \notin over PROVE Reckoned(v, (first + j) * u) <= i
  <2>1. ~(before_sub_block(r, v, first + j) > i)
    BY <1>19
  <2>2. before_sub_block(r, v, first + j) = Reckoned(v, (first + j) * u)
        /\ Reckoned(v, (first + j) * u) \in Nat
    BY <1>17
  <2> DEFINE y == Reckoned(v, (first + j) * u)
  <2>3. ~(y > i) /\ y \in Nat
    BY <2>1, <2>2
  <2> HIDE DEF y
  <2>4. y <= i
    BY <2>3
  <2>5. QED
    BY <2>4 DEF y
<1>20. ASSUME NEW j \in over PROVE j \in 0..(per - 1) /\ i < Reckoned(v, (first + j) * u)
  <2>1. j \in 0..(per - 1) /\ before_sub_block(r, v, first + j) > i
    BY <1>20
  <2>2. before_sub_block(r, v, first + j) = Reckoned(v, (first + j) * u)
        /\ Reckoned(v, (first + j) * u) \in Nat
    BY <1>17, <2>1
  <2> DEFINE y == Reckoned(v, (first + j) * u)
  <2>3. y > i /\ y \in Nat
    BY <2>1, <2>2
  <2> HIDE DEF y
  <2>4. i < y
    BY <2>3
  <2>5. QED
    BY <2>1, <2>4 DEF y
<1> HIDE DEF over
<1>21. CASE over = {}
  <2> DEFINE j == per - 1
             s == first + j
  <2>1. j \in 0..(per - 1) /\ s \in Nat /\ s = first + per - 1 /\ s + 1 = first + per
    BY <1>1, <1>15
  <2>2. select_subblock(r, v, i) = s
    BY <1>3, <1>13, <1>21, <2>1
  <2>3. Reckoned(v, (first + j) * u) <= i
    <3> HIDE DEF j
    <3> QED
      BY <1>19, <1>21, <2>1
  <2>4. before_sub_block(r, v, first + j) = Reckoned(v, (first + j) * u)
    <3> HIDE DEF j
    <3> QED
      BY <1>17, <2>1
  <2>5. i < Reckoned(v, (s + 1) * u)
    BY <1>16, <2>1
  <2> HIDE DEF j
  <2>6. Holds(r, v, i, s)
    <3>1. s \in Nat /\ before_sub_block(r, v, s) = Reckoned(v, s * u) /\ Reckoned(v, s * u) <= i
      BY <2>1, <2>3, <2>4
    <3> HIDE DEF s
    <3>2. QED
      BY <2>5, <3>1 DEF Holds, u
  <2>7. QED
    BY <2>2, <2>6
<1>22. CASE over # {}
  <2> DEFINE k == Min(over)
             j == k - 1
             s == first + j
  <2>1. k \in over /\ \A y \in over : k <= y
    BY <1>18, <1>22, MinNat
  <2>2. k \in 0..(per - 1) /\ i < Reckoned(v, (first + k) * u)
    <3> HIDE DEF k
    <3> QED
      BY <1>20, <2>1
  <2>3. k # 0
    <3> SUFFICES ASSUME k = 0 PROVE FALSE
      OBVIOUS
    <3>1. i < Reckoned(v, first * u)
      <4> HIDE DEF k
      <4> QED
        BY <1>15, <2>2
    <3> DEFINE y == Reckoned(v, first * u)
    <3>2. y \in Nat /\ y <= i /\ i < y
      <4>1. 0 \in 0..(per - 1) /\ first + 0 = first
        BY <1>1, <1>15
      <4>2. Reckoned(v, (first + 0) * u) \in Nat
        BY <1>17, <4>1
      <4>3. QED
        BY <1>16, <3>1, <4>1, <4>2
    <3> HIDE DEF y
    <3>3. QED
      BY <3>2
  <2>4. select_subblock(r, v, i) = first + k - 1
    BY <1>3, <1>13, <1>22, <2>3
  <2> HIDE DEF k
  <2>5. /\ j \in 0..(per - 1) /\ s \in Nat /\ s = first + k - 1 /\ s + 1 = first + k /\ k \in Nat
        /\ ~(k <= j)
    BY <1>1, <1>15, <2>2, <2>3
  <2>6. j \notin over
    <3> HIDE DEF j
    <3> QED
      BY <2>1, <2>5
  <2>7. Reckoned(v, (first + j) * u) <= i /\ before_sub_block(r, v, first + j) = Reckoned(v, (first + j) * u)
    <3> HIDE DEF j
    <3> QED
      BY <1>17, <1>19, <2>5, <2>6
  <2>8. i < Reckoned(v, (s + 1) * u)
    BY <2>2, <2>5
  <2> HIDE DEF j
  <2>9. Holds(r, v, i, s)
    <3>1. s \in Nat /\ before_sub_block(r, v, s) = Reckoned(v, s * u) /\ Reckoned(v, s * u) <= i
      BY <2>5, <2>7
    <3> HIDE DEF s
    <3>2. QED
      BY <2>8, <3>1 DEF Holds, u
  <2>10. QED
    BY <2>4, <2>5, <2>9
<1>23. QED
  BY <1>21, <1>22

\* Inside that sub-block the search ends at the position.
LEMMA InsideFinds ==
  ASSUME ShapeInv, NEW r, NEW last, IsSupport(r, last), NEW v \in BOOLEAN, NEW i \in Nat,
         i < Cardinality(Positions(v)), NEW s, Holds(r, v, i, s)
  PROVE  select_inside(r.sub, s, v, i - before_sub_block(r, v, s)) = Position(v, i)
<1> DEFINE P == Position(v, i)
           u == r.sub
           x == s * u
           y == (s + 1) * u
           k == i - before_sub_block(r, v, s)
           there == Between(v, x, y)
           found == {p \in there : Cardinality({q \in there : q < p}) = k}
<1>1. n_bits \in Nat /\ n_bits <= Room /\ Room \in Nat /\ DOMAIN data = 0..(Room - 1)
  BY WordsOf DEF Room
<1>2. P \in Positions(v) /\ Cardinality(Before(Positions(v), P)) = i
  BY <1>1, PositionThere
<1>3. P \in 0..(n_bits - 1) /\ data[P] = v
  BY <1>2 DEF Positions
<1>4. select_inside(r.sub, s, v, k) = IF found = {} THEN Panic ELSE Min(found)
  BY DEF select_inside, Between
<1> HIDE DEF P
<1>5. P \in Nat /\ P < n_bits /\ P \in 0..n_bits /\ P + 1 \in Nat /\ P + 1 <= Room /\ P <= Room /\ P < Room
  BY <1>1, <1>3
<1>6. Counted(v, P) = i /\ Reckoned(v, P) = i
  <2>1. Counted(v, P) = i
    BY <1>2, <1>5, CountedPositions
  <2>2. QED
    BY <1>5, <2>1, ReckonedIs
<1>7. Reckoned(v, P + 1) = i + 1
  <2>1. Between(v, P, P + 1) = {P}
    <3>1. P..((P + 1) - 1) = {P} /\ P \in DOMAIN data
      BY <1>1, <1>5
    <3>2. QED
      BY <1>3, <3>1 DEF Between
  <2>2. Cardinality(Between(v, P, P + 1)) = 1
    BY <2>1, FS_Singleton
  <2>3. Counted(v, P + 1) = Counted(v, P) + Cardinality(Between(v, P, P + 1))
    <3>1. P <= P + 1
      BY <1>5
    <3>2. QED
      BY <1>5, <3>1, CountedSplit
  <2>4. Reckoned(v, P + 1) = Counted(v, P + 1)
    BY <1>5, ReckonedIs
  <2>5. QED
    BY <1>6, <2>2, <2>3, <2>4
<1>8. /\ s \in Nat /\ before_sub_block(r, v, s) = Reckoned(v, x)
      /\ Reckoned(v, x) <= i /\ i < Reckoned(v, y) /\ u \in Nat \ {0}
  BY DEF Holds, IsSupport
<1>9. x \in Nat /\ y \in Nat
  BY <1>8
<1> HIDE DEF x, y, u
<1>10. x <= P /\ P < y
  <2>1. x < P + 1
    <3>1. i < Reckoned(v, P + 1)
      BY <1>7
    <3>2. QED
      BY <1>5, <1>8, <1>9, <3>1, ReckonedLess
  <2>2. P < y
    <3>1. Reckoned(v, P) <= i
      BY <1>6
    <3>2. QED
      BY <1>5, <1>8, <1>9, <3>1, ReckonedLess
  <2>3. QED
    BY <1>5, <1>9, <2>1, <2>2
<1>11. there \in SUBSET Nat /\ P \in there
  <2>1. P \in x..(y - 1) /\ P \in DOMAIN data
    BY <1>1, <1>5, <1>9, <1>10
  <2>2. QED
    BY <1>3, <1>9, <2>1 DEF Between
<1>12. Before(there, P) = Between(v, x, P)
  <2>1. \A q : (q \in x..(y - 1) /\ q < P) <=> q \in x..(P - 1)
    BY <1>5, <1>9, <1>10
  <2>2. QED
    BY <2>1 DEF Before, Between
<1>13. Cardinality(Before(there, P)) = k
  <2>1. /\ Counted(v, P) = Counted(v, x) + Cardinality(Between(v, x, P))
        /\ Counted(v, x) \in Nat /\ Cardinality(Between(v, x, P)) \in Nat
    BY <1>5, <1>9, <1>10, CountedSplit, BetweenSize
  <2>2. x <= Room
    BY <1>1, <1>5, <1>9, <1>10
  <2>3. Reckoned(v, x) = Counted(v, x)
    BY <1>9, <2>2, ReckonedIs
  <2> DEFINE a == Counted(v, x)
             b == Cardinality(Between(v, x, P))
  <2>4. a \in Nat /\ b \in Nat /\ i = a + b /\ k = i - a /\ Cardinality(Before(there, P)) = b
    BY <1>6, <1>8, <1>12, <2>1, <2>3
  <2> HIDE DEF a, b, k, there
  <2>5. QED
    BY <2>4
<1> HIDE DEF there, k
<1>14. found = {P}
  <2>1. \A p \in there : {q \in there : q < p} = Before(there, p)
    BY DEF Before
  <2>2. P \in found
    BY <1>11, <1>13, <2>1
  <2>3. ASSUME NEW p \in found PROVE p = P
    <3>1. p \in there /\ Cardinality(Before(there, p)) = k
      BY <2>1
    <3>2. QED
      BY <1>11, <1>13, <3>1, RankDetermines
  <2>4. QED
    BY <2>2, <2>3
<1>15. Min(found) = P
  <2>1. found \in SUBSET Nat /\ found # {}
    BY <1>5, <1>14
  <2>2. Min(found) \in found
    <3> HIDE DEF found
    <3> QED
      BY <2>1, MinNat
  <2>3. QED
    BY <1>14, <2>2
<1>16. QED
  BY <1>4, <1>14, <1>15 DEF k, u, P

\* A support's limits are the numbers of ones and zeros.
LEMMA LimitsAre ==
  ASSUME GoodInv, NEW r, NEW last, IsSupport(r, last), NEW v \in BOOLEAN
  PROVE  /\ (IF v THEN r.ones ELSE r.zeros) = Cardinality(Positions(v))
         /\ Cardinality(Positions(v)) \in Nat
         /\ Cardinality(Positions(v)) <= Counted(v, Room)
<1>1. /\ ShapeInv /\ n_bits \in Nat /\ n_bits <= Room
      /\ Counted(TRUE, Room) = count_ones /\ Counted(TRUE, n_bits) = count_ones
  BY TotalOnes
<1>2. r.ones = Counted(TRUE, Room) /\ r.zeros = n_bits - Counted(TRUE, Room)
  BY DEF IsSupport
<1>3. Room \in Nat
  BY <1>1, LinesOf
<1>4. Counted(v, n_bits) = Cardinality(Positions(v))
  BY <1>1, CountedAll
<1>5. Counted(v, n_bits) \in Nat /\ Counted(v, n_bits) <= Counted(v, Room)
  BY <1>1, <1>3, CountedSplit
<1>6. Reckoned(v, n_bits) = Counted(v, n_bits)
  BY <1>1, ReckonedIs
<1>7. Reckoned(v, n_bits) = IF v THEN Counted(TRUE, n_bits) ELSE n_bits - Counted(TRUE, n_bits)
  BY DEF Reckoned
<1>8. (IF v THEN r.ones ELSE r.zeros) = Reckoned(v, n_bits)
  <2>1. r.ones = Counted(TRUE, n_bits) /\ r.zeros = n_bits - Counted(TRUE, n_bits)
    BY <1>1, <1>2
  <2>2. QED
    BY <1>7, <2>1
<1>9. QED
  BY <1>4, <1>5, <1>6, <1>8

\* select is exact.
LEMMA SupportSelects ==
  ASSUME GoodInv, NEW r, NEW last, IsSupport(r, last), NEW v \in BOOLEAN, NEW i \in Nat
  PROVE  select_bit(r, v, i) = IF i < Cardinality(Positions(v)) THEN Position(v, i) ELSE None
<1> DEFINE s == select_subblock(r, v, i)
           lim == IF v THEN r.ones ELSE r.zeros
           N == Cardinality(Positions(v))
<1>1. lim = N /\ N \in Nat /\ N <= Counted(v, Room)
  BY LimitsAre
<1>2. select_bit(r, v, i) = IF i >= lim THEN None ELSE IF s = Panic THEN Panic
        ELSE select_inside(r.sub, s, v, i - before_sub_block(r, v, s))
  BY DEF select_bit
<1>3. ShapeInv /\ Room \in Nat
  BY TotalOnes, LinesOf
<1>4. Counted(v, Room) \in Nat
  BY <1>3, CountedBelow
<1> HIDE DEF s, lim, N
<1>5. CASE i < N
  <2>1. i < Counted(v, Room) /\ ~(i >= lim)
    BY <1>1, <1>4, <1>5
  <2>2. Holds(r, v, i, s)
    BY <1>3, <2>1, SubblockFinds DEF s
  <2>3. s # Panic
    BY <2>2 DEF Holds, Panic
  <2>4. select_inside(r.sub, s, v, i - before_sub_block(r, v, s)) = Position(v, i)
    BY <1>3, <1>5, <2>2, InsideFinds DEF N
  <2>5. QED
    BY <1>2, <1>5, <2>1, <2>3, <2>4 DEF N
<1>6. CASE ~(i < N)
  <2>1. i >= lim
    BY <1>1, <1>6
  <2>2. QED
    BY <1>2, <1>6, <2>1 DEF N
<1>7. QED
  BY <1>5, <1>6

\* rank1 and rank0 are exact, and None outside.
LEMMA SupportRanks ==
  ASSUME GoodInv, NEW r, NEW last, IsSupport(r, last), NEW i \in Nat
  PROVE  LET ones == Cardinality({p \in Positions(TRUE) : p < i})
             out == n_bits = 0 \/ i > n_bits
         IN /\ rank1(r, i) = IF out THEN None ELSE ones
            /\ rank0(r, i) = IF out THEN None ELSE i - ones
<1> DEFINE ones == Cardinality({p \in Positions(TRUE) : p < i})
           out == n_bits = 0 \/ i > n_bits
<1>1. ShapeInv /\ n_bits \in Nat
  BY TotalOnes
<1>2. CASE out
  <2>1. rank1(r, i) = None
    BY <1>2 DEF rank1
  <2>2. rank0(r, i) = None
    BY <2>1 DEF rank0
  <2>3. QED
    BY <1>2, <2>1, <2>2
<1>3. CASE ~out
  <2>1. i \in 0..n_bits /\ ~(n_bits = 0 \/ i > n_bits)
    BY <1>1, <1>3
  <2>2. Counted(TRUE, i) = ones
    <3>1. Counted(TRUE, i) = Cardinality(Before(Positions(TRUE), i))
      BY <1>1, <2>1, CountedPositions, Zenon
    <3>2. QED
      BY <3>1 DEF Before
  <2>3. Counted(TRUE, i) \in Nat /\ Counted(TRUE, 0) = 0
    <3>1. i <= i
      OBVIOUS
    <3>2. QED
      BY <3>1, CountedSplit, Zenon
  <2>4. rank1(r, i) = Counted(TRUE, i)
    <3>1. CASE i = 0
      <4>1. rank1(r, i) = 0
        BY <2>1, <3>1 DEF rank1
      <4>2. QED
        BY <2>3, <3>1, <4>1
    <3>2. CASE i # 0
      <4>1. i \in 1..n_bits
        BY <1>1, <2>1, <3>2
      <4>2. QED
        BY <4>1, RankFinds
    <3>3. QED
      BY <3>1, <3>2
  <2>5. rank1(r, i) = ones /\ rank1(r, i) # None
    <3> HIDE DEF ones
    <3>1. ones \in Nat /\ rank1(r, i) = ones
      BY <2>2, <2>3, <2>4, Zenon
    <3>2. QED
      BY <3>1 DEF None
  <2>6. rank0(r, i) = i - ones
    <3> HIDE DEF ones
    <3>1. rank0(r, i) = i - rank1(r, i)
      BY <2>5 DEF rank0
    <3>2. QED
      BY <2>5, <3>1
  <2>7. QED
    BY <1>3, <2>5, <2>6
<1>4. QED
  BY <1>2, <1>3

------------------------------------------------------------------------------
(* get_bits: the number the k bits from place a say.                       *)

Value(a, k) == MapThenSumSet(LAMBDA x : IF data[a + x] THEN 2 ^ x ELSE 0, 0..(k - 1))

\* Another bit adds its power.
LEMMA ValueStep ==
  ASSUME NEW a, NEW m \in Nat
  PROVE  /\ Value(a, 0) = 0
         /\ Value(a, m) \in Nat
         /\ Value(a, m + 1) = Value(a, m) + (IF data[a + m] THEN 2 ^ m ELSE 0)
<1> DEFINE val(x) == IF data[a + x] THEN 2 ^ x ELSE 0
           g == [x \in 0..m |-> val(x)]
<1>1. \A x \in 0..m : val(x) \in Nat
  <2> SUFFICES ASSUME NEW x \in 0..m PROVE val(x) \in Nat
    OBVIOUS
  <2>1. x \in Nat
    OBVIOUS
  <2>2. 2 ^ x \in Nat
    BY <2>1, Levels!PowerStep
  <2>3. QED
    BY <2>2
<1>2. m + 1 \in Nat /\ (m + 1) - 1 = m
  OBVIOUS
<1> HIDE DEF val
<1>3. PICK F : Levels!Additive(F, g, m + 1)
  <2>1. \A x \in 0..((m + 1) - 1) : g[x] \in Nat
    BY <1>1, <1>2
  <2> HIDE DEF g
  <2>2. QED
    BY <1>2, <2>1, Levels!SumsExist
<1>4. /\ F \in [SUBSET (0..m) -> Nat] /\ F[{}] = 0
      /\ \A s \in SUBSET (0..m) : \A x \in s : F[s] = g[x] + F[s \ {x}]
  <2> HIDE DEF g
  <2> QED
    BY <1>2, <1>3 DEF Levels!Additive
<1>5. ASSUME NEW k \in 0..(m + 1) PROVE Value(a, k) = F[0..(k - 1)]
  <2> DEFINE S == 0..(k - 1)
             step(f, s) == IF s = {} THEN 0
                           ELSE val(CHOOSE x \in s : TRUE) + f[s \ {CHOOSE x \in s : TRUE}]
             G(f) == [s \in SUBSET S |-> step(f, s)]
             iter == CHOOSE f : f = G(f)
             H == [s \in SUBSET S |-> F[s]]
  <2>1. Value(a, k) = iter[S]
    BY DEF Value, MapThenSumSet, MapThenFoldSet, val
  <2>2. S \in SUBSET (0..m) /\ \A x \in S : val(x) = g[x]
    BY <1>2
  <2> HIDE DEF S, g
  <2>3. \A s \in SUBSET S : \A x \in s : F[s] = val(x) + F[s \ {x}]
    BY <1>4, <2>2
  <2>4. H = G(H)
    <3>1. ASSUME NEW s \in SUBSET S PROVE F[s] = step(H, s)
      <4>1. CASE s = {}
        BY <4>1, <1>4
      <4>2. CASE s # {}
        <5> DEFINE x == CHOOSE x \in s : TRUE
        <5>1. x \in s
          BY <4>2
        <5>2. H[s \ {x}] = F[s \ {x}]
          OBVIOUS
        <5>3. step(H, s) = val(x) + H[s \ {x}]
          BY <4>2
        <5> HIDE DEF x, H, step
        <5>4. QED
          BY <2>3, <5>1, <5>2, <5>3
      <4>3. QED
        BY <4>1, <4>2
    <3> HIDE DEF step
    <3>2. QED
      BY <3>1
  <2>5. iter = G(iter)
    <3> HIDE DEF H, G
    <3> QED
      BY <2>4
  <2>6. \A s \in SUBSET S : iter[s] = step(iter, s)
    <3> HIDE DEF iter, step
    <3> QED
      BY <2>5
  <2> HIDE DEF iter, H, G
  <2>7. \A s \in SUBSET S : IsFiniteSet(s) /\ Cardinality(s) \in Nat
    <3>1. IsFiniteSet(S)
      BY FS_Interval DEF S
    <3>2. QED
      BY <3>1, FS_Subset, FS_CardinalityType
  <2> DEFINE Bad == {c \in Nat : \E s \in SUBSET S : Cardinality(s) = c /\ iter[s] # F[s]}
  <2>8. Bad = {}
    <3> SUFFICES ASSUME Bad # {} PROVE FALSE
      OBVIOUS
    <3>1. PICK c \in Bad : \A e \in Bad : c <= e
      <4>1. Bad \in SUBSET Nat
        OBVIOUS
      <4> HIDE DEF Bad
      <4>2. QED
        BY <4>1, MinNat
    <3>2. PICK s \in SUBSET S : Cardinality(s) = c /\ iter[s] # F[s]
      BY <3>1
    <3> DEFINE x == CHOOSE x \in s : TRUE
    <3>3. s # {}
      BY <3>2, <1>4, <2>6
    <3>4. x \in s
      BY <3>3
    <3>5. iter[s] = val(x) + iter[s \ {x}]
      BY <3>3, <2>6
    <3> HIDE DEF x
    <3>6. Cardinality(s \ {x}) = Cardinality(s) - 1
      BY <3>4, <2>7, FS_RemoveElement
    <3>7. iter[s \ {x}] = F[s \ {x}]
      <4>1. s \ {x} \in SUBSET S /\ Cardinality(s \ {x}) \in Nat /\ Cardinality(s \ {x}) < c
        BY <3>2, <3>6, <2>7
      <4>2. Cardinality(s \ {x}) \notin Bad
        <5>1. c \in Nat
          BY <3>1
        <5> HIDE DEF Bad
        <5>2. QED
          BY <3>1, <4>1, <5>1
      <4>3. QED
        BY <4>1, <4>2
    <3>8. QED
      BY <2>3, <3>2, <3>4, <3>5, <3>7
  <2>9. Cardinality(S) \notin Bad /\ Cardinality(S) \in Nat /\ S \in SUBSET S
    BY <2>7, <2>8
  <2>10. iter[S] = F[S]
    BY <2>9
  <2>11. QED
    BY <2>1, <2>10 DEF S
<1>6. Value(a, 0) = F[0..(0 - 1)] /\ Value(a, m) = F[0..(m - 1)] /\ Value(a, m + 1) = F[0..((m + 1) - 1)]
  <2>1. 0 \in 0..(m + 1) /\ m \in 0..(m + 1) /\ m + 1 \in 0..(m + 1)
    OBVIOUS
  <2>2. QED
    BY <1>5, <2>1
<1>7. 0..(0 - 1) = {} /\ 0..(m - 1) \in SUBSET (0..m) /\ m \in 0..m /\ (0..m) \ {m} = 0..(m - 1)
  OBVIOUS
<1>8. F[0..m] = g[m] + F[0..(m - 1)] /\ g[m] = val(m)
  <2>1. g[m] = val(m)
    BY <1>7
  <2> HIDE DEF g
  <2>2. QED
    BY <1>4, <1>7, <2>1
<1>9. F[0..(m - 1)] \in Nat /\ val(m) \in Nat
  BY <1>1, <1>4, <1>7
<1>10. Value(a, m) = F[0..(m - 1)] /\ Value(a, m + 1) = val(m) + F[0..(m - 1)] /\ Value(a, 0) = 0
  BY <1>2, <1>4, <1>6, <1>7, <1>8
<1> DEFINE t == F[0..(m - 1)]
           w == val(m)
<1>11. t \in Nat /\ w \in Nat /\ Value(a, m) = t /\ Value(a, m + 1) = w + t
  BY <1>9, <1>10
<1> HIDE DEF t, w
<1>12. Value(a, m) \in Nat /\ Value(a, m + 1) = Value(a, m) + w
  BY <1>11
<1>13. QED
  BY <1>10, <1>12 DEF w, val

\* Powers of two multiply by adding.
LEMMA PowerSum ==
  ASSUME NEW a \in Nat, NEW b \in Nat
  PROVE  2 ^ a \in Nat \ {0} /\ 2 ^ b \in Nat \ {0} /\ 2 ^ (a + b) = 2 ^ a * 2 ^ b
<1> DEFINE Bad == {k \in Nat : 2 ^ (a + k) # 2 ^ a * 2 ^ k}
<1>1. \A k \in Nat : 2 ^ k \in Nat \ {0} /\ 2 ^ (k + 1) = 2 * 2 ^ k
  BY Levels!PowerStep
<1>2. Bad = {}
  <2> SUFFICES ASSUME Bad # {} PROVE FALSE
    OBVIOUS
  <2>1. PICK k \in Bad : \A j \in Bad : k <= j
    <3>1. Bad \in SUBSET Nat
      OBVIOUS
    <3> HIDE DEF Bad
    <3>2. QED
      BY <3>1, MinNat
  <2>2. 2 ^ 0 = 1 /\ a + 0 = a
    OBVIOUS
  <2>3. k # 0
    <3> SUFFICES ASSUME k = 0 PROVE FALSE
      OBVIOUS
    <3> DEFINE p == 2 ^ a
    <3>1. p \in Nat
      BY <1>1
    <3>2. 2 ^ (a + k) = p /\ 2 ^ k = 1
      BY <2>2
    <3> HIDE DEF p
    <3>3. p * 1 = p
      BY <3>1
    <3>4. QED
      BY <2>1, <3>2, <3>3 DEF p
  <2>4. k - 1 \in Nat /\ (k - 1) + 1 = k /\ a + k = (a + (k - 1)) + 1 /\ a + (k - 1) \in Nat
    BY <2>3
  <2>5. 2 ^ (a + (k - 1)) = 2 ^ a * 2 ^ (k - 1)
    <3>1. ~(k <= k - 1)
      BY <2>4
    <3>2. k - 1 \notin Bad
      BY <2>1, <3>1
    <3>3. QED
      BY <2>4, <3>2
  <2>6. 2 ^ (a + k) = 2 * 2 ^ (a + (k - 1)) /\ 2 ^ k = 2 * 2 ^ (k - 1) /\ 2 ^ a \in Nat /\ 2 ^ (k - 1) \in Nat
    BY <1>1, <2>4
  <2> DEFINE p == 2 ^ a
             q == 2 ^ (k - 1)
             e == 2 ^ (a + (k - 1))
  <2>7. p \in Nat /\ q \in Nat /\ e = p * q /\ 2 ^ (a + k) = 2 * e /\ 2 ^ k = 2 * q
    BY <2>5, <2>6
  <2>8. 2 ^ (a + k) # p * 2 ^ k
    BY <2>1
  <2> HIDE DEF p, q, e
  <2>9. 2 * (p * q) = p * (2 * q)
    BY <2>7
  <2>10. QED
    BY <2>7, <2>8, <2>9
<1>3. QED
  BY <1>1, <1>2

\* k bits are less than two to the k.
LEMMA ValueBound ==
  ASSUME NEW a, NEW k \in Nat
  PROVE  Value(a, k) \in Nat /\ Value(a, k) < 2 ^ k
<1> DEFINE Bad == {j \in Nat : ~(Value(a, j) < 2 ^ j)}
<1>1. \A j \in Nat : 2 ^ j \in Nat \ {0} /\ 2 ^ (j + 1) = 2 * 2 ^ j
  BY Levels!PowerStep
<1>2. Bad = {}
  <2> SUFFICES ASSUME Bad # {} PROVE FALSE
    OBVIOUS
  <2>1. PICK j \in Bad : \A e \in Bad : j <= e
    <3>1. Bad \in SUBSET Nat
      OBVIOUS
    <3> HIDE DEF Bad
    <3>2. QED
      BY <3>1, MinNat
  <2>2. j # 0
    <3> SUFFICES ASSUME j = 0 PROVE FALSE
      OBVIOUS
    <3>1. Value(a, 0) = 0
      BY ValueStep
    <3>2. 0 < 2 ^ 0
      OBVIOUS
    <3>3. QED
      BY <2>1, <3>1, <3>2
  <2>3. j - 1 \in Nat /\ (j - 1) + 1 = j /\ ~(j <= j - 1)
    BY <2>2
  <2>4. Value(a, j - 1) < 2 ^ (j - 1)
    <3>1. j - 1 \notin Bad
      BY <2>1, <2>3
    <3>2. QED
      BY <2>3, <3>1
  <2>5. /\ Value(a, j - 1) \in Nat
        /\ Value(a, (j - 1) + 1) = Value(a, j - 1) + (IF data[a + (j - 1)] THEN 2 ^ (j - 1) ELSE 0)
    BY <2>3, ValueStep
  <2> DEFINE p == 2 ^ (j - 1)
             x == Value(a, j - 1)
  <2>6. p \in Nat /\ x \in Nat /\ x < p /\ 2 ^ j = 2 * p
    BY <1>1, <2>3, <2>4, <2>5
  <2>7. Value(a, j) = x + p \/ Value(a, j) = x + 0
    BY <2>3, <2>5
  <2>8. ~(Value(a, j) < 2 ^ j)
    BY <2>1
  <2> HIDE DEF p, x
  <2>9. QED
    BY <2>6, <2>7, <2>8
<1>3. QED
  BY <1>2, ValueStep

\* Bits in two pieces.
LEMMA ValueSplit ==
  ASSUME NEW a \in Nat, NEW m \in Nat, NEW k \in Nat
  PROVE  Value(a, m + k) = Value(a, m) + 2 ^ m * Value(a + m, k)
<1> DEFINE Bad == {j \in Nat : Value(a, m + j) # Value(a, m) + 2 ^ m * Value(a + m, j)}
<1>1. \A j \in Nat : 2 ^ j \in Nat \ {0} /\ 2 ^ (m + j) = 2 ^ m * 2 ^ j
  BY PowerSum
<1>0. Value(a, m) \in Nat
  BY ValueStep
<1>2. Bad = {}
  <2> SUFFICES ASSUME Bad # {} PROVE FALSE
    OBVIOUS
  <2>1. PICK j \in Bad : \A e \in Bad : j <= e
    <3>1. Bad \in SUBSET Nat
      OBVIOUS
    <3> HIDE DEF Bad
    <3>2. QED
      BY <3>1, MinNat
  <2> DEFINE p == 2 ^ m
             v == Value(a, m)
  <2>0. p \in Nat /\ v \in Nat /\ Value(a, m + j) # v + p * Value(a + m, j)
    BY <1>0, <1>1, <2>1
  <2>2. j # 0
    <3> SUFFICES ASSUME j = 0 PROVE FALSE
      OBVIOUS
    <3>1. Value(a + m, 0) = 0
      BY ValueStep
    <3>2. m + j = m
      OBVIOUS
    <3> HIDE DEF p
    <3>3. v + p * 0 = v
      BY <2>0
    <3>4. QED
      BY <2>0, <3>1, <3>2, <3>3
  <2>3. j - 1 \in Nat /\ (j - 1) + 1 = j /\ ~(j <= j - 1) /\ m + j = (m + (j - 1)) + 1 /\ m + (j - 1) \in Nat
    BY <2>2
  <2>4. Value(a, m + (j - 1)) = v + p * Value(a + m, j - 1)
    <3>1. j - 1 \notin Bad
      BY <2>1, <2>3
    <3>2. QED
      BY <2>3, <3>1
  <2>5. Value(a, (m + (j - 1)) + 1) =
          Value(a, m + (j - 1)) + (IF data[a + (m + (j - 1))] THEN 2 ^ (m + (j - 1)) ELSE 0)
    BY <2>3, ValueStep
  <2>6. /\ Value(a + m, j - 1) \in Nat
        /\ Value(a + m, (j - 1) + 1) =
             Value(a + m, j - 1) + (IF data[(a + m) + (j - 1)] THEN 2 ^ (j - 1) ELSE 0)
    BY <2>3, ValueStep
  <2>7. a + (m + (j - 1)) = (a + m) + (j - 1)
    BY <2>3
  <2> DEFINE d == data[(a + m) + (j - 1)]
             q == 2 ^ (j - 1)
             e == 2 ^ (m + (j - 1))
             x == Value(a + m, j - 1)
             y == Value(a + m, j)
             z == Value(a, m + j)
  <2>8. q \in Nat /\ e = p * q /\ x \in Nat
    BY <1>1, <2>3, <2>6
  <2>9. z = (v + p * x) + (IF d THEN e ELSE 0)
    BY <2>3, <2>4, <2>5, <2>7
  <2>10. y = x + (IF d THEN q ELSE 0)
    BY <2>3, <2>6
  <2>11. z # v + p * y
    BY <2>0
  <2> HIDE DEF p, v, d, q, e, x, y, z
  <2>12. CASE d
    <3>1. z = (v + p * x) + p * q /\ y = x + q
      BY <2>8, <2>9, <2>10, <2>12
    <3>2. p * (x + q) = p * x + p * q
      BY <2>0, <2>8
    <3> DEFINE s == p * x
               t == p * q
    <3>3. s \in Nat /\ t \in Nat
      BY <2>0, <2>8
    <3>4. z = (v + s) + t /\ p * y = s + t
      BY <3>1, <3>2
    <3> HIDE DEF s, t
    <3>5. QED
      BY <2>0, <2>11, <3>3, <3>4
  <2>13. CASE ~d
    <3>1. z = (v + p * x) + 0 /\ y = x + 0
      BY <2>9, <2>10, <2>13
    <3>2. z = v + p * x /\ y = x
      <4> DEFINE s == p * x
      <4>1. s \in Nat /\ z = (v + s) + 0
        BY <2>0, <2>8, <3>1
      <4> HIDE DEF s
      <4>2. z = v + s
        BY <2>0, <4>1
      <4>3. QED
        BY <2>8, <3>1, <4>2 DEF s
    <3>3. QED
      BY <2>11, <3>2
  <2>14. QED
    BY <2>12, <2>13
<1>3. QED
  BY <1>2

\* Shifting and masking bits.
LEMMA ValueCut ==
  ASSUME NEW a \in Nat, NEW m \in Nat, NEW k \in Nat
  PROVE  Value(a, m + k) \div 2 ^ m = Value(a + m, k) /\ Value(a, m + k) % 2 ^ m = Value(a, m)
<1> DEFINE p == 2 ^ m
           x == Value(a, m)
           y == Value(a + m, k)
           z == Value(a, m + k)
<1>1. p \in Nat \ {0}
  BY PowerSum
<1>2. x \in Nat /\ x < p /\ y \in Nat
  BY ValueBound
<1>3. z = x + p * y
  BY ValueSplit
<1>4. z \in Nat
  BY ValueBound
<1> HIDE DEF p, x, y, z
<1>5. p * y \in Nat /\ x \in 0..(p - 1)
  BY <1>1, <1>2
<1>6. z = p * y + x /\ y \in Int
  BY <1>2, <1>3, <1>5
<1>7. z \div p = y /\ z % p = x
  BY <1>1, <1>4, <1>5, <1>6, DivUnique
<1>8. QED
  BY <1>7 DEF p, x, y, z

\* Shifting left in front of m more places, and masking to them all.
LEMMA ValueShift ==
  ASSUME NEW a \in Nat, NEW c \in Nat, NEW m \in Nat, NEW k \in Nat
  PROVE  (2 ^ c * Value(a, m + k)) % 2 ^ (c + m) = 2 ^ c * Value(a, m)
<1> DEFINE p == 2 ^ c
           q == 2 ^ m
           x == Value(a, m)
           y == Value(a + m, k)
           z == Value(a, m + k)
<1>1. p \in Nat \ {0} /\ q \in Nat \ {0} /\ 2 ^ (c + m) = p * q
  BY PowerSum
<1>2. x \in Nat /\ x < q /\ y \in Nat
  BY ValueBound
<1>3. z = x + q * y
  BY ValueSplit
<1> HIDE DEF p, q, x, y, z
<1> DEFINE s == p * x
           t == p * q
           w == q * y
<1>4. s \in Nat /\ t \in Nat \ {0} /\ w \in Nat /\ p * w = t * y /\ t * y \in Nat
  BY <1>1, <1>2
<1>5. s < t
  <2>1. (x + 1) * p <= q * p /\ (x + 1) * p = p * x + p /\ q * p = p * q
    <3>1. x + 1 \in Nat /\ x + 1 <= q /\ q \in Nat /\ p \in Nat
      BY <1>1, <1>2
    <3>2. (x + 1) * p <= q * p
      BY <3>1, TimesMono
    <3>3. QED
      BY <1>1, <1>2, <3>2
  <2>2. s + p <= t
    BY <2>1
  <2> HIDE DEF s, t
  <2>3. QED
    BY <1>1, <1>4, <2>2
<1>6. p * z = s + p * w
  <2>1. z = x + w /\ w \in Nat
    BY <1>3, <1>4
  <2> HIDE DEF w
  <2>2. p * (x + w) = p * x + p * w
    BY <1>1, <1>2, <2>1
  <2>3. QED
    BY <2>1, <2>2
<1>7. p * z = t * y + s /\ p * z \in Nat /\ s \in 0..(t - 1)
  <2> DEFINE d == t * y
             f == p * z
  <2>1. d \in Nat /\ f = s + d
    BY <1>4, <1>6
  <2> HIDE DEF d, f, s, t
  <2>2. f = d + s /\ f \in Nat /\ s \in 0..(t - 1)
    BY <1>4, <1>5, <2>1
  <2>3. QED
    BY <2>2 DEF d, f
<1>8. (p * z) % t = s
  <2> DEFINE f == p * z
  <2>1. f = t * y + s /\ f \in Nat /\ s \in 0..(t - 1) /\ t \in Nat \ {0} /\ y \in Int
    BY <1>2, <1>4, <1>7
  <2> HIDE DEF f, s, t
  <2>2. f % t = s
    BY <2>1, DivUnique
  <2>3. QED
    BY <2>2 DEF f
<1>9. QED
  BY <1>1, <1>8 DEF p, x, z

\* get_bits reads the bits it is asked for, from one word or from two.
LEMMA GetBitsIs ==
  ASSUME n_bits \in Nat, NEW i \in Nat, NEW k \in 1..WORD_BITS
  PROVE  get_bits(i, k) = IF i + k > n_bits THEN None ELSE Value(i, k)
<1> DEFINE W == WORD_BITS
           block == i \div W
           shift == i % W
           low == word_value(block) \div 2 ^ shift
           high == (word_value(block + 1) * 2 ^ (W - shift)) % 2 ^ W
           c == W - shift
<1>1. W \in Nat \ {0} /\ k \in Nat /\ k # 0 /\ k <= W
  BY BitVectorAssumption
<1>2. block \in Nat /\ shift \in 0..(W - 1) /\ i = W * block + shift
  BY <1>1, DivMod
<1>3. get_bits(i, k) =
        IF k = 0 \/ k > W \/ i + k > n_bits THEN None
        ELSE IF shift + k <= W THEN low % 2 ^ k ELSE low + (high % 2 ^ k)
  BY DEF get_bits
<1>4. ASSUME NEW w PROVE word_value(w) = Value(w * W, W)
  BY DEF word_value, Value
<1>5. CASE i + k > n_bits
  BY <1>3, <1>5
<1>6. CASE ~(i + k > n_bits)
  <2>0. /\ ~(k = 0 \/ k > W \/ i + k > n_bits)
        /\ get_bits(i, k) = IF shift + k <= W THEN low % 2 ^ k ELSE low + (high % 2 ^ k)
    BY <1>1, <1>3, <1>6
  <2> HIDE DEF W, block, shift
  <2> DEFINE x == block * W
             y == (block + 1) * W
  <2>1. x \in Nat /\ y \in Nat /\ y = x + W /\ x = W * block
    BY <1>1, <1>2
  <2>2. word_value(block) = Value(x, W) /\ word_value(block + 1) = Value(y, W)
    BY <1>4
  <2> HIDE DEF x, y
  <2>3. c \in Nat /\ shift \in Nat /\ shift + c = W /\ x + shift = i /\ y = i + c /\ c + shift = W
    BY <1>1, <1>2, <2>1
  <2>4. low = Value(i, c)
    <3>1. Value(x, shift + c) \div 2 ^ shift = Value(x + shift, c)
      BY <2>1, <2>3, ValueCut
    <3>2. QED
      BY <2>2, <2>3, <3>1
  <2>5. CASE shift + k <= W
    <3> DEFINE m == c - k
    <3>1. m \in Nat /\ k + m = c
      BY <1>1, <2>3, <2>5
    <3> HIDE DEF m
    <3>2. Value(i, k + m) % 2 ^ k = Value(i, k)
      BY <1>1, <3>1, ValueCut
    <3>3. low % 2 ^ k = Value(i, k)
      BY <2>4, <3>1, <3>2
    <3>4. QED
      BY <1>6, <2>0, <2>5, <3>3
  <2>6. CASE ~(shift + k <= W)
    <3> DEFINE j == k - c
               m == shift - j
    <3>1. j \in Nat /\ m \in Nat /\ j + m = shift /\ c + j = k
      BY <1>1, <2>3, <2>6
    <3> HIDE DEF c, j, m, low, high
    <3>2. (2 ^ c * Value(y, shift + c)) % 2 ^ (c + shift) = 2 ^ c * Value(y, shift)
      BY <2>1, <2>3, ValueShift
    <3>3. high = 2 ^ c * Value(y, shift)
      <4>1. Value(y, W) \in Nat /\ 2 ^ c \in Nat
        BY <1>1, <2>3, ValueBound, PowerSum
      <4>2. Value(y, W) * 2 ^ c = 2 ^ c * Value(y, W)
        <5> DEFINE s == Value(y, W)
                   t == 2 ^ c
        <5> HIDE DEF s, t
        <5>1. s \in Nat /\ t \in Nat
          BY <4>1 DEF s, t
        <5>2. s * t = t * s
          BY <5>1
        <5>3. QED
          BY <5>2 DEF s, t
      <4>3. high = (Value(y, W) * 2 ^ c) % 2 ^ W
        BY <2>2 DEF high, c
      <4>4. QED
        BY <2>3, <3>2, <4>2, <4>3
    <3>4. (2 ^ c * Value(y, j + m)) % 2 ^ (c + j) = 2 ^ c * Value(y, j)
      <4>1. y \in Nat /\ c \in Nat /\ j \in Nat /\ m \in Nat
        BY <2>1, <2>3, <3>1
      <4>2. QED
        BY <4>1, ValueShift
    <3>5. high % 2 ^ k = 2 ^ c * Value(i + c, j)
      <4>1. high = 2 ^ c * Value(i + c, shift)
        BY <2>3, <3>3, Zenon
      <4>2. (2 ^ c * Value(i + c, shift)) % 2 ^ k = 2 ^ c * Value(i + c, j)
        BY <2>3, <3>1, <3>4, Zenon
      <4>3. QED
        BY <4>1, <4>2, Zenon
    <3>6. Value(i, c + j) = Value(i, c) + 2 ^ c * Value(i + c, j)
      BY <2>3, <3>1, ValueSplit
    <3>7. low + (high % 2 ^ k) = Value(i, k)
      BY <2>4, <3>1, <3>5, <3>6
    <3>8. QED
      BY <1>6, <2>0, <2>6, <3>7
  <2>7. QED
    BY <2>5, <2>6
<1>7. QED
  BY <1>5, <1>6

\* So of a good vector every query is.
LEMMA QueriesHold ==
  ASSUME GoodInv
  PROVE  QueriesExact
<1>1. n_bits \in Nat
  BY TotalOnes
<1>2. \E last : IsSupport(narrow_new, last)
  BY NarrowSupports
<1>3. \E last : IsSupport(wide_new, last)
  BY WideSupports
<1>4. ASSUME NEW r \in {narrow_new, wide_new}, NEW i \in 0..(n_bits + 1)
      PROVE  LET ones == Cardinality({p \in Positions(TRUE) : p < i})
                 out == n_bits = 0 \/ i > n_bits
             IN /\ rank1(r, i) = IF out THEN None ELSE ones
                /\ rank0(r, i) = IF out THEN None ELSE i - ones
  <2>1. PICK last : IsSupport(r, last)
    BY <1>2, <1>3
  <2>2. i \in Nat
    BY <1>1
  <2>3. QED
    BY <2>1, <2>2, SupportRanks
<1>5. ASSUME NEW r \in {narrow_new, wide_new}, NEW v \in BOOLEAN, NEW i \in 0..n_bits
      PROVE  select_bit(r, v, i) = IF i < Cardinality(Positions(v)) THEN Position(v, i) ELSE None
  <2>1. PICK last : IsSupport(r, last)
    BY <1>2, <1>3
  <2>2. i \in Nat
    BY <1>1
  <2>3. QED
    BY <2>1, <2>2, SupportSelects
<1>6. ASSUME NEW i \in 0..n_bits, NEW k \in 1..WORD_BITS
      PROVE  get_bits(i, k) = IF i + k > n_bits THEN None
               ELSE MapThenSumSet(LAMBDA x : IF data[i + x] THEN 2 ^ x ELSE 0, 0..(k - 1))
  <2>1. i \in Nat
    BY <1>1
  <2>2. get_bits(i, k) = IF i + k > n_bits THEN None ELSE Value(i, k)
    BY <1>1, <2>1, GetBitsIs
  <2>3. QED
    BY <2>2 DEF Value
<1>7. QED
  BY <1>4, <1>5, <1>6 DEF QueriesExact

\* rank1, rank0, select1, select0 and get_bits of RSNarrow and RSWide over a
\* frozen vector answer what its bits say, for vectors of any length and for
\* words, lines, superblocks and hints of any size, after every history of
\* writes in which set_bits overwrites no one.
THEOREM BitQueriesAreExact ==
  ASSUME Overwriting = FALSE
  PROVE  Spec => []QueriesExact
<1>1. Spec => []GoodInv
  BY GoodInvHolds
<1>2. GoodInv => QueriesExact
  BY QueriesHold
<1>3. QED
  BY <1>1, <1>2, PTL

==============================================================================
