----------------------- MODULE HuffQWaveletTreeProofs -----------------------
(***************************************************************************)
(* Proofs about HuffQWaveletTree, for any sequence and any width of codes: *)
(* limit_code_lengths keeps the shorter codes for the commoner symbols and *)
(* its count of occupied slots right; the codes that craft_wm_codes gives  *)
(* are within the limit and none begins another.                           *)
(***************************************************************************)
EXTENDS HuffQWaveletTree, QuadLevelProofs, SequenceTheorems

------------------------------------------------------------------------------
(* Ordered enumerates a finite set in the order it is given.               *)

\* R is a strict total order on S.
StrictOrder(R, S) ==
  /\ \A x \in S : <<x, x>> \notin R
  /\ \A x, y, z \in S : <<x, y>> \in R /\ <<y, z>> \in R => <<x, z>> \in R
  /\ \A x, y \in S : x = y \/ <<x, y>> \in R \/ <<y, x>> \in R

\* The elements of S that come before x.
Preceding(R, S, x) == {y \in S : <<y, x>> \in R}

\* o takes each number to the element that many places along.
Enumerates(o, R, S) ==
  /\ DOMAIN o = 1..Cardinality(S)
  /\ \A i \in 1..Cardinality(S) :
       (\E x \in S : Cardinality(Preceding(R, S, x)) = i - 1)
         => o[i] \in S /\ Cardinality(Preceding(R, S, o[i])) = i - 1

\* Every element has its own place, so every place has its element.
LEMMA Enumerated ==
  ASSUME NEW S, IsFiniteSet(S), NEW R, StrictOrder(R, S), NEW o, Enumerates(o, R, S)
  PROVE  /\ \A i \in 1..Cardinality(S) : o[i] \in S
         /\ \A x \in S : \E i \in 1..Cardinality(S) : o[i] = x
         /\ \A i, k \in 1..Cardinality(S) : i < k => <<o[i], o[k]>> \in R
<1> DEFINE n == Cardinality(S)
           P(x) == Preceding(R, S, x)
           c(x) == Cardinality(P(x))
<1>1. n \in Nat
  BY FS_CardinalityType
<1>2. ASSUME NEW x \in S PROVE IsFiniteSet(P(x)) /\ c(x) \in 0..(n - 1)
  <2>1. P(x) \in SUBSET S /\ x \notin P(x)
    BY DEF StrictOrder, Preceding
  <2>2. IsFiniteSet(P(x)) /\ c(x) <= n /\ (n = c(x) => S = P(x))
    BY <2>1, FS_Subset
  <2>3. c(x) \in Nat
    BY <2>2, FS_CardinalityType
  <2>4. c(x) # n
    BY <2>1, <2>2
  <2> HIDE DEF n, c
  <2>5. QED
    BY <1>1, <2>2, <2>3, <2>4
<1>3. ASSUME NEW x \in S, NEW y \in S, <<x, y>> \in R PROVE c(x) < c(y)
  <2>1. P(x) \in SUBSET P(y)
    BY <1>3 DEF StrictOrder, Preceding
  <2>2. x \in P(y) /\ x \notin P(x)
    BY <1>3 DEF StrictOrder, Preceding
  <2>3. IsFiniteSet(P(y)) /\ c(x) \in Nat /\ c(y) \in Nat
    BY <1>2, <1>1
  <2>4. c(x) <= c(y) /\ (c(y) = c(x) => P(y) = P(x))
    BY <2>1, <2>3, FS_Subset
  <2>5. c(y) # c(x)
    BY <2>2, <2>4
  <2> HIDE DEF c
  <2>6. QED
    BY <2>3, <2>4, <2>5
<1> DEFINE f == [x \in S |-> c(x) + 1]
<1>4. f \in Injection(S, 1..n)
  <2>1. \A x \in S : f[x] \in 1..n
    <3> HIDE DEF n, c
    <3> QED
      BY <1>1, <1>2
  <2>2. ASSUME NEW x \in S, NEW y \in S, x # y PROVE f[x] # f[y]
    <3>1. <<x, y>> \in R \/ <<y, x>> \in R
      BY <2>2 DEF StrictOrder
    <3>2. c(x) < c(y) \/ c(y) < c(x)
      BY <1>3, <3>1
    <3>3. c(x) \in Nat /\ c(y) \in Nat
      BY <1>2, <1>1
    <3> HIDE DEF c
    <3>4. QED
      BY <3>2, <3>3
  <2> HIDE DEF f
  <2>3. f \in [S -> 1..n]
    BY <2>1 DEF f
  <2>4. QED
    BY <2>2, <2>3 DEF Injection, IsInjective
<1>5. f \in Surjection(S, 1..n)
  <2>1. IsFiniteSet(1..n) /\ Cardinality(1..n) = n
    BY <1>1, FS_Interval
  <2> HIDE DEF f
  <2>2. QED
    BY <1>4, <2>1, FS_Injection
<1>6. ASSUME NEW i \in 1..n PROVE o[i] \in S /\ c(o[i]) = i - 1
  <2>1. PICK x \in S : f[x] = i
    BY <1>5 DEF Surjection
  <2>2. c(x) = i - 1
    <3>1. c(x) \in Nat /\ c(x) + 1 = i
      BY <1>2, <1>1, <2>1
    <3> HIDE DEF c
    <3>2. QED
      BY <3>1
  <2>3. QED
    BY <2>2 DEF Enumerates
<1>7. ASSUME NEW x \in S PROVE \E i \in 1..n : o[i] = x
  <2> DEFINE i == c(x) + 1
  <2>1. i \in 1..n /\ i - 1 = c(x)
    <3>1. c(x) \in 0..(n - 1)
      BY <1>2
    <3> HIDE DEF c, n
    <3>2. QED
      BY <1>1, <3>1
  <2>2. o[i] \in S /\ c(o[i]) = c(x)
    <3> HIDE DEF i
    <3> QED
      BY <1>6, <2>1
  <2>3. c(x) \in Nat
    BY <1>1, <1>2
  <2>4. o[i] = x
    <3>1. o[i] # x => c(o[i]) < c(x) \/ c(x) < c(o[i])
      <4> HIDE DEF i, c
      <4> QED
        BY <1>3, <2>2 DEF StrictOrder
    <3> HIDE DEF i, c
    <3>2. QED
      BY <2>2, <2>3, <3>1
  <2> HIDE DEF i
  <2>5. QED
    BY <2>1, <2>4
<1>8. ASSUME NEW i \in 1..n, NEW k \in 1..n, i < k PROVE <<o[i], o[k]>> \in R
  <2>1. o[i] \in S /\ o[k] \in S /\ c(o[i]) = i - 1 /\ c(o[k]) = k - 1
    BY <1>6
  <2>2. i - 1 < k - 1 /\ i - 1 \in Nat /\ k - 1 \in Nat
    BY <1>1, <1>8
  <2> HIDE DEF c
  <2>3. c(o[i]) < c(o[k]) /\ c(o[i]) \in Nat /\ c(o[k]) \in Nat
    BY <2>1, <2>2
  <2>4. o[i] # o[k] /\ ~(c(o[k]) < c(o[i]))
    BY <2>3
  <2>5. QED
    BY <1>3, <2>1, <2>4 DEF StrictOrder
<1>9. QED
  BY <1>6, <1>7, <1>8

------------------------------------------------------------------------------
(* Sums.                                                                   *)

\* h adds g up over the subsets of S, as MapThenSumSet does.
AddsUp(h, g, S) ==
  \A s \in SUBSET S :
    h[s] = IF s = {} THEN 0 ELSE g[CHOOSE x \in s : TRUE] + h[s \ {CHOOSE x \in s : TRUE}]

\* Whatever adds g up arrives at its sum.
LEMMA AddsUpTo ==
  ASSUME NEW m \in Nat, NEW S \in SUBSET (0..(m - 1)), NEW g, NEW F, Additive(F, g, m),
         NEW h, AddsUp(h, g, S)
  PROVE  h[S] = F[S]
<1>1. /\ F \in [SUBSET (0..(m - 1)) -> Nat] /\ F[{}] = 0
      /\ \A s \in SUBSET (0..(m - 1)) : \A x \in s : F[s] = g[x] + F[s \ {x}]
  BY DEF Additive
<1>2. \A s \in SUBSET S : IsFiniteSet(s) /\ Cardinality(s) \in Nat
  <2>1. IsFiniteSet(0..(m - 1))
    BY FS_Interval
  <2>2. QED
    BY <2>1, FS_Subset, FS_CardinalityType
<1> DEFINE Bad == {c \in Nat : \E s \in SUBSET S : Cardinality(s) = c /\ h[s] # F[s]}
<1>3. Bad = {}
  <2> SUFFICES ASSUME Bad # {} PROVE FALSE
    OBVIOUS
  <2>1. PICK c \in Bad : \A e \in Bad : c <= e
    <3>1. Bad \in SUBSET Nat
      OBVIOUS
    <3> HIDE DEF Bad
    <3>2. QED
      BY <3>1, LeastNat
  <2>2. PICK s \in SUBSET S : Cardinality(s) = c /\ h[s] # F[s]
    BY <2>1
  <2> DEFINE x == CHOOSE x \in s : TRUE
  <2>3. s # {}
    BY <2>2, <1>1 DEF AddsUp
  <2>4. x \in s
    BY <2>3
  <2>5. h[s] = g[x] + h[s \ {x}]
    BY <2>3 DEF AddsUp
  <2> HIDE DEF x
  <2>6. Cardinality(s \ {x}) = Cardinality(s) - 1
    BY <2>4, <1>2, FS_RemoveElement
  <2>7. h[s \ {x}] = F[s \ {x}]
    <3>1. s \ {x} \in SUBSET S /\ Cardinality(s \ {x}) \in Nat /\ Cardinality(s \ {x}) < c
      <4>1. s \ {x} \in SUBSET S /\ Cardinality(s) \in Nat /\ Cardinality(s) = c
        BY <2>2, <1>2
      <4> HIDE DEF Bad
      <4>2. QED
        BY <4>1, <2>6, <1>2
    <3>2. Cardinality(s \ {x}) \notin Bad
      <4>1. c \in Nat
        BY <2>1
      <4> HIDE DEF Bad
      <4>2. QED
        BY <2>1, <3>1, <4>1
    <3>3. QED
      BY <3>1, <3>2
  <2>8. s \in SUBSET (0..(m - 1))
    OBVIOUS
  <2>9. QED
    BY <1>1, <2>2, <2>4, <2>5, <2>7, <2>8
<1>4. Cardinality(S) \notin Bad /\ Cardinality(S) \in Nat /\ S \in SUBSET S
  BY <1>2, <1>3
<1>5. QED
  BY <1>4

\* The sum of g over S, and g and e the same there.
Total(g, S) == SumFunctionOnSet(g, S)
Agrees(e, g, S) == \A x \in S : e[x] = g[x]

LEMMA TotalIs ==
  ASSUME NEW m \in Nat, NEW S \in SUBSET (0..(m - 1)), NEW g, NEW e, NEW F, Additive(F, e, m),
         Agrees(e, g, S)
  PROVE  Total(g, S) = F[S]
<1> DEFINE step(h, u) == IF u = {} THEN 0
                         ELSE g[CHOOSE x \in u : TRUE] + h[u \ {CHOOSE x \in u : TRUE}]
           G(h) == [u \in SUBSET S |-> step(h, u)]
           iter == CHOOSE h : h = G(h)
           H == [u \in SUBSET S |-> F[u]]
<1>1. Total(g, S) = iter[S]
  BY DEF Total, SumFunctionOnSet, FoldFunctionOnSet, MapThenFoldSet
<1>2. H = G(H)
  <2>1. ASSUME NEW u \in SUBSET S PROVE F[u] = step(H, u)
    <3>1. CASE u = {}
      BY <3>1 DEF Additive
    <3>2. CASE u # {}
      <4> DEFINE x == CHOOSE x \in u : TRUE
      <4>1. x \in u /\ u \in SUBSET (0..(m - 1)) /\ x \in S
        BY <3>2
      <4>2. H[u \ {x}] = F[u \ {x}]
        OBVIOUS
      <4>3. step(H, u) = e[x] + H[u \ {x}]
        BY <3>2, <4>1 DEF Agrees
      <4>4. F[u] = e[x] + F[u \ {x}]
        <5> HIDE DEF x
        <5> QED
          BY <4>1 DEF Additive
      <4> HIDE DEF x, H, step
      <4>5. QED
        BY <4>2, <4>3, <4>4
    <3>3. QED
      BY <3>1, <3>2
  <2> HIDE DEF step
  <2>2. QED
    BY <2>1
<1>3. iter = G(iter)
  <2> HIDE DEF H, G
  <2> QED
    BY <1>2
<1>4. \A u \in SUBSET S : iter[u] = step(iter, u)
  <2> HIDE DEF iter, step
  <2> QED
    BY <1>3
<1> HIDE DEF iter
<1>5. AddsUp(iter, e, S)
  <2> SUFFICES ASSUME NEW u \in SUBSET S
               PROVE  iter[u] = IF u = {} THEN 0
                        ELSE e[CHOOSE x \in u : TRUE] + iter[u \ {CHOOSE x \in u : TRUE}]
    BY DEF AddsUp
  <2>1. u # {} => e[CHOOSE x \in u : TRUE] = g[CHOOSE x \in u : TRUE]
    BY DEF Agrees
  <2>2. QED
    BY <1>4, <2>1
<1>6. QED
  BY <1>1, <1>5, AddsUpTo

\* The first d of a list of numbers sum up to a number.
LEMMA TotalType ==
  ASSUME NEW m \in Nat, NEW g \in [1..m -> Nat], NEW d \in Nat, d <= m
  PROVE  Total(g, 1..d) \in Nat
<1> DEFINE e == [x \in 0..m |-> IF x = 0 THEN 0 ELSE g[x]]
           S == 1..d
           M == m + 1
<1>1. M \in Nat /\ \A x \in 0..(M - 1) : e[x] \in Nat
  OBVIOUS
<1>2. S \in SUBSET (0..(M - 1)) /\ Agrees(e, g, S)
  BY DEF Agrees
<1> HIDE DEF e, S, M
<1>3. PICK F : Additive(F, e, M)
  BY <1>1, SumsExist
<1>4. Total(g, S) = F[S]
  BY <1>1, <1>2, <1>3, TotalIs
<1>5. F[S] \in Nat
  BY <1>2, <1>3 DEF Additive
<1>6. QED
  BY <1>4, <1>5 DEF S

\* The same for the slots that codes take.
TakesSlots(F, e, m, infos) ==
  /\ DOMAIN infos \in SUBSET (0..(m - 1)) /\ Additive(F, e, m)
  /\ \A x \in DOMAIN infos : e[x] = slots(infos[x].len)

LEMMA KraftSumIs ==
  ASSUME NEW m \in Nat, NEW infos, NEW e, NEW F, TakesSlots(F, e, m, infos)
  PROVE  KraftSum(infos) = F[DOMAIN infos]
<1> DEFINE S == DOMAIN infos
           g == [i \in S |-> slots(infos[i].len)]
<1>1. /\ S \in SUBSET (0..(m - 1)) /\ Additive(F, e, m)
      /\ \A x \in S : e[x] = slots(infos[x].len)
  BY DEF TakesSlots
<1>2. KraftSum(infos) = Total(g, S)
  BY DEF KraftSum, SumFunction, Total
<1>3. Agrees(e, g, S)
  BY <1>1 DEF Agrees
<1> HIDE DEF g, S
<1>4. Total(g, S) = F[S]
  BY <1>1, <1>3, TotalIs
<1>5. QED
  BY <1>2, <1>4 DEF S

\* F and E add up terms that are the same on S.
SumTheSame(F, g, E, e, m, S) ==
  /\ m \in Nat /\ S \in SUBSET (0..(m - 1))
  /\ Additive(F, g, m) /\ Additive(E, e, m) /\ Agrees(e, g, S)

\* Sums of what is the same are the same.
LEMMA SumsAgree ==
  ASSUME NEW m, NEW S, NEW g, NEW F, NEW e, NEW E, SumTheSame(F, g, E, e, m, S)
  PROVE  F[S] = E[S]
<1>0. /\ m \in Nat /\ S \in SUBSET (0..(m - 1))
      /\ Additive(F, g, m) /\ Additive(E, e, m) /\ Agrees(e, g, S)
  BY DEF SumTheSame
<1>1. AddsUp(F, e, S)
  <2> SUFFICES ASSUME NEW u \in SUBSET S
               PROVE  F[u] = IF u = {} THEN 0
                        ELSE e[CHOOSE x \in u : TRUE] + F[u \ {CHOOSE x \in u : TRUE}]
    BY DEF AddsUp
  <2> DEFINE x == CHOOSE x \in u : TRUE
  <2>1. CASE u = {}
    BY <1>0, <2>1 DEF Additive
  <2>2. CASE u # {}
    <3>1. x \in u
      BY <2>2
    <3> HIDE DEF x
    <3>2. F[u] = g[x] + F[u \ {x}] /\ e[x] = g[x]
      BY <1>0, <3>1 DEF Additive, Agrees
    <3>3. F[u] = e[x] + F[u \ {x}]
      BY <3>2
    <3>4. QED
      BY <2>2, <3>3 DEF x
  <2>3. QED
    BY <2>1, <2>2
<1>2. QED
  BY <1>0, <1>1, AddsUpTo

\* When one code changes its length, the slots taken change by its own.
OneChanges(infos, jnfos, n, i) ==
  /\ DOMAIN infos = 1..n /\ DOMAIN jnfos = 1..n
  /\ \A k \in 1..n : slots(infos[k].len) \in Nat /\ slots(jnfos[k].len) \in Nat
  /\ \A k \in (1..n) \ {i} : jnfos[k].len = infos[k].len

LEMMA KraftSumStep ==
  ASSUME NEW n \in Nat, NEW infos, NEW jnfos, NEW i \in 1..n, OneChanges(infos, jnfos, n, i)
  PROVE  /\ KraftSum(infos) \in Nat
         /\ KraftSum(jnfos) = KraftSum(infos) - slots(infos[i].len) + slots(jnfos[i].len)
<1> DEFINE old == [x \in 0..n |-> IF x = 0 THEN 0 ELSE slots(infos[x].len)]
           new == [x \in 0..n |-> IF x = 0 THEN 0 ELSE slots(jnfos[x].len)]
           All == 1..n
           Rest == All \ {i}
           top == n + 1
<1>0. /\ DOMAIN infos = 1..n /\ DOMAIN jnfos = 1..n
      /\ \A k \in 1..n : slots(infos[k].len) \in Nat /\ slots(jnfos[k].len) \in Nat
      /\ \A k \in (1..n) \ {i} : jnfos[k].len = infos[k].len
  BY DEF OneChanges
<1>1. /\ top \in Nat
      /\ \A x \in 0..(top - 1) : old[x] \in Nat
      /\ \A x \in 0..(top - 1) : new[x] \in Nat
  BY <1>0
<1>2. All \in SUBSET (0..(top - 1)) /\ Rest \in SUBSET (0..(top - 1)) /\ i \in All
  BY <1>0
<1>3. /\ DOMAIN infos = All /\ \A x \in All : old[x] = slots(infos[x].len)
      /\ DOMAIN jnfos = All /\ \A x \in All : new[x] = slots(jnfos[x].len)
  BY <1>0
<1>4. Agrees(new, old, Rest)
  BY <1>0 DEF Agrees
<1>5. old[i] = slots(infos[i].len) /\ new[i] = slots(jnfos[i].len) /\ old[i] \in Nat /\ new[i] \in Nat
  BY <1>0
<1> HIDE DEF old, new, top
<1>6. PICK Olds : Additive(Olds, old, top)
  BY <1>1, SumsExist
<1>7. PICK News : Additive(News, new, top)
  BY <1>1, SumsExist
<1> HIDE DEF All
<1>9. KraftSum(infos) = Olds[All]
  <2>1. top \in Nat /\ TakesSlots(Olds, old, top, infos) /\ DOMAIN infos = All
    BY <1>1, <1>2, <1>3, <1>6 DEF TakesSlots
  <2>2. QED
    BY <2>1, KraftSumIs
<1>10. KraftSum(jnfos) = News[All]
  <2>1. top \in Nat /\ TakesSlots(News, new, top, jnfos) /\ DOMAIN jnfos = All
    BY <1>1, <1>2, <1>3, <1>7 DEF TakesSlots
  <2>2. QED
    BY <2>1, KraftSumIs
<1>11. Olds[All] = old[i] + Olds[Rest]
  BY <1>2, <1>6 DEF Additive
<1>12. News[All] = new[i] + News[Rest]
  BY <1>2, <1>7 DEF Additive
<1>13. Olds[Rest] = News[Rest] /\ Olds[Rest] \in Nat
  <2> HIDE DEF Rest
  <2>1. Olds[Rest] \in Nat
    BY <1>2, <1>6 DEF Additive
  <2>2. SumTheSame(Olds, old, News, new, top, Rest)
    BY <1>1, <1>2, <1>4, <1>6, <1>7 DEF SumTheSame
  <2>3. Olds[Rest] = News[Rest]
    BY <2>2, SumsAgree
  <2>4. QED
    BY <2>1, <2>3
<1> DEFINE r == Olds[Rest]
           a == old[i]
           b == new[i]
<1>14. r \in Nat /\ a \in Nat /\ b \in Nat /\ KraftSum(infos) = a + r /\ KraftSum(jnfos) = b + r
  BY <1>5, <1>9, <1>10, <1>11, <1>12, <1>13
<1> HIDE DEF r, a, b
<1>15. KraftSum(infos) \in Nat /\ KraftSum(jnfos) = KraftSum(infos) - a + b
  BY <1>14
<1>16. QED
  BY <1>5, <1>15 DEF a, b

\* A digit more leaves a quarter of the slots.
LEMMA QuarterSlots ==
  ASSUME code_bits \in Nat, NEW len \in Nat, len + 2 <= code_bits
  PROVE  /\ slots(len) \in Nat /\ slots(len + 2) \in Nat
         /\ slots(len) \div 4 = slots(len + 2)
<1> DEFINE d == code_bits - (len + 2)
<1>1. d \in Nat /\ code_bits - len = (d + 1) + 1 /\ d + 1 \in Nat
  OBVIOUS
<1> HIDE DEF d
<1>2. 2 ^ d \in Nat \ {0} /\ 2 ^ (d + 1) = 2 * 2 ^ d /\ 2 ^ ((d + 1) + 1) = 2 * 2 ^ (d + 1)
  BY <1>1, PowerStep
<1>3. slots(len) = 2 ^ ((d + 1) + 1) /\ slots(len + 2) = 2 ^ d
  BY <1>1 DEF slots, d
<1> DEFINE p == 2 ^ d
<1>4. p \in Nat /\ slots(len + 2) = p /\ slots(len) = 2 * (2 * p)
  BY <1>2, <1>3
<1> HIDE DEF p
<1>5. QED
  BY <1>4

\* Slots are a number for codes within the limit.
LEMMA SlotsType ==
  ASSUME code_bits \in Nat, NEW len \in Nat, len <= code_bits
  PROVE  slots(len) \in Nat
<1>1. code_bits - len \in Nat
  OBVIOUS
<1>2. QED
  BY <1>1, PowerStep DEF slots

------------------------------------------------------------------------------
(* Code lengths.                                                           *)

\* A sequence has finitely many rows, of numbers.
LEMMA InputType ==
  ASSUME data \in Inputs
  PROVE  IsFiniteSet(DOMAIN data) /\ \A p \in DOMAIN data : data[p] \in Nat
<1>1. CASE data \in SkewedSequences
  <2> DEFINE c == Cardinality(DOMAIN data) - 1
  <2>1. IsFiniteSet(DOMAIN data) /\ data \in [0..c -> Nat]
    BY <1>1, HuffAssumption
  <2> HIDE DEF c
  <2>2. QED
    BY <2>1
<1>2. ASSUME NEW k \in 0..MaxLen, data \in [0..(k - 1) -> Symbols]
      PROVE  IsFiniteSet(DOMAIN data) /\ \A p \in DOMAIN data : data[p] \in Nat
  <2>1. MaxLen \in Nat /\ Symbols \subseteq Nat
    BY HuffAssumption
  <2>2. k - 1 \in Int /\ DOMAIN data = 0..(k - 1)
    BY <1>2, <2>1
  <2>3. IsFiniteSet(0..(k - 1))
    BY <2>2, FS_Interval
  <2>4. QED
    BY <1>2, <2>1, <2>2, <2>3
<1>3. CASE data \notin SkewedSequences
  <2>1. PICK k \in 0..MaxLen : data \in [0..(k - 1) -> Symbols]
    BY <1>3 DEF Inputs
  <2>2. QED
    BY <1>2, <2>1
<1>4. QED
  BY <1>1, <1>3

\* The symbols that occur.
Alphabet == {data[p] : p \in DOMAIN data}

LEMMA AlphabetType ==
  ASSUME data \in Inputs
  PROVE  /\ IsFiniteSet(Alphabet) /\ Alphabet \subseteq Nat
         /\ \A s : frequency(s) \in Nat
<1>1. IsFiniteSet(DOMAIN data) /\ \A p \in DOMAIN data : data[p] \in Nat
  BY InputType
<1> DEFINE f == [p \in DOMAIN data |-> data[p]]
<1>2. f \in Surjection(DOMAIN data, Alphabet)
  BY DEF Surjection, Alphabet
<1>3. IsFiniteSet(Alphabet)
  <2> HIDE DEF f
  <2> QED
    BY <1>1, <1>2, FS_Surjection
<1>4. ASSUME NEW s PROVE frequency(s) \in Nat
  <2> DEFINE T == {p \in DOMAIN data : data[p] = s}
  <2>1. T \in SUBSET DOMAIN data
    OBVIOUS
  <2>2. IsFiniteSet(T)
    BY <1>1, <2>1, FS_Subset
  <2>3. QED
    BY <2>2, FS_CardinalityType DEF frequency
<1>5. QED
  BY <1>1, <1>3, <1>4 DEF Alphabet

\* They are listed once each, the rare ones first.
LEMMA ValuesAre ==
  ASSUME data \in Inputs
  PROVE  /\ Len(values) \in Nat /\ values \in [1..Len(values) -> Alphabet]
         /\ \A s \in Alphabet : \E i \in 1..Len(values) : values[i] = s
         /\ \A i, k \in 1..Len(values) : i < k =>
              /\ frequency(values[i]) <= frequency(values[k])
              /\ values[i] # values[k]
<1> DEFINE S == Alphabet
           before(s, t) == \/ frequency(s) < frequency(t)
                           \/ (frequency(s) = frequency(t) /\ s < t)
           R == {z \in S \X S : before(z[1], z[2])}
           n == Cardinality(S)
           nth(i) == CHOOSE x \in S : Cardinality({y \in S : before(y, x)}) = i - 1
<1>1. IsFiniteSet(S) /\ S \subseteq Nat /\ \A s : frequency(s) \in Nat
  BY AlphabetType
<1>2. n \in Nat
  BY <1>1, FS_CardinalityType
<1>3. \A x, y \in S : <<x, y>> \in R <=> before(x, y)
  OBVIOUS
<1>4. values = [i \in 1..n |-> nth(i)]
  BY DEF values, Ordered, Alphabet
<1> HIDE DEF S, n
<1> HIDE DEF nth
<1>5. StrictOrder(R, S)
  <2>1. \A x \in S : ~before(x, x)
    BY <1>1
  <2>2. \A x, y, z \in S : before(x, y) /\ before(y, z) => before(x, z)
    BY <1>1
  <2>3. \A x, y \in S : x = y \/ before(x, y) \/ before(y, x)
    BY <1>1
  <2> HIDE DEF before, R
  <2>4. QED
    BY <1>3, <2>1, <2>2, <2>3 DEF StrictOrder
<1>6. Enumerates(values, R, S)
  <2>1. ASSUME NEW x \in S PROVE {y \in S : before(y, x)} = Preceding(R, S, x)
    <3> HIDE DEF before, R
    <3> QED
      BY <1>3 DEF Preceding
  <2> HIDE DEF before, R
  <2>2. DOMAIN values = 1..n
    BY <1>4
  <2>3. ASSUME NEW i \in 1..n, NEW x \in S, Cardinality(Preceding(R, S, x)) = i - 1
        PROVE  values[i] \in S /\ Cardinality(Preceding(R, S, values[i])) = i - 1
    <3>1. values[i] = CHOOSE w \in S : Cardinality({y \in S : before(y, w)}) = i - 1
      BY <1>4 DEF nth
    <3>2. Cardinality({y \in S : before(y, x)}) = i - 1
      BY <2>1, <2>3
    <3>3. values[i] \in S /\ Cardinality({y \in S : before(y, values[i])}) = i - 1
      BY <3>1, <3>2
    <3>4. QED
      BY <2>1, <3>3
  <2>4. QED
    BY <2>2, <2>3 DEF Enumerates, n
<1> HIDE DEF R
<1>7. /\ \A i \in 1..n : values[i] \in S
      /\ \A s \in S : \E i \in 1..n : values[i] = s
      /\ \A i, k \in 1..n : i < k => <<values[i], values[k]>> \in R
  BY <1>1, <1>5, <1>6, Enumerated DEF n
<1>8. values \in [1..n -> S] /\ Len(values) = n
  <2>1. values = [i \in 1..n |-> values[i]]
    BY <1>4
  <2>2. values \in [1..n -> S]
    BY <1>7, <2>1
  <2> HIDE DEF values
  <2>3. QED
    BY <1>2, <2>2
<1>9. ASSUME NEW i \in 1..n, NEW k \in 1..n, i < k
      PROVE  frequency(values[i]) <= frequency(values[k]) /\ values[i] # values[k]
  <2>1. values[i] \in S /\ values[k] \in S /\ before(values[i], values[k])
    BY <1>3, <1>7, <1>9
  <2>2. frequency(values[i]) \in Nat /\ frequency(values[k]) \in Nat /\ values[i] \in Nat
    BY <1>1, <2>1
  <2>3. QED
    BY <2>1, <2>2
<1>10. QED
  BY <1>2, <1>7, <1>8, <1>9 DEF S

\* What the codes take of the nodes at the deepest level.
KraftOf(used, deepest) ==
  SumFunction([d \in 1..deepest |-> used[d] * 2 ^ (2 * (deepest - d))])

\* A code of the coder: numbers of codes used of each depth, given out along values.
Given(fragments, used, deepest) ==
  LET k == Len(values) IN
  /\ deepest \in Nat /\ deepest > 0
  /\ used \in [1..deepest -> 0..k] /\ Total(used, 1..deepest) = k
  /\ KraftOf(used, deepest) <= 2 ^ (2 * deepest)
  /\ fragments = [i \in 1..k |-> Min({d \in 1..deepest : Total(used, 1..d) > k - i})]

LEMMA CodeIsGiven ==
  ASSUME Len(values) \in Nat, NEW fragments \in minimum_redundancy
  PROVE  \E used, deepest : Given(fragments, used, deepest)
<1> DEFINE k == Len(values)
           deepest == Max({1, (k + 1) \div 3})
           upto(used, d) == Total(used, 1..d)
           len(used, i) == Min({d \in 1..deepest : upto(used, d) > k - i})
<1>1. \E used \in [1..deepest -> 0..k] :
        /\ upto(used, deepest) = k /\ KraftOf(used, deepest) <= 2 ^ (2 * deepest)
        /\ fragments = [i \in 1..k |-> len(used, i)]
  BY DEF minimum_redundancy, Total, KraftOf
<1>2. deepest \in Nat /\ deepest > 0
  <2> DEFINE q == (k + 1) \div 3
  <2>1. q \in Nat
    OBVIOUS
  <2> HIDE DEF q
  <2>2. \E x \in {1, q} : \A y \in {1, q} : x >= y
    BY <2>1
  <2>3. Max({1, q}) \in {1, q} /\ Max({1, q}) >= 1
    BY <2>1, <2>2 DEF Max
  <2>4. QED
    BY <2>1, <2>3 DEF q
<1> HIDE DEF deepest
<1>3. QED
  BY <1>1, <1>2 DEF Given

\* It gives shorter codes to what comes later.
LEMMA GivenShrinks ==
  ASSUME Len(values) \in Nat, NEW fragments, NEW used, NEW deepest, Given(fragments, used, deepest)
  PROVE  /\ DOMAIN fragments = 1..Len(values)
         /\ \A i \in 1..Len(values) : fragments[i] \in Nat /\ 1 <= fragments[i] /\ fragments[i] <= deepest
         /\ \A i, k \in 1..Len(values) : i <= k => fragments[k] <= fragments[i]
<1> DEFINE n == Len(values)
           up(d) == Total(used, 1..d)
           D(i) == {d \in 1..deepest : up(d) > n - i}
<1>1. /\ deepest \in Nat /\ deepest > 0 /\ used \in [1..deepest -> 0..n] /\ up(deepest) = n
      /\ fragments = [i \in 1..n |-> Min(D(i))]
  BY DEF Given
<1>2. n \in Nat
  OBVIOUS
<1> HIDE DEF n
<1>3. ASSUME NEW d \in 1..deepest PROVE up(d) \in Nat
  <2>1. used \in [1..deepest -> Nat] /\ d \in Nat /\ d <= deepest
    BY <1>1, <1>2
  <2>2. QED
    BY <1>1, <2>1, TotalType
<1> HIDE DEF up
<1>4. ASSUME NEW i \in 1..n PROVE Min(D(i)) \in D(i) /\ \A d \in D(i) : Min(D(i)) <= d
  <2>1. D(i) \in SUBSET Nat
    BY <1>1
  <2>2. deepest \in D(i)
    BY <1>1, <1>2
  <2> HIDE DEF D
  <2>3. QED
    BY <2>1, <2>2, MinNat
<1>5. ASSUME NEW i \in 1..n, NEW k \in 1..n, i <= k PROVE Min(D(k)) <= Min(D(i))
  <2> DEFINE m == Min(D(i))
  <2>1. m \in 1..deepest /\ up(m) > n - i
    BY <1>4
  <2>2. up(m) \in Nat
    BY <1>3, <2>1
  <2> HIDE DEF m
  <2>3. m \in D(k)
    BY <1>2, <1>5, <2>1, <2>2
  <2> HIDE DEF D
  <2>4. QED
    BY <1>4, <2>3 DEF m
<1>6. ASSUME NEW i \in 1..n PROVE Min(D(i)) \in Nat /\ 1 <= Min(D(i)) /\ Min(D(i)) <= deepest
  <2>1. Min(D(i)) \in 1..deepest
    BY <1>4
  <2>2. QED
    BY <1>1, <2>1
<1> HIDE DEF D
<1>7. QED
  BY <1>1, <1>5, <1>6 DEF n

\* A code is not longer than a rarer one.
CommonShorter(infos) ==
  \A i, k \in 1..Len(infos) :
    infos[i].frequency > infos[k].frequency => infos[i].len <= infos[k].len

\* What limit_code_lengths keeps of the lengths: each symbol has one entry,
\* of a whole number of digits, and none has more than a rarer one.
Infos(infos) ==
  /\ infos \in Seq([symbol: Nat, len: Nat, frequency: Nat])
  /\ \A i \in 1..Len(infos) : infos[i].len % 2 = 0
  /\ \A i, k \in 1..Len(infos) : infos[i].symbol = infos[k].symbol => i = k
  /\ CommonShorter(infos)

\* The coder's lengths are such.
LEMMA CodeLengthsGiven ==
  ASSUME data \in Inputs, CodeLengths, pc' = "limit"
  PROVE  Infos(lengths')
<1> DEFINE n == Len(values)
           f(i) == frequency(values[i])
<1>1. PICK fragments \in minimum_redundancy :
        lengths' = [i \in 1..n |-> [symbol |-> values[i], len |-> 2 * fragments[i], frequency |-> f(i)]]
  BY DEF CodeLengths
<1>2. /\ n \in Nat /\ values \in [1..n -> Alphabet]
      /\ \A i, k \in 1..n : i < k => f(i) <= f(k) /\ values[i] # values[k]
  BY ValuesAre
<1>3. Alphabet \subseteq Nat /\ \A i \in 1..n : f(i) \in Nat
  BY AlphabetType
<1>4. PICK used, deepest : Given(fragments, used, deepest)
  BY <1>2, CodeIsGiven
<1>5. /\ \A i \in 1..n : fragments[i] \in Nat
      /\ \A i, k \in 1..n : i <= k => fragments[k] <= fragments[i]
  BY <1>2, <1>4, GivenShrinks, Zenon
<1> DEFINE L == lengths'
           v(i) == values[i]
           g(i) == fragments[i]
<1>6. \A i \in 1..n : v(i) \in Nat /\ g(i) \in Nat /\ f(i) \in Nat
  BY <1>2, <1>3, <1>5
<1>7. /\ \A i, k \in 1..n : i < k => f(i) <= f(k) /\ v(i) # v(k)
      /\ \A i, k \in 1..n : i <= k => g(k) <= g(i)
  BY <1>2, <1>5
<1>8. L = [i \in 1..n |-> [symbol |-> v(i), len |-> 2 * g(i), frequency |-> f(i)]]
  BY <1>1
<1> HIDE DEF n, f, v, g, L
<1>9. \A i \in 1..n : L[i].symbol = v(i) /\ L[i].len = 2 * g(i) /\ L[i].frequency = f(i)
  BY <1>8
<1>10. L \in Seq([symbol: Nat, len: Nat, frequency: Nat]) /\ Len(L) = n
  <2>1. ASSUME NEW i \in 1..n PROVE L[i] \in [symbol: Nat, len: Nat, frequency: Nat]
    <3>1. 2 * g(i) \in Nat
      BY <1>6
    <3>2. QED
      BY <1>6, <1>8, <3>1
  <2> DEFINE T == [symbol: Nat, len: Nat, frequency: Nat]
  <2>2. L \in [1..n -> T]
    BY <1>8, <2>1
  <2> HIDE DEF T
  <2>3. n \in Nat
    BY <1>2
  <2>4. L \in Seq(T) /\ Len(L) = n
    BY <2>2, <2>3
  <2>5. QED
    BY <2>4 DEF T
<1>11. \A i \in 1..n : L[i].len % 2 = 0
  BY <1>6, <1>9
<1>12. ASSUME NEW i \in 1..n, NEW k \in 1..n, i # k PROVE L[i].symbol # L[k].symbol
  <2>1. i < k \/ k < i
    BY <1>2, <1>12
  <2>2. QED
    BY <1>7, <1>9, <2>1
<1>13. ASSUME NEW i \in 1..n, NEW k \in 1..n, L[i].frequency > L[k].frequency
       PROVE  L[i].len <= L[k].len
  <2>1. f(i) > f(k)
    BY <1>9, <1>13
  <2>2. ~(i < k)
    <3>1. f(i) \in Nat /\ f(k) \in Nat
      BY <1>6
    <3>2. ~(f(i) <= f(k))
      BY <2>1, <3>1
    <3>3. QED
      BY <1>7, <3>2
  <2>3. k <= i
    BY <1>2, <2>2
  <2>4. g(i) <= g(k)
    BY <1>7, <2>3
  <2>5. QED
    BY <1>6, <1>9, <2>4
<1>14. Infos(L)
  BY <1>10, <1>11, <1>12, <1>13 DEF Infos, CommonShorter
<1>15. QED
  BY <1>14 DEF L

------------------------------------------------------------------------------
(* limit_code_lengths.                                                     *)

\* c are the codes below the limit, from rare to common.
Waiting(infos, c) ==
  /\ c \in Seq(1..Len(infos))
  /\ \A a, b \in 1..Len(c) : a < b => infos[c[a]].frequency <= infos[c[b]].frequency
  /\ \A i \in 1..Len(infos) : infos[i].len = code_bits \/ \E a \in 1..Len(c) : c[a] = i

\* limit_code_lengths in its loop: codes are within the limit and the slots they take are
\* counted; the candidates go from rare to common, and what is none is as long as can be.
Lengthening ==
  /\ \A i \in 1..Len(lengths) : lengths[i].len <= code_bits
  /\ occupied_slots = KraftSum(lengths)
  /\ Waiting(lengths, candidates)

LengthsInv ==
  /\ data \in Inputs /\ code_bits \in CodeWidths
  /\ pc \in {"limit", "lengthen"} => Infos(lengths)
  /\ pc = "lengthen" => Lengthening
  /\ pc = "craft" => CommonShorter(lengths)

\* A limit is an even number.
LEMMA WidthType ==
  ASSUME code_bits \in CodeWidths
  PROVE  code_bits \in Nat /\ code_bits % 2 = 0
BY HuffAssumption

\* The fields of an entry.
LEMMA InfoType ==
  ASSUME NEW infos, Infos(infos)
  PROVE  /\ Len(infos) \in Nat /\ DOMAIN infos = 1..Len(infos)
         /\ \A i \in 1..Len(infos) :
              /\ infos[i] \in [symbol: Nat, len: Nat, frequency: Nat]
              /\ infos[i].symbol \in Nat /\ infos[i].len \in Nat /\ infos[i].frequency \in Nat
              /\ infos[i].len % 2 = 0
<1> DEFINE T == [symbol: Nat, len: Nat, frequency: Nat]
<1>1. infos \in Seq(T) /\ \A i \in 1..Len(infos) : infos[i].len % 2 = 0
  BY DEF Infos
<1> HIDE DEF T
<1>2. Len(infos) \in Nat /\ DOMAIN infos = 1..Len(infos) /\ \A i \in 1..Len(infos) : infos[i] \in T
  BY <1>1
<1>3. \A t \in T : t.symbol \in Nat /\ t.len \in Nat /\ t.frequency \in Nat
  BY DEF T
<1>4. QED
  BY <1>1, <1>2, <1>3 DEF T

\* The lengths cut at the limit.
Capped == [i \in 1..alph_size |-> [lengths[i] EXCEPT !.len = MinOf(@, code_bits)]]

LEMMA CappedInfos ==
  ASSUME code_bits \in CodeWidths, Infos(lengths)
  PROVE  /\ Infos(Capped) /\ Len(Capped) = Len(lengths)
         /\ \A i \in 1..Len(lengths) : Capped[i].len <= code_bits
<1> DEFINE n == Len(lengths)
           l(i) == lengths[i].len
           m(i) == MinOf(l(i), code_bits)
           C == Capped
<1>1. code_bits \in Nat /\ code_bits % 2 = 0
  BY WidthType
<1>2. /\ n \in Nat
      /\ \A i \in 1..n :
           /\ lengths[i] \in [symbol: Nat, len: Nat, frequency: Nat]
           /\ l(i) \in Nat /\ lengths[i].frequency \in Nat /\ l(i) % 2 = 0
  BY InfoType
<1>3. C = [i \in 1..n |-> [lengths[i] EXCEPT !.len = m(i)]]
  BY DEF Capped, alph_size
<1>4. \A i \in 1..n : m(i) \in Nat /\ m(i) % 2 = 0 /\ m(i) <= code_bits
  <2>1. ASSUME NEW x \in Nat, x % 2 = 0
        PROVE  /\ MinOf(x, code_bits) \in Nat /\ MinOf(x, code_bits) % 2 = 0
               /\ MinOf(x, code_bits) <= code_bits
    BY <1>1, <2>1 DEF MinOf
  <2> HIDE DEF l, n
  <2>2. QED
    BY <1>2, <2>1
<1>5. \A i, k \in 1..n : l(i) <= l(k) => m(i) <= m(k)
  <2>1. ASSUME NEW x \in Nat, NEW y \in Nat, x <= y
        PROVE  MinOf(x, code_bits) <= MinOf(y, code_bits)
    BY <1>1, <2>1 DEF MinOf
  <2>2. \A i \in 1..n : l(i) \in Nat
    BY <1>2
  <2> HIDE DEF l, n
  <2>3. QED
    BY <2>1, <2>2
<1> HIDE DEF m, n, C
<1>6. ASSUME NEW i \in 1..n
      PROVE  /\ C[i] \in [symbol: Nat, len: Nat, frequency: Nat]
             /\ C[i].symbol = lengths[i].symbol /\ C[i].len = m(i)
             /\ C[i].frequency = lengths[i].frequency
  <2>1. C[i] = [lengths[i] EXCEPT !.len = m(i)]
    BY <1>3
  <2>2. m(i) \in Nat /\ lengths[i] \in [symbol: Nat, len: Nat, frequency: Nat]
    BY <1>2, <1>4
  <2> HIDE DEF l
  <2>3. QED
    BY <2>1, <2>2
<1>7. C \in Seq([symbol: Nat, len: Nat, frequency: Nat]) /\ Len(C) = n
  <2> DEFINE T == [symbol: Nat, len: Nat, frequency: Nat]
             z(i) == [lengths[i] EXCEPT !.len = m(i)]
  <2>1. C = [i \in 1..n |-> z(i)] /\ \A i \in 1..n : C[i] \in T
    BY <1>3, <1>6
  <2> HIDE DEF T, z
  <2>2. C \in [1..n -> T]
    BY <2>1
  <2>3. n \in Nat
    BY <1>2
  <2>4. C \in Seq(T) /\ Len(C) = n
    BY <2>2, <2>3
  <2>5. QED
    BY <2>4 DEF T
<1>8. /\ \A i, k \in 1..n : lengths[i].symbol = lengths[k].symbol => i = k
      /\ \A i, k \in 1..n : lengths[i].frequency > lengths[k].frequency => l(i) <= l(k)
  BY DEF Infos, CommonShorter, n
<1>9. CommonShorter(C)
  <2> SUFFICES ASSUME NEW i \in 1..n, NEW k \in 1..n, C[i].frequency > C[k].frequency
               PROVE  C[i].len <= C[k].len
    BY <1>7 DEF CommonShorter
  <2>1. lengths[i].frequency > lengths[k].frequency
    BY <1>6
  <2>2. m(i) <= m(k)
    BY <1>5, <1>8, <2>1
  <2>3. QED
    BY <1>6, <2>2
<1>10. Infos(C)
  <2>1. \A i \in 1..Len(C) : C[i].len % 2 = 0
    BY <1>4, <1>6, <1>7
  <2>2. \A i, k \in 1..Len(C) : C[i].symbol = C[k].symbol => i = k
    BY <1>6, <1>7, <1>8
  <2>3. QED
    BY <1>7, <1>9, <2>1, <2>2 DEF Infos
<1>11. \A i \in 1..n : C[i].len <= code_bits
  BY <1>4, <1>6
<1>12. QED
  BY <1>7, <1>10, <1>11 DEF C, n

\* o is a rearrangement of the numbers from 1 to n.
Arranges(o, n) ==
  /\ n \in Nat /\ o \in [1..n -> 1..n]
  /\ \A i, k \in 1..n : o[i] = o[k] => i = k
  /\ \A x \in 1..n : \E i \in 1..n : o[i] = x

\* Sorting rearranges, into the order of craft_wm_codes.
SortedBy(o, infos) ==
  /\ Arranges(o, Len(infos))
  /\ sorted(infos) = [i \in 1..Len(infos) |-> infos[o[i]]]
  /\ \A i, k \in 1..Len(infos) : i < k => infos[o[i]].len <= infos[o[k]].len

LEMMA SortedIs ==
  ASSUME NEW infos, Infos(infos)
  PROVE  \E o : SortedBy(o, infos)
<1> DEFINE n == Len(infos)
           S == 1..n
           before(i, k) == shorter(infos[i], infos[k])
           R == {z \in S \X S : before(z[1], z[2])}
           nth(i) == CHOOSE x \in S : Cardinality({y \in S : before(y, x)}) = i - 1
           o == Ordered(S, LAMBDA i, k : shorter(infos[i], infos[k]))
           T == sorted(infos)
<1>1. /\ n \in Nat /\ DOMAIN infos = S
      /\ \A i \in S : infos[i].symbol \in Nat /\ infos[i].len \in Nat /\ infos[i].frequency \in Nat
  BY InfoType
<1>2. \A i, k \in S : infos[i].symbol = infos[k].symbol => i = k
  BY DEF Infos
<1>3. IsFiniteSet(S) /\ Cardinality(S) = n
  <2>1. n \in Nat
    BY <1>1
  <2> HIDE DEF n
  <2>2. IsFiniteSet(1..n) /\ Cardinality(1..n) = IF 1 > n THEN 0 ELSE n - 1 + 1
    BY <2>1, FS_Interval
  <2>3. QED
    BY <2>1, <2>2
<1>4. T = [i \in S |-> infos[o[i]]]
  BY <1>1 DEF sorted
<1>5. o = [i \in 1..Cardinality(S) |-> nth(i)]
  BY DEF Ordered
<1> HIDE DEF S, n, o, nth, T
<1>6. StrictOrder(R, S)
  <2>1. \A x, y \in S : <<x, y>> \in R <=> before(x, y)
    OBVIOUS
  <2>2. \A x \in S : ~before(x, x)
    BY <1>1 DEF shorter
  <2>3. \A x, y, z \in S : before(x, y) /\ before(y, z) => before(x, z)
    BY <1>1 DEF shorter
  <2>4. \A x, y \in S : x = y \/ before(x, y) \/ before(y, x)
    BY <1>1, <1>2 DEF shorter
  <2> HIDE DEF before, R
  <2>5. QED
    BY <2>1, <2>2, <2>3, <2>4 DEF StrictOrder
<1>7. Enumerates(o, R, S)
  <2>1. ASSUME NEW x \in S PROVE {y \in S : before(y, x)} = Preceding(R, S, x)
    <3> HIDE DEF before
    <3> QED
      BY DEF Preceding
  <2> HIDE DEF before, R
  <2>2. ASSUME NEW i \in 1..Cardinality(S), NEW x \in S, Cardinality(Preceding(R, S, x)) = i - 1
        PROVE  o[i] \in S /\ Cardinality(Preceding(R, S, o[i])) = i - 1
    <3>1. o[i] = CHOOSE w \in S : Cardinality({y \in S : before(y, w)}) = i - 1
      BY <1>5 DEF nth
    <3>2. Cardinality({y \in S : before(y, x)}) = i - 1
      BY <2>1, <2>2
    <3>3. o[i] \in S /\ Cardinality({y \in S : before(y, o[i])}) = i - 1
      BY <3>1, <3>2
    <3>4. QED
      BY <2>1, <3>3
  <2>3. QED
    BY <1>5, <2>2 DEF Enumerates
<1> HIDE DEF R
<1>8. /\ \A i \in S : o[i] \in S
      /\ \A x \in S : \E i \in S : o[i] = x
      /\ \A i, k \in S : i < k => <<o[i], o[k]>> \in R
  <2>1. /\ \A i \in 1..Cardinality(S) : o[i] \in S
        /\ \A x \in S : \E i \in 1..Cardinality(S) : o[i] = x
        /\ \A i, k \in 1..Cardinality(S) : i < k => <<o[i], o[k]>> \in R
    BY <1>3, <1>6, <1>7, Enumerated
  <2>2. QED
    BY <1>3, <2>1 DEF S
<1>9. o \in [S -> S]
  <2>1. o = [i \in S |-> nth(i)]
    BY <1>3, <1>5 DEF S
  <2>2. QED
    BY <1>8, <2>1
<1>10. ASSUME NEW i \in S, NEW k \in S, i < k
       PROVE  infos[o[i]].len <= infos[o[k]].len /\ o[i] # o[k]
  <2>1. <<o[i], o[k]>> \in R /\ o[i] \in S /\ o[k] \in S
    BY <1>8, <1>10
  <2>2. shorter(infos[o[i]], infos[o[k]])
    BY <2>1 DEF R
  <2>3. o[i] # o[k]
    BY <1>6, <2>1 DEF StrictOrder
  <2>4. infos[o[i]].len \in Nat /\ infos[o[k]].len \in Nat
    BY <1>1, <2>1
  <2>5. QED
    BY <2>2, <2>3, <2>4 DEF shorter
<1>11. \A i, k \in S : o[i] = o[k] => i = k
  <2> SUFFICES ASSUME NEW i \in S, NEW k \in S, i # k PROVE o[i] # o[k]
    OBVIOUS
  <2>1. i < k \/ k < i
    BY <1>1 DEF S
  <2>2. QED
    BY <1>10, <2>1
<1>12. Arranges(o, n)
  BY <1>1, <1>8, <1>9, <1>11 DEF Arranges, S
<1>13. SortedBy(o, infos)
  BY <1>4, <1>10, <1>12 DEF SortedBy, S, T, n
<1>14. QED
  BY <1>13

\* So the commoner symbols keep the shorter codes.
LEMMA SortedShorter ==
  ASSUME NEW infos, Infos(infos)
  PROVE  CommonShorter(sorted(infos))
<1> DEFINE n == Len(infos)
           T == sorted(infos)
<1>1. PICK o : SortedBy(o, infos)
  BY SortedIs
<1>2. n \in Nat /\ o \in [1..n -> 1..n] /\ T = [i \in 1..n |-> infos[o[i]]]
  BY <1>1 DEF SortedBy, Arranges
<1>3. \A a, b \in 1..n : infos[a].frequency > infos[b].frequency => infos[a].len <= infos[b].len
  BY DEF Infos, CommonShorter
<1> HIDE DEF n, T
<1>4. Len(T) = n
  <2> DEFINE h(i) == infos[o[i]]
  <2>1. T = [i \in 1..n |-> h(i)]
    BY <1>2
  <2> HIDE DEF h
  <2>2. QED
    BY <1>2, <2>1
<1>5. \A i \in 1..n : T[i] = infos[o[i]] /\ o[i] \in 1..n
  BY <1>2
<1>6. QED
  BY <1>3, <1>4, <1>5 DEF CommonShorter, T

\* The codes that can grow, in the order of their frequencies, wait for it.
Growing(infos) == Ordered({i \in 1..Len(infos) : can_grow(infos[i])},
                    LAMBDA i, k : rarer(infos[i], infos[k]))

LEMMA CandidatesWait ==
  ASSUME NEW infos, Infos(infos), code_bits \in Nat,
         \A i \in 1..Len(infos) : infos[i].len <= code_bits
  PROVE  Waiting(infos, Growing(infos))
<1> DEFINE c == Growing(infos)
           n == Len(infos)
           S == {i \in 1..n : can_grow(infos[i])}
           before(i, k) == rarer(infos[i], infos[k])
           R == {z \in S \X S : before(z[1], z[2])}
           nth(i) == CHOOSE x \in S : Cardinality({y \in S : before(y, x)}) = i - 1
           m == Cardinality(S)
<1>1. /\ n \in Nat
      /\ \A i \in 1..n : infos[i].symbol \in Nat /\ infos[i].len \in Nat /\ infos[i].frequency \in Nat
  BY InfoType
<1>2. \A i, k \in 1..n : infos[i].symbol = infos[k].symbol => i = k
  BY DEF Infos
<1>3. IsFiniteSet(S) /\ m \in Nat /\ S \subseteq 1..n
  <2>1. n \in Nat /\ S \in SUBSET (1..n)
    BY <1>1
  <2> HIDE DEF n, S
  <2>2. IsFiniteSet(1..n)
    BY <2>1, FS_Interval
  <2>3. IsFiniteSet(S)
    BY <2>1, <2>2, FS_Subset
  <2>4. QED
    BY <2>1, <2>3, FS_CardinalityType
<1>4. c = [i \in 1..m |-> nth(i)]
  BY DEF Growing, Ordered
<1>5. \A i \in 1..n : i \in S \/ infos[i].len = code_bits
  <2> SUFFICES ASSUME NEW i \in 1..n, ~can_grow(infos[i]) PROVE infos[i].len = code_bits
    OBVIOUS
  <2>1. infos[i].len \in Nat /\ infos[i].len <= code_bits /\ ~(infos[i].len < code_bits)
    BY <1>1 DEF can_grow
  <2>2. QED
    BY <2>1
<1>6. \A i \in S : infos[i].symbol \in Nat /\ infos[i].len \in Nat /\ infos[i].frequency \in Nat
  BY <1>1
<1>7. \A i, k \in S : infos[i].symbol = infos[k].symbol => i = k
  BY <1>2
<1> HIDE DEF S, n, nth, m, c
<1>8. \A x, y \in S : <<x, y>> \in R <=> before(x, y)
  OBVIOUS
<1>9. StrictOrder(R, S)
  <2>1. \A x \in S : ~before(x, x)
    BY <1>6 DEF rarer
  <2>2. \A x, y, z \in S : before(x, y) /\ before(y, z) => before(x, z)
    BY <1>6 DEF rarer
  <2>3. \A x, y \in S : x = y \/ before(x, y) \/ before(y, x)
    BY <1>6, <1>7 DEF rarer
  <2> HIDE DEF before, R
  <2>4. QED
    BY <1>8, <2>1, <2>2, <2>3 DEF StrictOrder
<1>10. Enumerates(c, R, S)
  <2>1. ASSUME NEW x \in S PROVE {y \in S : before(y, x)} = Preceding(R, S, x)
    <3> HIDE DEF before
    <3> QED
      BY DEF Preceding
  <2> HIDE DEF before, R
  <2>2. ASSUME NEW i \in 1..m, NEW x \in S, Cardinality(Preceding(R, S, x)) = i - 1
        PROVE  c[i] \in S /\ Cardinality(Preceding(R, S, c[i])) = i - 1
    <3>1. c[i] = CHOOSE w \in S : Cardinality({y \in S : before(y, w)}) = i - 1
      BY <1>4 DEF nth
    <3>2. Cardinality({y \in S : before(y, x)}) = i - 1
      BY <2>1, <2>2
    <3>3. c[i] \in S /\ Cardinality({y \in S : before(y, c[i])}) = i - 1
      BY <3>1, <3>2
    <3>4. QED
      BY <2>1, <3>3
  <2>3. DOMAIN c = 1..m
    BY <1>4
  <2>4. QED
    BY <2>2, <2>3 DEF Enumerates, m
<1>11. /\ \A i \in 1..m : c[i] \in S
       /\ \A x \in S : \E i \in 1..m : c[i] = x
       /\ \A i, k \in 1..m : i < k => <<c[i], c[k]>> \in R
  <2> HIDE DEF R
  <2> QED
    BY <1>3, <1>9, <1>10, Enumerated DEF m
<1>12. c \in Seq(1..n) /\ Len(c) = m
  <2> DEFINE D == 1..n
  <2>1. c \in [1..m -> D] /\ m \in Nat
    BY <1>3, <1>4, <1>11
  <2> HIDE DEF D
  <2>2. c \in Seq(D) /\ Len(c) = m
    BY <2>1
  <2>3. QED
    BY <2>2 DEF D
<1>13. ASSUME NEW a \in 1..m, NEW b \in 1..m, a < b
       PROVE  infos[c[a]].frequency <= infos[c[b]].frequency
  <2>1. c[a] \in S /\ c[b] \in S /\ before(c[a], c[b])
    BY <1>8, <1>11, <1>13
  <2>2. infos[c[a]].frequency \in Nat /\ infos[c[b]].frequency \in Nat
    BY <1>6, <2>1
  <2>3. \/ infos[c[a]].frequency < infos[c[b]].frequency
        \/ infos[c[a]].frequency = infos[c[b]].frequency
    BY <2>1 DEF rarer
  <2>4. QED
    BY <2>2, <2>3
<1>14. \A i \in 1..n : infos[i].len = code_bits \/ \E a \in 1..m : c[a] = i
  BY <1>5, <1>11
<1>15. Waiting(infos, c)
  <2>1. c \in Seq(1..Len(infos))
    BY <1>12 DEF n
  <2>2. \A a, b \in 1..Len(c) : a < b => infos[c[a]].frequency <= infos[c[b]].frequency
    BY <1>12, <1>13
  <2>3. \A i \in 1..Len(infos) : infos[i].len = code_bits \/ \E a \in 1..Len(c) : c[a] = i
    BY <1>12, <1>14 DEF n
  <2>4. QED
    BY <2>1, <2>2, <2>3 DEF Waiting
<1>16. QED
  BY <1>15 DEF c

\* The slots taken for a limit of b bits.
KraftSumAt(b, infos) == SumFunction([i \in DOMAIN infos |-> 2 ^ (b - infos[i].len)])

LEMMA KraftSumIsAt == KraftSum(lengths) = KraftSumAt(code_bits, lengths)
BY DEF KraftSum, KraftSumAt, slots

LEMMA KraftSumPrimed ==
  ASSUME UNCHANGED code_bits
  PROVE  KraftSum(lengths)' = KraftSum(lengths')
<1>1. (KraftSum(lengths) = KraftSumAt(code_bits, lengths))'
  BY KraftSumIsAt, PTL
<1>2. KraftSum(lengths') = KraftSumAt(code_bits, lengths')
  BY DEF KraftSum, KraftSumAt, slots
<1> HIDE DEF KraftSumAt
<1>3. QED
  BY <1>1, <1>2

\* The rarest candidate may grow: what is rarer is as long as can be, and its slots are
\* given back.
LEMMA GrowStep ==
  ASSUME code_bits \in CodeWidths, Infos(lengths), Lengthening, candidates # <<>>,
         NEW i, i = Head(candidates), lengths[i].len < code_bits,
         lengths' = [lengths EXCEPT ![i].len = lengthened(@)],
         occupied_slots' = occupied_slots - (slots(lengths[i].len) - slots(lengths[i].len) \div 4),
         UNCHANGED <<candidates, code_bits>>
  PROVE  Infos(lengths') /\ Lengthening'
<1> DEFINE n == Len(lengths)
           l(k) == lengths[k].len
           f(k) == lengths[k].frequency
           s(k) == lengths[k].symbol
           L == lengths'
           c == candidates
<1>1. code_bits \in Nat /\ code_bits % 2 = 0
  BY WidthType
<1>2. /\ n \in Nat /\ DOMAIN lengths = 1..n
      /\ \A k \in 1..n :
           /\ lengths[k] \in [symbol: Nat, len: Nat, frequency: Nat]
           /\ s(k) \in Nat /\ l(k) \in Nat /\ f(k) \in Nat /\ l(k) % 2 = 0
  BY InfoType
<1>3. \A k \in 1..n : l(k) <= code_bits
  BY DEF Lengthening
<1>4. /\ c \in Seq(1..n)
      /\ \A a, b \in 1..Len(c) : a < b => f(c[a]) <= f(c[b])
      /\ \A k \in 1..n : l(k) = code_bits \/ \E a \in 1..Len(c) : c[a] = k
  BY DEF Lengthening, Waiting
<1>5. Len(c) \in Nat /\ 1 \in 1..Len(c) /\ i = c[1] /\ i \in 1..n
  <2> DEFINE D == 1..n
  <2>1. c \in Seq(D) /\ c # <<>> /\ i = Head(c)
    BY <1>4
  <2> HIDE DEF D
  <2>2. Len(c) \in Nat /\ 1 \in 1..Len(c) /\ i = c[1] /\ c[1] \in D
    BY <2>1
  <2>3. QED
    BY <2>2 DEF D
<1>6. /\ l(i) + 2 <= code_bits /\ l(i) + 2 \in Nat /\ (l(i) + 2) % 2 = 0
  <2>1. l(i) \in Nat /\ l(i) % 2 = 0 /\ l(i) < code_bits
    BY <1>2, <1>5
  <2> HIDE DEF l
  <2>2. QED
    BY <1>1, <2>1
<1>7. ASSUME NEW k \in 1..n, f(i) > f(k) PROVE l(k) = code_bits
  <2>1. ASSUME NEW a \in 1..Len(c), c[a] = k PROVE FALSE
    <3>1. a # 1
      BY <1>2, <1>5, <1>7, <2>1
    <3>2. 1 < a
      BY <1>5, <3>1
    <3>3. f(c[1]) <= f(c[a])
      BY <1>4, <1>5, <3>2
    <3>4. f(i) <= f(k) /\ f(i) \in Nat /\ f(k) \in Nat
      BY <1>2, <1>5, <2>1, <3>3
    <3> HIDE DEF f
    <3>5. QED
      BY <1>7, <3>4
  <2>2. QED
    BY <1>4, <2>1
<1> DEFINE g(k) == IF k = i THEN l(k) + 2 ELSE l(k)
<1>8. L = [k \in 1..n |-> [lengths[k] EXCEPT !.len = g(k)]]
  <2>1. L = [lengths EXCEPT ![i] = [lengths[i] EXCEPT !.len = l(i) + 2]]
    BY DEF lengthened
  <2>2. DOMAIN L = 1..n /\ L = [k \in 1..n |-> L[k]]
    BY <1>2, <2>1
  <2>3. ASSUME NEW k \in 1..n PROVE L[k] = [lengths[k] EXCEPT !.len = g(k)]
    <3>1. CASE k = i
      BY <1>2, <1>5, <2>1, <3>1
    <3>2. CASE k # i
      <4>1. L[k] = lengths[k]
        BY <1>2, <2>1, <3>2
      <4>2. lengths[k] \in [symbol: Nat, len: Nat, frequency: Nat] /\ g(k) = lengths[k].len
        BY <1>2, <3>2
      <4>3. lengths[k] = [lengths[k] EXCEPT !.len = lengths[k].len]
        BY <4>2
      <4> HIDE DEF g
      <4>4. QED
        BY <4>1, <4>2, <4>3
    <3>3. QED
      BY <3>1, <3>2
  <2> HIDE DEF L, g
  <2>4. QED
    BY <2>2, <2>3
<1>9. \A k \in 1..n : g(k) \in Nat /\ g(k) % 2 = 0 /\ g(k) <= code_bits
  <2> HIDE DEF l, n
  <2> QED
    BY <1>2, <1>3, <1>6
<1>10. ASSUME NEW k \in 1..n
       PROVE  /\ L[k] \in [symbol: Nat, len: Nat, frequency: Nat]
              /\ L[k].symbol = s(k) /\ L[k].len = g(k) /\ L[k].frequency = f(k)
  <2>1. L[k] = [lengths[k] EXCEPT !.len = g(k)]
    BY <1>8
  <2>2. g(k) \in Nat /\ lengths[k] \in [symbol: Nat, len: Nat, frequency: Nat]
    BY <1>2, <1>9
  <2> HIDE DEF g, L
  <2>3. QED
    BY <2>1, <2>2
<1>11. L \in Seq([symbol: Nat, len: Nat, frequency: Nat]) /\ Len(L) = n /\ DOMAIN L = 1..n
  <2> DEFINE T == [symbol: Nat, len: Nat, frequency: Nat]
             z(k) == [lengths[k] EXCEPT !.len = g(k)]
  <2>1. L = [k \in 1..n |-> z(k)] /\ \A k \in 1..n : L[k] \in T
    BY <1>8, <1>10
  <2> HIDE DEF T, z, L
  <2>2. L \in [1..n -> T]
    BY <2>1
  <2>3. n \in Nat
    BY <1>2
  <2>4. L \in Seq(T) /\ Len(L) = n
    BY <2>2, <2>3
  <2>5. QED
    BY <2>2, <2>4 DEF T
<1>12. /\ \A k, m \in 1..n : s(k) = s(m) => k = m
       /\ \A k, m \in 1..n : f(k) > f(m) => l(k) <= l(m)
  BY DEF Infos, CommonShorter
<1>13. ASSUME NEW k \in 1..n, NEW m \in 1..n, f(k) > f(m) PROVE g(k) <= g(m)
  <2>1. l(k) <= l(m) /\ l(k) \in Nat /\ l(m) \in Nat
    BY <1>2, <1>12, <1>13
  <2>2. CASE k = i
    <3>1. l(m) = code_bits
      BY <1>7, <1>13, <2>2
    <3>2. g(k) <= code_bits /\ g(k) \in Nat /\ l(m) <= g(m) /\ g(m) \in Nat
      <4>1. g(k) <= code_bits /\ g(k) \in Nat /\ g(m) \in Nat
        BY <1>9
      <4> HIDE DEF l
      <4>2. l(m) <= g(m)
        BY <2>1
      <4>3. QED
        BY <4>1, <4>2
    <3> HIDE DEF l, g
    <3>3. QED
      BY <1>1, <3>1, <3>2
  <2>3. CASE k # i
    <3> HIDE DEF l
    <3> QED
      BY <2>1, <2>3
  <2>4. QED
    BY <2>2, <2>3
<1>14. Infos(L)
  <2> HIDE DEF L, n, l, f, s, g
  <2>1. \A k \in 1..Len(L) : L[k].len % 2 = 0
    BY <1>9, <1>10, <1>11
  <2>2. \A k, m \in 1..Len(L) : L[k].symbol = L[m].symbol => k = m
    BY <1>10, <1>11, <1>12
  <2>3. CommonShorter(L)
    BY <1>10, <1>11, <1>13 DEF CommonShorter
  <2>4. QED
    BY <1>11, <2>1, <2>2, <2>3 DEF Infos
<1>15. occupied_slots' = KraftSum(L)
  <2>1. ASSUME NEW k \in 1..n PROVE slots(lengths[k].len) \in Nat /\ slots(L[k].len) \in Nat
    <3>1. l(k) \in Nat /\ l(k) <= code_bits /\ g(k) \in Nat /\ g(k) <= code_bits /\ L[k].len = g(k)
      BY <1>2, <1>3, <1>9, <1>10
    <3> HIDE DEF g, L
    <3>2. QED
      BY <1>1, <3>1, SlotsType
  <2>2. \A k \in (1..n) \ {i} : L[k].len = lengths[k].len
    BY <1>10
  <2>3. /\ KraftSum(lengths) \in Nat
        /\ KraftSum(L) = KraftSum(lengths) - slots(lengths[i].len) + slots(L[i].len)
    <3> HIDE DEF L, l, g, n
    <3>1. OneChanges(lengths, L, n, i) /\ n \in Nat /\ i \in 1..n
      BY <1>2, <1>5, <1>11, <2>1, <2>2 DEF OneChanges
    <3>2. QED
      BY <3>1, KraftSumStep
  <2>4. L[i].len = l(i) + 2
    BY <1>5, <1>10
  <2>5. /\ slots(l(i)) \in Nat /\ slots(l(i) + 2) \in Nat
        /\ slots(l(i)) \div 4 = slots(l(i) + 2)
    <3>1. l(i) \in Nat
      BY <1>2, <1>5
    <3> HIDE DEF l
    <3>2. QED
      BY <1>1, <1>6, <3>1, QuarterSlots
  <2>6. occupied_slots = KraftSum(lengths)
    BY DEF Lengthening
  <2> DEFINE x == KraftSum(lengths)
             y == slots(l(i))
             q == slots(l(i) + 2)
  <2>7. x \in Nat /\ y \in Nat /\ q \in Nat /\ KraftSum(L) = x - y + q /\ occupied_slots' = x - (y - q)
    <3> HIDE DEF L
    <3> QED
      BY <2>3, <2>4, <2>5, <2>6
  <2> HIDE DEF x, y, q, L
  <2>8. QED
    BY <2>7
<1>16. Lengthening'
  <2>1. code_bits' = code_bits /\ candidates' = c
    OBVIOUS
  <2>2. \A k \in 1..Len(L) : L[k].len <= code_bits'
    BY <1>9, <1>10, <1>11
  <2>3. occupied_slots' = KraftSum(lengths)'
    BY <1>15, KraftSumPrimed
  <2>4. c \in Seq(1..Len(L))
    BY <1>4, <1>11
  <2>5. ASSUME NEW a \in 1..Len(c), NEW b \in 1..Len(c), a < b
        PROVE  L[c[a]].frequency <= L[c[b]].frequency
    <3>1. c[a] \in 1..n /\ c[b] \in 1..n
      BY <1>4
    <3>2. QED
      BY <1>4, <1>10, <2>5, <3>1
  <2>6. ASSUME NEW k \in 1..Len(L) PROVE L[k].len = code_bits' \/ \E a \in 1..Len(c) : c[a] = k
    <3>1. CASE k = i
      BY <1>5, <3>1
    <3>2. CASE k # i
      <4>1. L[k].len = l(k) /\ k \in 1..n
        BY <1>10, <1>11, <3>2
      <4>2. QED
        BY <1>4, <4>1
    <3>3. QED
      BY <3>1, <3>2
  <2>7. Waiting(lengths, candidates)'
    <3>1. /\ (candidates \in Seq(1..Len(lengths)))'
          /\ (\A a, b \in 1..Len(candidates) :
                a < b => lengths[candidates[a]].frequency <= lengths[candidates[b]].frequency)'
          /\ (\A k \in 1..Len(lengths) :
                lengths[k].len = code_bits \/ \E a \in 1..Len(candidates) : candidates[a] = k)'
      BY <2>1, <2>4, <2>5, <2>6
    <3>2. QED
      BY <3>1 DEF Waiting
  <2>8. QED
    BY <2>2, <2>3, <2>7 DEF Lengthening
<1>17. QED
  BY <1>14, <1>16

\* A candidate at the limit is done with.
LEMMA DropStep ==
  ASSUME code_bits \in CodeWidths, Infos(lengths), Lengthening, candidates # <<>>,
         NEW i, i = Head(candidates), ~(lengths[i].len < code_bits),
         candidates' = Tail(candidates), UNCHANGED <<lengths, occupied_slots, code_bits>>
  PROVE  Lengthening'
<1> DEFINE n == Len(lengths)
           c == candidates
           t == Tail(candidates)
<1>1. code_bits \in Nat
  BY WidthType
<1>2. \A k \in 1..n : lengths[k].len \in Nat
  BY InfoType
<1>3. \A k \in 1..n : lengths[k].len <= code_bits
  BY DEF Lengthening
<1>4. /\ c \in Seq(1..n)
      /\ \A a, b \in 1..Len(c) : a < b => lengths[c[a]].frequency <= lengths[c[b]].frequency
      /\ \A k \in 1..n : lengths[k].len = code_bits \/ \E a \in 1..Len(c) : c[a] = k
  BY DEF Lengthening, Waiting
<1>5. /\ Len(c) \in Nat /\ i = c[1] /\ i \in 1..n
      /\ t \in Seq(1..n) /\ Len(t) = Len(c) - 1 /\ Len(t) \in Nat
      /\ \A a \in 1..Len(t) : t[a] = c[a + 1]
  <2> DEFINE D == 1..n
  <2>1. c \in Seq(D) /\ c # <<>> /\ i = Head(c)
    BY <1>4
  <2> HIDE DEF D
  <2>2. Len(c) \in Nat /\ i = c[1] /\ c[1] \in D /\ t \in Seq(D) /\ Len(t) = Len(c) - 1
    BY <2>1
  <2>3. \A a \in 1..Len(t) : t[a] = c[a + 1]
    BY <2>1
  <2>4. Len(t) \in Nat
    BY <2>2
  <2>5. QED
    BY <2>2, <2>3, <2>4 DEF D
<1>6. lengths[i].len = code_bits
  BY <1>1, <1>2, <1>3, <1>5
<1> HIDE DEF n, t
<1>7. ASSUME NEW a \in 1..Len(t), NEW b \in 1..Len(t), a < b
      PROVE  lengths[t[a]].frequency <= lengths[t[b]].frequency
  <2>1. a + 1 \in 1..Len(c) /\ b + 1 \in 1..Len(c) /\ a + 1 < b + 1
    BY <1>5, <1>7
  <2>2. QED
    BY <1>4, <1>5, <2>1
<1>8. ASSUME NEW k \in 1..n PROVE lengths[k].len = code_bits \/ \E a \in 1..Len(t) : t[a] = k
  <2>1. CASE k = i
    BY <1>6, <2>1
  <2>2. ASSUME NEW a \in 1..Len(c), c[a] = k, k # i PROVE \E b \in 1..Len(t) : t[b] = k
    <3>1. a # 1
      BY <1>5, <2>2
    <3>2. a - 1 \in 1..Len(t) /\ (a - 1) + 1 = a
      BY <1>5, <3>1
    <3>3. t[a - 1] = k
      BY <1>5, <2>2, <3>2
    <3>4. QED
      BY <3>2, <3>3
  <2>3. QED
    BY <1>4, <2>1, <2>2
<1>9. Waiting(lengths, candidates)'
  <2>1. candidates' = t /\ lengths' = lengths /\ code_bits' = code_bits
    BY DEF t
  <2>2. t \in Seq(1..Len(lengths))
    BY <1>5 DEF n
  <2>3. \A k \in 1..Len(lengths) : lengths[k].len = code_bits \/ \E a \in 1..Len(t) : t[a] = k
    BY <1>8 DEF n
  <2>4. /\ (candidates \in Seq(1..Len(lengths)))'
        /\ (\A a, b \in 1..Len(candidates) :
              a < b => lengths[candidates[a]].frequency <= lengths[candidates[b]].frequency)'
        /\ (\A k \in 1..Len(lengths) :
              lengths[k].len = code_bits \/ \E a \in 1..Len(candidates) : candidates[a] = k)'
    BY <1>7, <2>1, <2>2, <2>3
  <2>5. QED
    BY <2>4 DEF Waiting
<1>10. occupied_slots' = KraftSum(lengths)'
  <2>1. KraftSum(lengths)' = KraftSum(lengths')
    BY KraftSumPrimed
  <2>2. occupied_slots = KraftSum(lengths) /\ lengths' = lengths /\ occupied_slots' = occupied_slots
    BY DEF Lengthening
  <2>3. QED
    BY <2>1, <2>2
<1>11. \A k \in 1..Len(lengths') : lengths'[k].len <= code_bits'
  BY <1>3 DEF n
<1>12. QED
  BY <1>9, <1>10, <1>11 DEF Lengthening

\* Cutting the lengths at the limit, and what limit_code_lengths goes on with.
LEMMA LimitStep ==
  ASSUME code_bits \in CodeWidths, Infos(lengths), LimitCodeLengths
  PROVE  /\ pc' \in {"craft", "lengthen"}
         /\ pc' = "craft" => CommonShorter(lengths')
         /\ pc' = "lengthen" => Infos(lengths') /\ Lengthening'
<1>1. code_bits \in Nat
  BY WidthType
<1>2. /\ Infos(Capped) /\ Len(Capped) = Len(lengths)
      /\ \A i \in 1..Len(lengths) : Capped[i].len <= code_bits
  BY CappedInfos
<1>3. code_bits' = code_bits
  BY DEF LimitCodeLengths
<1>4. CASE BeginCraft(Capped)
  <2>1. pc' = "craft" /\ lengths' = sorted(Capped)
    BY <1>4 DEF BeginCraft
  <2>2. CommonShorter(sorted(Capped))
    BY <1>2, SortedShorter
  <2>3. QED
    BY <2>1, <2>2
<1>5. CASE /\ pc' = "lengthen" /\ lengths' = Capped /\ occupied_slots' = KraftSum(Capped)
           /\ candidates' = Growing(Capped)
  <2>1. Waiting(Capped, Growing(Capped))
    BY <1>1, <1>2, CandidatesWait
  <2> DEFINE L == Capped
             c == Growing(Capped)
  <2>2. lengths' = L /\ candidates' = c
    BY <1>5
  <2>3. /\ c \in Seq(1..Len(L))
        /\ \A a, b \in 1..Len(c) : a < b => L[c[a]].frequency <= L[c[b]].frequency
        /\ \A i \in 1..Len(L) : L[i].len = code_bits \/ \E a \in 1..Len(c) : c[a] = i
    BY <2>1 DEF Waiting
  <2> HIDE DEF L, c
  <2>4. Waiting(lengths, candidates)'
    <3>1. /\ (candidates \in Seq(1..Len(lengths)))'
          /\ (\A a, b \in 1..Len(candidates) :
                a < b => lengths[candidates[a]].frequency <= lengths[candidates[b]].frequency)'
          /\ (\A k \in 1..Len(lengths) :
                lengths[k].len = code_bits \/ \E a \in 1..Len(candidates) : candidates[a] = k)'
      BY <1>3, <2>2, <2>3
    <3>2. QED
      BY <3>1 DEF Waiting
  <2>5. occupied_slots' = KraftSum(lengths)'
    <3>1. KraftSum(lengths)' = KraftSum(lengths')
      BY <1>3, KraftSumPrimed
    <3>2. QED
      BY <1>5, <3>1
  <2>6. \A k \in 1..Len(lengths') : lengths'[k].len <= code_bits'
    BY <1>2, <1>3, <1>5
  <2>7. Lengthening'
    BY <2>4, <2>5, <2>6 DEF Lengthening
  <2>8. QED
    BY <1>2, <1>5, <2>7
<1>6. \/ BeginCraft(Capped)
      \/ /\ pc' = "lengthen" /\ lengths' = Capped /\ occupied_slots' = KraftSum(Capped)
         /\ candidates' = Ordered({i \in 1..alph_size : can_grow(Capped[i])},
                            LAMBDA i, k : rarer(Capped[i], Capped[k]))
  BY DEF LimitCodeLengths, Capped
<1>7. Ordered({i \in 1..alph_size : can_grow(Capped[i])}, LAMBDA i, k : rarer(Capped[i], Capped[k]))
        = Growing(Capped)
  BY <1>2 DEF Growing, alph_size
<1>8. QED
  BY <1>4, <1>5, <1>6, <1>7

\* One step of the loop, or its end.
LEMMA LengthenStep ==
  ASSUME code_bits \in CodeWidths, Infos(lengths), Lengthening, Lengthen
  PROVE  /\ pc' \in {"craft", "lengthen", "panic"}
         /\ pc' = "craft" => CommonShorter(lengths')
         /\ pc' = "lengthen" => Infos(lengths') /\ Lengthening'
<1>1. code_bits' = code_bits /\ pc = "lengthen"
  BY DEF Lengthen
<1>2. CASE BeginCraft(lengths)
  <2>1. pc' = "craft" /\ lengths' = sorted(lengths)
    BY <1>2 DEF BeginCraft
  <2>2. CommonShorter(sorted(lengths))
    BY SortedShorter
  <2>3. QED
    BY <2>1, <2>2
<1>3. CASE pc' = "panic"
  BY <1>3
<1> DEFINE i == Head(candidates)
<1>4. CASE /\ candidates # <<>> /\ lengths[i].len < code_bits /\ pc' = pc
           /\ lengths' = [lengths EXCEPT ![i].len = lengthened(@)]
           /\ occupied_slots' = occupied_slots - (slots(lengths[i].len) - slots(lengths[i].len) \div 4)
           /\ UNCHANGED candidates
  <2>1. Infos(lengths') /\ Lengthening'
    BY <1>1, <1>4, GrowStep
  <2>2. QED
    BY <1>1, <1>4, <2>1
<1>5. CASE /\ candidates # <<>> /\ ~(lengths[i].len < code_bits) /\ pc' = pc
           /\ candidates' = Tail(candidates) /\ UNCHANGED <<lengths, occupied_slots>>
  <2>1. Lengthening'
    BY <1>1, <1>5, DropStep
  <2>2. QED
    BY <1>1, <1>5, <2>1
<1>6. QED
  BY <1>2, <1>3, <1>4, <1>5 DEF Lengthen

LEMMA LengthsInvHolds == Spec => []LengthsInv
<1>1. Init => LengthsInv
  BY DEF Init, LengthsInv
<1>2. LengthsInv /\ [Next]_vars => LengthsInv'
  <2> SUFFICES ASSUME LengthsInv, [Next]_vars PROVE LengthsInv'
    OBVIOUS
  <2>1. /\ data \in Inputs /\ code_bits \in CodeWidths
        /\ pc \in {"limit", "lengthen"} => Infos(lengths)
        /\ pc = "lengthen" => Lengthening
        /\ pc = "craft" => CommonShorter(lengths)
    BY DEF LengthsInv
  <2>2. data' = data /\ code_bits' = code_bits
    BY DEF Next, vars, CodeLengths, LimitCodeLengths, Lengthen, Expand, Assign, DecodeTable,
           Level, Store, FromParts
  <2>3. CASE CodeLengths
    <3>1. pc' = "built" \/ pc' = "limit"
      BY <2>3 DEF CodeLengths
    <3>2. pc' = "limit" => Infos(lengths')
      BY <2>1, <2>3, CodeLengthsGiven
    <3>3. QED
      BY <2>1, <2>2, <3>1, <3>2 DEF LengthsInv
  <2>4. CASE LimitCodeLengths
    <3>1. pc = "limit"
      BY <2>4 DEF LimitCodeLengths
    <3>2. /\ pc' \in {"craft", "lengthen"}
          /\ pc' = "craft" => CommonShorter(lengths')
          /\ pc' = "lengthen" => Infos(lengths') /\ Lengthening'
      BY <2>1, <2>4, <3>1, LimitStep
    <3>3. QED
      BY <2>1, <2>2, <3>2 DEF LengthsInv
  <2>5. CASE Lengthen
    <3>1. pc = "lengthen"
      BY <2>5 DEF Lengthen
    <3>2. /\ pc' \in {"craft", "lengthen", "panic"}
          /\ pc' = "craft" => CommonShorter(lengths')
          /\ pc' = "lengthen" => Infos(lengths') /\ Lengthening'
      BY <2>1, <2>5, <3>1, LengthenStep
    <3>3. QED
      BY <2>1, <2>2, <3>2 DEF LengthsInv
  <2>6. CASE Expand \/ Assign \/ DecodeTable \/ Level \/ Store \/ FromParts
    <3>1. /\ lengths' = lengths
          /\ pc' = pc \/ pc' \in {"panic", "level", "built", "parts", "rejected"}
          /\ pc \notin {"limit", "lengthen"}
      BY <2>6 DEF Expand, Assign, DecodeTable, Level, Store, FromParts
    <3>2. QED
      BY <2>1, <2>2, <3>1 DEF LengthsInv
  <2>7. CASE UNCHANGED vars
    <3>1. lengths' = lengths /\ pc' = pc /\ candidates' = candidates /\ occupied_slots' = occupied_slots
      BY <2>7 DEF vars
    <3>2. KraftSum(lengths)' = KraftSum(lengths)
      <4>1. KraftSum(lengths)' = KraftSum(lengths')
        BY <2>2, KraftSumPrimed
      <4>2. QED
        BY <3>1, <4>1
    <3>3. Waiting(lengths, candidates) => Waiting(lengths, candidates)'
      BY <2>2, <3>1 DEF Waiting
    <3>4. Lengthening => Lengthening'
      BY <2>2, <3>1, <3>2, <3>3 DEF Lengthening
    <3>5. QED
      BY <2>1, <2>2, <3>1, <3>4 DEF LengthsInv
  <2>8. QED
    BY <2>3, <2>4, <2>5, <2>6, <2>7 DEF Next
<1>3. QED
  BY <1>1, <1>2, PTL DEF Spec

\* limit_code_lengths "retains the useful short codes for common symbols", whatever lengths
\* the coder gives and however far they have to be cut: when craft_wm_codes begins, no symbol
\* has a longer code than a rarer one, and all along the occupied slots are counted right.
THEOREM CommonCodesAreShorter == Spec => []CommonCodesShorter
<1>1. LengthsInv => CommonCodesShorter
  BY DEF LengthsInv, Lengthening, CommonShorter, CommonCodesShorter, alph_size
<1>2. QED
  BY <1>1, LengthsInvHolds, PTL

------------------------------------------------------------------------------
(* Powers of two, and the digits of a number.                              *)

\* Exponents add up.
LEMMA PowerAdd ==
  ASSUME NEW a \in Nat, NEW b \in Nat
  PROVE  2 ^ (a + b) = 2 ^ a * 2 ^ b
<1> DEFINE Bad == {k \in Nat : 2 ^ (a + k) # 2 ^ a * 2 ^ k}
<1> SUFFICES ASSUME Bad # {} PROVE FALSE
  OBVIOUS
<1>1. PICK k \in Bad : \A i \in Bad : k <= i
  <2>1. Bad \in SUBSET Nat
    OBVIOUS
  <2> HIDE DEF Bad
  <2>2. QED
    BY <2>1, LeastNat
<1>2. k \in Nat /\ 2 ^ (a + k) # 2 ^ a * 2 ^ k
  BY <1>1
<1>3. 2 ^ 0 = 1
  BY FS_EmptySet, FS_SUBSET
<1>4. k # 0
  <2>1. 2 ^ a \in Nat /\ a + 0 = a
    BY PowerStep
  <2>2. k = 0 => 2 ^ (a + k) = 2 ^ a /\ 2 ^ k = 1
    BY <1>3, <2>1
  <2> DEFINE p == 2 ^ a
  <2> HIDE DEF p, Bad
  <2>3. p * 1 = p
    BY <2>1 DEF p
  <2>4. QED
    BY <1>2, <2>2, <2>3 DEF p
<1> DEFINE i == k - 1
<1>5. i \in Nat /\ k = i + 1 /\ a + k = (a + i) + 1 /\ a + i \in Nat /\ i < k
  BY <1>2, <1>4
<1> HIDE DEF i
<1>6. 2 ^ (a + i) = 2 ^ a * 2 ^ i
  <2>1. i \notin Bad
    <3> HIDE DEF Bad
    <3> QED
      BY <1>1, <1>2, <1>5
  <2>2. QED
    BY <1>5, <2>1
<1>7. /\ 2 ^ a \in Nat /\ 2 ^ i \in Nat /\ 2 ^ (i + 1) = 2 * 2 ^ i
      /\ 2 ^ ((a + i) + 1) = 2 * 2 ^ (a + i)
  BY <1>5, PowerStep
<1> DEFINE p == 2 ^ a
           q == 2 ^ i
<1>8. p \in Nat /\ q \in Nat /\ 2 ^ (a + k) = 2 * (p * q) /\ 2 ^ k = 2 * q
  BY <1>5, <1>6, <1>7
<1> HIDE DEF p, q, Bad
<1>9. 2 * (p * q) = p * (2 * q)
  BY <1>8
<1>10. QED
  BY <1>2, <1>8, <1>9 DEF p

\* A power of two divides the larger ones: what is added above a digit does not
\* change those below.
LEMMA LowDigits ==
  ASSUME NEW a \in Nat, NEW b \in Nat, a <= b, NEW x \in Nat, NEW q \in Nat
  PROVE  (x + q * 2 ^ b) % 2 ^ a = x % 2 ^ a
<1> DEFINE P == 2 ^ a
           R == 2 ^ (b - a)
<1>1. b - a \in Nat /\ a + (b - a) = b
  OBVIOUS
<1>2. 2 ^ b = P * R /\ P \in Nat \ {0} /\ R \in Nat
  BY <1>1, PowerAdd, PowerStep
<1> DEFINE z == 2 ^ b
<1>3. z = P * R
  BY <1>2
<1> HIDE DEF P, R, z
<1> DEFINE u == x \div P
           r == x % P
<1>4. u \in Nat /\ r \in 0..(P - 1) /\ x = P * u + r
  BY <1>2, DivMod
<1> HIDE DEF u, r
<1> DEFINE w == u + q * R
           y == x + q * z
<1>5. q * R \in Nat /\ q * z = P * (q * R)
  BY <1>2, <1>3
<1>6. w \in Int /\ y \in Nat /\ y = P * w + r
  <2> DEFINE t == q * R
  <2>1. t \in Nat /\ w = u + t /\ y = x + P * t
    BY <1>5
  <2> HIDE DEF t, w, y
  <2>2. P * (u + t) = P * u + P * t /\ P * t \in Nat
    BY <1>2, <1>4, <2>1
  <2>3. QED
    BY <1>2, <1>4, <2>1, <2>2
<1> HIDE DEF w, y
<1>7. y % P = r
  BY <1>2, <1>4, <1>6, DivUnique
<1>8. QED
  BY <1>7 DEF y, r, P, z

\* A number below a power of two is its own remainder.
LEMMA SmallMod ==
  ASSUME NEW d \in Nat \ {0}, NEW x \in Nat, x < d
  PROVE  x % d = x
OBVIOUS

------------------------------------------------------------------------------
(* The open nodes of craft_wm_codes.                                       *)

\* The depths d of n codes, growing, in digits of two bits and at most b.
Depths(d, n, b) ==
  /\ n \in Nat /\ b \in Nat /\ d \in [1..n -> Nat]
  /\ \A k \in 1..n : d[k] % 2 = 0 /\ 2 <= d[k] /\ d[k] <= b
  /\ \A i, k \in 1..n : i < k => d[i] <= d[k]

\* The slots that the codes after the first j need.
Needed(d, n, b, j) == Total([k \in 1..n |-> 2 ^ (b - d[k])], (j + 1)..n)

\* craft_wm_codes: c[0..j-1] are the nodes of the codes given, c[j..m-1] the open nodes
\* at depth l, enough for the codes to come.  No open node and no later code is below
\* the node of a code.
Nodes(d, n, b, c, m, l, j) ==
  /\ j \in 0..n /\ m \in Nat /\ j <= m /\ m <= 4 * n
  /\ l \in Nat /\ l % 2 = 0 /\ l <= b
  /\ c \in [0..(4 * n - 1) -> Nat]
  /\ \A k \in 1..n : IF k <= j THEN d[k] <= l ELSE l <= d[k]
  /\ Needed(d, n, b, j) <= (m - j) * 2 ^ (b - l)
  /\ \A x \in j..(m - 1) : c[x] < 2 ^ l
  /\ \A x, y \in j..(m - 1) : x # y => c[x] # c[y]
  /\ \A k \in 1..j : c[k - 1] < 2 ^ d[k]
  /\ \A k \in 1..j : \A x \in k..(m - 1) : c[x] % 2 ^ d[k] # c[k - 1]

\* The slots needed are a number, and one code less needs its slots less.
LEMMA NeededStep ==
  ASSUME NEW d, NEW n, NEW b, Depths(d, n, b), NEW j \in 0..n
  PROVE  /\ Needed(d, n, b, j) \in Nat
         /\ j < n => Needed(d, n, b, j) = 2 ^ (b - d[j + 1]) + Needed(d, n, b, j + 1)
<1> DEFINE g == [k \in 1..n |-> 2 ^ (b - d[k])]
           e == [k \in 0..n |-> IF k = 0 THEN 0 ELSE g[k]]
           M == n + 1
<1>1. n \in Nat /\ j \in Nat /\ j <= n
  BY DEF Depths
<1>2. \A k \in 1..n : g[k] = 2 ^ (b - d[k]) /\ g[k] \in Nat
  <2> SUFFICES ASSUME NEW k \in 1..n PROVE 2 ^ (b - d[k]) \in Nat
    OBVIOUS
  <2>1. b - d[k] \in Nat
    BY DEF Depths
  <2> DEFINE x == b - d[k]
  <2> HIDE DEF x
  <2>2. 2 ^ x \in Nat
    BY <2>1, PowerStep DEF x
  <2>3. QED
    BY <2>2 DEF x
<1>3. \A i \in Nat : Needed(d, n, b, i) = Total(g, (i + 1)..n)
  BY DEF Needed
<1> HIDE DEF g
<1>4. M \in Nat /\ \A k \in 0..(M - 1) : e[k] \in Nat
  BY <1>1, <1>2
<1>5. \A k \in 1..n : e[k] = g[k]
  BY <1>1
<1>6. \A i \in Nat : (i + 1)..n \in SUBSET (0..(M - 1)) /\ Agrees(e, g, (i + 1)..n)
  BY <1>1, <1>5 DEF Agrees
<1> HIDE DEF e, M
<1>7. PICK F : Additive(F, e, M)
  BY <1>4, SumsExist
<1>8. ASSUME NEW i \in Nat PROVE Total(g, (i + 1)..n) = F[(i + 1)..n] /\ F[(i + 1)..n] \in Nat
  <2> DEFINE S == (i + 1)..n
  <2>1. S \in SUBSET (0..(M - 1)) /\ Agrees(e, g, S)
    BY <1>6
  <2> HIDE DEF S
  <2>2. Total(g, S) = F[S]
    BY <1>4, <1>7, <2>1, TotalIs
  <2>3. F[S] \in Nat
    BY <1>7, <2>1 DEF Additive
  <2>4. QED
    BY <2>2, <2>3 DEF S
<1>9. Needed(d, n, b, j) \in Nat
  BY <1>1, <1>3, <1>8
<1>10. ASSUME j < n PROVE Needed(d, n, b, j) = 2 ^ (b - d[j + 1]) + Needed(d, n, b, j + 1)
  <2> DEFINE S == (j + 1)..n
             T == ((j + 1) + 1)..n
  <2>1. S \in SUBSET (0..(M - 1)) /\ j + 1 \in S /\ T = S \ {j + 1}
    BY <1>1, <1>6, <1>10
  <2>2. e[j + 1] = 2 ^ (b - d[j + 1])
    BY <1>1, <1>2, <1>5, <1>10
  <2>3. Needed(d, n, b, j) = F[S] /\ Needed(d, n, b, j + 1) = F[T]
    <3>1. \A i \in Nat : Needed(d, n, b, i) = F[(i + 1)..n]
      BY <1>3, <1>8
    <3>2. j \in Nat /\ j + 1 \in Nat
      BY <1>1
    <3>3. QED
      BY <3>1, <3>2
  <2> HIDE DEF S, T
  <2>4. F[S] = e[j + 1] + F[S \ {j + 1}]
    BY <1>7, <2>1 DEF Additive
  <2>5. QED
    BY <2>1, <2>2, <2>3, <2>4
<1>11. QED
  BY <1>9, <1>10

\* As long as there is a code to give there is an open node.
LEMMA NodeIsOpen ==
  ASSUME NEW d, NEW n, NEW b, Depths(d, n, b), NEW c, NEW m, NEW l, NEW j,
         Nodes(d, n, b, c, m, l, j), j < n
  PROVE  /\ j < m /\ l \in Nat /\ b - l \in Nat
         /\ l < d[j + 1] => l + 2 <= b
         /\ d[j + 1] <= l => d[j + 1] = l
<1>1. /\ j \in 0..n /\ m \in Nat /\ j <= m /\ l \in Nat /\ l % 2 = 0 /\ l <= b
      /\ \A k \in 1..n : IF k <= j THEN d[k] <= l ELSE l <= d[k]
      /\ Needed(d, n, b, j) <= (m - j) * 2 ^ (b - l)
  BY DEF Nodes
<1>2. n \in Nat /\ b \in Nat /\ j + 1 \in 1..n /\ d[j + 1] \in Nat /\ d[j + 1] % 2 = 0 /\ d[j + 1] <= b
  BY <1>1 DEF Depths
<1>3. l <= d[j + 1]
  BY <1>1, <1>2
<1>4. Needed(d, n, b, j) = 2 ^ (b - d[j + 1]) + Needed(d, n, b, j + 1) /\ Needed(d, n, b, j + 1) \in Nat
  <2>1. j + 1 \in 0..n
    BY <1>1, <1>2
  <2>2. QED
    BY <1>1, <2>1, NeededStep
<1> DEFINE a == d[j + 1]
           x == b - a
           p == 2 ^ x
           w == Needed(d, n, b, j)
           v == Needed(d, n, b, j + 1)
<1>5. x \in Nat
  BY <1>2
<1> HIDE DEF x
<1>6. p \in Nat \ {0}
  BY <1>5, PowerStep
<1>7. w = p + v /\ v \in Nat
  BY <1>4 DEF x
<1>8. b - l \in Nat
  BY <1>1, <1>2
<1> DEFINE q == 2 ^ (b - l)
<1>9. q \in Nat
  BY <1>8, PowerStep
<1>10. w <= (m - j) * q
  BY <1>1
<1> HIDE DEF p, w, v, q
<1>11. m # j
  <2> SUFFICES ASSUME m = j PROVE FALSE
    OBVIOUS
  <2>1. m - j = 0
    BY <1>1
  <2>2. 0 * q = 0
    BY <1>9
  <2>3. w <= 0
    BY <1>10, <2>1, <2>2
  <2>4. QED
    BY <1>6, <1>7, <2>3
<1>12. j < m
  BY <1>1, <1>11
<1>13. l < a => l + 2 <= b
  <2>1. a \in Nat /\ a % 2 = 0 /\ a <= b
    BY <1>2
  <2> HIDE DEF a
  <2>2. QED
    BY <1>1, <1>2, <2>1
<1>14. a <= l => a = l
  <2>1. a \in Nat /\ l <= a
    BY <1>2, <1>3
  <2> HIDE DEF a
  <2>2. QED
    BY <1>1, <2>1
<1>15. QED
  BY <1>1, <1>8, <1>12, <1>13, <1>14

\* The first open node goes to the next code.
LEMMA AssignNodes ==
  ASSUME NEW d, NEW n, NEW b, Depths(d, n, b), NEW c, NEW m, NEW l, NEW j,
         Nodes(d, n, b, c, m, l, j), j < n, d[j + 1] <= l
  PROVE  Nodes(d, n, b, c, m, l, j + 1)
<1>1. /\ j \in 0..n /\ m \in Nat /\ j <= m /\ m <= 4 * n
      /\ l \in Nat /\ l % 2 = 0 /\ l <= b
      /\ c \in [0..(4 * n - 1) -> Nat]
      /\ \A k \in 1..n : IF k <= j THEN d[k] <= l ELSE l <= d[k]
      /\ Needed(d, n, b, j) <= (m - j) * 2 ^ (b - l)
  BY DEF Nodes
<1>2. /\ \A x \in j..(m - 1) : c[x] < 2 ^ l
      /\ \A x, y \in j..(m - 1) : x # y => c[x] # c[y]
      /\ \A k \in 1..j : c[k - 1] < 2 ^ d[k]
      /\ \A k \in 1..j : \A x \in k..(m - 1) : c[x] % 2 ^ d[k] # c[k - 1]
  BY DEF Nodes
<1>3. n \in Nat /\ b \in Nat /\ j + 1 \in 1..n /\ d \in [1..n -> Nat]
  <2>1. n \in Nat /\ b \in Nat /\ d \in [1..n -> Nat] /\ j \in 0..n
    BY DEF Depths, Nodes
  <2>2. QED
    BY <2>1
<1>4. j < m /\ b - l \in Nat /\ d[j + 1] = l
  BY NodeIsOpen
<1>5. ASSUME NEW k \in 1..n PROVE IF k <= j + 1 THEN d[k] <= l ELSE l <= d[k]
  <2>1. CASE k = j + 1
    BY <1>1, <1>3, <1>4, <2>1
  <2>2. CASE k # j + 1
    <3>1. (k <= j + 1) = (k <= j)
      BY <1>1, <1>3, <2>2
    <3>2. QED
      BY <1>1, <3>1
  <2>3. QED
    BY <2>1, <2>2
<1>6. Needed(d, n, b, j + 1) <= (m - (j + 1)) * 2 ^ (b - l)
  <2>1. Needed(d, n, b, j) = 2 ^ (b - d[j + 1]) + Needed(d, n, b, j + 1)
    BY <1>1, NeededStep
  <2>2. Needed(d, n, b, j + 1) \in Nat
    <3>1. j + 1 \in 0..n
      BY <1>1, <1>3
    <3>2. QED
      BY <3>1, NeededStep
  <2> DEFINE q == 2 ^ (b - l)
             v == Needed(d, n, b, j + 1)
             t == m - (j + 1)
  <2>3. q \in Nat
    BY <1>4, PowerStep
  <2>4. t \in Nat /\ m - j = t + 1
    BY <1>1, <1>3, <1>4
  <2>5. q + v <= (t + 1) * q /\ v \in Nat
    BY <1>1, <1>4, <2>1, <2>2, <2>4
  <2> HIDE DEF q, v, t
  <2>6. (t + 1) * q = t * q + q
    BY <2>3, <2>4
  <2>7. v <= t * q
    BY <2>3, <2>4, <2>5, <2>6
  <2>8. QED
    BY <2>7 DEF v, t, q
<1>7. \A x \in (j + 1)..(m - 1) : x \in j..(m - 1) /\ c[x] \in Nat
  BY <1>1, <1>3
<1>8. j \in j..(m - 1) /\ c[j] \in Nat
  BY <1>1, <1>3, <1>4
<1>9. 2 ^ l \in Nat \ {0}
  BY <1>1, PowerStep
<1>10. ASSUME NEW k \in 1..(j + 1) PROVE c[k - 1] < 2 ^ d[k]
  <2>1. CASE k = j + 1
    <3>1. k - 1 = j /\ d[k] = l
      BY <1>1, <1>4, <2>1
    <3>2. QED
      BY <1>2, <1>8, <3>1
  <2>2. CASE k # j + 1
    <3>1. k \in 1..j
      BY <1>1, <2>2
    <3>2. QED
      BY <1>2, <3>1
  <2>3. QED
    BY <2>1, <2>2
<1>11. ASSUME NEW k \in 1..(j + 1), NEW x \in k..(m - 1) PROVE c[x] % 2 ^ d[k] # c[k - 1]
  <2>1. CASE k = j + 1
    <3>1. k - 1 = j /\ d[k] = l /\ x \in j..(m - 1) /\ x # j /\ c[x] \in Nat
      <4>1. x \in (j + 1)..(m - 1)
        BY <2>1
      <4>2. QED
        BY <1>1, <1>4, <1>7, <2>1, <4>1
    <3>2. c[x] # c[j] /\ c[x] < 2 ^ l
      BY <1>2, <1>8, <3>1
    <3> DEFINE p == 2 ^ l
    <3> HIDE DEF p
    <3>3. c[x] % p = c[x]
      BY <1>9, <3>1, <3>2, SmallMod DEF p
    <3>4. QED
      BY <3>1, <3>2, <3>3 DEF p
  <2>2. CASE k # j + 1
    <3>1. k \in 1..j
      BY <1>1, <2>2
    <3>2. QED
      BY <1>2, <3>1
  <2>3. QED
    BY <2>1, <2>2
<1>12. j + 1 \in 0..n /\ j + 1 <= m
  BY <1>1, <1>3, <1>4
<1>13. /\ \A x \in (j + 1)..(m - 1) : c[x] < 2 ^ l
       /\ \A x, y \in (j + 1)..(m - 1) : x # y => c[x] # c[y]
  BY <1>2, <1>7
<1>14. /\ m \in Nat /\ m <= 4 * n /\ l \in Nat /\ l % 2 = 0 /\ l <= b
       /\ c \in [0..(4 * n - 1) -> Nat]
  BY <1>1
<1> DEFINE i == j + 1
<1>15. /\ i \in 0..n /\ i <= m
       /\ \A k \in 1..n : IF k <= i THEN d[k] <= l ELSE l <= d[k]
       /\ Needed(d, n, b, i) <= (m - i) * 2 ^ (b - l)
  BY <1>5, <1>6, <1>12
<1>16. /\ \A x \in i..(m - 1) : c[x] < 2 ^ l
       /\ \A x, y \in i..(m - 1) : x # y => c[x] # c[y]
       /\ \A k \in 1..i : c[k - 1] < 2 ^ d[k]
       /\ \A k \in 1..i : \A x \in k..(m - 1) : c[x] % 2 ^ d[k] # c[k - 1]
  BY <1>10, <1>11, <1>13
<1> HIDE DEF i
<1>17. Nodes(d, n, b, c, m, l, i)
  BY <1>14, <1>15, <1>16 DEF Nodes
<1>18. QED
  BY <1>17 DEF i

\* Quotient and remainder of a place among four copies of o nodes.
LEMMA CopyPlace ==
  ASSUME NEW o \in Nat \ {0}, NEW y \in 0..(4 * o - 1)
  PROVE  /\ y % o \in 0..(o - 1) /\ y \div o \in 0..3
         /\ y = o * (y \div o) + (y % o)
<1> DEFINE q == y \div o
           r == y % o
<1>0. y \in Nat /\ y <= 4 * o - 1
  OBVIOUS
<1>1. q \in Nat /\ r \in 0..(o - 1) /\ y = o * q + r
  BY <1>0, DivMod
<1> HIDE DEF q, r
<1>2. q <= 3
  <2> SUFFICES ASSUME q >= 4 PROVE FALSE
    BY <1>1
  <2>1. o * 4 <= o * q
    BY <1>1, MulMono
  <2>2. o * q \in Nat
    BY <1>1
  <2>3. QED
    BY <1>1, <2>1, <2>2
<1>3. QED
  BY <1>1, <1>2 DEF q, r

\* A node with its new digit is below the next power, and determines both.
LEMMA NewDigit ==
  ASSUME NEW P \in Nat \ {0}, NEW u \in Nat, u < P, NEW a \in 0..3
  PROVE  /\ u + a * P \in Nat /\ u + a * P < 4 * P
         /\ (u + a * P) \div P = a /\ (u + a * P) % P = u
<1>1. a * P \in Nat /\ a * P <= 3 * P
  OBVIOUS
<1>2. u + a * P = P * a + u /\ u \in 0..(P - 1) /\ a \in Int
  OBVIOUS
<1> DEFINE z == u + a * P
<1>3. z \in Nat /\ z < 4 * P /\ z = P * a + u
  BY <1>1, <1>2
<1> HIDE DEF z
<1>4. z \div P = a /\ z % P = u
  BY <1>2, <1>3, DivUnique
<1>5. QED
  BY <1>3, <1>4 DEF z

\* The nodes after a round of the while loop.
Expanded(c, n, m, l, j) ==
  [x \in 0..(4 * n - 1) |->
     IF x < j \/ x >= 4 * m - 3 * j THEN c[x]
     ELSE c[j + ((x - j) % (m - j))] + copy_digit((x - j) \div (m - j)) * 2 ^ l]

\* Where a copy comes from: the open node at j + r, with the digit a.
Copies(C, c, m, l, j, x, r, a) ==
  /\ r \in 0..(m - j - 1) /\ a \in 0..3
  /\ x = j + (m - j) * (3 - a) + r
  /\ C[x] = c[j + r] + a * 2 ^ l

LEMMA ExpandedIs ==
  ASSUME NEW n \in Nat, NEW c, NEW m \in Nat, NEW l, NEW j \in Nat, j < m,
         4 * m - 3 * j <= 4 * n
  PROVE  LET C == Expanded(c, n, m, l, j) IN
         /\ \A x \in 0..(j - 1) : C[x] = c[x]
         /\ \A x \in (4 * m - 3 * j)..(4 * n - 1) : C[x] = c[x]
         /\ \A x \in j..(4 * m - 3 * j - 1) : \E r, a : Copies(C, c, m, l, j, x, r, a)
<1> DEFINE C == Expanded(c, n, m, l, j)
           M == 4 * m - 3 * j
           o == m - j
<1>1. o \in Nat \ {0} /\ M = j + 4 * o /\ M \in Nat
  OBVIOUS
<1>2. \A x \in 0..(4 * n - 1) :
        C[x] = IF x < j \/ x >= M THEN c[x]
               ELSE c[j + ((x - j) % o)] + copy_digit((x - j) \div o) * 2 ^ l
  BY DEF Expanded
<1> HIDE DEF C, M
<1>3. ASSUME NEW x \in j..(M - 1) PROVE \E r, a : Copies(C, c, m, l, j, x, r, a)
  <2> DEFINE y == x - j
             q == y \div o
             r == y % o
             a == 3 - q
  <2>1. y \in 0..(4 * o - 1) /\ x = j + y /\ x \in 0..(4 * n - 1) /\ ~(x < j) /\ ~(x >= M)
    BY <1>1 DEF M
  <2>2. C[x] = c[j + r] + copy_digit(q) * 2 ^ l
    BY <1>2, <2>1
  <2> HIDE DEF y, o
  <2>3. r \in 0..(o - 1) /\ q \in 0..3 /\ y = o * q + r
    BY <1>1, <2>1, CopyPlace
  <2> HIDE DEF q, r
  <2>4. copy_digit(q) = a /\ a \in 0..3 /\ 3 - a = q
    BY <2>3 DEF copy_digit
  <2> HIDE DEF a
  <2>5. x = j + o * (3 - a) + r
    <3>1. o * q \in Nat /\ x = j + (o * q + r)
      BY <1>1, <2>1, <2>3
    <3>2. QED
      BY <2>3, <2>4, <3>1
  <2>6. Copies(C, c, m, l, j, x, r, a)
    BY <2>2, <2>3, <2>4, <2>5 DEF Copies, o
  <2>7. QED
    BY <2>6
<1>4. \A x \in 0..(j - 1) : C[x] = c[x]
  BY <1>1, <1>2 DEF M
<1>5. \A x \in M..(4 * n - 1) : C[x] = c[x]
  BY <1>1, <1>2
<1>6. QED
  BY <1>3, <1>4, <1>5 DEF C, M

\* Every open node gets its four children.
LEMMA ExpandNodes ==
  ASSUME NEW d, NEW n, NEW b, Depths(d, n, b), NEW c, NEW m, NEW l, NEW j,
         Nodes(d, n, b, c, m, l, j), j < n, d[j + 1] > l, 4 * m - 3 * j <= 4 * n
  PROVE  Nodes(d, n, b, Expanded(c, n, m, l, j), 4 * m - 3 * j, l + 2, j)
<1> DEFINE C == Expanded(c, n, m, l, j)
           M == 4 * m - 3 * j
           P == 2 ^ l
<1>1. /\ j \in 0..n /\ m \in Nat /\ j <= m
      /\ l \in Nat /\ l % 2 = 0 /\ l <= b
      /\ c \in [0..(4 * n - 1) -> Nat]
      /\ \A k \in 1..n : IF k <= j THEN d[k] <= l ELSE l <= d[k]
      /\ Needed(d, n, b, j) <= (m - j) * 2 ^ (b - l)
  BY DEF Nodes
<1>2. /\ \A x \in j..(m - 1) : c[x] < P
      /\ \A x, y \in j..(m - 1) : x # y => c[x] # c[y]
      /\ \A k \in 1..j : c[k - 1] < 2 ^ d[k]
      /\ \A k \in 1..j : \A x \in k..(m - 1) : c[x] % 2 ^ d[k] # c[k - 1]
  BY DEF Nodes
<1>3. n \in Nat /\ b \in Nat /\ j \in Nat /\ d \in [1..n -> Nat] /\ \A k \in 1..n : d[k] % 2 = 0
  <2>1. n \in Nat /\ b \in Nat /\ d \in [1..n -> Nat] /\ j \in 0..n /\ \A k \in 1..n : d[k] % 2 = 0
    BY DEF Depths, Nodes
  <2>2. QED
    BY <2>1
<1>4. j < m /\ b - l \in Nat /\ l + 2 <= b
  <2>1. l < d[j + 1]
    <3>1. j + 1 \in 1..n
      BY <1>3
    <3>2. d[j + 1] \in Nat
      BY <1>3, <3>1
    <3>3. QED
      BY <1>1, <3>2
  <2>2. QED
    BY <2>1, NodeIsOpen
<1>5. P \in Nat \ {0} /\ 2 ^ (l + 2) = 4 * P
  <2>1. P \in Nat \ {0} /\ 2 ^ (l + 1) = 2 * P /\ 2 ^ ((l + 1) + 1) = 2 * 2 ^ (l + 1)
    BY <1>1, PowerStep
  <2>2. (l + 1) + 1 = l + 2
    BY <1>1
  <2> DEFINE h == 2 ^ (l + 1)
  <2>3. 2 ^ (l + 2) = 2 * h /\ h = 2 * P
    BY <2>1, <2>2
  <2> HIDE DEF P, h
  <2>4. QED
    BY <2>1, <2>3
<1>6. /\ \A x \in 0..(j - 1) : C[x] = c[x]
      /\ \A x \in M..(4 * n - 1) : C[x] = c[x]
      /\ \A x \in j..(M - 1) : \E r, a : Copies(C, c, m, l, j, x, r, a)
  BY <1>1, <1>3, <1>4, ExpandedIs
<1>7. M \in Nat /\ m <= M /\ M - j = 4 * (m - j) /\ m - j \in Nat
  BY <1>1, <1>3, <1>4
<1> HIDE DEF M, C, P
\* What a copy looks like.
<1>8. ASSUME NEW x, NEW r, NEW a, Copies(C, c, m, l, j, x, r, a)
      PROVE  /\ r \in Nat /\ j + r \in j..(m - 1) /\ a \in 0..3 /\ c[j + r] \in Nat /\ c[j + r] < P
             /\ C[x] = c[j + r] + a * P
             /\ C[x] \in Nat /\ C[x] < 4 * P /\ C[x] \div P = a /\ C[x] % P = c[j + r]
  <2>1. /\ r \in 0..(m - j - 1) /\ a \in 0..3 /\ C[x] = c[j + r] + a * P
    BY <1>8 DEF Copies, P
  <2>2. r \in Nat /\ j + r \in j..(m - 1)
    BY <1>1, <1>3, <2>1
  <2>3. m <= 4 * n
    BY DEF Nodes
  <2>4. c[j + r] \in Nat /\ c[j + r] < P
    <3>1. j + r \in 0..(4 * n - 1)
      BY <1>1, <1>3, <2>2, <2>3
    <3>2. QED
      BY <1>1, <1>2, <2>2, <3>1
  <2> DEFINE u == c[j + r]
  <2> HIDE DEF u
  <2>5. /\ u + a * P \in Nat /\ u + a * P < 4 * P
        /\ (u + a * P) \div P = a /\ (u + a * P) % P = u
    BY <1>5, <2>1, <2>4, NewDigit DEF u
  <2>6. QED
    BY <2>1, <2>2, <2>4, <2>5 DEF u
<1>9. ASSUME NEW x \in j..(M - 1) PROVE C[x] \in Nat /\ C[x] < 2 ^ (l + 2)
  <2>1. PICK r, a : Copies(C, c, m, l, j, x, r, a)
    BY <1>6
  <2>2. C[x] \in Nat /\ C[x] < 4 * P
    BY <1>8, <2>1
  <2>3. QED
    BY <1>5, <2>2
<1>10. ASSUME NEW x \in j..(M - 1), NEW y \in j..(M - 1), C[x] = C[y] PROVE x = y
  <2>1. PICK r, a : Copies(C, c, m, l, j, x, r, a)
    BY <1>6
  <2>2. PICK s, e : Copies(C, c, m, l, j, y, s, e)
    BY <1>6
  <2>3. a = C[x] \div P /\ c[j + r] = C[x] % P /\ r \in Nat /\ j + r \in j..(m - 1)
    BY <1>8, <2>1
  <2>4. e = C[y] \div P /\ c[j + s] = C[y] % P /\ s \in Nat /\ j + s \in j..(m - 1)
    BY <1>8, <2>2
  <2>5. a = e /\ c[j + r] = c[j + s]
    BY <1>10, <2>3, <2>4
  <2>6. j + r = j + s
    BY <1>2, <2>3, <2>4, <2>5
  <2>7. r = s
    BY <1>3, <2>3, <2>4, <2>6
  <2>8. x = j + (m - j) * (3 - a) + r /\ y = j + (m - j) * (3 - e) + s
    BY <2>1, <2>2 DEF Copies
  <2>9. QED
    BY <2>5, <2>7, <2>8
<1>11. ASSUME NEW k \in 1..j PROVE C[k - 1] = c[k - 1] /\ d[k] \in Nat /\ d[k] <= l
  <2>1. k - 1 \in 0..(j - 1) /\ k \in 1..n /\ k <= j
    BY <1>1, <1>3
  <2>2. QED
    BY <1>1, <1>3, <1>6, <2>1
<1>12. ASSUME NEW k \in 1..j, NEW x \in k..(M - 1) PROVE C[x] % 2 ^ d[k] # C[k - 1]
  <2>1. CASE x < j
    <3>1. x \in 0..(j - 1) /\ x \in k..(m - 1)
      BY <1>1, <1>3, <1>4, <2>1
    <3>2. C[x] = c[x]
      BY <1>6, <3>1
    <3>3. QED
      BY <1>2, <1>11, <3>1, <3>2
  <2>2. CASE ~(x < j)
    <3>1. x \in j..(M - 1)
      BY <1>1, <1>3, <1>7, <2>2
    <3>2. PICK r, a : Copies(C, c, m, l, j, x, r, a)
      BY <1>6, <3>1
    <3>3. /\ j + r \in j..(m - 1) /\ a \in Nat /\ c[j + r] \in Nat /\ C[x] = c[j + r] + a * P
      BY <1>8, <3>2
    <3>4. j + r \in k..(m - 1)
      BY <1>1, <1>3, <3>3
    <3> DEFINE u == c[j + r]
               t == d[k]
    <3>5. u \in Nat /\ t \in Nat /\ t <= l /\ C[x] = u + a * 2 ^ l
      BY <1>11, <3>3 DEF P
    <3>6. u % 2 ^ t # c[k - 1]
      BY <1>2, <3>4
    <3> HIDE DEF u, t
    <3>7. (u + a * 2 ^ l) % 2 ^ t = u % 2 ^ t
      <4>1. l \in Nat /\ t \in Nat /\ t <= l /\ u \in Nat /\ a \in Nat
        BY <1>1, <3>3, <3>5
      <4>2. QED
        BY <4>1, LowDigits
    <3>8. QED
      BY <1>11, <3>5, <3>6, <3>7 DEF t
  <2>3. QED
    BY <2>1, <2>2
<1>13. Needed(d, n, b, j) <= (M - j) * 2 ^ (b - (l + 2))
  <2> DEFINE x == b - (l + 2)
             o == m - j
  <2>1. x \in Nat /\ b - l = (x + 1) + 1 /\ o \in Nat /\ M - j = 4 * o
    BY <1>1, <1>3, <1>4, <1>7
  <2> HIDE DEF x, o
  <2>2. 2 ^ x \in Nat /\ 2 ^ (x + 1) = 2 * 2 ^ x /\ 2 ^ ((x + 1) + 1) = 2 * 2 ^ (x + 1)
    BY <2>1, PowerStep
  <2> DEFINE p == 2 ^ x
             w == Needed(d, n, b, j)
  <2>3. p \in Nat /\ 2 ^ (b - l) = 2 * (2 * p)
    BY <2>1, <2>2
  <2>4. w <= o * 2 ^ (b - l)
    BY <1>1 DEF o
  <2>5. w <= o * (2 * (2 * p))
    BY <2>3, <2>4
  <2> HIDE DEF p, w
  <2>6. o * (2 * (2 * p)) = (4 * o) * p
    BY <2>1, <2>3
  <2>7. w <= (M - j) * p
    BY <2>1, <2>5, <2>6
  <2>8. QED
    BY <2>7 DEF w, p, x
<1>14. C \in [0..(4 * n - 1) -> Nat]
  <2>1. ASSUME NEW x \in 0..(4 * n - 1) PROVE C[x] \in Nat
    <3>1. x \in 0..(j - 1) \/ x \in j..(M - 1) \/ x \in M..(4 * n - 1)
      BY <1>3, <1>7
    <3>2. c[x] \in Nat
      BY <1>1
    <3>3. QED
      BY <1>6, <1>9, <3>1, <3>2
  <2>2. C = [x \in 0..(4 * n - 1) |-> C[x]]
    BY DEF C, Expanded
  <2>3. QED
    BY <2>1, <2>2
<1>15. /\ l + 2 \in Nat /\ (l + 2) % 2 = 0 /\ M <= 4 * n /\ j <= M
  BY <1>1, <1>3, <1>7 DEF M
<1>16. ASSUME NEW k \in 1..n PROVE IF k <= j THEN d[k] <= l + 2 ELSE l + 2 <= d[k]
  <2>1. CASE k <= j
    <3>1. d[k] <= l /\ d[k] \in Nat
      BY <1>1, <1>3, <2>1
    <3>2. QED
      BY <1>1, <2>1, <3>1
  <2>2. CASE ~(k <= j)
    <3>1. j + 1 \in 1..n /\ j + 1 <= k /\ k \in Nat
      BY <1>3, <2>2
    <3>2. d[j + 1] <= d[k]
      <4>1. \A i, h \in 1..n : i < h => d[i] <= d[h]
        BY DEF Depths
      <4>2. CASE j + 1 = k
        BY <1>3, <3>1, <4>2
      <4>3. CASE j + 1 # k
        BY <3>1, <4>1, <4>3
      <4>4. QED
        BY <4>2, <4>3
    <3>3. d[j + 1] \in Nat /\ d[k] \in Nat /\ d[k] % 2 = 0 /\ d[j + 1] > l
      BY <1>3, <3>1
    <3> DEFINE t == d[k]
               v == d[j + 1]
    <3>4. v <= t /\ v \in Nat /\ t \in Nat /\ t % 2 = 0 /\ v > l /\ l \in Nat /\ l % 2 = 0
      BY <1>1, <3>2, <3>3
    <3> HIDE DEF t, v
    <3>5. l + 2 <= t
      BY <3>4
    <3>6. QED
      BY <2>2, <3>5 DEF t
  <2>3. QED
    BY <2>1, <2>2
<1> DEFINE L == l + 2
<1>17. /\ j \in 0..n /\ M \in Nat /\ j <= M /\ M <= 4 * n
       /\ L \in Nat /\ L % 2 = 0 /\ L <= b
       /\ C \in [0..(4 * n - 1) -> Nat]
  BY <1>1, <1>4, <1>7, <1>14, <1>15
<1>18. /\ \A k \in 1..n : IF k <= j THEN d[k] <= L ELSE L <= d[k]
       /\ Needed(d, n, b, j) <= (M - j) * 2 ^ (b - L)
  BY <1>13, <1>16
<1>19. /\ \A x \in j..(M - 1) : C[x] < 2 ^ L
       /\ \A x, y \in j..(M - 1) : x # y => C[x] # C[y]
       /\ \A k \in 1..j : C[k - 1] < 2 ^ d[k]
       /\ \A k \in 1..j : \A x \in k..(M - 1) : C[x] % 2 ^ d[k] # C[k - 1]
  <2> HIDE DEF L
  <2>1. \A k \in 1..j : C[k - 1] < 2 ^ d[k]
    BY <1>2, <1>11
  <2>2. \A x \in j..(M - 1) : C[x] < 2 ^ L
    BY <1>9 DEF L
  <2>3. QED
    BY <1>10, <1>12, <2>1, <2>2
<1> HIDE DEF L
<1>20. Nodes(d, n, b, C, M, L, j)
  BY <1>17, <1>18, <1>19 DEF Nodes
<1>21. QED
  BY <1>20 DEF C, M, L

------------------------------------------------------------------------------
(* reversed_code.                                                          *)

\* F adds up g from the left.
LEMMA SumFromLeft ==
  ASSUME NEW m \in Nat, NEW g, NEW F, Additive(F, g, m)
  PROVE  /\ F[0..(-1)] = 0
         /\ \A k \in 0..m : F[0..(k - 1)] \in Nat
         /\ \A k \in 0..(m - 1) : F[0..k] = g[k] + F[0..(k - 1)]
<1>1. /\ F \in [SUBSET (0..(m - 1)) -> Nat] /\ F[{}] = 0
      /\ \A s \in SUBSET (0..(m - 1)) : \A x \in s : F[s] = g[x] + F[s \ {x}]
  BY DEF Additive
<1>2. 0..(-1) = {}
  OBVIOUS
<1>3. ASSUME NEW k \in 0..m PROVE F[0..(k - 1)] \in Nat
  <2>1. 0..(k - 1) \in SUBSET (0..(m - 1))
    OBVIOUS
  <2>2. QED
    BY <1>1, <2>1
<1>4. ASSUME NEW k \in 0..(m - 1) PROVE F[0..k] = g[k] + F[0..(k - 1)]
  <2> DEFINE S == 0..k
  <2>1. S \in SUBSET (0..(m - 1)) /\ k \in S /\ S \ {k} = 0..(k - 1)
    OBVIOUS
  <2>2. F[S] = g[k] + F[S \ {k}]
    <3> HIDE DEF S
    <3> QED
      BY <1>1, <2>1
  <2>3. QED
    BY <2>1, <2>2
<1>5. QED
  BY <1>1, <1>2, <1>3, <1>4

\* The sum of terms that are four times as large is.
Quadruples(E, e, F, g, m) ==
  /\ m \in Nat /\ Additive(F, g, m) /\ Additive(E, e, m + 1)
  /\ \A t \in 0..(m - 1) : g[t] \in Nat /\ e[t] = 4 * g[t]

LEMMA SumQuadruples ==
  ASSUME NEW E, NEW e, NEW F, NEW g, NEW m, Quadruples(E, e, F, g, m)
  PROVE  E[0..(m - 1)] = 4 * F[0..(m - 1)]
<1>1. /\ m \in Nat /\ m + 1 \in Nat /\ Additive(F, g, m) /\ Additive(E, e, m + 1)
      /\ \A t \in 0..(m - 1) : g[t] \in Nat /\ e[t] = 4 * g[t]
  BY DEF Quadruples
<1>2. /\ F[0..(-1)] = 0 /\ \A k \in 0..m : F[0..(k - 1)] \in Nat
      /\ \A k \in 0..(m - 1) : F[0..k] = g[k] + F[0..(k - 1)]
  BY <1>1, SumFromLeft
<1>3. /\ E[0..(-1)] = 0
      /\ \A k \in 0..(m - 1) : E[0..k] = e[k] + E[0..(k - 1)]
  <2>1. /\ E[0..(-1)] = 0
        /\ \A k \in 0..((m + 1) - 1) : E[0..k] = e[k] + E[0..(k - 1)]
    BY <1>1, SumFromLeft
  <2>2. \A k \in 0..(m - 1) : k \in 0..((m + 1) - 1)
    BY <1>1
  <2>3. QED
    BY <2>1, <2>2
<1> DEFINE f(k) == F[0..(k - 1)]
           h(k) == E[0..(k - 1)]
           Bad == {k \in Nat : k <= m /\ h(k) # 4 * f(k)}
<1>4. f(0) = 0 /\ h(0) = 0
  BY <1>2, <1>3
<1>5. ASSUME NEW k \in 0..(m - 1)
      PROVE  /\ f(k + 1) = g[k] + f(k) /\ h(k + 1) = 4 * g[k] + h(k)
             /\ f(k) \in Nat /\ g[k] \in Nat
  <2>1. (k + 1) - 1 = k /\ k \in 0..m
    BY <1>1
  <2>2. QED
    BY <1>1, <1>2, <1>3, <2>1
<1>6. Bad = {}
  <2> SUFFICES ASSUME Bad # {} PROVE FALSE
    OBVIOUS
  <2>1. PICK k \in Bad : \A i \in Bad : k <= i
    <3>1. Bad \in SUBSET Nat
      OBVIOUS
    <3> HIDE DEF Bad
    <3>2. QED
      BY <3>1, LeastNat
  <2>2. k \in Nat /\ k <= m /\ h(k) # 4 * f(k)
    BY <2>1
  <2> HIDE DEF f, h
  <2>3. k # 0
    BY <1>4, <2>2
  <2> DEFINE i == k - 1
  <2>4. i \in 0..(m - 1) /\ i + 1 = k /\ i < k /\ i \in Nat /\ i <= m
    BY <1>1, <2>2, <2>3
  <2> HIDE DEF i
  <2>5. h(i) = 4 * f(i)
    <3>1. i \notin Bad
      <4> HIDE DEF Bad
      <4> QED
        BY <2>1, <2>2, <2>4
    <3>2. QED
      BY <2>4, <3>1
  <2> HIDE DEF Bad
  <2>6. f(k) = g[i] + f(i) /\ h(k) = 4 * g[i] + h(i) /\ f(i) \in Nat /\ g[i] \in Nat
    BY <1>5, <2>4
  <2>7. QED
    BY <2>2, <2>5, <2>6
<1>7. m \notin Bad
  BY <1>6
<1>8. QED
  BY <1>1, <1>7

\* Digit t of x, from the last.
Digit(x, t) == (x \div 2 ^ (2 * t)) % 4

LEMMA DigitType ==
  ASSUME NEW x \in Nat, NEW t \in Nat
  PROVE  Digit(x, t) \in 0..3 /\ 2 ^ (2 * t) \in Nat \ {0}
<1>1. 2 ^ (2 * t) \in Nat \ {0}
  BY PowerStep
<1> DEFINE p == 2 ^ (2 * t)
           q == x \div p
<1> HIDE DEF p
<1>2. q \in Nat
  BY <1>1, DivMod DEF p
<1> HIDE DEF q
<1>3. q % 4 \in 0..3
  BY <1>2
<1>4. QED
  BY <1>1, <1>3 DEF Digit, p, q

\* The terms of reversed_code for D digits.
Terms(x, D) == [t \in 0..(D - 1) |-> Digit(x, t) * 2 ^ (2 * D - 2 - 2 * t)]

LEMMA TermsType ==
  ASSUME NEW x \in Nat, NEW D \in Nat
  PROVE  \A t \in 0..(D - 1) : Terms(x, D)[t] = Digit(x, t) * 2 ^ (2 * D - 2 - 2 * t) /\ Terms(x, D)[t] \in Nat
<1> SUFFICES ASSUME NEW t \in 0..(D - 1)
             PROVE  /\ Terms(x, D)[t] = Digit(x, t) * 2 ^ (2 * D - 2 - 2 * t)
                    /\ Terms(x, D)[t] \in Nat
  OBVIOUS
<1>1. Terms(x, D)[t] = Digit(x, t) * 2 ^ (2 * D - 2 - 2 * t)
  BY DEF Terms
<1> DEFINE k == 2 * D - 2 - 2 * t
<1>2. k \in Nat
  OBVIOUS
<1> HIDE DEF k
<1>3. 2 ^ k \in Nat
  BY <1>2, PowerStep
<1>4. Digit(x, t) \in Nat
  BY DigitType
<1> DEFINE p == 2 ^ k
           u == Digit(x, t)
<1> HIDE DEF p, u
<1>5. u * p \in Nat
  BY <1>3, <1>4 DEF p, u
<1>6. QED
  BY <1>1, <1>5 DEF p, u, k

LEMMA ReversedIs ==
  ASSUME NEW x \in Nat, NEW D \in Nat, NEW F, Additive(F, Terms(x, D), D)
  PROVE  reversed_code(x, 2 * D) = F[0..(D - 1)]
<1> DEFINE S == 0..(D - 1)
           g == Terms(x, D)
<1>1. (2 * D) \div 2 = D
  OBVIOUS
<1>2. DOMAIN g = S
  BY DEF Terms
<1>3. reversed_code(x, 2 * D) = Total(g, S)
  <2>1. reversed_code(x, 2 * D) = SumFunction(g)
    BY <1>1 DEF reversed_code, Terms, Digit
  <2> HIDE DEF g, S
  <2>2. QED
    BY <1>2, <2>1 DEF SumFunction, Total
<1>4. Agrees(g, g, S)
  BY DEF Agrees
<1>5. Total(g, S) = F[S]
  <2>1. Additive(F, g, D) /\ S \in SUBSET (0..(D - 1))
    OBVIOUS
  <2> HIDE DEF g, S
  <2>2. QED
    BY <1>4, <2>1, TotalIs
<1>6. QED
  BY <1>3, <1>5

\* A code with a digit more: the reverse is longer at its end.
LEMMA ReversedStep ==
  ASSUME NEW x \in Nat, NEW D \in Nat
  PROVE  /\ reversed_code(x, 2 * D) \in Nat
         /\ reversed_code(x, 2 * (D + 1)) = 4 * reversed_code(x, 2 * D) + Digit(x, D)
<1> DEFINE g == Terms(x, D)
           e == Terms(x, D + 1)
<1>1. D + 1 \in Nat
  OBVIOUS
<1>2. \A t \in 0..(D - 1) : g[t] = Digit(x, t) * 2 ^ (2 * D - 2 - 2 * t) /\ g[t] \in Nat
  BY TermsType
<1>3. \A t \in 0..((D + 1) - 1) : e[t] = Digit(x, t) * 2 ^ (2 * (D + 1) - 2 - 2 * t) /\ e[t] \in Nat
  BY <1>1, TermsType
<1> HIDE DEF g, e
<1>4. PICK F : Additive(F, g, D)
  BY <1>2, SumsExist
<1>5. PICK E : Additive(E, e, D + 1)
  BY <1>1, <1>3, SumsExist
<1>6. reversed_code(x, 2 * D) = F[0..(D - 1)]
  BY <1>4, ReversedIs DEF g
<1>7. reversed_code(x, 2 * (D + 1)) = E[0..D]
  <2>1. reversed_code(x, 2 * (D + 1)) = E[0..((D + 1) - 1)]
    BY <1>1, <1>5, ReversedIs DEF e
  <2>2. (D + 1) - 1 = D
    OBVIOUS
  <2>3. QED
    BY <2>1, <2>2
<1>8. F[0..(D - 1)] \in Nat
  <2>1. \A k \in 0..D : F[0..(k - 1)] \in Nat
    BY <1>4, SumFromLeft
  <2>2. QED
    BY <2>1
<1>9. E[0..D] = e[D] + E[0..(D - 1)]
  <2>1. \A k \in 0..((D + 1) - 1) : E[0..k] = e[k] + E[0..(k - 1)]
    BY <1>1, <1>5, SumFromLeft
  <2>2. D \in 0..((D + 1) - 1)
    OBVIOUS
  <2>3. QED
    BY <2>1, <2>2
<1>10. ASSUME NEW t \in 0..(D - 1) PROVE e[t] = 4 * g[t]
  <2> DEFINE k == 2 * D - 2 - 2 * t
             u == Digit(x, t)
  <2>1. k \in Nat /\ 2 * (D + 1) - 2 - 2 * t = (k + 1) + 1 /\ t \in Nat /\ t \in 0..((D + 1) - 1)
    OBVIOUS
  <2>2. g[t] = u * 2 ^ k /\ e[t] = u * 2 ^ ((k + 1) + 1)
    BY <1>2, <1>3, <2>1
  <2>3. u \in Nat
    BY <2>1, DigitType
  <2> HIDE DEF k, u
  <2>4. 2 ^ k \in Nat /\ 2 ^ (k + 1) = 2 * 2 ^ k /\ 2 ^ ((k + 1) + 1) = 2 * 2 ^ (k + 1)
    BY <2>1, PowerStep
  <2> DEFINE p == 2 ^ k
  <2>5. p \in Nat /\ g[t] = u * p /\ e[t] = u * (2 * (2 * p))
    BY <2>2, <2>4
  <2> HIDE DEF p
  <2>6. u * (2 * (2 * p)) = 4 * (u * p)
    BY <2>3, <2>5
  <2>7. QED
    BY <2>5, <2>6
<1>11. E[0..(D - 1)] = 4 * F[0..(D - 1)]
  <2>1. Quadruples(E, e, F, g, D)
    BY <1>2, <1>4, <1>5, <1>10 DEF Quadruples
  <2>2. QED
    BY <2>1, SumQuadruples
<1>12. e[D] = Digit(x, D)
  <2>1. D \in 0..((D + 1) - 1) /\ 2 * (D + 1) - 2 - 2 * D = 0
    OBVIOUS
  <2>2. e[D] = Digit(x, D) * 2 ^ 0
    BY <1>3, <2>1
  <2>3. 2 ^ 0 = 1
    BY FS_EmptySet, FS_SUBSET
  <2>4. Digit(x, D) \in Nat
    BY DigitType
  <2> DEFINE u == Digit(x, D)
  <2> HIDE DEF u
  <2>5. u * 1 = u
    BY <2>4 DEF u
  <2>6. QED
    BY <2>2, <2>3, <2>5 DEF u
<1> DEFINE r == F[0..(D - 1)]
           u == Digit(x, D)
<1>13. u \in Nat
  BY DigitType
<1>14. r \in Nat /\ E[0..D] = u + 4 * r
  BY <1>8, <1>9, <1>11, <1>12
<1> HIDE DEF r, u
<1>15. u + 4 * r = 4 * r + u
  BY <1>13, <1>14
<1>16. QED
  BY <1>6, <1>7, <1>14, <1>15 DEF r, u

\* No digits.
LEMMA ReversedNone ==
  ASSUME NEW x \in Nat
  PROVE  reversed_code(x, 2 * 0) = 0
<1>1. 0 \in Nat /\ \A t \in 0..(0 - 1) : Terms(x, 0)[t] \in Nat
  BY TermsType
<1> DEFINE g == Terms(x, 0)
<1>2. \A t \in 0..(0 - 1) : g[t] \in Nat
  BY <1>1
<1> HIDE DEF g
<1>3. PICK F : Additive(F, g, 0)
  BY <1>1, <1>2, SumsExist
<1>4. reversed_code(x, 2 * 0) = F[0..(0 - 1)]
  BY <1>1, <1>3, ReversedIs DEF g
<1>5. F[0..(-1)] = 0 /\ 0 - 1 = -1
  BY <1>1, <1>3, SumFromLeft
<1>6. QED
  BY <1>4, <1>5

\* Four to the D and the next power.
LEMMA QuadPower ==
  ASSUME NEW D \in Nat
  PROVE  /\ 2 ^ (2 * D) \in Nat \ {0} /\ 2 ^ (2 * (D + 1)) = 4 * 2 ^ (2 * D)
         /\ 2 ^ (2 * 0) = 1
<1> DEFINE k == 2 * D
<1>1. k \in Nat /\ 2 * (D + 1) = (k + 1) + 1 /\ 2 * 0 = 0
  OBVIOUS
<1> HIDE DEF k
<1>2. 2 ^ k \in Nat \ {0} /\ 2 ^ (k + 1) = 2 * 2 ^ k /\ 2 ^ ((k + 1) + 1) = 2 * 2 ^ (k + 1)
  BY <1>1, PowerStep
<1> DEFINE p == 2 ^ k
           h == 2 ^ (k + 1)
<1>3. p \in Nat /\ h = 2 * p /\ 2 ^ ((k + 1) + 1) = 2 * h
  BY <1>2
<1> HIDE DEF p, h
<1>4. 2 * h = 4 * p
  BY <1>3
<1>5. 2 ^ 0 = 1
  BY FS_EmptySet, FS_SUBSET
<1>6. 2 ^ (2 * (D + 1)) = 4 * p
  BY <1>1, <1>3, <1>4
<1>7. 2 ^ (2 * 0) = 1
  BY <1>1, <1>5
<1>8. QED
  BY <1>2, <1>6, <1>7 DEF p, k

\* A reversed code of D digits is below 4 to the D.
LEMMA ReversedSize ==
  ASSUME NEW x \in Nat, NEW D \in Nat
  PROVE  reversed_code(x, 2 * D) < 2 ^ (2 * D)
<1> DEFINE r(k) == reversed_code(x, 2 * k)
           p(k) == 2 ^ (2 * k)
           Bad == {k \in Nat : ~(r(k) < p(k))}
<1>1. r(0) = 0 /\ p(0) = 1
  BY ReversedNone, QuadPower
<1>2. \A k \in Nat : /\ r(k) \in Nat /\ r(k + 1) = 4 * r(k) + Digit(x, k) /\ Digit(x, k) \in 0..3
                     /\ p(k) \in Nat /\ p(k + 1) = 4 * p(k)
  BY ReversedStep, QuadPower, DigitType
<1> HIDE DEF r, p
<1> SUFFICES ASSUME Bad # {} PROVE FALSE
  BY DEF r, p
<1>3. PICK k \in Bad : \A i \in Bad : k <= i
  <2>1. Bad \in SUBSET Nat
    OBVIOUS
  <2> HIDE DEF Bad
  <2>2. QED
    BY <2>1, LeastNat
<1>4. k \in Nat /\ ~(r(k) < p(k))
  BY <1>3
<1>5. k # 0
  BY <1>1, <1>4
<1> DEFINE i == k - 1
<1>6. i \in Nat /\ k = i + 1 /\ i < k
  BY <1>4, <1>5
<1> HIDE DEF i
<1>7. r(i) < p(i)
  <2>1. i \notin Bad
    <3> HIDE DEF Bad
    <3> QED
      BY <1>3, <1>4, <1>6
  <2>2. QED
    BY <1>6, <2>1
<1>8. /\ r(i) \in Nat /\ r(k) = 4 * r(i) + Digit(x, i) /\ Digit(x, i) \in 0..3
      /\ p(i) \in Nat /\ p(k) = 4 * p(i)
  BY <1>2, <1>6
<1> DEFINE u == Digit(x, i)
<1> HIDE DEF u, Bad
<1>9. u \in 0..3 /\ r(k) = 4 * r(i) + u
  BY <1>8 DEF u
<1>10. QED
  BY <1>4, <1>7, <1>8, <1>9

\* The quotient does not change with a digit on both sides.
LEMMA DivDigit ==
  ASSUME NEW r \in Nat, NEW u \in 0..3, NEW Q \in Nat \ {0}
  PROVE  (4 * r + u) \div (4 * Q) = r \div Q
<1> DEFINE a == r \div Q
           m == r % Q
<1>1. a \in Nat /\ m \in 0..(Q - 1) /\ r = Q * a + m
  BY DivMod
<1> HIDE DEF a, m
<1> DEFINE z == 4 * r + u
           W == 4 * Q
           v == 4 * m + u
<1>2. W \in Nat \ {0} /\ z \in Nat /\ v \in 0..(W - 1)
  BY <1>1
<1>3. z = W * a + v
  <2>1. Q * a \in Nat /\ (4 * Q) * a = 4 * (Q * a)
    BY <1>1
  <2>2. QED
    BY <1>1, <2>1
<1> HIDE DEF z, W, v
<1>4. z \div W = a
  BY <1>1, <1>2, <1>3, DivUnique
<1>5. QED
  BY <1>4 DEF z, W, a

\* The reverse of a longer piece begins with that of a shorter one.
LEMMA ReversedPrefix ==
  ASSUME NEW x \in Nat, NEW D \in Nat, NEW E \in Nat
  PROVE  reversed_code(x, 2 * (D + E)) \div 2 ^ (2 * E) = reversed_code(x, 2 * D)
<1> DEFINE r(k) == reversed_code(x, 2 * k)
           p(k) == 2 ^ (2 * k)
           Bad == {k \in Nat : r(D + k) \div p(k) # r(D)}
<1>1. p(0) = 1 /\ D + 0 = D
  BY QuadPower
<1>2. \A k \in Nat : /\ r(k) \in Nat /\ r(k + 1) = 4 * r(k) + Digit(x, k) /\ Digit(x, k) \in 0..3
                     /\ p(k) \in Nat \ {0} /\ p(k + 1) = 4 * p(k)
  BY ReversedStep, QuadPower, DigitType
<1> HIDE DEF r, p
<1> SUFFICES ASSUME Bad # {} PROVE FALSE
  BY DEF r, p
<1>3. PICK k \in Bad : \A i \in Bad : k <= i
  <2>1. Bad \in SUBSET Nat
    OBVIOUS
  <2> HIDE DEF Bad
  <2>2. QED
    BY <2>1, LeastNat
<1>4. k \in Nat /\ r(D + k) \div p(k) # r(D)
  BY <1>3
<1>5. k # 0
  <2>1. r(D) \in Nat
    BY <1>2
  <2> DEFINE y == r(D)
  <2> HIDE DEF y
  <2>2. y \div 1 = y
    BY <2>1 DEF y
  <2>3. QED
    BY <1>1, <1>4, <2>2 DEF y
<1> DEFINE i == k - 1
<1>6. i \in Nat /\ k = i + 1 /\ i < k /\ D + i \in Nat /\ D + k = (D + i) + 1
  BY <1>4, <1>5
<1> HIDE DEF i
<1>7. r(D + i) \div p(i) = r(D)
  <2>1. i \notin Bad
    <3> HIDE DEF Bad
    <3> QED
      BY <1>3, <1>4, <1>6
  <2>2. QED
    BY <1>6, <2>1
<1> DEFINE u == Digit(x, D + i)
           y == r(D + i)
           Q == p(i)
<1>8. /\ y \in Nat /\ r(D + k) = 4 * y + u /\ u \in 0..3
      /\ Q \in Nat \ {0} /\ p(k) = 4 * Q
  BY <1>2, <1>6
<1> HIDE DEF u, y, Q, Bad
<1>9. (4 * y + u) \div (4 * Q) = y \div Q
  BY <1>8, DivDigit
<1>10. QED
  BY <1>4, <1>7, <1>8, <1>9 DEF y, Q

\* A remainder by four times P, from the one by P and the digit above.
LEMMA ModDigit ==
  ASSUME NEW x \in Nat, NEW P \in Nat \ {0}
  PROVE  x % (4 * P) = (x % P) + P * ((x \div P) % 4)
<1> DEFINE q == x \div P
           m == x % P
<1>1. q \in Nat /\ m \in 0..(P - 1) /\ x = P * q + m
  BY DivMod
<1> HIDE DEF q, m
<1> DEFINE a == q \div 4
           v == q % 4
<1>2. a \in Nat /\ v \in 0..3 /\ q = 4 * a + v
  BY <1>1
<1> HIDE DEF a, v
<1> DEFINE W == 4 * P
           w == m + P * v
<1>3. W \in Nat \ {0} /\ P * v \in Nat /\ P * v <= 3 * P
  <2>1. v = 0 \/ v = 1 \/ v = 2 \/ v = 3
    BY <1>2
  <2>2. QED
    BY <2>1
<1>4. w \in 0..(W - 1)
  <2> DEFINE t == P * v
  <2> HIDE DEF t
  <2>1. t \in Nat /\ t <= 3 * P
    BY <1>3 DEF t
  <2>2. m + t \in 0..(4 * P - 1)
    BY <1>1, <2>1
  <2>3. QED
    BY <2>2 DEF t
<1>5. x = W * a + w
  <2>1. P * (4 * a + v) = P * (4 * a) + P * v /\ P * (4 * a) = (4 * P) * a
    BY <1>2
  <2>2. P * (4 * a) \in Nat /\ P * v \in Nat
    BY <1>2
  <2> DEFINE s == P * (4 * a)
             t == P * v
  <2>3. s \in Nat /\ t \in Nat /\ P * q = s + t /\ W * a = s /\ w = m + t
    BY <1>2, <2>1, <2>2
  <2> HIDE DEF s, t, W, w
  <2>4. (s + t) + m = s + (m + t)
    BY <1>1, <2>3
  <2>5. QED
    BY <1>1, <2>3, <2>4
<1> HIDE DEF W, w
<1>6. x % W = w
  BY <1>2, <1>3, <1>4, <1>5, DivUnique
<1>7. QED
  BY <1>6 DEF W, w, m, v, q

\* reversed_code loses none of its digits.
LEMMA ReversedInjective ==
  ASSUME NEW x \in Nat, NEW y \in Nat, NEW D \in Nat,
         reversed_code(x, 2 * D) = reversed_code(y, 2 * D)
  PROVE  x % 2 ^ (2 * D) = y % 2 ^ (2 * D)
<1> DEFINE r(z, k) == reversed_code(z, 2 * k)
           p(k) == 2 ^ (2 * k)
           Bad == {k \in Nat : r(x, k) = r(y, k) /\ x % p(k) # y % p(k)}
<1>1. p(0) = 1
  BY QuadPower
<1>2. \A z \in {x, y} : \A k \in Nat : /\ r(z, k) \in Nat /\ Digit(z, k) \in 0..3
                                       /\ r(z, k + 1) = 4 * r(z, k) + Digit(z, k)
  <2> SUFFICES ASSUME NEW z \in {x, y}, NEW k \in Nat
               PROVE  /\ r(z, k) \in Nat /\ Digit(z, k) \in 0..3
                      /\ r(z, k + 1) = 4 * r(z, k) + Digit(z, k)
    OBVIOUS
  <2>1. z \in Nat
    OBVIOUS
  <2>2. QED
    BY <2>1, ReversedStep, DigitType
<1>3. \A k \in Nat : p(k) \in Nat \ {0} /\ p(k + 1) = 4 * p(k)
  BY QuadPower
<1>4. \A z \in Nat, k \in Nat : Digit(z, k) = (z \div p(k)) % 4
  BY DEF Digit
<1> HIDE DEF r, p
<1> SUFFICES ASSUME Bad # {} PROVE FALSE
  BY DEF r, p
<1>5. PICK k \in Bad : \A i \in Bad : k <= i
  <2>1. Bad \in SUBSET Nat
    OBVIOUS
  <2> HIDE DEF Bad
  <2>2. QED
    BY <2>1, LeastNat
<1>6. k \in Nat /\ r(x, k) = r(y, k) /\ x % p(k) # y % p(k)
  BY <1>5
<1>7. k # 0
  <2>1. x % 1 = 0 /\ y % 1 = 0
    OBVIOUS
  <2>2. QED
    BY <1>1, <1>6, <2>1
<1> DEFINE i == k - 1
<1>8. i \in Nat /\ k = i + 1 /\ i < k
  BY <1>6, <1>7
<1> HIDE DEF i
<1>9. r(x, i) = r(y, i) /\ Digit(x, i) = Digit(y, i)
  <2> DEFINE a == r(x, i)
             e == r(y, i)
             u == Digit(x, i)
             v == Digit(y, i)
  <2>1. /\ a \in Nat /\ e \in Nat /\ u \in 0..3 /\ v \in 0..3
        /\ r(x, k) = 4 * a + u /\ r(y, k) = 4 * e + v
    BY <1>2, <1>8
  <2> HIDE DEF a, e, u, v
  <2>2. 4 * a + u = 4 * e + v
    BY <1>6, <2>1
  <2>3. a = e /\ u = v
    BY <2>1, <2>2
  <2>4. QED
    BY <2>3 DEF a, e, u, v
<1>10. x % p(i) = y % p(i)
  <2>1. i \notin Bad
    <3> HIDE DEF Bad
    <3> QED
      BY <1>5, <1>6, <1>8
  <2>2. QED
    BY <1>8, <1>9, <2>1
<1> DEFINE Q == p(i)
<1>11. Q \in Nat \ {0} /\ p(k) = 4 * Q
  BY <1>3, <1>8
<1>12. Digit(x, i) = (x \div Q) % 4 /\ Digit(y, i) = (y \div Q) % 4
  BY <1>4, <1>8
<1> HIDE DEF Q, Bad
<1>13. x % (4 * Q) = (x % Q) + Q * ((x \div Q) % 4) /\ y % (4 * Q) = (y % Q) + Q * ((y \div Q) % 4)
  BY <1>11, ModDigit
<1>14. x % Q = y % Q
  BY <1>10 DEF Q
<1>15. x % (4 * Q) = y % (4 * Q)
  BY <1>9, <1>12, <1>13, <1>14
<1>16. QED
  BY <1>6, <1>11, <1>15

------------------------------------------------------------------------------
(* The codes that the nodes stand for.                                     *)

\* The code of the k-th symbol.
CodeOf(d, c, k) == [content |-> reversed_code(c[k - 1], d[k]), len |-> d[k]]

\* Half of an even number.
LEMMA EvenHalf ==
  ASSUME NEW a \in Nat, a % 2 = 0
  PROVE  a \div 2 \in Nat /\ a = 2 * (a \div 2)
OBVIOUS

\* The beginning of a reversed code.
LEMMA PrefixDigits ==
  ASSUME NEW x \in Nat, NEW y \in Nat, NEW a \in Nat, NEW b \in Nat, a % 2 = 0, b % 2 = 0, a <= b,
         reversed_code(y, b) \div 2 ^ (b - a) = reversed_code(x, a)
  PROVE  y % 2 ^ a = x % 2 ^ a
<1> DEFINE D == a \div 2
           E == (b - a) \div 2
<1>1. D \in Nat /\ a = 2 * D
  BY EvenHalf
<1>2. b - a \in Nat /\ (b - a) % 2 = 0
  OBVIOUS
<1>3. E \in Nat /\ b - a = 2 * E
  BY <1>2, EvenHalf
<1> HIDE DEF D, E
<1>4. b = 2 * (D + E)
  BY <1>1, <1>3
<1>5. reversed_code(y, 2 * (D + E)) \div 2 ^ (2 * E) = reversed_code(y, 2 * D)
  BY <1>1, <1>3, ReversedPrefix
<1>6. reversed_code(y, 2 * (D + E)) \div 2 ^ (2 * E) = reversed_code(x, 2 * D)
  <2>1. reversed_code(y, b) \div 2 ^ (b - a) = reversed_code(x, a)
    OBVIOUS
  <2>2. reversed_code(y, b) \div 2 ^ (2 * E) = reversed_code(x, 2 * D)
    BY <1>1, <1>3, <2>1
  <2>3. QED
    BY <1>4, <2>2
<1>7. reversed_code(y, 2 * D) = reversed_code(x, 2 * D)
  BY <1>5, <1>6
<1>8. y % 2 ^ (2 * D) = x % 2 ^ (2 * D)
  BY <1>1, <1>7, ReversedInjective
<1>9. QED
  BY <1>1, <1>8

\* When all codes are given, none is too large or the beginning of another.
LEMMA CodesApart ==
  ASSUME NEW d, NEW n, NEW b, Depths(d, n, b), NEW c, NEW m, NEW l, Nodes(d, n, b, c, m, l, n)
  PROVE  /\ \A k \in 1..n : CodeOf(d, c, k).content < 2 ^ CodeOf(d, c, k).len
         /\ \A i, k \in 1..n : i # k => ~Prefix(CodeOf(d, c, i), CodeOf(d, c, k))
<1>1. /\ n \in Nat /\ b \in Nat /\ d \in [1..n -> Nat]
      /\ \A k \in 1..n : d[k] % 2 = 0
      /\ \A i, k \in 1..n : i < k => d[i] <= d[k]
  BY DEF Depths
<1>2. m \in Nat /\ n <= m /\ c \in [0..(4 * n - 1) -> Nat]
  BY DEF Nodes
<1>3. /\ \A k \in 1..n : c[k - 1] < 2 ^ d[k]
      /\ \A k \in 1..n : \A x \in k..(m - 1) : c[x] % 2 ^ d[k] # c[k - 1]
  BY DEF Nodes
<1>4. ASSUME NEW k \in 1..n
      PROVE  /\ d[k] \in Nat /\ c[k - 1] \in Nat /\ d[k] % 2 = 0 /\ 2 ^ d[k] \in Nat \ {0}
             /\ c[k - 1] % 2 ^ d[k] = c[k - 1]
  <2>1. d[k] \in Nat /\ d[k] % 2 = 0 /\ k - 1 \in 0..(4 * n - 1)
    BY <1>1
  <2>2. c[k - 1] \in Nat
    BY <1>2, <2>1
  <2> DEFINE a == d[k]
             P == 2 ^ a
             x == c[k - 1]
  <2> HIDE DEF a
  <2>3. P \in Nat \ {0}
    BY <2>1, PowerStep DEF a
  <2>4. x \in Nat /\ x < P
    BY <1>3, <2>2 DEF a
  <2> HIDE DEF P, x
  <2>5. x % P = x
    BY <2>3, <2>4, SmallMod
  <2>6. QED
    BY <2>1, <2>2, <2>3, <2>5 DEF a, P, x
<1>5. ASSUME NEW k \in 1..n PROVE CodeOf(d, c, k).content < 2 ^ CodeOf(d, c, k).len
  <2> DEFINE a == d[k]
             x == c[k - 1]
             D == a \div 2
  <2>1. a \in Nat /\ a % 2 = 0 /\ x \in Nat
    BY <1>4
  <2>2. CodeOf(d, c, k).content = reversed_code(x, a) /\ CodeOf(d, c, k).len = a
    BY DEF CodeOf
  <2> HIDE DEF a, x
  <2>3. D \in Nat /\ a = 2 * D
    BY <2>1, EvenHalf
  <2> HIDE DEF D
  <2>4. reversed_code(x, 2 * D) < 2 ^ (2 * D)
    BY <2>1, <2>3, ReversedSize
  <2>5. QED
    BY <2>2, <2>3, <2>4
<1>6. ASSUME NEW i \in 1..n, NEW k \in 1..n, i # k, Prefix(CodeOf(d, c, i), CodeOf(d, c, k))
      PROVE  FALSE
  <2>1. d[i] <= d[k] /\ reversed_code(c[k - 1], d[k]) \div 2 ^ (d[k] - d[i]) = reversed_code(c[i - 1], d[i])
    BY <1>6 DEF Prefix, CodeOf
  <2>2. c[k - 1] % 2 ^ d[i] = c[i - 1] % 2 ^ d[i]
    <3> DEFINE a == d[i]
               e == d[k]
               x == c[i - 1]
               y == c[k - 1]
    <3>1. a \in Nat /\ e \in Nat /\ a % 2 = 0 /\ e % 2 = 0 /\ x \in Nat /\ y \in Nat /\ a <= e
      BY <1>4, <2>1
    <3>2. reversed_code(y, e) \div 2 ^ (e - a) = reversed_code(x, a)
      BY <2>1
    <3> HIDE DEF a, e, x, y
    <3>3. y % 2 ^ a = x % 2 ^ a
      BY <3>1, <3>2, PrefixDigits
    <3>4. QED
      BY <3>3 DEF a, x, y
  <2>3. c[k - 1] % 2 ^ d[i] = c[i - 1]
    BY <1>4, <2>2
  <2>4. CASE i < k
    <3>1. k - 1 \in i..(m - 1)
      BY <1>1, <1>2, <2>4
    <3>2. QED
      BY <1>3, <2>3, <3>1
  <2>5. CASE k < i
    <3>1. d[k] = d[i]
      <4>1. d[k] <= d[i] /\ d[i] \in Nat /\ d[k] \in Nat
        BY <1>1, <1>4, <2>5
      <4>2. QED
        BY <2>1, <4>1
    <3>2. c[k - 1] = c[i - 1]
      BY <1>4, <2>3, <3>1
    <3>3. c[i - 1] % 2 ^ d[k] = c[k - 1]
      BY <1>4, <3>1, <3>2
    <3>4. i - 1 \in k..(m - 1)
      BY <1>1, <1>2, <2>5
    <3>5. QED
      BY <1>3, <3>3, <3>4
  <2>6. i < k \/ k < i
    BY <1>1, <1>6
  <2>7. QED
    BY <2>4, <2>5, <2>6
<1>7. QED
  BY <1>5, <1>6

------------------------------------------------------------------------------
(* The coder's lengths satisfy Kraft's inequality.                         *)

\* used[d] blocks of weight h[d] for each of N depths, up[d] of them up to depth d; T adds
\* the weights up one by one, KR by depths.
Blocks(N, K, up, used, h, KR, T) ==
  /\ N \in Nat /\ K \in Nat
  /\ up \in [0..N -> Nat] /\ used \in [1..N -> Nat] /\ h \in [1..N -> Nat]
  /\ KR \in [0..N -> Nat] /\ T \in [0..K -> Nat]
  /\ up[0] = 0 /\ up[N] = K /\ KR[0] = 0 /\ T[0] = 0
  /\ \A d \in 0..(N - 1) : /\ up[d + 1] = up[d] + used[d + 1]
                           /\ KR[d + 1] = KR[d] + used[d + 1] * h[d + 1]
  /\ \A x \in 0..(K - 1) : T[x + 1] = T[x] + h[Min({d \in 1..N : up[d] > x})]

\* There are more of them up to a greater depth.
LEMMA BlocksGrow ==
  ASSUME NEW N, NEW K, NEW up, NEW used, NEW h, NEW KR, NEW T, Blocks(N, K, up, used, h, KR, T)
  PROVE  \A i, k \in 0..N : i <= k => up[i] <= up[k]
<1>1. N \in Nat /\ up \in [0..N -> Nat] /\ used \in [1..N -> Nat]
  BY DEF Blocks
<1>2. \A d \in 0..(N - 1) : up[d + 1] = up[d] + used[d + 1]
  BY DEF Blocks
<1> SUFFICES ASSUME NEW i \in 0..N PROVE \A k \in 0..N : i <= k => up[i] <= up[k]
  OBVIOUS
<1> DEFINE Bad == {k \in Nat : i <= k /\ k <= N /\ ~(up[i] <= up[k])}
<1> SUFFICES ASSUME Bad # {} PROVE FALSE
  <2>1. \A k \in 0..N : k \in Nat /\ k <= N
    BY <1>1
  <2>2. QED
    BY <2>1
<1>3. PICK k \in Bad : \A x \in Bad : k <= x
  <2>1. Bad \in SUBSET Nat
    OBVIOUS
  <2> HIDE DEF Bad
  <2>2. QED
    BY <2>1, LeastNat
<1>4. k \in Nat /\ i <= k /\ k <= N /\ ~(up[i] <= up[k])
  BY <1>3
<1>5. up[i] \in Nat /\ i # k
  BY <1>1, <1>4
<1> DEFINE x == k - 1
<1>6. x \in 0..(N - 1) /\ x + 1 = k /\ x \in 0..N /\ i <= x /\ x < k /\ x \in Nat /\ k \in 1..N
  BY <1>1, <1>4, <1>5
<1> HIDE DEF x
<1>7. up[i] <= up[x]
  <2>1. x \notin Bad
    <3> HIDE DEF Bad
    <3> QED
      BY <1>3, <1>4, <1>6
  <2>2. QED
    BY <1>1, <1>6, <2>1
<1>8. up[k] = up[x] + used[k] /\ up[x] \in Nat /\ used[k] \in Nat
  BY <1>1, <1>2, <1>6
<1>9. QED
  BY <1>4, <1>5, <1>7, <1>8

\* Both add up the same.
LEMMA BlockSum ==
  ASSUME NEW N, NEW K, NEW up, NEW used, NEW h, NEW KR, NEW T, Blocks(N, K, up, used, h, KR, T)
  PROVE  T[K] = KR[N]
<1>1. /\ N \in Nat /\ K \in Nat
      /\ up \in [0..N -> Nat] /\ used \in [1..N -> Nat] /\ h \in [1..N -> Nat]
      /\ KR \in [0..N -> Nat] /\ T \in [0..K -> Nat]
      /\ up[0] = 0 /\ up[N] = K /\ KR[0] = 0 /\ T[0] = 0
  BY DEF Blocks
<1>2. \A d \in 0..(N - 1) : /\ up[d + 1] = up[d] + used[d + 1]
                            /\ KR[d + 1] = KR[d] + used[d + 1] * h[d + 1]
  BY DEF Blocks
<1>3. \A x \in 0..(K - 1) : T[x + 1] = T[x] + h[Min({d \in 1..N : up[d] > x})]
  BY DEF Blocks
<1>4. \A i, k \in 0..N : i <= k => up[i] <= up[k]
  BY BlocksGrow
\* The weights of the blocks of one depth.
<1>5. ASSUME NEW d \in 0..(N - 1), NEW x \in Nat, up[d] <= x, x < up[d + 1]
      PROVE  x \in 0..(K - 1) /\ T[x + 1] = T[x] + h[d + 1]
  <2> DEFINE M == {e \in 1..N : up[e] > x}
  <2>1. d \in 0..N /\ d + 1 \in 0..N /\ d + 1 \in 1..N /\ N \in 0..N /\ d + 1 <= N
    BY <1>1
  <2>2. up[d + 1] <= K /\ up[d + 1] \in Nat
    BY <1>1, <1>4, <2>1
  <2>3. x \in 0..(K - 1)
    BY <1>1, <1>5, <2>2
  <2>4. d + 1 \in M
    BY <1>5, <2>1, <2>2
  <2>5. ASSUME NEW e \in M PROVE d + 1 <= e
    <3>1. e \in 0..N /\ up[e] > x
      BY <1>1
    <3>2. ~(e <= d)
      <4> SUFFICES ASSUME e <= d PROVE FALSE
        OBVIOUS
      <4>1. up[e] <= up[d] /\ up[e] \in Nat /\ up[d] \in Nat
        BY <1>1, <1>4, <2>1, <3>1
      <4>2. QED
        BY <1>5, <3>1, <4>1
    <3>3. QED
      BY <1>1, <3>1, <3>2
  <2>6. M \in SUBSET Nat
    BY <1>1
  <2> HIDE DEF M
  <2>7. Min(M) \in M /\ \A y \in M : Min(M) <= y
    BY <2>4, <2>6, MinNat
  <2>8. Min(M) = d + 1
    <3> DEFINE w == Min(M)
    <3>1. w \in Nat /\ w <= d + 1 /\ d + 1 <= w
      BY <2>4, <2>5, <2>6, <2>7
    <3> HIDE DEF w
    <3>2. w = d + 1
      BY <1>1, <3>1
    <3>3. QED
      BY <3>2 DEF w
  <2>9. QED
    BY <1>3, <2>3, <2>8 DEF M
<1>6. ASSUME NEW d \in 0..(N - 1), T[up[d]] = KR[d]
      PROVE  T[up[d + 1]] = KR[d + 1]
  <2> DEFINE a == up[d]
             u == used[d + 1]
             w == h[d + 1]
             r == KR[d]
             Bad == {y \in Nat : y <= u /\ T[a + y] # r + y * w}
  <2>1. /\ a \in Nat /\ u \in Nat /\ w \in Nat /\ r \in Nat
        /\ up[d + 1] = a + u /\ KR[d + 1] = r + u * w /\ T[a] = r
    <3>1. d \in 0..N /\ d + 1 \in 1..N
      BY <1>1
    <3>2. QED
      BY <1>1, <1>2, <1>6, <3>1
  <2>2. \A y \in Nat : y < u => a + y \in 0..(K - 1) /\ T[(a + y) + 1] = T[a + y] + w
    <3> SUFFICES ASSUME NEW y \in Nat, y < u
                 PROVE  a + y \in 0..(K - 1) /\ T[(a + y) + 1] = T[a + y] + w
      OBVIOUS
    <3>1. a + y \in Nat /\ a <= a + y /\ a + y < a + u
      <4> HIDE DEF a, u
      <4> QED
        BY <2>1
    <3>2. QED
      BY <1>5, <2>1, <3>1
  <2> HIDE DEF a, u, w, r
  <2>3. Bad = {}
    <3> SUFFICES ASSUME Bad # {} PROVE FALSE
      OBVIOUS
    <3>1. PICK y \in Bad : \A x \in Bad : y <= x
      <4>1. Bad \in SUBSET Nat
        OBVIOUS
      <4> HIDE DEF Bad
      <4>2. QED
        BY <4>1, LeastNat
    <3>2. y \in Nat /\ y <= u /\ T[a + y] # r + y * w
      BY <3>1
    <3>3. y # 0
      <4>1. a + 0 = a /\ r + 0 * w = r
        BY <2>1
      <4>2. QED
        BY <2>1, <3>2, <4>1
    <3> DEFINE x == y - 1
    <3>4. x \in Nat /\ x < y /\ x < u /\ x <= u /\ y = x + 1 /\ a + y = (a + x) + 1
      BY <2>1, <3>2, <3>3
    <3> HIDE DEF x
    <3>5. T[a + x] = r + x * w
      <4>1. x \notin Bad
        <5> HIDE DEF Bad
        <5> QED
          BY <3>1, <3>2, <3>4
      <4>2. QED
        BY <3>4, <4>1
    <3>6. T[a + y] = (r + x * w) + w
      BY <2>2, <3>4, <3>5
    <3>7. (r + x * w) + w = r + (x + 1) * w
      <4>1. x * w \in Nat /\ (x + 1) * w = x * w + w
        BY <2>1, <3>4
      <4>2. QED
        BY <2>1, <4>1
    <3>8. QED
      BY <3>2, <3>4, <3>6, <3>7
  <2>4. u \notin Bad
    BY <2>3
  <2>5. T[a + u] = r + u * w
    BY <2>1, <2>4
  <2>6. QED
    BY <2>1, <2>5
<1> DEFINE Bad == {d \in Nat : d <= N /\ T[up[d]] # KR[d]}
<1>7. Bad = {}
  <2> SUFFICES ASSUME Bad # {} PROVE FALSE
    OBVIOUS
  <2>1. PICK k \in Bad : \A x \in Bad : k <= x
    <3>1. Bad \in SUBSET Nat
      OBVIOUS
    <3> HIDE DEF Bad
    <3>2. QED
      BY <3>1, LeastNat
  <2>2. k \in Nat /\ k <= N /\ T[up[k]] # KR[k]
    BY <2>1
  <2>3. k # 0
    BY <1>1, <2>2
  <2> DEFINE x == k - 1
  <2>4. x \in 0..(N - 1) /\ x \in Nat /\ x <= N /\ x < k /\ x + 1 = k
    BY <1>1, <2>2, <2>3
  <2> HIDE DEF x
  <2>5. T[up[x]] = KR[x]
    <3>1. x \notin Bad
      <4> HIDE DEF Bad
      <4> QED
        BY <2>1, <2>2, <2>4
    <3>2. QED
      BY <2>4, <3>1
  <2>6. QED
    BY <1>6, <2>2, <2>4, <2>5
<1>8. N \notin Bad
  BY <1>7
<1>9. QED
  BY <1>1, <1>8

\* F adds up e[1..n] from the left and from the right.
SumsFromLeft(F, e, n) ==
  /\ F[1..0] = 0 /\ \A i \in 0..n : F[1..i] \in Nat
  /\ \A i \in 0..(n - 1) : F[1..(i + 1)] = e[i + 1] + F[1..i]
SumsFromRight(F, e, n) ==
  /\ F[(n + 1)..n] = 0 /\ \A i \in 1..(n + 1) : F[i..n] \in Nat
  /\ \A i \in 1..n : F[i..n] = e[i] + F[(i + 1)..n]

LEMMA SumEnds ==
  ASSUME NEW n \in Nat, NEW e, NEW F, Additive(F, e, n + 1)
  PROVE  SumsFromLeft(F, e, n) /\ SumsFromRight(F, e, n)
<1> DEFINE m == n + 1
           D == 0..(m - 1)
<1>1. /\ F \in [SUBSET D -> Nat] /\ F[{}] = 0
      /\ \A s \in SUBSET D : \A x \in s : F[s] = e[x] + F[s \ {x}]
  BY DEF Additive
<1>2. \A x : x \in D <=> x \in 0..n
  OBVIOUS
<1> HIDE DEF D
<1>3. 1..0 = {} /\ (n + 1)..n = {}
  OBVIOUS
<1>4. ASSUME NEW i \in 0..n PROVE F[1..i] \in Nat
  <2>1. 1..i \in SUBSET D
    BY <1>2
  <2>2. QED
    BY <1>1, <2>1
<1>5. ASSUME NEW i \in 1..(n + 1) PROVE F[i..n] \in Nat
  <2>1. i..n \in SUBSET D
    BY <1>2
  <2>2. QED
    BY <1>1, <2>1
<1>6. ASSUME NEW i \in 0..(n - 1) PROVE F[1..(i + 1)] = e[i + 1] + F[1..i]
  <2> DEFINE S == 1..(i + 1)
  <2>1. S \in SUBSET D /\ i + 1 \in S /\ S \ {i + 1} = 1..i
    BY <1>2
  <2> HIDE DEF S
  <2>2. F[S] = e[i + 1] + F[S \ {i + 1}]
    BY <1>1, <2>1
  <2>3. QED
    BY <2>1, <2>2 DEF S
<1>7. ASSUME NEW i \in 1..n PROVE F[i..n] = e[i] + F[(i + 1)..n]
  <2> DEFINE S == i..n
  <2>1. S \in SUBSET D /\ i \in S /\ S \ {i} = (i + 1)..n
    BY <1>2
  <2> HIDE DEF S
  <2>2. F[S] = e[i] + F[S \ {i}]
    BY <1>1, <2>1
  <2>3. QED
    BY <2>1, <2>2 DEF S
<1>8. QED
  BY <1>1, <1>3, <1>4, <1>5, <1>6, <1>7 DEF SumsFromLeft, SumsFromRight

\* Sums of proportional terms are in proportion.
Scaled(F, e, G, g, n, A, B) ==
  /\ n \in Nat /\ A \in Nat /\ B \in Nat
  /\ Additive(F, e, n + 1) /\ Additive(G, g, n + 1)
  /\ \A i \in 1..n : e[i] \in Nat /\ g[i] \in Nat /\ A * e[i] = B * g[i]

LEMMA SumScaled ==
  ASSUME NEW F, NEW e, NEW G, NEW g, NEW n, NEW A, NEW B, Scaled(F, e, G, g, n, A, B)
  PROVE  A * F[1..n] = B * G[1..n]
<1>1. /\ n \in Nat /\ A \in Nat /\ B \in Nat
      /\ Additive(F, e, n + 1) /\ Additive(G, g, n + 1)
      /\ \A i \in 1..n : e[i] \in Nat /\ g[i] \in Nat /\ A * e[i] = B * g[i]
  BY DEF Scaled
<1>0. n \in Nat /\ Additive(F, e, n + 1) /\ Additive(G, g, n + 1)
  BY DEF Scaled
<1>01. SumsFromLeft(F, e, n) /\ SumsFromLeft(G, g, n)
  BY <1>0, SumEnds
<1> DEFINE f(k) == F[1..k]
           h(k) == G[1..k]
           Bad == {k \in Nat : k <= n /\ A * f(k) # B * h(k)}
<1>2. /\ f(0) = 0 /\ \A i \in 0..n : f(i) \in Nat
      /\ \A i \in 0..(n - 1) : f(i + 1) = e[i + 1] + f(i)
  BY <1>01 DEF SumsFromLeft
<1>3. /\ h(0) = 0 /\ \A i \in 0..n : h(i) \in Nat
      /\ \A i \in 0..(n - 1) : h(i + 1) = g[i + 1] + h(i)
  BY <1>01 DEF SumsFromLeft
<1> SUFFICES ASSUME Bad # {} PROVE FALSE
  BY <1>1
<1>4. PICK k \in Bad : \A x \in Bad : k <= x
  <2>1. Bad \in SUBSET Nat
    OBVIOUS
  <2> HIDE DEF Bad
  <2>2. QED
    BY <2>1, LeastNat
<1>5. k \in Nat /\ k <= n /\ A * f(k) # B * h(k)
  BY <1>4
<1> HIDE DEF f, h
<1>6. k # 0
  <2>1. A * 0 = B * 0
    BY <1>1
  <2>2. QED
    BY <1>2, <1>3, <1>5, <2>1
<1> DEFINE x == k - 1
<1>7. x \in 0..(n - 1) /\ x \in 0..n /\ x \in Nat /\ x <= n /\ x < k /\ x + 1 = k /\ k \in 1..n
  BY <1>1, <1>5, <1>6
<1> HIDE DEF x
<1>8. A * f(x) = B * h(x)
  <2>1. x \notin Bad
    <3> HIDE DEF Bad
    <3> QED
      BY <1>4, <1>5, <1>7
  <2>2. QED
    BY <1>7, <2>1
<1> HIDE DEF Bad
<1> DEFINE p == e[k]
           q == g[k]
<1>9. /\ f(k) = p + f(x) /\ h(k) = q + h(x) /\ f(x) \in Nat /\ h(x) \in Nat
      /\ p \in Nat /\ q \in Nat /\ A * p = B * q
  BY <1>1, <1>2, <1>3, <1>7
<1> HIDE DEF p, q
<1>10. A * (p + f(x)) = A * p + A * f(x) /\ B * (q + h(x)) = B * q + B * h(x)
  BY <1>1, <1>9
<1>11. QED
  BY <1>5, <1>8, <1>9, <1>10

\* A sum does not change when its terms are rearranged.
Rearranged(F, e, G, g, n, o) ==
  /\ Arranges(o, n) /\ Additive(F, e, n + 1) /\ Additive(G, g, n + 1)
  /\ \A i \in 1..n : g[i] \in Nat /\ g[i] = e[o[i]]

LEMMA SumRearranged ==
  ASSUME NEW F, NEW e, NEW G, NEW g, NEW n, NEW o, Rearranged(F, e, G, g, n, o)
  PROVE  G[1..n] = F[1..n]
<1>1. /\ Additive(F, e, n + 1) /\ Additive(G, g, n + 1)
      /\ \A i \in 1..n : g[i] \in Nat /\ g[i] = e[o[i]]
  BY DEF Rearranged
<1>2. /\ n \in Nat /\ o \in [1..n -> 1..n]
      /\ \A i, k \in 1..n : o[i] = o[k] => i = k
      /\ \A x \in 1..n : \E i \in 1..n : o[i] = x
  BY DEF Rearranged, Arranges
<1> DEFINE Im(k) == {o[i] : i \in 1..k}
           f(k) == F[Im(k)]
           h(k) == G[1..k]
           Bad == {k \in Nat : k <= n /\ f(k) # h(k)}
<1>3. /\ h(0) = 0 /\ \A i \in 0..n : h(i) \in Nat
      /\ \A i \in 0..(n - 1) : h(i + 1) = g[i + 1] + h(i)
  <2>1. SumsFromLeft(G, g, n)
    BY <1>1, <1>2, SumEnds
  <2>2. QED
    BY <2>1 DEF SumsFromLeft
<1>4. /\ F[{}] = 0
      /\ \A s \in SUBSET (0..n) : \A x \in s : F[s] = e[x] + F[s \ {x}]
  <2>1. (n + 1) - 1 = n
    BY <1>2
  <2>2. QED
    BY <1>1, <2>1 DEF Additive
<1>5. f(0) = 0
  <2>1. Im(0) = {}
    OBVIOUS
  <2>2. QED
    BY <1>4, <2>1
<1>6. ASSUME NEW x \in 0..(n - 1) PROVE f(x + 1) = g[x + 1] + f(x)
  <2>1. x + 1 \in 1..n /\ \A i \in 1..(x + 1) : i \in 1..n
    BY <1>2
  <2>2. o[x + 1] \in Im(x + 1)
    <3>1. x + 1 \in 1..(x + 1)
      BY <1>2
    <3>2. QED
      BY <3>1
  <2>3. Im(x + 1) \in SUBSET (0..n)
    <3>1. \A i \in 1..n : o[i] \in 0..n
      BY <1>2
    <3>2. QED
      BY <2>1, <3>1
  <2>4. Im(x + 1) \ {o[x + 1]} = Im(x)
    <3>1. \A i \in 1..(x + 1) : i \in 1..x \/ i = x + 1
      BY <1>2
    <3>2. \A i \in 1..x : i \in 1..(x + 1) /\ i # x + 1 /\ i \in 1..n
      BY <1>2
    <3>3. \A i \in 1..x : o[i] # o[x + 1]
      BY <1>2, <2>1, <3>2
    <3>4. QED
      BY <3>1, <3>2, <3>3
  <2> DEFINE S == Im(x + 1)
             R == Im(x)
             z == o[x + 1]
  <2>5. S \in SUBSET (0..n) /\ z \in S /\ S \ {z} = R
    BY <2>2, <2>3, <2>4
  <2> HIDE DEF S, R, z, Im
  <2>6. F[S] = e[z] + F[R]
    BY <1>4, <2>5
  <2>7. g[x + 1] = e[z]
    BY <1>1, <2>1 DEF z
  <2>8. QED
    BY <2>6, <2>7 DEF S, R
<1>7. Im(n) = 1..n
  BY <1>2
<1> HIDE DEF f, h
<1>8. Bad = {}
  <2> SUFFICES ASSUME Bad # {} PROVE FALSE
    OBVIOUS
  <2>1. PICK k \in Bad : \A x \in Bad : k <= x
    <3>1. Bad \in SUBSET Nat
      OBVIOUS
    <3> HIDE DEF Bad
    <3>2. QED
      BY <3>1, LeastNat
  <2>2. k \in Nat /\ k <= n /\ f(k) # h(k)
    BY <2>1
  <2>3. k # 0
    BY <1>3, <1>5, <2>2
  <2> DEFINE x == k - 1
  <2>4. x \in 0..(n - 1) /\ x \in Nat /\ x <= n /\ x < k /\ x + 1 = k
    BY <1>2, <2>2, <2>3
  <2> HIDE DEF x
  <2>5. f(x) = h(x)
    <3>1. x \notin Bad
      <4> HIDE DEF Bad
      <4> QED
        BY <2>1, <2>2, <2>4
    <3>2. QED
      BY <2>4, <3>1
  <2>6. QED
    BY <1>3, <1>6, <2>2, <2>4, <2>5
<1>9. n \notin Bad
  BY <1>8
<1>10. f(n) = h(n)
  BY <1>2, <1>9
<1>11. QED
  BY <1>7, <1>10 DEF f, h

\* F sums up g[1..n].
SumsOf(F, e, g, n) ==
  /\ n \in Nat /\ Additive(F, e, n + 1)
  /\ \A i \in 1..n : e[i] = g[i] /\ g[i] \in Nat

LEMMA SumsOfExist ==
  ASSUME NEW n \in Nat, NEW g \in [1..n -> Nat]
  PROVE  \E F, e : SumsOf(F, e, g, n)
<1> DEFINE e == [x \in 0..n |-> IF x = 0 THEN 0 ELSE g[x]]
<1>1. n + 1 \in Nat /\ \A x \in 0..((n + 1) - 1) : e[x] \in Nat
  OBVIOUS
<1>2. \A i \in 1..n : e[i] = g[i] /\ g[i] \in Nat
  OBVIOUS
<1> HIDE DEF e
<1>3. PICK F : Additive(F, e, n + 1)
  BY <1>1, SumsExist
<1>4. SumsOf(F, e, g, n)
  BY <1>2, <1>3 DEF SumsOf
<1>5. QED
  BY <1>4

\* It is what SumFunctionOnSet computes.
LEMMA SumsOfTotal ==
  ASSUME NEW F, NEW e, NEW g, NEW n, SumsOf(F, e, g, n), NEW S \in SUBSET (1..n)
  PROVE  Total(g, S) = F[S]
<1>1. n \in Nat /\ Additive(F, e, n + 1) /\ \A i \in 1..n : e[i] = g[i]
  BY DEF SumsOf
<1> DEFINE m == n + 1
<1>2. m \in Nat /\ S \in SUBSET (0..(m - 1)) /\ Additive(F, e, m)
  BY <1>1
<1>3. Agrees(e, g, S)
  BY <1>1 DEF Agrees
<1> HIDE DEF m
<1>4. QED
  BY <1>2, <1>3, TotalIs

\* What the coder's codes take at the deepest level, code by code.
LEMMA GivenKraft ==
  ASSUME NEW K, K = Len(values), K \in Nat, NEW fragments, NEW used, NEW N, Given(fragments, used, N),
         NEW F, NEW e, SumsOf(F, e, [i \in 1..K |-> 2 ^ (2 * (N - fragments[i]))], K)
  PROVE  F[1..K] <= 2 ^ (2 * N)
<1> DEFINE h == [d \in 1..N |-> 2 ^ (2 * (N - d))]
           q == [d \in 1..N |-> used[d] * h[d]]
<1>1. /\ N \in Nat /\ N > 0 /\ used \in [1..N -> 0..K] /\ Total(used, 1..N) = K
      /\ KraftOf(used, N) <= 2 ^ (2 * N)
      /\ fragments = [i \in 1..K |-> Min({d \in 1..N : Total(used, 1..d) > K - i})]
  BY DEF Given
<1>2. \A i \in 1..K : fragments[i] \in Nat /\ 1 <= fragments[i] /\ fragments[i] <= N
  BY GivenShrinks
<1>3. used \in [1..N -> Nat]
  BY <1>1
<1>4. h \in [1..N -> Nat]
  <2> SUFFICES ASSUME NEW d \in 1..N PROVE 2 ^ (2 * (N - d)) \in Nat
    OBVIOUS
  <2> DEFINE x == N - d
  <2>1. x \in Nat
    BY <1>1
  <2> HIDE DEF x
  <2>2. 2 ^ (2 * x) \in Nat
    BY <2>1, QuadPower
  <2>3. QED
    BY <2>2 DEF x
<1>5. KraftOf(used, N) = Total(q, 1..N)
  <2>1. q = [d \in 1..N |-> used[d] * 2 ^ (2 * (N - d))] /\ DOMAIN q = 1..N
    OBVIOUS
  <2> HIDE DEF q
  <2>2. KraftOf(used, N) = SumFunction(q)
    BY <2>1 DEF KraftOf
  <2>3. QED
    BY <2>1, <2>2 DEF SumFunction, Total
<1>6. \A i \in 1..K : e[i] = h[fragments[i]]
  <2> SUFFICES ASSUME NEW i \in 1..K PROVE e[i] = h[fragments[i]]
    OBVIOUS
  <2>1. e[i] = 2 ^ (2 * (N - fragments[i]))
    BY DEF SumsOf
  <2>2. fragments[i] \in 1..N
    BY <1>1, <1>2
  <2>3. QED
    BY <2>1, <2>2
<1> HIDE DEF h
<1>7. q \in [1..N -> Nat] /\ \A d \in 1..N : q[d] = used[d] * h[d]
  <2>1. \A d \in 1..N : used[d] \in Nat /\ h[d] \in Nat
    BY <1>3, <1>4
  <2>2. \A d \in 1..N : used[d] * h[d] \in Nat
    BY <2>1
  <2>3. QED
    BY <2>2
<1> HIDE DEF q
<1>8. PICK U, u : SumsOf(U, u, used, N)
  BY <1>1, <1>3, SumsOfExist
<1>9. PICK Q, r : SumsOf(Q, r, q, N)
  BY <1>1, <1>7, SumsOfExist
<1> DEFINE up == [d \in 0..N |-> U[1..d]]
           KR == [d \in 0..N |-> Q[1..d]]
           T == [x \in 0..K |-> F[((K - x) + 1)..K]]
<1>10. SumsFromLeft(U, u, N) /\ SumsFromLeft(Q, r, N) /\ SumsFromRight(F, e, K)
  <2>1. N \in Nat /\ K \in Nat /\ Additive(U, u, N + 1) /\ Additive(Q, r, N + 1) /\ Additive(F, e, K + 1)
    BY <1>1, <1>8, <1>9 DEF SumsOf
  <2>2. SumsFromLeft(U, u, N) /\ SumsFromLeft(Q, r, N)
    BY <2>1, SumEnds
  <2>3. SumsFromRight(F, e, K)
    BY <2>1, SumEnds
  <2>4. QED
    BY <2>2, <2>3
<1>11. /\ up \in [0..N -> Nat] /\ up[0] = 0
       /\ \A d \in 0..(N - 1) : up[d + 1] = up[d] + used[d + 1]
  <2>1. /\ U[1..0] = 0 /\ \A i \in 0..N : U[1..i] \in Nat
        /\ \A i \in 0..(N - 1) : U[1..(i + 1)] = u[i + 1] + U[1..i]
    BY <1>10 DEF SumsFromLeft
  <2>2. ASSUME NEW d \in 0..(N - 1) PROVE up[d + 1] = up[d] + used[d + 1]
    <3>1. d \in 0..N /\ d + 1 \in 0..N /\ d + 1 \in 1..N
      BY <1>1
    <3>2. u[d + 1] = used[d + 1] /\ used[d + 1] \in Nat
      BY <1>8, <3>1 DEF SumsOf
    <3>3. up[d] = U[1..d] /\ up[d + 1] = U[1..(d + 1)] /\ U[1..d] \in Nat
      BY <2>1, <3>1
    <3> HIDE DEF up
    <3>4. QED
      BY <2>1, <3>2, <3>3
  <2>3. 0 \in 0..N
    BY <1>1
  <2>4. QED
    BY <2>1, <2>2, <2>3
<1>12. /\ KR \in [0..N -> Nat] /\ KR[0] = 0
       /\ \A d \in 0..(N - 1) : KR[d + 1] = KR[d] + used[d + 1] * h[d + 1]
  <2>1. /\ Q[1..0] = 0 /\ \A i \in 0..N : Q[1..i] \in Nat
        /\ \A i \in 0..(N - 1) : Q[1..(i + 1)] = r[i + 1] + Q[1..i]
    BY <1>10 DEF SumsFromLeft
  <2>2. ASSUME NEW d \in 0..(N - 1) PROVE KR[d + 1] = KR[d] + used[d + 1] * h[d + 1]
    <3>1. d \in 0..N /\ d + 1 \in 0..N /\ d + 1 \in 1..N
      BY <1>1
    <3>2. r[d + 1] = q[d + 1] /\ q[d + 1] \in Nat /\ q[d + 1] = used[d + 1] * h[d + 1]
      BY <1>7, <1>9, <3>1 DEF SumsOf
    <3>3. KR[d] = Q[1..d] /\ KR[d + 1] = Q[1..(d + 1)] /\ Q[1..d] \in Nat
      BY <2>1, <3>1
    <3> HIDE DEF KR
    <3> DEFINE z == used[d + 1] * h[d + 1]
    <3>4. z \in Nat /\ r[d + 1] = z
      BY <3>2
    <3> HIDE DEF z
    <3>5. KR[d + 1] = KR[d] + z
      BY <2>1, <3>3, <3>4
    <3>6. QED
      BY <3>5 DEF z
  <2>3. 0 \in 0..N
    BY <1>1
  <2>4. QED
    BY <2>1, <2>2, <2>3
<1>13. up[N] = K /\ \A d \in 1..N : up[d] = Total(used, 1..d)
  <2>1. ASSUME NEW d \in 1..N PROVE up[d] = Total(used, 1..d)
    <3>1. 1..d \in SUBSET (1..N) /\ d \in 0..N
      BY <1>1
    <3>2. Total(used, 1..d) = U[1..d]
      BY <1>8, <3>1, SumsOfTotal
    <3>3. QED
      BY <3>1, <3>2
  <2>2. N \in 1..N
    BY <1>1
  <2> HIDE DEF up
  <2>3. QED
    BY <1>1, <2>1, <2>2
<1>14. T \in [0..K -> Nat] /\ T[0] = 0 /\ T[K] = F[1..K]
  <2>1. F[(K + 1)..K] = 0 /\ \A i \in 1..(K + 1) : F[i..K] \in Nat
    BY <1>10 DEF SumsFromRight
  <2>2. \A x \in 0..K : (K - x) + 1 \in 1..(K + 1)
    OBVIOUS
  <2>3. (K - 0) + 1 = K + 1 /\ (K - K) + 1 = 1 /\ 0 \in 0..K /\ K \in 0..K
    OBVIOUS
  <2>4. T \in [0..K -> Nat]
    BY <2>1, <2>2
  <2>5. T[0] = F[(K + 1)..K] /\ T[K] = F[1..K]
    BY <2>3
  <2>6. QED
    BY <2>1, <2>4, <2>5
<1>15. ASSUME NEW x \in 0..(K - 1) PROVE T[x + 1] = T[x] + h[Min({d \in 1..N : up[d] > x})]
  <2> DEFINE i == K - x
  <2>1. i \in 1..K /\ (K - (x + 1)) + 1 = i /\ K - i = x /\ x \in 0..K /\ x + 1 \in 0..K
    OBVIOUS
  <2>2. T[x + 1] = F[i..K] /\ T[x] = F[(i + 1)..K]
    BY <2>1
  <2>3. T[x] \in Nat
    BY <1>14, <2>1
  <2> HIDE DEF T, i
  <2>4. F[i..K] = e[i] + F[(i + 1)..K]
    BY <1>10, <2>1 DEF SumsFromRight
  <2>5. fragments[i] = Min({d \in 1..N : up[d] > x})
    <3>1. fragments[i] = Min({d \in 1..N : Total(used, 1..d) > K - i})
      BY <1>1, <2>1
    <3> HIDE DEF up
    <3>2. {d \in 1..N : Total(used, 1..d) > K - i} = {d \in 1..N : up[d] > x}
      BY <1>13, <2>1
    <3>3. QED
      BY <3>1, <3>2
  <2> DEFINE y == h[fragments[i]]
  <2>6. e[i] = y /\ y \in Nat
    <3>1. fragments[i] \in 1..N
      BY <1>1, <1>2, <2>1
    <3>2. QED
      BY <1>4, <1>6, <2>1, <3>1
  <2> HIDE DEF y
  <2>7. T[x + 1] = T[x] + y
    BY <2>2, <2>3, <2>4, <2>6
  <2>8. QED
    BY <2>5, <2>7 DEF y
<1> HIDE DEF up, KR, T
<1>16. Blocks(N, K, up, used, h, KR, T)
  BY <1>1, <1>3, <1>4, <1>11, <1>12, <1>13, <1>14, <1>15 DEF Blocks
<1>17. T[K] = KR[N]
  BY <1>16, BlockSum
<1>18. KR[N] = Total(q, 1..N)
  <2>1. 1..N \in SUBSET (1..N) /\ N \in 0..N
    BY <1>1
  <2>2. Total(q, 1..N) = Q[1..N]
    BY <1>9, <2>1, SumsOfTotal
  <2>3. QED
    BY <2>1, <2>2 DEF KR
<1>19. QED
  BY <1>1, <1>5, <1>14, <1>17, <1>18

\* The same for a limit that no code passes.
LEMMA GivenFits ==
  ASSUME NEW K, K = Len(values), K \in Nat, NEW fragments, NEW used, NEW N, Given(fragments, used, N),
         NEW b \in Nat, \A i \in 1..K : 2 * fragments[i] <= b
  PROVE  Total([i \in 1..K |-> 2 ^ (b - 2 * fragments[i])], 1..K) <= 2 ^ b
<1> DEFINE A == 2 ^ (2 * N)
           B == 2 ^ b
           v == [i \in 1..K |-> 2 ^ (b - 2 * fragments[i])]
           w == [i \in 1..K |-> 2 ^ (2 * (N - fragments[i]))]
<1>1. N \in Nat
  BY DEF Given
<1>2. \A i \in 1..K : fragments[i] \in Nat /\ 1 <= fragments[i] /\ fragments[i] <= N
  BY GivenShrinks
<1>3. A \in Nat \ {0} /\ B \in Nat
  <2>1. 2 * N \in Nat
    BY <1>1
  <2>2. QED
    BY <2>1, PowerStep
<1>4. ASSUME NEW i \in 1..K
      PROVE  v[i] \in Nat /\ w[i] \in Nat /\ A * v[i] = B * w[i]
  <2> DEFINE f == fragments[i]
             x == b - 2 * f
             y == 2 * (N - f)
             z == 2 * f
  <2>1. f \in Nat /\ f <= N /\ 2 * f <= b
    BY <1>2
  <2> HIDE DEF f
  <2>2. x \in Nat /\ y \in Nat /\ z \in Nat /\ 2 * N = y + z /\ b = x + z
    BY <1>1, <2>1
  <2> HIDE DEF x, y, z
  <2>3. /\ 2 ^ (y + z) = 2 ^ y * 2 ^ z /\ 2 ^ (x + z) = 2 ^ x * 2 ^ z
        /\ 2 ^ x \in Nat /\ 2 ^ y \in Nat /\ 2 ^ z \in Nat
    BY <2>2, PowerAdd, PowerStep
  <2> DEFINE p == 2 ^ x
             q == 2 ^ y
             r == 2 ^ z
  <2>4. A = q * r /\ B = p * r /\ p \in Nat /\ q \in Nat /\ r \in Nat
    BY <2>2, <2>3
  <2>5. v[i] = p /\ w[i] = q
    BY DEF f, x, y
  <2> HIDE DEF p, q, r, A, B, v, w
  <2>6. (q * r) * p = (p * r) * q
    BY <2>4
  <2>7. QED
    BY <2>4, <2>5, <2>6
<1>5. v \in [1..K -> Nat] /\ w \in [1..K -> Nat]
  <2>1. \A i \in 1..K : v[i] \in Nat /\ w[i] \in Nat
    BY <1>4
  <2>2. QED
    BY <2>1
<1>6. \A F, e : SumsOf(F, e, w, K) => F[1..K] <= A
  BY GivenKraft
<1> HIDE DEF v, w, A, B
<1>7. PICK G, g : SumsOf(G, g, v, K)
  BY <1>5, SumsOfExist
<1>8. PICK F, e : SumsOf(F, e, w, K)
  BY <1>5, SumsOfExist
<1>9. Scaled(G, g, F, e, K, A, B)
  <2>1. \A i \in 1..K : g[i] = v[i] /\ e[i] = w[i]
    BY <1>7, <1>8 DEF SumsOf
  <2>2. \A i \in 1..K : g[i] \in Nat /\ e[i] \in Nat /\ A * g[i] = B * e[i]
    BY <1>4, <2>1
  <2>3. Additive(G, g, K + 1) /\ Additive(F, e, K + 1)
    BY <1>7, <1>8 DEF SumsOf
  <2>4. QED
    BY <1>3, <2>2, <2>3 DEF Scaled
<1>10. A * G[1..K] = B * F[1..K]
  BY <1>9, SumScaled
<1>11. G[1..K] \in Nat /\ F[1..K] \in Nat
  <2>1. Additive(G, g, K + 1) /\ Additive(F, e, K + 1) /\ 1..K \in SUBSET (0..((K + 1) - 1))
    BY <1>7, <1>8 DEF SumsOf
  <2> DEFINE S == 1..K
  <2> HIDE DEF S
  <2>2. G[S] \in Nat /\ F[S] \in Nat
    BY <2>1 DEF Additive, S
  <2>3. QED
    BY <2>2 DEF S
<1> DEFINE s == G[1..K]
           t == F[1..K]
<1>12. s \in Nat /\ t \in Nat /\ A * s = B * t /\ t <= A
  BY <1>6, <1>8, <1>10, <1>11
<1> HIDE DEF s, t
<1>13. s <= B
  <2> SUFFICES ASSUME s >= B + 1 PROVE FALSE
    BY <1>3, <1>12
  <2>1. A * (B + 1) <= A * s
    BY <1>3, <1>12, MulMono
  <2>2. B * t <= B * A
    BY <1>3, <1>12, MulMono
  <2>3. A * (B + 1) = B * A + A /\ B * A \in Nat
    BY <1>3
  <2> DEFINE x == B * A
             y == A * s
  <2>4. y \in Nat /\ x \in Nat /\ x + A <= y /\ y <= x
    BY <1>3, <1>12, <2>1, <2>2, <2>3
  <2> HIDE DEF x, y
  <2>5. QED
    BY <1>3, <2>4
<1>14. Total(v, 1..K) = s
  <2>1. 1..K \in SUBSET (1..K)
    OBVIOUS
  <2>2. QED
    BY <1>7, <2>1, SumsOfTotal DEF s
<1>15. QED
  BY <1>13, <1>14 DEF v, B

\* The lengths of entries.
Lens(infos) == [k \in 1..Len(infos) |-> infos[k].len]

\* The slots of entries, in terms of their lengths.
LEMMA KraftOfLens ==
  ASSUME NEW infos, NEW b, DOMAIN infos = 1..Len(infos)
  PROVE  KraftSumAt(b, infos) = Total([k \in 1..Len(infos) |-> 2 ^ (b - Lens(infos)[k])], 1..Len(infos))
<1> DEFINE n == Len(infos)
           g == [k \in 1..n |-> 2 ^ (b - Lens(infos)[k])]
<1>1. g = [i \in DOMAIN infos |-> 2 ^ (b - infos[i].len)] /\ DOMAIN g = 1..n
  BY DEF Lens
<1> HIDE DEF g
<1>2. KraftSumAt(b, infos) = SumFunction(g)
  BY <1>1 DEF KraftSumAt
<1>3. QED
  BY <1>1, <1>2 DEF SumFunction, Total, g

\* They are the same in the order of craft_wm_codes.
LEMMA SortedNeeds ==
  ASSUME NEW infos, Infos(infos), NEW b \in Nat, \A i \in 1..Len(infos) : infos[i].len <= b,
         NEW o, SortedBy(o, infos)
  PROVE  Needed([i \in 1..Len(infos) |-> infos[o[i]].len], Len(infos), b, 0) = KraftSumAt(b, infos)
<1> DEFINE n == Len(infos)
           d == [i \in 1..n |-> infos[o[i]].len]
           g == [k \in 1..n |-> 2 ^ (b - d[k])]
           v == [k \in 1..n |-> 2 ^ (b - Lens(infos)[k])]
<1>1. n \in Nat /\ DOMAIN infos = 1..n /\ \A i \in 1..n : infos[i].len \in Nat
  BY InfoType
<1>2. Arranges(o, n) /\ o \in [1..n -> 1..n]
  BY DEF SortedBy, Arranges
<1>3. Needed(d, n, b, 0) = Total(g, 1..n)
  <2>1. (0 + 1)..n = 1..n
    OBVIOUS
  <2>2. QED
    BY <2>1 DEF Needed
<1>4. KraftSumAt(b, infos) = Total(v, 1..n)
  BY <1>1, KraftOfLens
<1>5. \A i \in 1..n : v[i] = 2 ^ (b - infos[i].len) /\ v[i] \in Nat
  <2> SUFFICES ASSUME NEW i \in 1..n PROVE v[i] = 2 ^ (b - infos[i].len) /\ v[i] \in Nat
    OBVIOUS
  <2> DEFINE x == b - infos[i].len
  <2>1. v[i] = 2 ^ x
    BY DEF Lens
  <2>2. x \in Nat
    BY <1>1
  <2> HIDE DEF x
  <2>3. 2 ^ x \in Nat
    BY <2>2, PowerStep
  <2>4. QED
    BY <2>1, <2>3 DEF x
<1>6. \A i \in 1..n : g[i] = v[o[i]] /\ g[i] \in Nat
  <2> SUFFICES ASSUME NEW i \in 1..n PROVE g[i] = v[o[i]] /\ g[i] \in Nat
    OBVIOUS
  <2>1. o[i] \in 1..n
    BY <1>2
  <2>2. g[i] = 2 ^ (b - infos[o[i]].len)
    OBVIOUS
  <2>3. QED
    BY <1>5, <2>1, <2>2
<1>7. v \in [1..n -> Nat] /\ g \in [1..n -> Nat]
  BY <1>5, <1>6
<1> HIDE DEF v, g, n, d
<1>8. PICK F, e : SumsOf(F, e, v, n)
  BY <1>1, <1>7, SumsOfExist
<1>9. PICK G, f : SumsOf(G, f, g, n)
  BY <1>1, <1>7, SumsOfExist
<1>10. Rearranged(F, e, G, f, n, o)
  <2>1. Additive(F, e, n + 1) /\ Additive(G, f, n + 1)
    BY <1>8, <1>9 DEF SumsOf
  <2>2. \A i \in 1..n : e[i] = v[i] /\ f[i] = g[i] /\ o[i] \in 1..n
    BY <1>2, <1>8, <1>9 DEF SumsOf
  <2>3. \A i \in 1..n : f[i] \in Nat /\ f[i] = e[o[i]]
    BY <1>6, <2>2
  <2>4. QED
    BY <1>2, <2>1, <2>3 DEF Rearranged
<1>11. G[1..n] = F[1..n]
  BY <1>10, SumRearranged
<1>12. Total(v, 1..n) = F[1..n] /\ Total(g, 1..n) = G[1..n]
  <2>1. 1..n \in SUBSET (1..n)
    OBVIOUS
  <2>2. Total(v, 1..n) = F[1..n]
    BY <1>8, <2>1, SumsOfTotal
  <2>3. Total(g, 1..n) = G[1..n]
    BY <1>9, <2>1, SumsOfTotal
  <2>4. QED
    BY <2>2, <2>3
<1>13. QED
  BY <1>3, <1>4, <1>11, <1>12 DEF d, n

\* craft_wm_codes begins with the root as the only open node.
LEMMA FirstNodes ==
  ASSUME NEW d, NEW n, NEW b, Depths(d, n, b), n # 0, Needed(d, n, b, 0) <= 2 ^ b
  PROVE  Nodes(d, n, b, [k \in 0..(4 * n - 1) |-> 0], 1, 0, 0)
<1> DEFINE c == [k \in 0..(4 * n - 1) |-> 0]
<1>1. n \in Nat /\ b \in Nat /\ n >= 1 /\ \A k \in 1..n : 2 <= d[k] /\ d[k] \in Nat
  BY DEF Depths
<1>2. c \in [0..(4 * n - 1) -> Nat] /\ c[0] = 0
  BY <1>1
<1>3. Needed(d, n, b, 0) <= (1 - 0) * 2 ^ (b - 0)
  <2>1. b - 0 = b /\ 1 - 0 = 1 /\ 2 ^ b \in Nat
    BY <1>1, PowerStep
  <2> DEFINE p == 2 ^ b
  <2>2. p \in Nat /\ 2 ^ (b - 0) = p /\ Needed(d, n, b, 0) <= p
    BY <2>1
  <2> HIDE DEF p
  <2>3. (1 - 0) * p = p
    BY <2>2
  <2>4. QED
    BY <2>2, <2>3
<1>4. c[0] < 2 ^ 0
  <2>1. 2 ^ 0 = 1
    BY FS_EmptySet, FS_SUBSET
  <2>2. QED
    BY <1>2, <2>1
<1> HIDE DEF c
<1>5. 0..(1 - 1) = {0} /\ 1..0 = {}
  OBVIOUS
<1>6. /\ \A x \in 0..(1 - 1) : c[x] < 2 ^ 0
      /\ \A x, y \in 0..(1 - 1) : x # y => c[x] # c[y]
      /\ \A k \in 1..0 : c[k - 1] < 2 ^ d[k]
      /\ \A k \in 1..0 : \A x \in k..(1 - 1) : c[x] % 2 ^ d[k] # c[k - 1]
  BY <1>4, <1>5
<1>7. \A k \in 1..n : IF k <= 0 THEN d[k] <= 0 ELSE 0 <= d[k]
  BY <1>1
<1>8. /\ 0 \in 0..n /\ 1 \in Nat /\ 0 <= 1 /\ 1 <= 4 * n
      /\ 0 \in Nat /\ 0 % 2 = 0 /\ 0 <= b
  BY <1>1
<1>9. Nodes(d, n, b, c, 1, 0, 0)
  BY <1>2, <1>3, <1>6, <1>7, <1>8 DEF Nodes
<1>10. QED
  BY <1>9 DEF c

------------------------------------------------------------------------------
(* craft_wm_codes.                                                         *)

\* The largest of finitely many numbers.
LEMMA FiniteMax ==
  ASSUME NEW S \in SUBSET Nat, IsFiniteSet(S), S # {}
  PROVE  Max(S) \in S /\ \A y \in S : y <= Max(S)
<1> DEFINE n == Cardinality(S)
           R == {z \in S \X S : z[1] < z[2]}
           o == [i \in 1..n |-> CHOOSE x \in S : Cardinality(Preceding(R, S, x)) = i - 1]
<1>1. n \in Nat /\ n # 0
  BY FS_CardinalityType, FS_EmptySet
<1>2. StrictOrder(R, S)
  BY DEF StrictOrder
<1>3. Enumerates(o, R, S)
  <2> HIDE DEF R
  <2> QED
    BY DEF Enumerates
<1>4. \A x, y : <<x, y>> \in R => x < y
  OBVIOUS
<1> HIDE DEF o, R
<1>5. /\ \A i \in 1..n : o[i] \in S
      /\ \A x \in S : \E i \in 1..n : o[i] = x
      /\ \A i, k \in 1..n : i < k => <<o[i], o[k]>> \in R
  BY <1>2, <1>3, Enumerated
<1> HIDE DEF n
<1>6. n \in 1..n
  BY <1>1
<1>7. o[n] \in S /\ \A y \in S : o[n] >= y
  <2>1. o[n] \in S /\ o[n] \in Nat
    BY <1>5, <1>6
  <2>2. ASSUME NEW y \in S PROVE o[n] >= y
    <3>1. PICK i \in 1..n : o[i] = y
      BY <1>5
    <3>2. i = n \/ i < n
      BY <1>1
    <3>3. i < n => y < o[n]
      BY <1>4, <1>5, <1>6, <3>1
    <3>4. y \in Nat
      OBVIOUS
    <3>5. QED
      BY <2>1, <3>1, <3>2, <3>3, <3>4
  <2>3. QED
    BY <2>1, <2>2
<1>8. Max(S) \in S /\ \A y \in S : Max(S) >= y
  BY <1>7 DEF Max
<1>9. QED
  BY <1>8

\* The entries are those of the symbols in A, with codes of a digit at least.
Covers(infos, A) ==
  /\ \A i \in 1..Len(infos) : infos[i].len >= 2 /\ infos[i].symbol \in A
  /\ \A s \in A : \E i \in 1..Len(infos) : infos[i].symbol = s

\* If no code is longer than b, there is room for them.
Fits(infos, b) ==
  (\A i \in 1..Len(infos) : infos[i].len <= b) => KraftSumAt(b, infos) <= 2 ^ b

\* craft_wm_codes in its loop: the codes up to cr.j are those of the nodes given.
Crafting(infos, b, A, cr, codes) ==
  /\ Depths(Lens(infos), Len(infos), b)
  /\ Nodes(Lens(infos), Len(infos), b, cr.c, cr.m, cr.l, cr.j)
  /\ DOMAIN cr = {"c", "m", "l", "j"}
  /\ Covers(infos, A)
  /\ \A i, k \in 1..Len(infos) : infos[i].symbol = infos[k].symbol => i = k
  /\ A \subseteq DOMAIN codes
  /\ \A k \in 1..Len(infos) :
       codes[infos[k].symbol] = IF k <= cr.j THEN CodeOf(Lens(infos), cr.c, k) ELSE NoCode
  /\ \A s \in DOMAIN codes \ A : codes[s] = NoCode

\* The codes of the symbols in A are within the limit and none begins another.
Free(codes, A, b) ==
  /\ \A s \in DOMAIN codes : s \in A <=> codes[s].len # 0
  /\ \A s \in A : codes[s].len <= b /\ codes[s].content < 2 ^ codes[s].len
  /\ \A s, u \in A : s # u => ~Prefix(codes[s], codes[u])

\* Lengths that fit are in order, and the root is open.
LEMMA BeginCrafting ==
  ASSUME NEW infos, Infos(infos), NEW b \in Nat, \A i \in 1..Len(infos) : infos[i].len <= b,
         NEW A \in SUBSET Nat, IsFiniteSet(A), A # {}, Covers(infos, A),
         KraftSumAt(b, infos) <= 2 ^ b
  PROVE  Crafting(sorted(infos), b, A,
                  [c |-> [k \in 0..(4 * Len(infos) - 1) |-> 0], m |-> 1, l |-> 0, j |-> 0],
                  [s \in 0..Max(A) |-> NoCode])
<1> DEFINE n == Len(infos)
           T == sorted(infos)
           c == [k \in 0..(4 * n - 1) |-> 0]
           cr == [c |-> c, m |-> 1, l |-> 0, j |-> 0]
           codes == [s \in 0..Max(A) |-> NoCode]
<1>1. PICK o : SortedBy(o, infos)
  BY SortedIs
<1> DEFINE e == [i \in 1..n |-> infos[o[i]].len]
<1>2. /\ n \in Nat /\ o \in [1..n -> 1..n] /\ T = [i \in 1..n |-> infos[o[i]]]
      /\ \A i, k \in 1..n : o[i] = o[k] => i = k
      /\ \A x \in 1..n : \E i \in 1..n : o[i] = x
      /\ \A i, k \in 1..n : i < k => infos[o[i]].len <= infos[o[k]].len
  BY <1>1 DEF SortedBy, Arranges
<1>3. \A i \in 1..n : infos[i].len \in Nat /\ infos[i].len % 2 = 0
  BY InfoType
<1>4. \A i, k \in 1..n : infos[i].symbol = infos[k].symbol => i = k
  BY DEF Infos
<1>5. /\ \A i \in 1..n : infos[i].len >= 2 /\ infos[i].symbol \in A
      /\ \A s \in A : \E i \in 1..n : infos[i].symbol = s
  BY DEF Covers
<1>6. Needed(e, n, b, 0) = KraftSumAt(b, infos)
  BY <1>1, SortedNeeds
<1>7. \A i \in 1..n : infos[i].len <= b
  OBVIOUS
<1> HIDE DEF n, T
<1>8. Len(T) = n
  <2> DEFINE h(i) == infos[o[i]]
  <2>1. T = [i \in 1..n |-> h(i)]
    BY <1>2
  <2> HIDE DEF h
  <2>2. QED
    BY <1>2, <2>1
<1>9. \A i \in 1..n : T[i] = infos[o[i]] /\ o[i] \in 1..n
  BY <1>2
<1>10. Lens(T) = e
  BY <1>8, <1>9 DEF Lens
<1>11. Depths(e, n, b)
  <2>1. e \in [1..n -> Nat]
    BY <1>3, <1>9
  <2>2. \A k \in 1..n : e[k] % 2 = 0 /\ 2 <= e[k] /\ e[k] <= b
    <3> SUFFICES ASSUME NEW k \in 1..n PROVE e[k] % 2 = 0 /\ 2 <= e[k] /\ e[k] <= b
      OBVIOUS
    <3>1. o[k] \in 1..n /\ e[k] = infos[o[k]].len
      BY <1>9
    <3>2. QED
      BY <1>3, <1>5, <1>7, <3>1
  <2>3. \A i, k \in 1..n : i < k => e[i] <= e[k]
    BY <1>2
  <2> HIDE DEF e
  <2>4. QED
    BY <1>2, <2>1, <2>2, <2>3 DEF Depths
<1>12. n # 0
  <2>1. PICK s \in A : TRUE
    OBVIOUS
  <2>2. PICK i \in 1..n : infos[i].symbol = s
    BY <1>5
  <2>3. QED
    BY <1>2, <2>2
<1> HIDE DEF e
<1>13. Nodes(e, n, b, c, 1, 0, 0)
  <2>1. Needed(e, n, b, 0) <= 2 ^ b
    BY <1>6
  <2>2. QED
    BY <1>11, <1>12, <2>1, FirstNodes
<1>14. Covers(T, A)
  <2>1. \A i \in 1..n : T[i].len >= 2 /\ T[i].symbol \in A
    BY <1>5, <1>9
  <2>2. ASSUME NEW s \in A PROVE \E i \in 1..n : T[i].symbol = s
    <3>1. PICK x \in 1..n : infos[x].symbol = s
      BY <1>5
    <3>2. PICK i \in 1..n : o[i] = x
      BY <1>2
    <3>3. T[i].symbol = s
      BY <1>9, <3>1, <3>2
    <3>4. QED
      BY <3>3
  <2>3. QED
    BY <1>8, <2>1, <2>2 DEF Covers
<1>15. \A i, k \in 1..n : T[i].symbol = T[k].symbol => i = k
  <2> SUFFICES ASSUME NEW i \in 1..n, NEW k \in 1..n, T[i].symbol = T[k].symbol PROVE i = k
    OBVIOUS
  <2>1. o[i] = o[k]
    BY <1>4, <1>9
  <2>2. QED
    BY <1>2, <2>1
<1>16. A \subseteq DOMAIN codes /\ \A s \in DOMAIN codes : codes[s] = NoCode
  <2>1. Max(A) \in A /\ \A y \in A : y <= Max(A)
    BY FiniteMax
  <2> DEFINE x == Max(A)
  <2> HIDE DEF x
  <2>2. A \subseteq 0..x
    BY <2>1 DEF x
  <2>3. codes = [s \in 0..x |-> NoCode]
    BY DEF x
  <2>4. QED
    BY <2>2, <2>3
<1>17. cr.c = c /\ cr.m = 1 /\ cr.l = 0 /\ cr.j = 0 /\ DOMAIN cr = {"c", "m", "l", "j"}
  OBVIOUS
<1> HIDE DEF cr, c, codes
<1>18. \A k \in 1..n : codes[T[k].symbol] = IF k <= cr.j THEN CodeOf(Lens(T), cr.c, k) ELSE NoCode
  <2> SUFFICES ASSUME NEW k \in 1..n
               PROVE  codes[T[k].symbol] = IF k <= cr.j THEN CodeOf(Lens(T), cr.c, k) ELSE NoCode
    OBVIOUS
  <2>1. ~(k <= cr.j)
    BY <1>2, <1>17
  <2>2. T[k].symbol \in A
    BY <1>8, <1>14 DEF Covers
  <2>3. QED
    BY <1>16, <2>1, <2>2
<1>19. Crafting(T, b, A, cr, codes)
  BY <1>8, <1>10, <1>11, <1>13, <1>14, <1>15, <1>16, <1>17, <1>18 DEF Crafting
<1>20. QED
  BY <1>19 DEF T, cr, c, codes, n

\* The parts of the invariant of the loop.
LEMMA CraftingIs ==
  ASSUME NEW infos, NEW b, NEW A, NEW cr, NEW codes, Crafting(infos, b, A, cr, codes)
  PROVE  /\ Depths(Lens(infos), Len(infos), b) /\ Len(infos) \in Nat
         /\ Nodes(Lens(infos), Len(infos), b, cr.c, cr.m, cr.l, cr.j)
         /\ \A k \in 1..Len(infos) : /\ Lens(infos)[k] = infos[k].len /\ infos[k].len \in Nat
                                     /\ infos[k].len >= 2 /\ infos[k].len <= b
                                     /\ infos[k].symbol \in A /\ infos[k].symbol \in DOMAIN codes
         /\ \A s \in A : \E i \in 1..Len(infos) : infos[i].symbol = s
         /\ cr.j \in Nat /\ cr.m \in Nat /\ cr.l \in Nat /\ cr.j <= Len(infos) /\ cr.j <= cr.m
         /\ cr.c \in [0..(4 * Len(infos) - 1) -> Nat]
<1> DEFINE n == Len(infos)
           d == Lens(infos)
<1>1. /\ Depths(d, n, b) /\ Nodes(d, n, b, cr.c, cr.m, cr.l, cr.j) /\ A \subseteq DOMAIN codes
      /\ Covers(infos, A)
  BY DEF Crafting
<1>2. /\ \A i \in 1..n : infos[i].len >= 2 /\ infos[i].symbol \in A
      /\ \A s \in A : \E i \in 1..n : infos[i].symbol = s
  BY <1>1 DEF Covers
<1>3. \A k \in 1..n : d[k] = infos[k].len
  BY DEF Lens
<1> HIDE DEF d, n
<1>4. n \in Nat /\ d \in [1..n -> Nat] /\ \A k \in 1..n : d[k] <= b
  BY <1>1 DEF Depths
<1>5. cr.j \in 0..n /\ cr.m \in Nat /\ cr.l \in Nat /\ cr.j <= cr.m /\ cr.c \in [0..(4 * n - 1) -> Nat]
  BY <1>1 DEF Nodes
<1>6. cr.j \in Nat /\ cr.j <= n
  BY <1>4, <1>5
<1>7. \A k \in 1..n : /\ d[k] = infos[k].len /\ infos[k].len \in Nat
                      /\ infos[k].len >= 2 /\ infos[k].len <= b
                      /\ infos[k].symbol \in A /\ infos[k].symbol \in DOMAIN codes
  BY <1>1, <1>2, <1>3, <1>4
<1>8. QED
  BY <1>1, <1>2, <1>4, <1>5, <1>6, <1>7 DEF d, n

\* A symbol gets its code.
LEMMA AssignCrafting ==
  ASSUME NEW infos, NEW b, NEW A, NEW cr, NEW codes, Crafting(infos, b, A, cr, codes),
         cr.j < Len(infos), infos[cr.j + 1].len <= cr.l,
         NEW code, code = [content |-> reversed_code(cr.c[cr.j], cr.l), len |-> cr.l]
  PROVE  Crafting(infos, b, A, [cr EXCEPT !.j = @ + 1],
                  [codes EXCEPT ![infos[cr.j + 1].symbol] = code])
<1> DEFINE n == Len(infos)
           d == Lens(infos)
           j == cr.j
           i == j + 1
           CR == [cr EXCEPT !.j = @ + 1]
           C == [codes EXCEPT ![infos[i].symbol] = code]
<1>1. /\ Depths(d, n, b) /\ n \in Nat /\ Nodes(d, n, b, cr.c, cr.m, cr.l, j)
      /\ \A k \in 1..n : /\ d[k] = infos[k].len /\ infos[k].len \in Nat
                         /\ infos[k].symbol \in A /\ infos[k].symbol \in DOMAIN codes
      /\ j \in Nat /\ j <= n
  BY CraftingIs
<1>2. /\ DOMAIN cr = {"c", "m", "l", "j"} /\ Covers(infos, A)
      /\ \A x, k \in 1..n : infos[x].symbol = infos[k].symbol => x = k
      /\ A \subseteq DOMAIN codes
      /\ \A s \in DOMAIN codes \ A : codes[s] = NoCode
  BY DEF Crafting
<1>3. \A k \in 1..n : codes[infos[k].symbol] = IF k <= j THEN CodeOf(d, cr.c, k) ELSE NoCode
  BY DEF Crafting
<1>4. j < n /\ infos[i].len <= cr.l
  OBVIOUS
<1>5. CR.c = cr.c /\ CR.m = cr.m /\ CR.l = cr.l /\ CR.j = i /\ DOMAIN CR = {"c", "m", "l", "j"}
  BY <1>2
<1>6. /\ DOMAIN C = DOMAIN codes
      /\ \A s \in DOMAIN codes : C[s] = IF s = infos[i].symbol THEN code ELSE codes[s]
  OBVIOUS
<1> HIDE DEF n, d, CR, C, j
<1>7. i \in 1..n
  BY <1>1, <1>4
<1>8. d[j + 1] <= cr.l
  BY <1>1, <1>4, <1>7
<1>9. Nodes(d, n, b, cr.c, cr.m, cr.l, j + 1) /\ d[j + 1] = cr.l
  BY <1>1, <1>4, <1>8, AssignNodes, NodeIsOpen
<1>10. code = CodeOf(d, cr.c, i)
  <2>1. i - 1 = j
    BY <1>1
  <2>2. QED
    BY <1>9, <2>1 DEF CodeOf, j
<1>11. ASSUME NEW k \in 1..n
       PROVE  C[infos[k].symbol] = IF k <= i THEN CodeOf(d, cr.c, k) ELSE NoCode
  <2>1. CASE k = i
    <3>1. k <= i
      BY <1>1, <2>1
    <3>2. QED
      BY <1>1, <1>6, <1>10, <2>1, <3>1
  <2>2. CASE k # i
    <3>1. infos[k].symbol # infos[i].symbol /\ infos[k].symbol \in DOMAIN codes
      BY <1>1, <1>2, <1>7, <2>2
    <3>2. C[infos[k].symbol] = codes[infos[k].symbol]
      BY <1>6, <3>1
    <3>3. (k <= i) = (k <= j)
      BY <1>1, <2>2
    <3>4. QED
      BY <1>3, <3>2, <3>3
  <2>3. QED
    BY <2>1, <2>2
<1>12. \A s \in DOMAIN C \ A : C[s] = NoCode
  <2>1. infos[i].symbol \in A
    BY <1>1, <1>7
  <2>2. QED
    BY <1>2, <1>6, <2>1
<1> HIDE DEF i
<1>13. Nodes(d, n, b, CR.c, CR.m, CR.l, CR.j)
  BY <1>5, <1>9 DEF i
<1>14. \A k \in 1..n : C[infos[k].symbol] = IF k <= CR.j THEN CodeOf(d, CR.c, k) ELSE NoCode
  BY <1>5, <1>11
<1>15. Crafting(infos, b, A, CR, C)
  BY <1>1, <1>2, <1>5, <1>6, <1>12, <1>13, <1>14 DEF Crafting, d, n
<1>16. QED
  BY <1>15 DEF CR, C, i, j

\* Every open node gets its children.
LEMMA ExpandCrafting ==
  ASSUME NEW infos, NEW b, NEW A, NEW cr, NEW codes, Crafting(infos, b, A, cr, codes),
         cr.j < Len(infos), infos[cr.j + 1].len > cr.l, 4 * cr.m - 3 * cr.j <= 4 * Len(infos),
         NEW CR, CR.m = 4 * cr.m - 3 * cr.j, CR.l = cr.l + 2, CR.j = cr.j,
         CR.c = Expanded(cr.c, Len(infos), cr.m, cr.l, cr.j), DOMAIN CR = DOMAIN cr
  PROVE  Crafting(infos, b, A, CR, codes)
<1> DEFINE n == Len(infos)
           d == Lens(infos)
           j == cr.j
           m == cr.m
           M == 4 * m - 3 * j
           E == Expanded(cr.c, n, m, cr.l, j)
<1>1. /\ Depths(d, n, b) /\ n \in Nat /\ Nodes(d, n, b, cr.c, m, cr.l, j)
      /\ \A k \in 1..n : d[k] = infos[k].len
      /\ j \in Nat /\ j <= n /\ m \in Nat
  BY CraftingIs
<1>2. /\ DOMAIN CR = {"c", "m", "l", "j"} /\ Covers(infos, A)
      /\ \A x, k \in 1..n : infos[x].symbol = infos[k].symbol => x = k
      /\ A \subseteq DOMAIN codes
      /\ \A s \in DOMAIN codes \ A : codes[s] = NoCode
  BY DEF Crafting
<1>3. \A k \in 1..n : codes[infos[k].symbol] = IF k <= j THEN CodeOf(d, cr.c, k) ELSE NoCode
  BY DEF Crafting
<1>4. j < n /\ infos[j + 1].len > cr.l /\ M <= 4 * n
  OBVIOUS
<1>5. CR.m = M /\ CR.l = cr.l + 2 /\ CR.j = j /\ CR.c = E
  OBVIOUS
<1> HIDE DEF n, d, j, m
<1>6. d[j + 1] > cr.l
  <2>1. j + 1 \in 1..n
    BY <1>1, <1>4
  <2>2. QED
    BY <1>1, <1>4, <2>1
<1>7. Nodes(d, n, b, E, M, cr.l + 2, j)
  BY <1>1, <1>4, <1>6, ExpandNodes
<1>8. j < m
  BY <1>1, <1>4, NodeIsOpen
<1>9. \A x \in 0..(j - 1) : E[x] = cr.c[x]
  BY <1>1, <1>4, <1>8, ExpandedIs
<1> HIDE DEF E, M
<1>10. ASSUME NEW k \in 1..n
       PROVE  codes[infos[k].symbol] = IF k <= CR.j THEN CodeOf(d, CR.c, k) ELSE NoCode
  <2>1. CASE k <= j
    <3>1. k - 1 \in 0..(j - 1)
      BY <1>1, <2>1
    <3>2. E[k - 1] = cr.c[k - 1]
      BY <1>9, <3>1
    <3>3. CodeOf(d, E, k) = CodeOf(d, cr.c, k)
      BY <3>2 DEF CodeOf
    <3>4. QED
      BY <1>3, <1>5, <2>1, <3>3
  <2>2. CASE ~(k <= j)
    BY <1>3, <1>5, <2>2
  <2>3. QED
    BY <2>1, <2>2
<1>11. Nodes(d, n, b, CR.c, CR.m, CR.l, CR.j)
  BY <1>5, <1>7
<1>12. QED
  BY <1>1, <1>2, <1>10, <1>11 DEF Crafting, d, n

\* When the loop ends the codes are what they should be.
LEMMA CraftedFree ==
  ASSUME NEW infos, NEW b, NEW A, NEW cr, NEW codes, Crafting(infos, b, A, cr, codes),
         cr.j = Len(infos)
  PROVE  Free(codes, A, b)
<1> DEFINE n == Len(infos)
           d == Lens(infos)
           c == cr.c
<1>1. /\ Depths(d, n, b) /\ n \in Nat /\ Nodes(d, n, b, c, cr.m, cr.l, n)
      /\ \A k \in 1..n : /\ d[k] = infos[k].len /\ infos[k].len \in Nat
                         /\ infos[k].len >= 2 /\ infos[k].len <= b
                         /\ infos[k].symbol \in A
      /\ \A s \in A : \E i \in 1..n : infos[i].symbol = s
  BY CraftingIs
<1>2. /\ A \subseteq DOMAIN codes
      /\ \A s \in DOMAIN codes \ A : codes[s] = NoCode
      /\ \A k \in 1..n : codes[infos[k].symbol] = IF k <= n THEN CodeOf(d, c, k) ELSE NoCode
  BY DEF Crafting
<1> HIDE DEF n, d, c
<1>3. \A k \in 1..n : codes[infos[k].symbol] = CodeOf(d, c, k)
  <2>1. \A k \in 1..n : k <= n
    BY <1>1
  <2>2. QED
    BY <1>2, <2>1
<1>4. \A s \in A : \E k \in 1..n : infos[k].symbol = s /\ codes[s] = CodeOf(d, c, k)
  BY <1>1, <1>3
<1>5. /\ \A k \in 1..n : CodeOf(d, c, k).content < 2 ^ CodeOf(d, c, k).len
      /\ \A i, k \in 1..n : i # k => ~Prefix(CodeOf(d, c, i), CodeOf(d, c, k))
  BY <1>1, CodesApart
<1>6. \A k \in 1..n : CodeOf(d, c, k).len = infos[k].len
  BY <1>1 DEF CodeOf
<1>7. ASSUME NEW s \in A
      PROVE  codes[s].len # 0 /\ codes[s].len <= b /\ codes[s].content < 2 ^ codes[s].len
  <2>1. PICK k \in 1..n : codes[s] = CodeOf(d, c, k)
    BY <1>4
  <2>2. CodeOf(d, c, k).len # 0 /\ CodeOf(d, c, k).len <= b
    BY <1>1, <1>6
  <2>3. QED
    BY <1>5, <2>1, <2>2
<1>8. ASSUME NEW s \in A, NEW u \in A, s # u PROVE ~Prefix(codes[s], codes[u])
  <2>1. PICK i \in 1..n : infos[i].symbol = s /\ codes[s] = CodeOf(d, c, i)
    BY <1>4
  <2>2. PICK k \in 1..n : infos[k].symbol = u /\ codes[u] = CodeOf(d, c, k)
    BY <1>4
  <2>3. i # k
    BY <1>8, <2>1, <2>2
  <2>4. QED
    BY <1>5, <2>1, <2>2, <2>3
<1>9. ASSUME NEW s \in DOMAIN codes PROVE s \in A <=> codes[s].len # 0
  <2>1. s \notin A => codes[s].len = 0
    BY <1>2 DEF NoCode
  <2>2. QED
    BY <1>7, <2>1
<1>10. QED
  BY <1>7, <1>8, <1>9 DEF Free

\* The coder's lengths are those of the symbols that occur, and there is room for them.
LEMMA CodeLengthsCover ==
  ASSUME data \in Inputs, CodeLengths, pc' = "limit", NEW b \in Nat
  PROVE  Covers(lengths', Alphabet) /\ Alphabet # {} /\ Fits(lengths', b)
<1> DEFINE K == Len(values)
<1>1. Rows # 0 /\ \E fragments \in minimum_redundancy :
        lengths' = [i \in 1..K |-> [symbol |-> values[i], len |-> 2 * fragments[i],
                                    frequency |-> frequency(values[i])]]
  BY DEF CodeLengths
<1>2. PICK fragments \in minimum_redundancy :
        lengths' = [i \in 1..K |-> [symbol |-> values[i], len |-> 2 * fragments[i],
                                    frequency |-> frequency(values[i])]]
  BY <1>1
<1>3. /\ K \in Nat /\ values \in [1..K -> Alphabet]
      /\ \A s \in Alphabet : \E i \in 1..K : values[i] = s
  BY ValuesAre
<1>4. PICK used, N : Given(fragments, used, N)
  BY <1>3, CodeIsGiven
<1>5. \A i \in 1..K : fragments[i] \in Nat /\ 1 <= fragments[i]
  BY <1>3, <1>4, GivenShrinks
<1>6. (\A i \in 1..K : 2 * fragments[i] <= b) =>
        Total([i \in 1..K |-> 2 ^ (b - 2 * fragments[i])], 1..K) <= 2 ^ b
  BY <1>3, <1>4, GivenFits
<1>7. Alphabet # {}
  <2>1. DOMAIN data # {}
    BY <1>1, FS_EmptySet DEF Rows
  <2>2. QED
    BY <2>1 DEF Alphabet
<1> DEFINE L == lengths'
           v(i) == values[i]
           f(i) == frequency(values[i])
<1>8. L = [i \in 1..K |-> [symbol |-> v(i), len |-> 2 * fragments[i], frequency |-> f(i)]]
  BY <1>2
<1>9. /\ \A i \in 1..K : v(i) \in Alphabet
      /\ \A s \in Alphabet : \E i \in 1..K : v(i) = s
  BY <1>3
<1> HIDE DEF K, L, v, f
<1>10. \A i \in 1..K : L[i].symbol = v(i) /\ L[i].len = 2 * fragments[i]
  BY <1>8
<1>11. DOMAIN L = 1..K /\ Len(L) = K
  <2> DEFINE h(i) == [symbol |-> v(i), len |-> 2 * fragments[i], frequency |-> f(i)]
  <2>1. L = [i \in 1..K |-> h(i)]
    BY <1>8
  <2> HIDE DEF h
  <2>2. QED
    BY <1>3, <2>1
<1>12. Covers(L, Alphabet)
  <2>1. \A i \in 1..K : L[i].len >= 2 /\ L[i].symbol \in Alphabet
    BY <1>5, <1>9, <1>10
  <2>2. \A s \in Alphabet : \E i \in 1..K : L[i].symbol = s
    BY <1>9, <1>10
  <2>3. QED
    BY <1>11, <2>1, <2>2 DEF Covers
<1>13. Fits(L, b)
  <2> SUFFICES ASSUME \A i \in 1..K : L[i].len <= b PROVE KraftSumAt(b, L) <= 2 ^ b
    BY <1>11 DEF Fits
  <2>1. \A i \in 1..K : 2 * fragments[i] <= b
    BY <1>10
  <2> DEFINE g == [i \in 1..K |-> 2 ^ (b - 2 * fragments[i])]
  <2>2. Total(g, 1..K) <= 2 ^ b
    BY <1>6, <2>1
  <2>3. [k \in 1..K |-> 2 ^ (b - Lens(L)[k])] = g
    BY <1>10, <1>11 DEF Lens
  <2> HIDE DEF g
  <2>4. KraftSumAt(b, L) = Total(g, 1..K)
    BY <1>11, <2>3, KraftOfLens
  <2>5. QED
    BY <2>2, <2>4
<1>14. QED
  BY <1>7, <1>12, <1>13 DEF L

\* Capped or not, what fits is crafted.
LEMMA BeginStep ==
  ASSUME data \in Inputs, code_bits \in CodeWidths, NEW infos, Infos(infos),
         \A i \in 1..Len(infos) : infos[i].len <= code_bits,
         Covers(infos, Alphabet), Alphabet # {}, KraftSumAt(code_bits, infos) <= 2 ^ code_bits,
         crafting = [c |-> <<>>, m |-> 1, l |-> 0, j |-> 0], "codes_encode" \in DOMAIN tree,
         BeginCraft(infos)
  PROVE  /\ Crafting(lengths', code_bits, Alphabet, crafting', tree'.codes_encode)
         /\ "codes_encode" \in DOMAIN tree'
<1> DEFINE cr == [c |-> [k \in 0..(4 * Len(infos) - 1) |-> 0], m |-> 1, l |-> 0, j |-> 0]
           codes == [s \in 0..Max(Alphabet) |-> NoCode]
<1>1. IsFiniteSet(Alphabet) /\ Alphabet \in SUBSET Nat /\ code_bits \in Nat
  BY AlphabetType, WidthType
<1>2. Crafting(sorted(infos), code_bits, Alphabet, cr, codes)
  BY <1>1, BeginCrafting
<1>3. lengths' = sorted(infos)
  BY DEF BeginCraft
<1>4. crafting' = cr
  BY DEF BeginCraft
<1>5. tree'.codes_encode = codes /\ "codes_encode" \in DOMAIN tree'
  BY DEF BeginCraft, Alphabet
<1>6. QED
  BY <1>2, <1>3, <1>4, <1>5

\* Cutting the lengths keeps the symbols, and the slots if nothing was cut.
LEMMA CappedCovers ==
  ASSUME code_bits \in CodeWidths, Infos(lengths), NEW A, Covers(lengths, A)
  PROVE  /\ Covers(Capped, A)
         /\ (\A i \in 1..Len(lengths) : lengths[i].len <= code_bits)
              => KraftSumAt(code_bits, Capped) = KraftSumAt(code_bits, lengths)
<1> DEFINE n == Len(lengths)
           C == Capped
<1>1. code_bits \in Nat /\ code_bits >= 2
  BY HuffAssumption
<1>2. /\ n \in Nat /\ DOMAIN lengths = 1..n
      /\ \A i \in 1..n : lengths[i] \in [symbol: Nat, len: Nat, frequency: Nat] /\ lengths[i].len \in Nat
  BY InfoType
<1>3. Len(C) = n
  BY CappedInfos
<1>4. \A i \in 1..n : C[i] = [lengths[i] EXCEPT !.len = MinOf(lengths[i].len, code_bits)]
  BY DEF Capped, alph_size
<1>5. DOMAIN C = 1..n
  BY DEF Capped, alph_size
<1>6. /\ \A i \in 1..n : lengths[i].len >= 2 /\ lengths[i].symbol \in A
      /\ \A s \in A : \E i \in 1..n : lengths[i].symbol = s
  BY DEF Covers
<1> HIDE DEF n, C
<1>7. \A i \in 1..n : C[i].symbol = lengths[i].symbol /\ C[i].len = MinOf(lengths[i].len, code_bits)
  BY <1>2, <1>4
<1>8. \A i \in 1..n : C[i].len >= 2
  BY <1>1, <1>2, <1>6, <1>7 DEF MinOf
<1>9. Covers(C, A)
  <2>1. \A i \in 1..n : C[i].len >= 2 /\ C[i].symbol \in A
    BY <1>6, <1>7, <1>8
  <2>2. \A s \in A : \E i \in 1..n : C[i].symbol = s
    BY <1>6, <1>7
  <2>3. QED
    BY <1>3, <2>1, <2>2 DEF Covers
<1>10. ASSUME \A i \in 1..n : lengths[i].len <= code_bits
       PROVE  KraftSumAt(code_bits, C) = KraftSumAt(code_bits, lengths)
  <2>1. \A i \in 1..n : C[i].len = lengths[i].len
    BY <1>1, <1>2, <1>7, <1>10 DEF MinOf
  <2>2. [i \in DOMAIN C |-> 2 ^ (code_bits - C[i].len)]
          = [i \in DOMAIN lengths |-> 2 ^ (code_bits - lengths[i].len)]
    BY <1>2, <1>5, <2>1
  <2>3. QED
    BY <2>2 DEF KraftSumAt
<1>11. QED
  BY <1>9, <1>10 DEF C, n

\* The slots at the limit in force.
LEMMA KraftSumOf ==
  ASSUME NEW infos
  PROVE  KraftSum(infos) = KraftSumAt(code_bits, infos)
BY DEF KraftSum, KraftSumAt, slots

\* A longer code is still its symbol's.
LEMMA GrownCovers ==
  ASSUME Infos(lengths), NEW A, Covers(lengths, A), NEW i,
         lengths' = [lengths EXCEPT ![i].len = lengthened(@)]
  PROVE  Covers(lengths', A)
<1> DEFINE n == Len(lengths)
           L == lengths'
<1>1. /\ n \in Nat /\ DOMAIN lengths = 1..n
      /\ \A k \in 1..n : lengths[k] \in [symbol: Nat, len: Nat, frequency: Nat] /\ lengths[k].len \in Nat
  BY InfoType
<1>2. /\ \A k \in 1..n : lengths[k].len >= 2 /\ lengths[k].symbol \in A
      /\ \A s \in A : \E k \in 1..n : lengths[k].symbol = s
  BY DEF Covers
<1> DEFINE w(k) == IF k = i THEN [lengths[k] EXCEPT !.len = lengthened(lengths[k].len)] ELSE lengths[k]
<1>3. L = [k \in 1..n |-> w(k)]
  BY <1>1
<1>4. Len(L) = n
  <2> HIDE DEF w
  <2> QED
    BY <1>1, <1>3
<1> HIDE DEF n, L
<1>5. \A k \in 1..n : L[k].symbol = lengths[k].symbol /\ L[k].len >= 2
  <2> SUFFICES ASSUME NEW k \in 1..n PROVE L[k].symbol = lengths[k].symbol /\ L[k].len >= 2
    OBVIOUS
  <2>1. L[k] = w(k)
    BY <1>3
  <2>2. CASE k = i
    <3>1. L[k].symbol = lengths[k].symbol /\ L[k].len = lengths[k].len + 2
      BY <1>1, <2>1, <2>2 DEF lengthened
    <3>2. QED
      BY <1>1, <1>2, <3>1
  <2>3. CASE k # i
    BY <1>2, <2>1, <2>3
  <2>4. QED
    BY <2>2, <2>3
<1>6. QED
  BY <1>2, <1>4, <1>5 DEF Covers, L

\* From the coder's lengths to the codes: what each step leaves to the next.
CodesInv ==
  /\ pc \in {"new", "limit", "lengthen", "craft", "level"} => "codes_encode" \in DOMAIN tree
  /\ pc \in {"new", "limit", "lengthen"} => crafting = [c |-> <<>>, m |-> 1, l |-> 0, j |-> 0]
  /\ pc \in {"limit", "lengthen"} => Covers(lengths, Alphabet) /\ Alphabet # {}
  /\ pc = "limit" => Fits(lengths, code_bits)
  /\ pc = "craft" => Crafting(lengths, code_bits, Alphabet, crafting, tree.codes_encode)
  /\ pc \in {"level", "built", "parts", "rejected"} /\ ~altered /\ Rows > 0
       => Free(tree.codes_encode, Alphabet, code_bits)

\* limit_code_lengths up to its loop.
LEMMA LimitCodes ==
  ASSUME data \in Inputs, code_bits \in CodeWidths, Infos(lengths), CodesInv, LimitCodeLengths
  PROVE  /\ pc' \in {"craft", "lengthen"} /\ "codes_encode" \in DOMAIN tree'
         /\ pc' = "craft" => Crafting(lengths', code_bits, Alphabet, crafting', tree'.codes_encode)
         /\ pc' = "lengthen" => crafting' = crafting /\ Covers(lengths', Alphabet)
<1>1. pc = "limit"
  BY DEF LimitCodeLengths
<1>2. /\ "codes_encode" \in DOMAIN tree /\ crafting = [c |-> <<>>, m |-> 1, l |-> 0, j |-> 0]
      /\ Covers(lengths, Alphabet) /\ Alphabet # {} /\ Fits(lengths, code_bits)
  BY <1>1 DEF CodesInv
<1>3. /\ Infos(Capped) /\ Len(Capped) = Len(lengths)
      /\ \A i \in 1..Len(lengths) : Capped[i].len <= code_bits
  BY CappedInfos
<1>4. /\ Covers(Capped, Alphabet)
      /\ (\A i \in 1..Len(lengths) : lengths[i].len <= code_bits)
           => KraftSumAt(code_bits, Capped) = KraftSumAt(code_bits, lengths)
  BY <1>2, CappedCovers
<1>5. \/ /\ \/ \A i \in 1..alph_size : lengths[i].len <= code_bits
            \/ KraftSum(Capped) <= max_depth_slots
         /\ BeginCraft(Capped)
      \/ pc' = "lengthen" /\ lengths' = Capped /\ crafting' = crafting /\ tree' = tree
  BY DEF LimitCodeLengths, Capped
<1>6. CASE /\ \/ \A i \in 1..alph_size : lengths[i].len <= code_bits
              \/ KraftSum(Capped) <= max_depth_slots
           /\ BeginCraft(Capped)
  <2>1. KraftSumAt(code_bits, Capped) <= 2 ^ code_bits
    <3>1. CASE \A i \in 1..alph_size : lengths[i].len <= code_bits
      <4>1. \A i \in 1..Len(lengths) : lengths[i].len <= code_bits
        BY <3>1 DEF alph_size
      <4>2. KraftSumAt(code_bits, lengths) <= 2 ^ code_bits
        BY <1>2, <4>1 DEF Fits
      <4>3. QED
        BY <1>4, <4>1, <4>2
    <3>2. CASE KraftSum(Capped) <= max_depth_slots
      BY <3>2, KraftSumOf DEF max_depth_slots
    <3>3. QED
      BY <1>6, <3>1, <3>2
  <2>2. \A i \in 1..Len(Capped) : Capped[i].len <= code_bits
    BY <1>3
  <2>3. BeginCraft(Capped)
    BY <1>6
  <2>4. /\ Crafting(lengths', code_bits, Alphabet, crafting', tree'.codes_encode)
        /\ "codes_encode" \in DOMAIN tree'
    <3> DEFINE C == Capped
    <3>1. /\ Infos(C) /\ \A i \in 1..Len(C) : C[i].len <= code_bits
          /\ Covers(C, Alphabet) /\ KraftSumAt(code_bits, C) <= 2 ^ code_bits /\ BeginCraft(C)
      BY <1>3, <1>4, <2>1, <2>2, <2>3
    <3> HIDE DEF C
    <3>2. QED
      BY <1>2, <3>1, BeginStep
  <2>5. pc' = "craft"
    BY <2>3 DEF BeginCraft
  <2>6. QED
    BY <2>4, <2>5
<1>7. CASE pc' = "lengthen" /\ lengths' = Capped /\ crafting' = crafting /\ tree' = tree
  BY <1>2, <1>4, <1>7
<1>8. QED
  BY <1>5, <1>6, <1>7

\* Its loop, and the end of it.
LEMMA LengthenCodes ==
  ASSUME data \in Inputs, code_bits \in CodeWidths, Infos(lengths), Lengthening, CodesInv, Lengthen
  PROVE  /\ pc' \in {"craft", "lengthen", "panic"}
         /\ pc' # "panic" => "codes_encode" \in DOMAIN tree'
         /\ pc' = "craft" => Crafting(lengths', code_bits, Alphabet, crafting', tree'.codes_encode)
         /\ pc' = "lengthen" => crafting' = crafting /\ Covers(lengths', Alphabet)
<1>1. pc = "lengthen"
  BY DEF Lengthen
<1>2. /\ "codes_encode" \in DOMAIN tree /\ crafting = [c |-> <<>>, m |-> 1, l |-> 0, j |-> 0]
      /\ Covers(lengths, Alphabet) /\ Alphabet # {}
  BY <1>1 DEF CodesInv
<1>3. CASE occupied_slots <= max_depth_slots /\ BeginCraft(lengths)
  <2>1. KraftSumAt(code_bits, lengths) <= 2 ^ code_bits
    <3>1. occupied_slots = KraftSum(lengths) /\ occupied_slots <= 2 ^ code_bits
      BY <1>3 DEF Lengthening, max_depth_slots
    <3>2. QED
      BY <3>1, KraftSumIsAt
  <2>2. \A i \in 1..Len(lengths) : lengths[i].len <= code_bits
    BY DEF Lengthening
  <2>3. BeginCraft(lengths)
    BY <1>3
  <2>4. /\ Crafting(lengths', code_bits, Alphabet, crafting', tree'.codes_encode)
        /\ "codes_encode" \in DOMAIN tree'
    BY <1>2, <2>1, <2>2, <2>3, BeginStep
  <2>5. pc' = "craft"
    BY <2>3 DEF BeginCraft
  <2>6. QED
    BY <2>4, <2>5
<1>4. CASE pc' = "panic"
  BY <1>4
<1> DEFINE i == Head(candidates)
<1>5. CASE /\ pc' = pc /\ crafting' = crafting /\ tree' = tree
           /\ lengths' = [lengths EXCEPT ![i].len = lengthened(@)]
  <2> HIDE DEF i
  <2>1. Covers(lengths', Alphabet)
    BY <1>2, <1>5, GrownCovers
  <2>2. QED
    BY <1>1, <1>2, <1>5, <2>1
<1>6. CASE pc' = pc /\ crafting' = crafting /\ tree' = tree /\ lengths' = lengths
  BY <1>1, <1>2, <1>6
<1>7. QED
  BY <1>3, <1>4, <1>5, <1>6 DEF Lengthen

\* craft_wm_codes: a round of the while loop, unless there is no room.
LEMMA ExpandCodes ==
  ASSUME Crafting(lengths, code_bits, Alphabet, crafting, tree.codes_encode), Expand
  PROVE  /\ pc' \in {"craft", "panic"} /\ tree' = tree /\ lengths' = lengths
         /\ pc' = "craft" =>
              Crafting(lengths, code_bits, Alphabet, crafting', tree.codes_encode)
<1>1. pc = "craft" /\ crafting.j < Len(lengths) /\ lengths[crafting.j + 1].len > crafting.l
  BY DEF Expand, alph_size
<1>2. /\ tree' = tree /\ lengths' = lengths
      /\ \/ pc' = "panic"
         \/ /\ ~(4 * crafting.m - 3 * crafting.j > 4 * Len(lengths)) /\ pc' = pc
            /\ crafting' = [crafting EXCEPT
                    !.m = 4 * crafting.m - 3 * crafting.j,
                    !.l = @ + 2,
                    !.c = [x \in DOMAIN @ |->
                             IF x < crafting.j \/ x >= 4 * crafting.m - 3 * crafting.j THEN @[x]
                             ELSE @[crafting.j + ((x - crafting.j) % (crafting.m - crafting.j))]
                                    + copy_digit((x - crafting.j) \div (crafting.m - crafting.j))
                                        * 2 ^ crafting.l]]
  BY DEF Expand, alph_size
<1>3. CASE pc' = "panic"
  BY <1>2, <1>3
<1>4. CASE pc' # "panic"
  <2> DEFINE j == crafting.j
             m == crafting.m
             l == crafting.l
             c == crafting.c
             n == Len(lengths)
             M == 4 * m - 3 * j
             E == Expanded(c, n, m, l, j)
  <2>1. DOMAIN crafting = {"c", "m", "l", "j"}
    BY DEF Crafting
  <2>2. j \in Nat /\ m \in Nat /\ l \in Nat /\ n \in Nat /\ c \in [0..(4 * n - 1) -> Nat]
    BY CraftingIs
  <2>3. /\ pc' = pc /\ ~(M > 4 * n)
        /\ crafting' = [crafting EXCEPT !.m = M, !.l = l + 2,
             !.c = [x \in DOMAIN c |->
                      IF x < j \/ x >= M THEN c[x]
                      ELSE c[j + ((x - j) % (m - j))] + copy_digit((x - j) \div (m - j)) * 2 ^ l]]
    BY <1>2, <1>4
  <2>4. DOMAIN c = 0..(4 * n - 1)
    BY <2>2
  <2>5. crafting' = [crafting EXCEPT !.m = M, !.l = l + 2, !.c = E]
    BY <2>3, <2>4 DEF Expanded
  <2>6. M <= 4 * n
    BY <2>2, <2>3
  <2> HIDE DEF E, M
  <2>7. /\ crafting'.m = M /\ crafting'.l = l + 2 /\ crafting'.j = j /\ crafting'.c = E
        /\ DOMAIN crafting' = DOMAIN crafting
    BY <2>1, <2>5
  <2> DEFINE CR == crafting'
  <2>8. CR.m = 4 * m - 3 * j /\ CR.c = Expanded(c, n, m, l, j) /\ 4 * m - 3 * j <= 4 * n
    BY <2>6, <2>7 DEF E, M
  <2>9. CR.l = l + 2 /\ CR.j = j /\ DOMAIN CR = DOMAIN crafting
    BY <2>7
  <2> HIDE DEF CR
  <2>10. Crafting(lengths, code_bits, Alphabet, CR, tree.codes_encode)
    BY <1>1, <2>8, <2>9, ExpandCrafting
  <2>11. QED
    BY <1>1, <1>2, <2>3, <2>10 DEF CR
<1>5. QED
  BY <1>3, <1>4

\* A code is given.
LEMMA AssignCodes ==
  ASSUME Crafting(lengths, code_bits, Alphabet, crafting, tree.codes_encode), Assign,
         "codes_encode" \in DOMAIN tree
  PROVE  /\ Crafting(lengths, code_bits, Alphabet, crafting', tree'.codes_encode)
         /\ pc' = "craft" /\ lengths' = lengths /\ "codes_encode" \in DOMAIN tree'
<1> DEFINE j == crafting.j
           code == [content |-> reversed_code(crafting.c[j], crafting.l), len |-> crafting.l]
           s == lengths[j + 1].symbol
           codes == tree.codes_encode
<1>1. /\ pc' = "craft" /\ lengths' = lengths
      /\ j < Len(lengths) /\ lengths[j + 1].len <= crafting.l
      /\ crafting' = [crafting EXCEPT !.j = @ + 1]
  BY DEF Assign, alph_size
<1>2. tree' = [tree EXCEPT !.codes_encode = [codes EXCEPT ![s] = code]]
  BY DEF Assign
<1>3. tree'.codes_encode = [codes EXCEPT ![s] = code] /\ "codes_encode" \in DOMAIN tree'
  <2> HIDE DEF code, s, codes
  <2> QED
    BY <1>2
<1>4. Crafting(lengths, code_bits, Alphabet, [crafting EXCEPT !.j = @ + 1], [codes EXCEPT ![s] = code])
  BY <1>1, AssignCrafting
<1>5. QED
  BY <1>1, <1>3, <1>4

\* Every step keeps it.
LEMMA CodesInvStep ==
  ASSUME LengthsInv, CodesInv, [Next]_vars
  PROVE  CodesInv'
<1>1. /\ data \in Inputs /\ code_bits \in CodeWidths
      /\ pc \in {"limit", "lengthen"} => Infos(lengths)
      /\ pc = "lengthen" => Lengthening
  BY DEF LengthsInv
<1>2. data' = data /\ code_bits' = code_bits
  BY DEF Next, vars, CodeLengths, LimitCodeLengths, Lengthen, Expand, Assign, DecodeTable,
         Level, Store, FromParts
<1>3. Alphabet' = Alphabet /\ Rows' = Rows
  BY <1>2 DEF Alphabet, Rows
<1>4. CASE CodeLengths
  <2>1. pc = "new" /\ (pc' = "limit" \/ (pc' = "built" /\ Rows = 0)) /\ tree' = tree /\ crafting' = crafting
    BY <1>4 DEF CodeLengths
  <2>2. CASE pc' = "built"
    <3>1. ~(Rows > 0)
      BY <2>1, <2>2
    <3>2. QED
      BY <1>3, <2>2, <3>1 DEF CodesInv
  <2>3. CASE pc' = "limit"
    <3>1. code_bits \in Nat
      BY <1>1, WidthType
    <3>2. Covers(lengths', Alphabet) /\ Alphabet # {} /\ Fits(lengths', code_bits)
      BY <1>1, <1>4, <2>3, <3>1, CodeLengthsCover
    <3>3. "codes_encode" \in DOMAIN tree' /\ crafting' = [c |-> <<>>, m |-> 1, l |-> 0, j |-> 0]
      BY <2>1 DEF CodesInv
    <3>4. QED
      BY <1>2, <1>3, <2>3, <3>2, <3>3 DEF CodesInv
  <2>4. QED
    BY <2>1, <2>2, <2>3
<1>5. CASE LimitCodeLengths
  <2>1. pc = "limit"
    BY <1>5 DEF LimitCodeLengths
  <2>2. /\ pc' \in {"craft", "lengthen"} /\ "codes_encode" \in DOMAIN tree'
        /\ pc' = "craft" => Crafting(lengths', code_bits, Alphabet, crafting', tree'.codes_encode)
        /\ pc' = "lengthen" => crafting' = crafting /\ Covers(lengths', Alphabet)
    BY <1>1, <1>5, <2>1, LimitCodes
  <2>3. crafting = [c |-> <<>>, m |-> 1, l |-> 0, j |-> 0] /\ Alphabet # {}
    BY <2>1 DEF CodesInv
  <2>4. QED
    BY <1>2, <1>3, <2>2, <2>3 DEF CodesInv
<1>6. CASE Lengthen
  <2>1. pc = "lengthen"
    BY <1>6 DEF Lengthen
  <2>2. /\ pc' \in {"craft", "lengthen", "panic"}
        /\ pc' # "panic" => "codes_encode" \in DOMAIN tree'
        /\ pc' = "craft" => Crafting(lengths', code_bits, Alphabet, crafting', tree'.codes_encode)
        /\ pc' = "lengthen" => crafting' = crafting /\ Covers(lengths', Alphabet)
    BY <1>1, <1>6, <2>1, LengthenCodes
  <2>3. crafting = [c |-> <<>>, m |-> 1, l |-> 0, j |-> 0] /\ Alphabet # {}
    BY <2>1 DEF CodesInv
  <2>4. QED
    BY <1>2, <1>3, <2>2, <2>3 DEF CodesInv
<1>7. ASSUME pc = "craft"
      PROVE  /\ Crafting(lengths, code_bits, Alphabet, crafting, tree.codes_encode)
             /\ "codes_encode" \in DOMAIN tree
  BY <1>7 DEF CodesInv
<1>8. CASE Expand
  <2>1. pc = "craft"
    BY <1>8 DEF Expand
  <2>2. /\ pc' \in {"craft", "panic"} /\ tree' = tree /\ lengths' = lengths
        /\ pc' = "craft" =>
             Crafting(lengths, code_bits, Alphabet, crafting', tree.codes_encode)
    BY <1>7, <1>8, <2>1, ExpandCodes
  <2>3. QED
    BY <1>2, <1>3, <1>7, <2>1, <2>2 DEF CodesInv
<1>9. CASE Assign
  <2>1. pc = "craft"
    BY <1>9 DEF Assign
  <2>2. /\ Crafting(lengths, code_bits, Alphabet, crafting', tree'.codes_encode)
        /\ pc' = "craft" /\ lengths' = lengths /\ "codes_encode" \in DOMAIN tree'
    BY <1>7, <1>9, <2>1, AssignCodes
  <2>3. QED
    BY <1>2, <1>3, <2>2 DEF CodesInv
<1>10. CASE DecodeTable
  <2>1. pc = "craft" /\ crafting.j = Len(lengths) /\ pc' = "level"
    BY <1>10 DEF DecodeTable, alph_size
  <2>2. Free(tree.codes_encode, Alphabet, code_bits)
    BY <1>7, <2>1, CraftedFree
  <2>3. tree'.codes_encode = tree.codes_encode /\ "codes_encode" \in DOMAIN tree'
    <3> DEFINE nl == Max({tree.codes_encode[s].len : s \in DOMAIN tree.codes_encode}) \div 2
               cd == decode_table(tree.codes_encode,
                       Max({tree.codes_encode[s].len : s \in DOMAIN tree.codes_encode}))
    <3>1. tree' = [tree EXCEPT !.n = Rows, !.n_levels = nl, !.codes_decode = cd]
      BY <1>10 DEF DecodeTable
    <3>2. "codes_encode" \in DOMAIN tree
      BY <1>7, <2>1
    <3> HIDE DEF nl, cd
    <3>3. QED
      BY <3>1, <3>2
  <2>4. QED
    BY <1>2, <1>3, <2>1, <2>2, <2>3 DEF CodesInv
<1>11. CASE Level
  <2>1. pc = "level" /\ pc' \in {"level", "built"} /\ altered' = altered
    BY <1>11 DEF Level
  <2>2. \E qs, ls : tree' = [tree EXCEPT !.qvs = qs, !.lens = ls]
    BY <1>11 DEF Level
  <2>3. "codes_encode" \in DOMAIN tree
    BY <2>1 DEF CodesInv
  <2>4. tree'.codes_encode = tree.codes_encode /\ "codes_encode" \in DOMAIN tree'
    BY <2>2, <2>3
  <2>5. ~altered /\ Rows > 0 => Free(tree.codes_encode, Alphabet, code_bits)
    BY <2>1 DEF CodesInv
  <2>6. QED
    BY <1>2, <1>3, <2>1, <2>4, <2>5 DEF CodesInv
<1>12. CASE Store \/ FromParts
  <2>1. /\ pc \in {"built", "parts"} /\ pc' \in {"parts", "built", "rejected"}
        /\ (altered' = altered /\ tree' = tree) \/ altered' = TRUE
    BY <1>12 DEF Store, FromParts
  <2>2. ~altered /\ Rows > 0 => Free(tree.codes_encode, Alphabet, code_bits)
    BY <2>1 DEF CodesInv
  <2>3. QED
    BY <1>2, <1>3, <2>1, <2>2 DEF CodesInv
<1>13. CASE UNCHANGED vars
  <2>1. /\ pc' = pc /\ tree' = tree /\ crafting' = crafting /\ lengths' = lengths /\ altered' = altered
    BY <1>13 DEF vars
  <2>2. QED
    BY <1>2, <1>3, <2>1 DEF CodesInv
<1>14. QED
  BY <1>4, <1>5, <1>6, <1>8, <1>9, <1>10, <1>11, <1>12, <1>13 DEF Next

\* craft_wm_codes gives every symbol that occurs, and no other, a code within the limit that
\* no other code begins with, whatever the frequencies and however far limit_code_lengths had
\* to lengthen the short codes; building the levels and storing the tree leave them alone.
THEOREM CodesArePrefixFree == Spec => []CodesPrefixFree
<1>1. Init => CodesInv
  BY DEF Init, CodesInv, EmptyTree
<1>2. LengthsInv /\ CodesInv /\ [Next]_vars => CodesInv'
  BY CodesInvStep
<1>3. CodesInv => CodesPrefixFree
  BY DEF CodesInv, Free, CodesPrefixFree, Alphabet
<1>4. QED
  BY <1>1, <1>2, <1>3, LengthsInvHolds, PTL DEF Spec

=============================================================================
