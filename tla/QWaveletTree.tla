---------------------------- MODULE QWaveletTree -----------------------------
(***************************************************************************)
(* QWaveletTree (quadwt/mod.rs): a sequence of unsigned integers as one    *)
(* quad vector per two bits of the largest symbol, most significant first. *)
(* from_owned writes a level per iteration and partitions the sequence by  *)
(* its digits for the next one; from_parts takes levels somebody else      *)
(* wrote and accepts them only if they decode to what the header says.     *)
(* The queries walk the levels.                                            *)
(*                                                                         *)
(* A level answers as QuadLevel says.  T::as_ to usize and sums of         *)
(* positions keep the width of usize; the build wraps on overflow          *)
(* (a release build).                                                      *)
(***************************************************************************)
EXTENDS QuadLevel, Sequences

CONSTANTS
  T_BITS,        \* bits of the symbol type T
  USIZE_BITS,    \* bits of usize
  Symbols,       \* symbols that occur in the sequences
  Probes,        \* symbols that are asked for
  MaxLen,        \* bound: longest sequence
  PartLens,      \* lengths of levels handed to from_parts
  PartSigmas     \* largest symbols handed to from_parts

Ts == 0..(2 ^ T_BITS - 1)
usize(x) == x % 2 ^ USIZE_BITS

\* Symbols fit usize (u8 to u64 on a 64-bit machine), and a Vec of them has at
\* most isize::MAX elements.
ASSUME TreeAssumption ==
  /\ T_BITS \in Nat \ {0} /\ T_BITS % 2 = 0
  /\ USIZE_BITS \in Nat /\ T_BITS <= USIZE_BITS
  /\ Symbols \subseteq Ts /\ Probes \subseteq Ts /\ PartSigmas \subseteq Ts
  /\ MaxLen \in Nat /\ MaxLen < 2 ^ (USIZE_BITS - 1) /\ PartLens \subseteq 0..MaxLen

VARIABLES
  origin,     \* "owned" or "parts": the constructor that was called
  data,       \* from_owned's argument, a function on 0..n-1
  pc,         \* "new", "level", "parts", "built", "rejected", or "used" after that
  n,
  n_levels,
  sigma,      \* the largest symbol
  qvs,        \* sequence of levels [len, qv]
  sequence,   \* the sequence in the order of the next level
  partition,  \* the buffer it is partitioned into
  shift

treeVars == <<origin, data, n, n_levels, sigma, qvs, sequence, partition, shift>>
vars == <<pc, treeVars>>

\* Position of the most significant bit, 0 for 0; two bits to a level.
msb(x) == IF x = 0 THEN 0 ELSE CHOOSE k \in 0..(T_BITS - 1) : 2 ^ k <= x /\ x < 2 ^ (k + 1)
levels_for(x) == (msb(x) + 2) \div 2

two_bits(symbol, s) == (symbol \div 2 ^ s) % 4

------------------------------------------------------------------------------
(* Construction.                                                           *)

LevelsOfLength(m) == [len: {m}, qv: [0..(m - 1) -> Quads]]

\* from_owned is called with a sequence, or from_parts with a header and levels.
Init ==
  /\ \/ /\ origin = "owned"
        /\ pc = "new"
        /\ n \in 0..MaxLen
        /\ data \in [0..(n - 1) -> Symbols]
        /\ n_levels = 0 /\ sigma = 0 /\ qvs = <<>>
     \/ /\ origin = "parts"
        /\ pc = "parts"
        /\ n \in PartLens
        /\ n_levels \in 0..2
        /\ sigma \in PartSigmas
        /\ \E k \in 0..2 : qvs \in [1..k -> UNION {LevelsOfLength(m) : m \in PartLens}]
        /\ data = [p \in 0..(n - 1) |-> 0]
  /\ sequence = data
  /\ partition = [p \in 0..(n - 1) |-> 0]
  /\ shift = 0

\* The sequence is not empty: allocate, and start with the top two bits.  The
\* empty tree has no levels (and one default quad vector no query reads).
Start ==
  /\ pc = "new"
  /\ IF n = 0
       THEN pc' = "built" /\ UNCHANGED <<n_levels, sigma, shift>>
       ELSE /\ sigma' = Max({data[p] : p \in 0..(n - 1)})
            /\ n_levels' = levels_for(sigma')
            /\ shift' = 2 * (n_levels' - 1)
            /\ pc' = "level"
  /\ UNCHANGED <<origin, data, n, qvs, sequence, partition>>

\* The bucket stable_partition_of_4_into puts a symbol in, and where the symbol
\* at p goes.  Mutant: buckets fill from the back.
bucket(symbol, s) == (usize(symbol) \div 2 ^ (s % USIZE_BITS)) % 4
destination_mutant(p) ==
  LET b == bucket(sequence[p], shift)
  IN Cardinality({q \in DOMAIN sequence :
       \/ bucket(sequence[q], shift) < b
       \/ bucket(sequence[q], shift) = b /\ q > p})
destination(p) ==
  LET b == bucket(sequence[p], shift)
      before == Cardinality({q \in DOMAIN sequence : two_bits(sequence[q], shift) < b})
  IN before + Cardinality({q \in 0..(p - 1) : bucket(sequence[q], shift) = b})

next_shift == IF shift >= 2 THEN shift - 2 ELSE shift

\* One iteration: the level's digits, and the two buffers swapped.
Level ==
  /\ pc = "level"
  /\ qvs' = Append(qvs, [len |-> n, qv |-> [p \in 0..(n - 1) |-> two_bits(sequence[p], shift)]])
  /\ sequence' = [x \in 0..(n - 1) |->
       LET from == {p \in 0..(n - 1) : destination(p) = x}
       IN IF from = {} THEN partition[x] ELSE sequence[Max(from)]]
  /\ partition' = sequence
  /\ shift' = next_shift
  /\ pc' = IF Len(qvs') = n_levels THEN "built" ELSE "level"
  /\ UNCHANGED <<origin, data, n, n_levels, sigma>>

------------------------------------------------------------------------------
(* Queries.  Levels are counted from 0, as in the code.                    *)

qv(l) == qvs[l + 1].qv
rank_in(l, d, x) == Count(qv(l), d, x)
occs_smaller(l, d) == Smaller(qv(l), qvs[l + 1].len, d)
child(l, d, x) == rank_in(l, d, x) + occs_smaller(l, d)
digit(symbol, l) == two_bits(symbol, 2 * (n_levels - 1 - l))
LastLevel == n_levels - 1

\* Where position x is at every level, following its own digits.
path(x) ==
  LET at[l \in 0..LastLevel] ==
        IF l = 0 THEN x ELSE child(l - 1, qv(l - 1)[at[l - 1]], at[l - 1])
  IN at

\* The symbol those digits spell.
spelled(at) ==
  LET value[l \in 0..n_levels] ==
        IF l = 0 THEN 0 ELSE value[l - 1] * 4 + qv(l - 1)[at[l - 1]]
  IN value[n_levels]

\* Where boundary x is at every level, following the digits of symbol.
walk(symbol, x) ==
  LET at[l \in 0..LastLevel] ==
        IF l = 0 THEN x ELSE child(l - 1, digit(symbol, l - 1), at[l - 1])
  IN at

get(i) == IF i >= n THEN None ELSE spelled(path(i))

\* Occurrences of symbol at the last level between two walks.  Mutant: the walk
\* of the left boundary is left out.
rank_between_mutant(symbol, from, to) == rank_in(LastLevel, digit(symbol, LastLevel), to)
rank_between(symbol, from, to) ==
  LET d == digit(symbol, LastLevel)
  IN rank_in(LastLevel, d, to) - rank_in(LastLevel, d, from)

rank(symbol, i) ==
  IF i > n \/ symbol > sigma THEN None
  ELSE IF n_levels = 0 THEN 0
  ELSE rank_between(symbol, walk(symbol, 0)[LastLevel], walk(symbol, i)[LastLevel])

get_and_rank(i) ==
  IF i >= n \/ n_levels = 0 THEN None
  ELSE LET at == path(i)
           symbol == spelled(at)
       IN <<symbol, rank_between(symbol, walk(symbol, 0)[LastLevel], at[LastLevel]) + 1>>

\* Down with the boundary 0, then up with select, each level relative to where
\* the symbol's range begins; `?` on a level's None.  Mutant: without that rank.
select_from_mutant(rank_b, result) == usize(result)
select_from(rank_b, result) == usize(rank_b + result)

select(symbol, i) ==
  LET path_off == walk(symbol, 0)
      up[l \in 0..n_levels] ==
        IF l = n_levels THEN i
        ELSE IF up[l + 1] = None THEN None
        ELSE LET d == digit(symbol, l)
                 found == SelectIn(qv(l), qvs[l + 1].len, d,
                                   select_from(rank_in(l, d, path_off[l]), up[l + 1]))
             IN IF found = None THEN None ELSE usize(found - path_off[l])
  IN IF symbol > sigma THEN None ELSE up[0]

\* extract_singleton_from: the symbol of position x of level l, below prefix.
extract_singleton_from(l, x, prefix) ==
  LET at[k \in l..LastLevel] ==
        IF k = l THEN x ELSE child(k - 1, qv(k - 1)[at[k - 1]], at[k - 1])
      value[k \in l..n_levels] ==
        IF k = l THEN prefix ELSE value[k - 1] * 4 + qv(k - 1)[at[k - 1]]
  IN value[n_levels]

\* extract_range_sorted_rec and extract_range_distinct_rec, whose leaves emit
\* a symbol as often as it occurs, or once.  Mutant of the children of a range: offsets missing.
child_start_mutant(l, d, start) == rank_in(l, d, start)
child_start(l, d, start) == child(l, d, start)

Repeat(symbol, m) == [k \in 1..m |-> symbol]
copies(distinct, count) == IF distinct THEN 1 ELSE count

Ranges == [level: 0..LastLevel, start: 0..n, end: 0..n, prefix: Nat]
extract(start, end, distinct) ==
  LET rec[r \in Ranges] ==
        LET cnt(d) == rank_in(r.level, d, r.end) - rank_in(r.level, d, r.start)
            from(d) == child_start(r.level, d, r.start)
            symbol(d) == r.prefix * 4 + d
            below(d) == rec[[level |-> r.level + 1, start |-> from(d),
                             end |-> from(d) + cnt(d), prefix |-> symbol(d)]]
            part(d) == IF cnt(d) = 0 THEN <<>>
                       ELSE IF r.level = LastLevel THEN Repeat(symbol(d), copies(distinct, cnt(d)))
                       ELSE below(d)
        IN IF r.start >= r.end THEN <<>>
           ELSE IF r.end - r.start = 1
                  THEN <<extract_singleton_from(r.level, r.start, r.prefix)>>
           ELSE part(0) \o part(1) \o part(2) \o part(3)
  IN IF start >= end \/ end > n \/ n_levels = 0 THEN <<>>
     ELSE rec[[level |-> 0, start |-> start, end |-> end, prefix |-> 0]]

extract_range(start, end) == extract(start, end, FALSE)
extract_range_distinct(start, end) == extract(start, end, TRUE)

------------------------------------------------------------------------------
(* from_parts.                                                             *)

\* Levels as long as the header says.
level_lens_agree == \A l \in 0..LastLevel : qvs[l + 1].len = n

\* Every position is decoded and the largest symbol compared with sigma.
sigma_agrees == Max({spelled(path(i)) : i \in 0..(n - 1)}) = sigma

\* The checks of from_parts in their order.
accepts ==
  IF n = 0 THEN n_levels = 0 /\ sigma = 0
  ELSE /\ n_levels \in 1..(T_BITS \div 2) /\ Len(qvs) = n_levels
       /\ n_levels = levels_for(sigma)
       /\ level_lens_agree
       /\ sigma_agrees

FromParts ==
  /\ pc = "parts"
  /\ pc' = IF accepts THEN "built" ELSE "rejected"
  /\ UNCHANGED treeVars

\* From here on others read the tree, or what it was made from; nothing writes it.
InUse(from) == pc = from /\ pc' = "used" /\ UNCHANGED treeVars

Next == Start \/ Level \/ FromParts

Spec == Init /\ [][Next]_vars

------------------------------------------------------------------------------
(* Properties.                                                             *)

Built == pc = "built"

\* The indexed sequence: what the caller gave, or what the parts decode to.
indexed == IF origin = "owned" THEN data ELSE [p \in 0..(n - 1) |-> get(p)]

\* Level l of the wavelet matrix of `indexed`, without partitioning: positions
\* ordered by the digits above l, the nearest one first, then as they were.
MatrixKey(p, l) == MapThenSumSet(LAMBDA k : digit(indexed[p], k) * 2 ^ (2 * k), 0..(l - 1))
Slot(p, l) ==
  Cardinality({q \in 0..(n - 1) :
    \/ MatrixKey(q, l) < MatrixKey(p, l)
    \/ MatrixKey(q, l) = MatrixKey(p, l) /\ q < p})

\* The levels are the wavelet matrix of the sequence: those from_owned writes,
\* at every iteration, and any that from_parts accepts, wherever they came from.
\* An accepted header cannot lie about length, depth or largest symbol.
LevelsExact ==
  pc \in {"level", "built"} /\ n > 0 =>
    /\ Len(qvs) <= n_levels /\ (Built => Len(qvs) = n_levels)
    /\ sigma = Max({indexed[p] : p \in 0..(n - 1)})
    /\ 2 ^ (2 * n_levels) > sigma
    /\ \A l \in 0..(Len(qvs) - 1) :
         /\ qvs[l + 1].len = n
         /\ \A p \in 0..(n - 1) : qv(l)[Slot(p, l)] = digit(indexed[p], l)

Occs(symbol, a, b) == Cardinality({p \in a..(b - 1) : indexed[p] = symbol})

\* get, rank and get_and_rank read the sequence back, for symbols in it, smaller
\* ones that are not and ones above sigma; out of bounds is None.
PointQueriesExact ==
  Built =>
    /\ \A i \in 0..(n - 1) :
         /\ get(i) = indexed[i]
         /\ get_and_rank(i) = <<indexed[i], Occs(indexed[i], 0, i + 1)>>
    /\ get(n) = None /\ get_and_rank(n) = None
    /\ \A symbol \in Probes, i \in 0..(n + 1) :
         rank(symbol, i) = IF i > n \/ symbol > sigma THEN None
                           ELSE Occs(symbol, 0, i)

SelectIsExact(symbol, k) ==
  select(symbol, k) = IF k < Occs(symbol, 0, n)
    THEN CHOOSE p \in 0..(n - 1) : indexed[p] = symbol /\ Occs(symbol, 0, p) = k
    ELSE None

\* select(symbol, k) is the position of the (k+1)-th occurrence or None, on
\* every tree with a symbol and every k that no sum of positions wraps.
SelectExact ==
  Built /\ n > 0 =>
    \A symbol \in Probes, k \in 0..(n + 1) \cup {2 ^ USIZE_BITS - 1 - n} :
      SelectIsExact(symbol, k)

Ascending(seq) == \A x, y \in DOMAIN seq : x < y => seq[x] <= seq[y]

\* "sorting the multiset { get(i) | i in range }": extract_range is ascending
\* with every symbol as often as in the range, extract_range_distinct has each
\* once; both are empty for a range that is reversed or out of bounds.
ExtractIsSort ==
  Built =>
    \A a, b \in 0..(n + 1) :
      LET all == extract_range(a, b)
          distinct == extract_range_distinct(a, b)
          times(seq, symbol) == Cardinality({x \in DOMAIN seq : seq[x] = symbol})
          valid == a < b /\ b <= n
          there == IF valid THEN {indexed[p] : p \in a..(b - 1)} ELSE {}
      IN /\ Ascending(all) /\ Ascending(distinct)
         /\ Len(all) = (IF valid THEN b - a ELSE 0)
         /\ \A symbol \in there : /\ times(all, symbol) = Occs(symbol, a, b)
                                  /\ times(distinct, symbol) = 1
         /\ Len(distinct) = Cardinality(there)
==============================================================================
