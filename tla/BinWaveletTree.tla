---------------------------- MODULE BinWaveletTree ---------------------------
(***************************************************************************)
(* WaveletTree (binwt/mod.rs): the binary wavelet matrix, on the bits of   *)
(* the symbols (WT) or, COMPRESSED, on binary Huffman codes (HWT).  Rows   *)
(* whose code has ended have to come last at every level, and it is the    *)
(* choice of codes (craft_wm_codes) that makes them.                       *)
(*                                                                         *)
(*   new: the codes, then the levels, one partition each.                  *)
(*   Deserialize: the fields come back as they were stored, or altered,    *)
(*     and are accepted by validate_deserialized or not.                   *)
(*   get, rank, select and occs_range read the fields.                     *)
(*                                                                         *)
(* A tree is a record t with n, n_levels, sigma, codes_encode and          *)
(* codes_decode (see PrefixCodes; without entries where the code has       *)
(* None), bvs and lens.  A level is [len, bv] with digits 0 and 1, and     *)
(* answers as QuadLevel says; that RSNarrow and RSWide do is in RSBin.     *)
(***************************************************************************)
EXTENDS QuadLevel, PrefixCodes

CONSTANTS
  Symbols,     \* symbols that occur, all below 2^CODE_BITS
  MaxLen,      \* bound: longest sequence
  CODE_BITS,   \* bits of a PrefixCode and of what get collects (32)
  TYPE_BITS,   \* bits of a symbol
  MaxStored    \* bound: longest sequence whose tree is stored

ASSUME BinAssumption ==
  /\ CODE_BITS \in Nat \ {0} /\ TYPE_BITS \in Nat \ {0}
  /\ \A s \in Symbols : s \in Nat /\ s < 2 ^ CODE_BITS /\ s < 2 ^ TYPE_BITS
  /\ MaxLen \in Nat /\ MaxStored \in 0..MaxLen

VARIABLES
  data,        \* new's argument, a function on 0..n-1
  COMPRESSED,
  pc,          \* "new", "craft", "level", "built", "stored", "rejected" or "panic"
  crafting,    \* craft_wm_codes: [f, c, m, l, j]
  sequence,    \* new: the rows in the order of the next level
  tree,
  altered      \* a field has been changed while it was stored

vars == <<data, COMPRESSED, pc, crafting, sequence, tree, altered>>

Rows == Cardinality(DOMAIN data)
Used == {data[p] : p \in DOMAIN data}

EmptyTree ==
  [n |-> 0, n_levels |-> 0, sigma |-> None, codes_encode |-> [s \in {} |-> NoCode],
   codes_decode |-> [l \in {} |-> <<>>], bvs |-> <<>>, lens |-> <<>>]

Init ==
  /\ data \in UNION {[0..(k - 1) -> Symbols] : k \in 0..MaxLen}
  /\ COMPRESSED \in BOOLEAN
  /\ pc = "new"
  /\ crafting = [f |-> <<>>, c |-> <<>>, m |-> 1, l |-> 0, j |-> 0]
  /\ sequence = data
  /\ tree = EmptyTree
  /\ altered = FALSE

------------------------------------------------------------------------------
(* Codes.                                                                  *)

frequency(s) == Cardinality({p \in DOMAIN data : data[p] = s})

\* minimum_redundancy::Coding with one bit per fragment (external): lengths of a
\* prefix code with the least total length, which tie in any way because the
\* frequencies come from a HashMap.  A single symbol has one bit.
minimum_redundancy ==
  LET deepest == Max({1, Cardinality(Used) - 1})
      kraft(len) == MapThenSumSet(LAMBDA s : 2 ^ (deepest - len[s]), Used)
      cost(len) == MapThenSumSet(LAMBDA s : frequency(s) * len[s], Used)
      prefix == {len \in [Used -> 1..deepest] : kraft(len) <= 2 ^ deepest}
  IN {len \in prefix : \A other \in prefix : cost(len) <= cost(other)}

\* msb(0) is 0.
msb(x) == Max({0} \cup {k \in 0..(TYPE_BITS - 1) : 2 ^ k <= x})

\* new up to the codes.  craft_wm_codes sorts by length alone: symbols with codes
\* of one length come in any order.
New ==
  /\ pc = "new"
  /\ IF Rows = 0
       THEN pc' = "built" /\ UNCHANGED <<crafting, tree>>
       ELSE IF COMPRESSED
       THEN /\ pc' = "craft"
            /\ \E len \in minimum_redundancy, order \in SetToSeqs(Used) :
                 /\ \A i \in 1..(Len(order) - 1) : len[order[i]] <= len[order[i + 1]]
                 /\ crafting' = [crafting EXCEPT
                      !.f = [i \in DOMAIN order |-> [symbol |-> order[i], len |-> len[order[i]]]],
                      !.c = [x \in 0..(Len(order) - 1) |-> 0]]
            /\ tree' = [tree EXCEPT !.codes_encode = [s \in 0..Max(Used) |-> NoCode]]
       ELSE /\ pc' = "level"
            /\ tree' = [tree EXCEPT !.n = Rows, !.n_levels = msb(Max(Used)) + 1,
                                    !.sigma = Max(Used)]
            /\ UNCHANGED crafting
  /\ UNCHANGED <<data, COMPRESSED, sequence, altered>>

alph_size == Len(crafting.f)

\* The bit of the open nodes themselves and of their copies.  Mutant: exchanged.
copy_digit_mutant(copied) == IF copied THEN 1 ELSE 0
copy_digit(copied) == IF copied THEN 0 ELSE 1

\* One round of the while loop: every open node c[j..m-1] is copied behind them.
\* c has one entry per symbol.
Expand ==
  /\ pc = "craft" /\ crafting.j < alph_size
  /\ crafting.f[crafting.j + 1].len > crafting.l
  /\ LET j == crafting.j
         open == crafting.m - j
         m == 2 * crafting.m - j
     IN IF m > alph_size
          THEN pc' = "panic" /\ UNCHANGED crafting
          ELSE /\ crafting' = [crafting EXCEPT
                    !.m = m,
                    !.l = @ + 1,
                    !.c = [x \in DOMAIN @ |->
                             IF x < j \/ x >= m THEN @[x]
                             ELSE @[j + ((x - j) % open)]
                                    + copy_digit(x >= crafting.m) * 2 ^ crafting.l]]
               /\ UNCHANGED pc
  /\ UNCHANGED <<data, COMPRESSED, sequence, tree, altered>>

\* The l bits of x from last to first.
reversed_code(x, l) ==
  MapThenSumSet(LAMBDA t : ((x \div 2 ^ t) % 2) * 2 ^ (l - t - 1), 0..(l - 1))

\* The next symbol gets the first open node.
Assign ==
  /\ pc = "craft" /\ crafting.j < alph_size
  /\ crafting.f[crafting.j + 1].len <= crafting.l
  /\ tree' = [tree EXCEPT !.codes_encode[crafting.f[crafting.j + 1].symbol] =
       [content |-> reversed_code(crafting.c[crafting.j], crafting.l), len |-> crafting.l]]
  /\ crafting' = [crafting EXCEPT !.j = @ + 1]
  /\ UNCHANGED <<data, COMPRESSED, pc, sequence, altered>>

\* new after craft_wm_codes: the decoder and the number of levels.
DecodeTable ==
  /\ pc = "craft" /\ crafting.j = alph_size
  /\ LET codes == tree.codes_encode
         max_len == Max({codes[s].len : s \in DOMAIN codes})
     IN tree' = [tree EXCEPT !.n = Rows, !.n_levels = max_len,
                             !.codes_decode = decode_table(codes, max_len)]
  /\ pc' = "level"
  /\ UNCHANGED <<data, COMPRESSED, crafting, sequence, altered>>

------------------------------------------------------------------------------
(* Levels.                                                                 *)

\* The code of a symbol: its own bits unless COMPRESSED.
code_of(t, symbol) ==
  IF COMPRESSED THEN t.codes_encode[symbol] ELSE [content |-> symbol, len |-> t.n_levels]

\* Bit k of a code, the most significant first.
digit(code, k) == (code.content \div 2 ^ (code.len - k - 1)) % 2

\* stable_partition_of_2_with_codes: rows whose code ends at this level or has
\* ended go last; stable_partition_of_2 has no such rows.
ends(code, shift) == code.len <= shift
bucket(code, shift) == IF COMPRESSED /\ ends(code, shift) THEN 2 ELSE digit(code, shift - 1)

Level ==
  /\ pc = "level"
  /\ LET shift == Len(tree.bvs) + 1
         code(p) == code_of(tree, sequence[p])
         pushed == Ordered({p \in DOMAIN sequence : code(p).len >= shift}, LAMBDA p, q : p < q)
         bv == [x \in 0..(Len(pushed) - 1) |-> digit(code(pushed[x + 1]), shift - 1)]
         into(p) == bucket(code(p), shift)
         destination(p) ==
           Cardinality({q \in DOMAIN sequence :
             into(q) < into(p) \/ (into(q) = into(p) /\ q < p)})
     IN /\ tree' = [tree EXCEPT !.bvs = Append(@, [len |-> Len(pushed), bv |-> bv]),
                                !.lens = Append(@, Len(pushed))]
        /\ sequence' = [x \in DOMAIN sequence |->
                          sequence[CHOOSE p \in DOMAIN sequence : destination(p) = x]]
        /\ pc' = IF shift = tree.n_levels THEN "built" ELSE "level"
  /\ UNCHANGED <<data, COMPRESSED, crafting, altered>>

------------------------------------------------------------------------------
(* Queries.  Levels are counted from 0, as in the code.                    *)

\* The level, or one without bits where bvs.get(k) is None.
level(t, k) == IF k < Len(t.bvs) THEN t.bvs[k + 1] ELSE [len |-> 0, bv |-> <<>>]

\* rank1 and rank0 of a level: none past its end, none at all if it is empty.
level_rank(t, k, d, x) ==
  IF x = None \/ level(t, k).len = 0 \/ x > level(t, k).len THEN None
  ELSE Count(level(t, k).bv, d, x)

\* Where boundary x of level k is at the next one, on the side of bit d.
\* Mutant: the ones do not begin after the zeros.
first_of_mutant(t, k, d) == 0
first_of(t, k, d) == Smaller(level(t, k).bv, level(t, k).len, d)
child(t, k, d, x) ==
  LET r == level_rank(t, k, d, x) IN IF r = None THEN None ELSE first_of(t, k, d) + r

get(t, i) ==
  LET down[k \in 0..t.n_levels] ==
        IF k = 0 THEN [at |-> i, content |-> 0, len |-> 0, on |-> TRUE]
        ELSE LET f == down[k - 1] IN
             IF ~f.on \/ (COMPRESSED /\ f.at >= t.lens[k]) THEN [f EXCEPT !.on = FALSE]
             ELSE LET d == t.bvs[k].bv[f.at]
                  IN [at |-> child(t, k - 1, d, f.at),
                      content |-> (f.content * 2 + d) % 2 ^ CODE_BITS,
                      len |-> f.len + 1, on |-> TRUE]
      leaf == down[t.n_levels]
  IN IF i >= t.n THEN None
     ELSE IF ~COMPRESSED THEN leaf.content
     ELSE IF ~has_decode(t, leaf.len, leaf.content) THEN None
     ELSE CHOOSE s \in decoded(t, leaf.len, leaf.content) : TRUE

\* The symbols that rank and select do not refuse.
known(t, symbol) ==
  IF COMPRESSED THEN has_code(t, symbol) ELSE t.sigma # None /\ symbol <= t.sigma

\* Where boundary x is at every level, following the bits of a code.
walk(t, code, x) ==
  LET at[k \in 0..code.len] ==
        IF k = 0 THEN x ELSE child(t, k - 1, digit(code, k - 1), at[k - 1])
  IN at

rank(t, symbol, i) ==
  IF i > t.n \/ ~known(t, symbol) THEN None
  ELSE LET code == code_of(t, symbol)
           cur_i == walk(t, code, i)[code.len]
           cur_p == walk(t, code, 0)[code.len]
       IN IF cur_i = None \/ cur_p = None THEN None ELSE cur_i - cur_p

\* Down with the boundary 0, then up with select1 and select0.  Mutant: the rows
\* of other symbols before the path are not counted.
rank_path_off_mutant(t, k, d, b) == 0
rank_path_off(t, k, d, b) == level_rank(t, k, d, b)
select(t, symbol, i) ==
  IF ~known(t, symbol) THEN None
  ELSE LET code == code_of(t, symbol)
           path_off == walk(t, code, 0)
           up[k \in 0..code.len] ==
             IF k = code.len THEN i
             ELSE IF up[k + 1] = None THEN None
             ELSE LET d == digit(code, k)
                      found == SelectIn(level(t, k).bv, level(t, k).len, d,
                                 rank_path_off(t, k, d, path_off[k]) + up[k + 1])
                  IN IF found = None THEN None ELSE found - path_off[k]
       IN IF path_off[code.len] = None THEN None ELSE up[0]

\* occs_range and OccsRangeIter::next to its end: <<symbol, count>> for every leaf
\* with rows, the left child before the right one.  A frame that a `?` gives up on
\* ends the iteration.  Refused stands for None instead of an iterator.
Refused == << <<None, 0>> >>
occs_range(t, start, end) ==
  LET gone == << <<None, 1>> >>
      rec[k \in Nat, a \in Nat, b \in Nat, bit_path \in Nat] ==
        IF COMPRESSED /\ k \notin DOMAIN t.codes_decode THEN gone
        ELSE IF COMPRESSED /\ has_decode(t, k, bit_path)
          THEN << <<CHOOSE s \in decoded(t, k, bit_path) : TRUE, b - a>> >>
        ELSE IF ~COMPRESSED /\ k = t.n_levels THEN << <<bit_path, b - a>> >>
        ELSE IF level_rank(t, k, 1, a) = None \/ level_rank(t, k, 1, b) = None THEN gone
        ELSE LET part(d) ==
                   IF level_rank(t, k, d, a) = level_rank(t, k, d, b) THEN <<>>
                   ELSE rec[k + 1, child(t, k, d, a), child(t, k, d, b), bit_path * 2 + d]
             IN part(0) \o part(1)
      yields == rec[0, start, end, 0]
      ends_at == {x \in 1..Len(yields) : yields[x] = gone[1]}
  IN IF end > t.n \/ start > end THEN Refused
     ELSE IF start = end THEN <<>>
     ELSE IF ends_at = {} THEN yields ELSE SubSeq(yields, 1, Min(ends_at) - 1)

------------------------------------------------------------------------------
(* Deserialization.                                                        *)

\* The levels and their lengths agree with each other and with the header.
levels_agree(t) ==
  /\ Len(t.bvs) = t.n_levels /\ Len(t.lens) = t.n_levels
  /\ t.n_levels > 0 /\ t.n_levels <= TYPE_BITS
  /\ COMPRESSED => t.n_levels <= CODE_BITS /\ t.lens[1] = t.n
  /\ \A k \in 1..t.n_levels :
       /\ t.lens[k] <= t.n /\ t.lens[k] = t.bvs[k].len
       /\ IF COMPRESSED THEN k > 1 => t.lens[k] <= t.lens[k - 1] ELSE t.lens[k] = t.n

\* The two code tables agree.  Codes of length zero in the decoder are not looked
\* at, nor whether a code is the beginning of another.
codes_agree(t) ==
  /\ t.sigma = None
  /\ DOMAIN t.codes_decode = 0..t.n_levels
  /\ \A len \in DOMAIN t.codes_decode : strictly_sorted(t.codes_decode[len])
  /\ \A s \in DOMAIN t.codes_encode : has_code(t, s) =>
       LET code == t.codes_encode[s] IN
       /\ code.len <= t.n_levels /\ code.content < 2 ^ code.len
       /\ decoded(t, code.len, code.content) = {s}
  /\ \A len \in DOMAIN t.codes_decode \ {0} : entries_agree(t, len)

\* A tree that is not compressed has no codes, and levels for its largest symbol.
sigma_agrees(t) ==
  /\ t.codes_encode = EmptyTree.codes_encode /\ t.codes_decode = EmptyTree.codes_decode
  /\ t.sigma # None /\ t.n_levels = msb(t.sigma) + 1

\* Every row decodes, and sigma is the largest.
largest_is_sigma(t) == t.sigma = Max({get(t, i) : i \in 0..(t.n - 1)})

validate_deserialized(t) ==
  IF t.n = 0 THEN t = EmptyTree
  ELSE IF ~levels_agree(t) THEN FALSE
  ELSE IF ~(IF COMPRESSED THEN codes_agree(t) ELSE sigma_agrees(t)) THEN FALSE
  ELSE /\ \A i \in 0..(t.n - 1) : get(t, i) # None
       /\ COMPRESSED \/ largest_is_sigma(t)

\* Trees with one field changed.
Alterations(t) ==
  LET levels == DOMAIN t.bvs
      lens == DOMAIN t.codes_decode
      symbols == DOMAIN t.codes_encode
      codes == [content: 0..3, len: {1, 2} \cap lens] \cup {NoCode}
      near(x) == {x + 1} \cup (IF x > 0 THEN {x - 1} ELSE {})
      longer(k, d) == [len |-> t.bvs[k].len + 1,
                       bv |-> [p \in 0..t.bvs[k].len |->
                                 IF p < t.bvs[k].len THEN t.bvs[k].bv[p] ELSE d]]
      recoded(s, code) == [t.codes_encode EXCEPT ![s] = code]
  IN {[t EXCEPT !.n = m] : m \in near(t.n)}
     \cup {[t EXCEPT !.n_levels = m] : m \in near(t.n_levels)}
     \cup {[t EXCEPT !.sigma = m] : m \in near(Max({t.sigma, 0})) \cup {None}}
     \cup {[t EXCEPT !.lens[k] = @ + 1] : k \in levels}
     \cup {[t EXCEPT !.bvs[k] = longer(k, d), !.lens[k] = @ + 1] : k \in levels, d \in 0..1}
     \cup UNION {{[t EXCEPT !.bvs[k].bv[p] = 1 - @] : p \in DOMAIN t.bvs[k].bv} : k \in levels}
     \cup {[t EXCEPT !.codes_encode = recoded(s, code)] : s \in symbols, code \in codes}
     \cup UNION {{[t EXCEPT !.codes_decode[len] = Ordered(Range(@) \ {e}, by_content)] :
                    e \in Range(t.codes_decode[len])} : len \in lens}
     \cup {[t EXCEPT !.codes_encode = recoded(s, code),
                     !.codes_decode = decode_table(recoded(s, code), Max(lens))] :
             s \in symbols, code \in codes}

\* The tree is serialized, and comes back as it was or altered.
Store ==
  /\ pc = "built" /\ ~altered /\ Rows <= MaxStored
  /\ pc' = "stored"
  /\ \/ UNCHANGED <<tree, altered>>
     \/ tree' \in Alterations(tree) \ {tree} /\ altered' = TRUE
  /\ UNCHANGED <<data, COMPRESSED, crafting, sequence>>

Deserialize ==
  /\ pc = "stored"
  /\ pc' = IF validate_deserialized(tree) THEN "built" ELSE "rejected"
  /\ UNCHANGED <<data, COMPRESSED, crafting, sequence, tree, altered>>

Next == New \/ Expand \/ Assign \/ DecodeTable \/ Level \/ Store \/ Deserialize

Spec == Init /\ [][Next]_vars

------------------------------------------------------------------------------
(* Properties.                                                             *)

\* The indexed sequence: what the caller gave, or what an accepted tree decodes to.
indexed(p) == IF altered THEN get(tree, p) ELSE data[p]
Occs(symbol, a, b) == Cardinality({p \in a..(b - 1) : indexed(p) = symbol})
Asked == (0..(Max(Symbols) + 1)) \cup DOMAIN tree.codes_encode

\* Codes of which none is the beginning of another.  validate_deserialized does
\* not ask for it.
Prefix(a, b) == a.len <= b.len /\ b.content \div 2 ^ (b.len - a.len) = a.content
PrefixFree(t) ==
  \A s, u \in {x \in DOMAIN t.codes_encode : has_code(t, x)} :
    s # u => ~Prefix(t.codes_encode[s], t.codes_encode[u])
Queried == pc = "built" /\ (altered => PrefixFree(tree))

\* What new builds, Deserialize accepts: the levels hold the rows of every code as
\* long as it lasts and no others, for every optimal code and every order of the
\* HashMap.  new panics on no sequence but, compressed, of a single symbol.
BuiltIsAccepted ==
  /\ pc = "rejected" => altered
  /\ pc = "panic" => COMPRESSED /\ Cardinality(Used) = 1

\* On every tree that is built, or accepted with codes that are prefix-free, get
\* finds every row's symbol, and rank and select agree with it; out of bounds or
\* for a symbol the tree does not know they are None.
PointQueriesExact ==
  Queried =>
    LET t == tree IN
    /\ \A i \in 0..(t.n - 1) : get(t, i) = indexed(i) /\ known(t, indexed(i))
    /\ get(t, t.n) = None
    /\ \A s \in Asked :
         /\ \A i \in 0..(t.n + 1) :
              rank(t, s, i) = IF i > t.n \/ ~known(t, s) THEN None ELSE Occs(s, 0, i)
         /\ \A k \in 0..(t.n + 1) :
              select(t, s, k) = IF k < Occs(s, 0, t.n)
                THEN CHOOSE p \in 0..(t.n - 1) : indexed(p) = s /\ Occs(s, 0, p) = k
                ELSE None

\* occs_range yields every symbol of a range once with its number of rows, and in
\* "lexicographic symbol order if the tree is not compressed".
OccsRangeExact ==
  Queried =>
    LET t == tree IN
    \A a, b \in 0..(t.n + 1) :
      LET pairs == occs_range(t, a, b) IN
      IF a > b \/ b > t.n THEN pairs = Refused
      ELSE /\ Range(pairs) = {<<s, Occs(s, a, b)>> : s \in {indexed(p) : p \in a..(b - 1)}}
           /\ \A x, y \in 1..Len(pairs) :
                x < y => IF COMPRESSED THEN pairs[x] # pairs[y] ELSE pairs[x][1] < pairs[y][1]

\* "Panics if the sequence is longer than the largest possible length." (new): it
\* panics on no other.
PanicsOnlyIfTooLong == pc # "panic"
==============================================================================
