-------------------------- MODULE HuffQWaveletTree ---------------------------
(***************************************************************************)
(* HuffQWaveletTree (quadwt/huffqwt.rs): a wavelet matrix on Huffman       *)
(* codes.  A symbol has a code of len / 2 quaternary digits; a level holds *)
(* a digit of every row whose code is that long, so levels shrink.  Rows   *)
(* whose code has ended have to come last at every level, and it is the    *)
(* choice of codes (craft_wm_codes) that makes them.                       *)
(*                                                                         *)
(*   from_owned: code lengths from the Huffman coder; limit_code_lengths;  *)
(*     craft_wm_codes; the levels, one partition each.                     *)
(*   from_parts: tables and levels from a file, possibly altered, accepted *)
(*     only if every populated path ends in a code.                        *)
(*   get, rank, select and occs_range read the parts.                      *)
(*                                                                         *)
(* Parts are a record t with n, n_levels, codes_encode (symbol -> code,    *)
(* len = 0 for a symbol without one), codes_decode (code length ->         *)
(* sequence of <<content, symbol>> sorted by content), qvs and lens.  A    *)
(* level answers as QuadLevel says.                                        *)
(***************************************************************************)
EXTENDS QuadLevel, PrefixCodes

CONSTANTS
  Symbols,          \* symbols of the short sequences
  MaxLen,           \* bound: longest sequence of which all are taken
  SkewedSequences,  \* longer ones, whose frequencies give deep codes
  CodeWidths,       \* bits of a code (32)
  MAX_QUAD_LEVELS,  \* 64
  Stored            \* sequences whose trees are stored and loaded

Inputs == (UNION {[0..(k - 1) -> Symbols] : k \in 0..MaxLen}) \cup SkewedSequences

ASSUME HuffAssumption ==
  /\ Symbols \subseteq Nat /\ MaxLen \in Nat
  /\ \A s \in SkewedSequences :
       IsFiniteSet(DOMAIN s) /\ s \in [0..(Cardinality(DOMAIN s) - 1) -> Nat]
  /\ CodeWidths \subseteq {w \in Nat : w > 0 /\ w % 2 = 0}
  /\ MAX_QUAD_LEVELS \in Nat
  /\ Stored \subseteq Inputs

VARIABLES
  data,            \* from_owned's argument, a function on 0..n-1
  code_bits,       \* MAX_CODE_BITS
  pc,              \* "new", "limit", "lengthen", "craft", "level", "built",
                   \* "parts", "rejected" or "panic"
  lengths,         \* sequence of LenInfo [symbol, len, frequency]
  occupied_slots,  \* limit_code_lengths: slots taken at depth code_bits
  candidates,      \* limit_code_lengths: indices of lengths still to lengthen
  crafting,        \* craft_wm_codes: [c, m, l, j]
  sequence,        \* from_owned: the rows in the order of the next level
  shift,           \* from_owned: bits of the codes up to this level
  tree,            \* the parts
  altered          \* a part has been changed while it was stored

vars == <<data, code_bits, pc, lengths, occupied_slots, candidates, crafting,
          sequence, shift, tree, altered>>

Rows == Cardinality(DOMAIN data)
Panic == -2

EmptyTree == [n |-> 0, n_levels |-> 0, codes_encode |-> [s \in {} |-> NoCode],
              codes_decode |-> <<>>, qvs |-> <<>>, lens |-> <<>>]

Init ==
  /\ data \in Inputs
  /\ code_bits \in CodeWidths
  /\ pc = "new"
  /\ lengths = <<>>
  /\ occupied_slots = 0
  /\ candidates = <<>>
  /\ crafting = [c |-> <<>>, m |-> 1, l |-> 0, j |-> 0]
  /\ sequence = data
  /\ shift = 2
  /\ tree = EmptyTree
  /\ altered = FALSE

------------------------------------------------------------------------------
(* Code lengths.                                                           *)

frequency(s) == Cardinality({p \in DOMAIN data : data[p] = s})

\* The symbols that occur by (frequency, symbol), as the coder wants them.
values == Ordered({data[p] : p \in DOMAIN data},
            LAMBDA s, t : \/ frequency(s) < frequency(t)
                          \/ frequency(s) = frequency(t) /\ s < t)

\* minimum_redundancy::Coding with two bits per fragment (external): lengths,
\* in fragments and shrinking along `values`, of a quaternary prefix code with
\* the least total length.  used[d] is the number of codes of d fragments.
minimum_redundancy ==
  LET k == Len(values)
      deepest == Max({1, (k + 1) \div 3})
      upto(used, d) == SumFunctionOnSet(used, 1..d)
      len(used, i) == Min({d \in 1..deepest : upto(used, d) > k - i})
      kraft(used) == SumFunction([d \in 1..deepest |-> used[d] * 2 ^ (2 * (deepest - d))])
      cost(used) == SumFunction([i \in 1..k |-> frequency(values[i]) * len(used, i)])
      prefix == {used \in [1..deepest -> 0..k] :
                   upto(used, deepest) = k /\ kraft(used) <= 2 ^ (2 * deepest)}
      least == Min({cost(used) : used \in prefix})
  IN {[i \in 1..k |-> len(used, i)] : used \in {u \in prefix : cost(u) = least}}

\* from_owned and huffman_codes_from_frequencies up to craft_wm_codes.  The
\* empty tree has no codes (and one default level no query reads).
CodeLengths ==
  /\ pc = "new"
  /\ IF Rows = 0
       THEN pc' = "built" /\ UNCHANGED lengths
       ELSE /\ pc' = "limit"
            /\ \E fragments \in minimum_redundancy :
                 lengths' = [i \in 1..Len(values) |->
                   [symbol |-> values[i], len |-> 2 * fragments[i],
                    frequency |-> frequency(values[i])]]
  /\ UNCHANGED <<data, code_bits, occupied_slots, candidates, crafting, sequence,
                 shift, tree, altered>>

max_depth_slots == 2 ^ code_bits
slots(len) == 2 ^ (code_bits - len)
KraftSum(infos) == SumFunction([i \in DOMAIN infos |-> slots(infos[i].len)])

\* Codes that can still be lengthened, rarest first.  Mutants: only those two
\* fragments below the limit; commonest first.
can_grow_mutant(info) == info.len + 2 < code_bits
can_grow(info) == info.len < code_bits
rarer_mutant(a, b) ==
  \/ a.frequency > b.frequency
  \/ a.frequency = b.frequency /\ a.symbol < b.symbol
rarer(a, b) ==
  \/ a.frequency < b.frequency
  \/ a.frequency = b.frequency /\ a.len < b.len
  \/ a.frequency = b.frequency /\ a.len = b.len /\ a.symbol < b.symbol

\* craft_wm_codes takes the shortest codes first, the common ones before the rare.
shorter(a, b) ==
  \/ a.len < b.len
  \/ a.len = b.len /\ a.frequency > b.frequency
  \/ a.len = b.len /\ a.frequency = b.frequency /\ a.symbol < b.symbol
sorted(infos) ==
  LET order == Ordered(DOMAIN infos, LAMBDA i, k : shorter(infos[i], infos[k]))
  IN [i \in DOMAIN infos |-> infos[order[i]]]

alph_size == Len(lengths)

\* The beginning of craft_wm_codes after limit_code_lengths.
BeginCraft(infos) ==
  /\ pc' = "craft"
  /\ lengths' = sorted(infos)
  /\ crafting' = [crafting EXCEPT !.c = [k \in 0..(4 * Len(infos) - 1) |-> 0]]
  /\ tree' = [tree EXCEPT !.codes_encode =
                [s \in 0..Max({data[p] : p \in DOMAIN data}) |-> NoCode]]

\* limit_code_lengths up to its loop: nothing to do, or cap and see if the
\* codes still fit.
LimitCodeLengths ==
  /\ pc = "limit"
  /\ LET capped == [i \in 1..alph_size |-> [lengths[i] EXCEPT !.len = MinOf(@, code_bits)]]
     IN IF \/ \A i \in 1..alph_size : lengths[i].len <= code_bits
           \/ KraftSum(capped) <= max_depth_slots
          THEN /\ BeginCraft(capped)
               /\ UNCHANGED <<occupied_slots, candidates>>
          ELSE /\ pc' = "lengthen"
               /\ lengths' = capped
               /\ occupied_slots' = KraftSum(capped)
               /\ candidates' = Ordered({i \in 1..alph_size : can_grow(capped[i])},
                                  LAMBDA i, k : rarer(capped[i], capped[k]))
               /\ UNCHANGED <<crafting, tree>>
  /\ UNCHANGED <<data, code_bits, sequence, shift, altered>>

\* A code grows by a digit.
lengthened(len) == len + 2

\* The loop over the candidates, each lengthened until the codes fit or it is
\* as long as can be; the assertion after the loop.
Lengthen ==
  /\ pc = "lengthen"
  /\ IF occupied_slots <= max_depth_slots
       THEN BeginCraft(lengths) /\ UNCHANGED <<occupied_slots, candidates>>
       ELSE IF candidates = <<>>
       THEN pc' = "panic" /\ UNCHANGED <<lengths, occupied_slots, candidates, crafting, tree>>
       ELSE LET i == Head(candidates)
                old_slots == slots(lengths[i].len)
            IN /\ IF lengths[i].len < code_bits
                    THEN /\ lengths' = [lengths EXCEPT ![i].len = lengthened(@)]
                         /\ occupied_slots' = occupied_slots - (old_slots - old_slots \div 4)
                         /\ UNCHANGED candidates
                    ELSE /\ candidates' = Tail(candidates)
                         /\ UNCHANGED <<lengths, occupied_slots>>
               /\ UNCHANGED <<pc, crafting, tree>>
  /\ UNCHANGED <<data, code_bits, sequence, shift, altered>>

------------------------------------------------------------------------------
(* Codes: the open nodes of the code tree are c[j..m-1], those of the codes *)
(* given so far c[0..j-1], each with its digits in reverse.                *)

\* The digit of the k-th copy of an open node.  Mutant: ascending.
copy_digit_mutant(k) == k
copy_digit(k) == 3 - k

\* One round of the while loop: every open node gets its four children, the
\* block of nodes with digit 3 first.  c has room for four nodes per symbol.
Expand ==
  /\ pc = "craft" /\ crafting.j < alph_size
  /\ lengths[crafting.j + 1].len > crafting.l
  /\ LET j == crafting.j
         open == crafting.m - j
         m == 4 * crafting.m - 3 * j
     IN IF m > 4 * alph_size
          THEN pc' = "panic" /\ UNCHANGED crafting
          ELSE /\ crafting' = [crafting EXCEPT
                    !.m = m,
                    !.l = @ + 2,
                    !.c = [x \in DOMAIN @ |->
                             IF x < j \/ x >= m THEN @[x]
                             ELSE @[j + ((x - j) % open)]
                                    + copy_digit((x - j) \div open) * 2 ^ crafting.l]]
               /\ UNCHANGED pc
  /\ UNCHANGED <<data, code_bits, lengths, occupied_slots, candidates, sequence,
                 shift, tree, altered>>

\* The l / 2 digits of x from last to first.  Mutant: as they are.
reversed_code_mutant(x, l) == x
reversed_code(x, l) ==
  SumFunction([t \in 0..(l \div 2 - 1) |-> ((x \div 2 ^ (2 * t)) % 4) * 2 ^ (l - 2 - 2 * t)])

\* The next symbol gets the first open node.
Assign ==
  /\ pc = "craft" /\ crafting.j < alph_size
  /\ lengths[crafting.j + 1].len <= crafting.l
  /\ tree' = [tree EXCEPT !.codes_encode[lengths[crafting.j + 1].symbol] =
       [content |-> reversed_code(crafting.c[crafting.j], crafting.l), len |-> crafting.l]]
  /\ crafting' = [crafting EXCEPT !.j = @ + 1]
  /\ UNCHANGED <<data, code_bits, pc, lengths, occupied_slots, candidates, sequence,
                 shift, altered>>

\* from_owned after the codes: the decode table and the number of levels.
DecodeTable ==
  /\ pc = "craft" /\ crafting.j = alph_size
  /\ LET codes == tree.codes_encode
         max_len == Max({codes[s].len : s \in DOMAIN codes})
     IN tree' = [tree EXCEPT !.n = Rows, !.n_levels = max_len \div 2,
                             !.codes_decode = decode_table(codes, max_len)]
  /\ pc' = "level"
  /\ UNCHANGED <<data, code_bits, lengths, occupied_slots, candidates, crafting,
                 sequence, shift, altered>>

------------------------------------------------------------------------------
(* Levels.                                                                 *)

fragment(code) == (code.content \div 2 ^ (code.len - shift)) % 4

\* stable_partition_of_4_with_codes_into: rows whose code ends here or has ended
\* go last.
ended(code) == code.len <= shift
bucket(code) == IF ended(code) THEN 4 ELSE fragment(code)

Level ==
  /\ pc = "level"
  /\ LET code(p) == tree.codes_encode[sequence[p]]
         pushed == Ordered({p \in DOMAIN sequence : code(p).len >= shift}, LAMBDA p, q : p < q)
         qv == [x \in 0..(Len(pushed) - 1) |-> fragment(code(pushed[x + 1]))]
         destination(p) ==
           Cardinality({q \in DOMAIN sequence :
             \/ bucket(code(q)) < bucket(code(p))
             \/ bucket(code(q)) = bucket(code(p)) /\ q < p})
     IN /\ tree' = [tree EXCEPT !.qvs = Append(@, [len |-> Len(pushed), qv |-> qv]),
                                !.lens = Append(@, Len(pushed))]
        /\ sequence' = [x \in DOMAIN sequence |->
                          sequence[CHOOSE p \in DOMAIN sequence : destination(p) = x]]
        /\ shift' = shift + 2
        /\ pc' = IF Len(tree.qvs) + 1 = tree.n_levels THEN "built" ELSE "level"
  /\ UNCHANGED <<data, code_bits, lengths, occupied_slots, candidates, crafting, altered>>

------------------------------------------------------------------------------
(* Queries.  Levels are counted from 0, as in the code.                    *)

qv_at(t, k) == t.qvs[k + 1].qv
child(t, k, d, x) == Count(qv_at(t, k), d, x) + Smaller(qv_at(t, k), t.qvs[k + 1].len, d)

\* Digit k of a code, the most significant first.
digit(code, k) == (code.content \div 4 ^ (code.len \div 2 - 1 - k)) % 4

\* get_unchecked stops below the level at which the row is not there any more.
off_level(t, k, x) == x >= t.lens[k + 1]

get(t, i) ==
  LET down[k \in 0..t.n_levels] ==
        IF k = 0 THEN [at |-> i, content |-> 0, len |-> 0, on |-> TRUE]
        ELSE LET f == down[k - 1] IN
             IF ~f.on \/ off_level(t, k - 1, f.at) THEN [f EXCEPT !.on = FALSE]
             ELSE LET d == qv_at(t, k - 1)[f.at]
                  IN [at |-> child(t, k - 1, d, f.at), content |-> f.content * 4 + d,
                      len |-> f.len + 2, on |-> TRUE]
      leaf == down[t.n_levels]
  IN IF i >= t.n THEN None
     ELSE IF ~has_decode(t, leaf.len, leaf.content) THEN Panic
     ELSE CHOOSE s \in decoded(t, leaf.len, leaf.content) : TRUE

\* Where boundary x is at every level, following the digits of a code.
walk(t, code, x) ==
  LET at[k \in 0..(code.len \div 2)] ==
        IF k = 0 THEN x ELSE child(t, k - 1, digit(code, k - 1), at[k - 1])
  IN at

rank(t, symbol, i) ==
  IF i > t.n \/ ~has_code(t, symbol) THEN None
  ELSE LET code == t.codes_encode[symbol]
           depth == code.len \div 2
       IN walk(t, code, i)[depth] - walk(t, code, 0)[depth]

\* Down with the boundary 0, then up with select.
select(t, symbol, i) ==
  IF ~has_code(t, symbol) \/ t.n_levels > MAX_QUAD_LEVELS THEN None
  ELSE LET code == t.codes_encode[symbol]
           depth == code.len \div 2
           path_off == walk(t, code, 0)
           up[k \in 0..depth] ==
             IF k = depth THEN i
             ELSE IF up[k + 1] = None THEN None
             ELSE LET d == digit(code, k)
                      rank_b == Count(qv_at(t, k), d, path_off[k])
                      found == SelectIn(qv_at(t, k), t.qvs[k + 1].len, d, rank_b + up[k + 1])
                  IN IF found = None THEN None ELSE found - path_off[k]
       IN up[0]

\* HuffOccsRangeIter to its end: <<symbol, count>> for every leaf with rows; None
\* instead of an iterator for a range out of bounds.
\* Mutant: a child's rows begin where its parent's do.
child_start_mutant(t, k, d, x) == Count(qv_at(t, k), d, x)
child_start(t, k, d, x) == child(t, k, d, x)

Refused == << <<None, 0>> >>

occs_range(t, start, end) ==
  LET rec[k \in 0..(t.n_levels + 1), a \in Nat, b \in Nat, content \in Nat] ==
        IF has_decode(t, 2 * k, content)
          THEN << <<CHOOSE s \in decoded(t, 2 * k, content) : TRUE, b - a>> >>
        ELSE IF k = t.n_levels THEN << <<Panic, b - a>> >>
        ELSE LET part(d) ==
                   LET lo == Count(qv_at(t, k), d, a)
                       hi == Count(qv_at(t, k), d, b)
                       from == child_start(t, k, d, a)
                   IN IF lo = hi THEN <<>> ELSE rec[k + 1, from, from + hi - lo, content * 4 + d]
             IN part(0) \o part(1) \o part(2) \o part(3)
  IN IF end > t.n \/ start > end THEN Refused
     ELSE IF start = end THEN <<>> ELSE rec[0, start, end, 0]

------------------------------------------------------------------------------
(* from_parts.                                                             *)

\* Levels and lengths agree with each other and with the header.
levels_agree(t) ==
  /\ t.n_levels <= MAX_QUAD_LEVELS
  /\ IF t.n = 0
       THEN /\ t.n_levels = 0
            /\ \/ t.qvs = <<>> /\ t.lens = <<>>
               \/ Len(t.qvs) = 1 /\ t.lens = <<0>>
       ELSE /\ t.n_levels # 0 /\ Len(t.qvs) = t.n_levels /\ Len(t.lens) = t.n_levels
            /\ t.lens[1] = t.n
            /\ \A k \in 1..t.n_levels : t.qvs[k].len = t.lens[k]

\* A code is well formed and leads back to its symbol.  Mutant of the search in
\* the decode table: left out.
encode_agrees_mutant(t, s) == TRUE
encode_agrees(t, s) ==
  LET code == t.codes_encode[s] IN
  /\ code.len % 2 = 0 /\ code.len <= 2 * t.n_levels /\ code.len <= code_bits
  /\ code.content < 2 ^ code.len
  /\ code.len \in DOMAIN t.codes_decode /\ decoded(t, code.len, code.content) = {s}

\* A bucket is strictly sorted and its entries are the codes of their symbols.
decode_agrees(t, len) == strictly_sorted(t.codes_decode[len]) /\ entries_agree(t, len)

\* The rank path of a code stays in the levels at both ends.
rank_path_valid(t, code) ==
  LET step(k, x) == IF x = None \/ k >= Len(t.qvs) THEN None
                    ELSE IF x > t.lens[k + 1] THEN None
                    ELSE child(t, k, digit(code, k), x)
      at[k \in 0..(code.len \div 2), x \in {0, t.n}] ==
        IF k = 0 THEN x ELSE step(k - 1, at[k - 1, x])
  IN \A x \in {0, t.n} : at[code.len \div 2, x] # None

\* Every path with rows ends in a code, at the level where its rows end.
access_paths_valid(t) ==
  LET valid[k \in Nat, a \in Nat, b \in Nat, content \in Nat] ==
        /\ k < Len(t.qvs) /\ b <= t.lens[k + 1]
        /\ \A d \in Quads :
             LET from == child(t, k, d, a)
                 to == child(t, k, d, b)
                 coded == has_decode(t, 2 * k + 2, content * 4 + d)
             IN Count(qv_at(t, k), d, a) # Count(qv_at(t, k), d, b) =>
                  IF k + 1 = Len(t.lens) THEN coded
                  ELSE IF to <= t.lens[k + 2]
                    THEN ~coded /\ valid[k + 1, from, to, content * 4 + d]
                  ELSE from >= t.lens[k + 2] /\ coded
  IN t.n > 0 => valid[0, 0, t.n, 0]

accepts(t) ==
  IF ~levels_agree(t) THEN FALSE
  ELSE IF ~ \A s \in DOMAIN t.codes_encode : has_code(t, s) => encode_agrees(t, s) THEN FALSE
  ELSE IF ~ \A len \in DOMAIN t.codes_decode : decode_agrees(t, len) THEN FALSE
  ELSE /\ \A s \in DOMAIN t.codes_encode :
            has_code(t, s) => rank_path_valid(t, t.codes_encode[s])
       /\ access_paths_valid(t)

\* Parts with one thing changed: a number of the header, a level's length, digit
\* or existence, a code, a decode entry, or a code in both tables.
Alterations(t) ==
  LET levels == DOMAIN t.qvs
      lens == DOMAIN t.codes_decode
      symbols == DOMAIN t.codes_encode
      codes == [content: 0..15, len: {2, 4} \cap lens] \cup {NoCode}
      near(x) == {x + 1} \cup (IF x > 0 THEN {x - 1} ELSE {})
      longer(k, d) == [len |-> t.qvs[k].len + 1,
                       qv |-> [p \in 0..t.qvs[k].len |->
                                 IF p < t.qvs[k].len THEN t.qvs[k].qv[p] ELSE d]]
      with(len, entries) == [t EXCEPT !.codes_decode[len] =
        Ordered(entries, by_content)]
      recoded(s, code) == [t.codes_encode EXCEPT ![s] = code]
  IN {[t EXCEPT !.n = m] : m \in near(t.n)}
     \cup {[t EXCEPT !.n_levels = m] : m \in near(t.n_levels)}
     \cup {[t EXCEPT !.lens[k] = @ + 1] : k \in levels}
     \cup {[t EXCEPT !.n_levels = @ - 1, !.qvs = Front(@), !.lens = Front(@)] :
             x \in levels \cap {1}}
     \cup {[t EXCEPT !.qvs[k] = longer(k, d), !.lens[k] = @ + 1] : k \in levels, d \in Quads}
     \cup UNION {{[t EXCEPT !.qvs[k].qv[p] = d] : p \in DOMAIN t.qvs[k].qv, d \in Quads} :
                   k \in levels}
     \cup {[t EXCEPT !.codes_encode = recoded(s, code)] : s \in symbols, code \in codes}
     \cup UNION {{with(len, Range(t.codes_decode[len]) \ {e}) :
                    e \in Range(t.codes_decode[len])} : len \in lens}
     \cup UNION {{with(len, Range(t.codes_decode[len]) \cup {<<content, s>>}) :
                    content \in 0..15, s \in symbols} : len \in lens}
     \cup {[t EXCEPT !.codes_encode = recoded(s, code),
                     !.codes_decode = decode_table(recoded(s, code), Max(lens))] :
             s \in symbols, code \in codes}

\* The parts are stored, and come back as they were or altered.
Store ==
  /\ pc = "built" /\ ~altered /\ data \in Stored
  /\ pc' = "parts"
  /\ \/ UNCHANGED <<tree, altered>>
     \/ tree' \in Alterations(tree) \ {tree} /\ altered' = TRUE
  /\ UNCHANGED <<data, code_bits, lengths, occupied_slots, candidates, crafting,
                 sequence, shift>>

FromParts ==
  /\ pc = "parts"
  /\ pc' = IF accepts(tree) THEN "built" ELSE "rejected"
  /\ UNCHANGED <<data, code_bits, lengths, occupied_slots, candidates, crafting,
                 sequence, shift, tree, altered>>

Next ==
  \/ CodeLengths
  \/ LimitCodeLengths
  \/ Lengthen
  \/ Expand
  \/ Assign
  \/ DecodeTable
  \/ Level
  \/ Store
  \/ FromParts

Spec == Init /\ [][Next]_vars

------------------------------------------------------------------------------
(* Properties.                                                             *)

Built == pc = "built"

\* craft_wm_codes never indexes past the 4 * alph_size entries of c, also for
\* lengths that limit_code_lengths has changed, and "Huffman QWT alphabet exceeds
\* the u32 code space" is not met by an alphabet that fits.
NoPanic == pc # "panic"

\* The codes of a sequence: every symbol has one, none is longer than the limit
\* or the beginning of another.
Prefix(a, b) == a.len <= b.len /\ b.content \div 2 ^ (b.len - a.len) = a.content
CodesPrefixFree ==
  pc \in {"level", "built"} /\ ~altered /\ Rows > 0 =>
    LET used == {data[p] : p \in DOMAIN data}
        code(s) == tree.codes_encode[s]
    IN /\ \A s \in DOMAIN tree.codes_encode : s \in used <=> code(s).len # 0
       /\ \A s \in used : code(s).len <= code_bits /\ code(s).content < 2 ^ code(s).len
       /\ \A s, u \in used : s # u => ~Prefix(code(s), code(u))

\* "retains the useful short codes for common symbols" (limit_code_lengths): a
\* symbol never has a longer code than a rarer one, and the count of occupied
\* slots that decides when to stop is right after every step.
CommonCodesShorter ==
  /\ pc = "lengthen" => occupied_slots = KraftSum(lengths)
  /\ pc = "craft" => \A i, k \in 1..alph_size :
       lengths[i].frequency > lengths[k].frequency => lengths[i].len <= lengths[k].len

\* What from_owned builds, from_parts accepts.
RoundTrip == pc = "rejected" => altered

\* The indexed sequence: what the caller gave, or what altered parts decode to.
indexed(p) == IF altered THEN get(tree, p) ELSE data[p]
Occs(symbol, a, b) == Cardinality({p \in a..(b - 1) : indexed(p) = symbol})
Asked == (0..7) \cup DOMAIN tree.codes_encode

\* On every tree that is built or accepted, get decodes every row, to the row's
\* symbol if the tree is the builder's; rank and select agree with it; out of
\* bounds or without a code they are None.
PointQueriesExact ==
  Built =>
    LET t == tree IN
    /\ \A i \in 0..(t.n - 1) : get(t, i) = indexed(i) /\ has_code(t, get(t, i))
    /\ get(t, t.n) = None
    /\ \A s \in Asked :
         /\ \A i \in 0..(t.n + 1) :
              rank(t, s, i) = IF i > t.n \/ ~has_code(t, s) THEN None ELSE Occs(s, 0, i)
         /\ \A k \in 0..(t.n + 1) :
              select(t, s, k) = IF k < Occs(s, 0, t.n)
                THEN CHOOSE p \in 0..(t.n - 1) : indexed(p) = s /\ Occs(s, 0, p) = k
                ELSE None

\* occs_range yields every symbol of the range once, with its number of rows, on
\* every tree whose decode table has no code of length zero (from_parts accepts
\* one for a symbol without a code, and occs_range then reports that symbol).
OccsRangeExact ==
  Built /\ (0 \in DOMAIN tree.codes_decode => tree.codes_decode[0] = <<>>) =>
    LET t == tree IN
    \A a, b \in 0..(t.n + 1) :
      LET pairs == occs_range(t, a, b) IN
      IF a > b \/ b > t.n THEN pairs = Refused
      ELSE /\ Range(pairs) = {<<s, Occs(s, a, b)>> : s \in {indexed(p) : p \in a..(b - 1)}}
           /\ Len(pairs) = Cardinality(Range(pairs))
==============================================================================
