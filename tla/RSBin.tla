-------------------------------- MODULE RSBin --------------------------------
(***************************************************************************)
(* Rank and select on a BitVector: RSNarrow (bitvector/narrow.rs) counts   *)
(* ones per line and, inside it, per word; RSWide (bitvector/wide.rs) per  *)
(* superblock of lines and, inside it, per line.  Both keep the block of   *)
(* every hint-th one and zero, and search from there.                      *)
(*                                                                         *)
(* A support is a record: sub bits in a sub-block, per sub-blocks in a     *)
(* block, blocks [rank, subs] with the ones before the block and those in  *)
(* it before each sub-block, select_samples, and the counts of ones and    *)
(* zeros that select is limited by.  Sub-block counters stay below the     *)
(* width of their fields (7 * 64 < 2^9, 7 * 512 < 2^12).                   *)
(***************************************************************************)
EXTENDS BitVector

CONSTANTS
  SUPERBLOCK_LINES,   \* lines in a superblock of RSWide (8)
  NARROW_HINT,        \* ones or zeros to a sample of RSNarrow (1024)
  WIDE_HINT           \* and of RSWide (8192)

ASSUME RSAssumption ==
  /\ SUPERBLOCK_LINES \in Nat \ {0}
  /\ NARROW_HINT \in Nat /\ NARROW_HINT > WORD_BITS
  /\ WIDE_HINT \in Nat /\ WIDE_HINT > LINE

n_lines == Cardinality(DOMAIN data) \div LINE

\* Bits with value bit in the first x of the lines, padding and all.
Counted(bit, x) == Cardinality({p \in 0..(x - 1) : p \in DOMAIN data /\ data[p] = bit})

\* The samples pushed on the way through units of u bits, per of them to a block:
\* the block in which another hint bits are full, at most one per unit, and at
\* the end the last block.  Mutant: also before they are full.
another_full_mutant(counted_bits, hint, cur_hint) == counted_bits \div hint >= cur_hint
another_full(counted_bits, hint, cur_hint) == counted_bits \div hint > cur_hint
select_samples(bit, u, per, hint, last) ==
  LET units == Cardinality(DOMAIN data) \div u
      pushed[k \in 0..units] ==
        IF k = 0 THEN <<0>>
        ELSE IF another_full(Counted(bit, k * u), hint, Len(pushed[k - 1]) - 1)
          THEN Append(pushed[k - 1], (k - 1) \div per)
          ELSE pushed[k - 1]
  IN Append(pushed[units], last)

\* The counters of block b: ones before it, and from its beginning to each of its
\* sub-blocks, which past the data are those of the whole block.
counters(b, u, per) ==
  LET from == Counted(TRUE, b * per * u)
  IN [rank |-> from, subs |-> [j \in 0..(per - 1) |-> Counted(TRUE, (b * per + j) * u) - from]]

\* RS::new of narrow.rs: a block per line and one after them, or two unless the
\* lines fill groups of LINE_WORDS.
narrow_new ==
  LET last == IF n_lines % LINE_WORDS = 0 THEN n_lines ELSE n_lines + 1
  IN [sub |-> WORD_BITS, per |-> LINE_WORDS, hint |-> NARROW_HINT,
      blocks |-> [b \in 0..last |-> counters(b, WORD_BITS, LINE_WORDS)],
      select_samples |->
        [bit \in BOOLEAN |-> select_samples(bit, WORD_BITS, LINE_WORDS, NARROW_HINT, last)],
      ones |-> count_ones, zeros |-> n_bits - count_ones]

\* RS::new of wide.rs: a block per superblock and one for the total, from which
\* the zeros are counted.
wide_new ==
  LET last == (n_lines + SUPERBLOCK_LINES - 1) \div SUPERBLOCK_LINES
      total == Counted(TRUE, n_lines * LINE)
  IN [sub |-> LINE, per |-> SUPERBLOCK_LINES, hint |-> WIDE_HINT,
      blocks |-> [b \in 0..last |-> counters(b, LINE, SUPERBLOCK_LINES)],
      select_samples |->
        [bit \in BOOLEAN |-> select_samples(bit, LINE, SUPERBLOCK_LINES, WIDE_HINT, last)],
      ones |-> total, zeros |-> n_bits - total]

------------------------------------------------------------------------------
(* Queries of a support r.                                                 *)

sub_block_rank(r, sub_block) ==
  LET block == r.blocks[sub_block \div r.per] IN block.rank + block.subs[sub_block % r.per]

\* Occurrences of bit before a block, and before a sub-block.
before_block(r, bit, b) ==
  IF bit THEN r.blocks[b].rank ELSE b * r.per * r.sub - r.blocks[b].rank
before_sub_block(r, bit, s) ==
  IF bit THEN sub_block_rank(r, s) ELSE s * r.sub - sub_block_rank(r, s)

\* rank1_unchecked looks at the last bit it counts, so that a whole sub-block is
\* counted where it is.
rank1(r, i) ==
  LET sub_block == (i - 1) \div r.sub
  IN IF n_bits = 0 \/ i > n_bits THEN None
     ELSE IF i = 0 THEN 0
     ELSE sub_block_rank(r, sub_block)
            + Cardinality({p \in (sub_block * r.sub)..(i - 1) : data[p]})
rank0(r, i) == IF rank1(r, i) = None THEN None ELSE i - rank1(r, i)

\* select1_subblock and select0_subblock: the first block after the sample that
\* more than i are before, then the same for the sub-blocks of the one before it.
select_subblock(r, bit, i) ==
  LET samples == r.select_samples[bit]
      hint == i \div r.hint
      start == samples[hint + 1]
      end == 1 + samples[hint + 2]
      stop == Min({b \in start..end : b = end \/ before_block(r, bit, b) > i})
      first == (stop - 1) * r.per
      over == {j \in 0..(r.per - 1) : before_sub_block(r, bit, first + j) > i}
  IN IF stop = 0 THEN Panic
     ELSE IF over = {} THEN first + r.per - 1
     ELSE IF Min(over) = 0 THEN Panic
     ELSE first + Min(over) - 1

\* The k-th bit of that value in a sub-block, with select_in_word or over the
\* words of a line.
select_inside(sub, s, bit, k) ==
  LET there == {p \in (s * sub)..((s + 1) * sub - 1) : p \in DOMAIN data /\ data[p] = bit}
      at == {p \in there : Cardinality({q \in there : q < p}) = k}
  IN IF at = {} THEN Panic ELSE Min(at)

select_bit(r, bit, i) ==
  LET s == select_subblock(r, bit, i)
  IN IF i >= (IF bit THEN r.ones ELSE r.zeros) THEN None
     ELSE IF s = Panic THEN Panic
     ELSE select_inside(r.sub, s, bit, i - before_sub_block(r, bit, s))

------------------------------------------------------------------------------
(* Properties.                                                             *)

Positions(bit) == {p \in 0..(n_bits - 1) : data[p] = bit}
Position(bit, i) == CHOOSE p \in Positions(bit) : Cardinality({q \in Positions(bit) : q < p}) = i

\* rank1, rank0, select1 and select0 of both supports are what the bits say, for
\* every length: with the last line partly used, on word, line and superblock
\* boundaries, and with samples close together.  An empty vector has no rank.
\* get_bits agrees across a word boundary.
QueriesExact ==
  kind = "fixed" =>
    /\ \A r \in {narrow_new, wide_new} :
         /\ \A i \in 0..(n_bits + 1) :
              LET ones == Cardinality({p \in Positions(TRUE) : p < i})
                  out == n_bits = 0 \/ i > n_bits
              IN /\ rank1(r, i) = IF out THEN None ELSE ones
                 /\ rank0(r, i) = IF out THEN None ELSE i - ones
         /\ \A bit \in BOOLEAN, i \in 0..n_bits :
              select_bit(r, bit, i) =
                IF i < Cardinality(Positions(bit)) THEN Position(bit, i) ELSE None
    /\ \A i \in 0..n_bits, k \in 1..WORD_BITS :
         get_bits(i, k) = IF i + k > n_bits THEN None
           ELSE MapThenSumSet(LAMBDA x : IF data[i + x] THEN 2 ^ x ELSE 0, 0..(k - 1))
==============================================================================
