---------------------------- MODULE RSQuadVector -----------------------------
(***************************************************************************)
(* A quad vector with rank/select support at rest: the data lines of       *)
(* QVector (qvector/mod.rs), the superblocks and select samples of         *)
(* RSSupportPlain (rs_support_plain.rs), the child offsets n_occs_smaller  *)
(* of RSQVector (rs_qvector.rs), and the queries that read them.           *)
(*                                                                         *)
(* A support is a record r with                                            *)
(*   b_size          block size, one data line or two (256 or 512)         *)
(*   len             number of symbols                                     *)
(*   data            position -> symbol, for every position of a data line *)
(*   superblocks     sequence of [counter, block]: occurrences of each     *)
(*                   symbol before the superblock, and from its beginning  *)
(*                   to each of its blocks but the first                   *)
(*   select_samples  symbol -> sequence of superblock ids                  *)
(*   n_occs_smaller  0..4 -> number of symbols smaller than the index      *)
(*                                                                         *)
(* The bit planes and 12-bit fields are abstracted to the symbols and      *)
(* numbers they hold; the split of a line into two words, of a block into  *)
(* lines and of a superblock into blocks is kept.                          *)
(***************************************************************************)
EXTENDS QuadLevel, Sequences

CONSTANTS
  WORD,                  \* symbols in a word of a data line (128)
  BLOCKS_IN_SUPERBLOCK,  \* 8
  SELECT_NUM_SAMPLES,    \* 2^13
  COUNTER_BITS           \* width of a block counter (12)

ASSUME SupportAssumption ==
  /\ WORD \in Nat \ {0}
  /\ BLOCKS_IN_SUPERBLOCK \in Nat \ {0, 1}
  /\ SELECT_NUM_SAMPLES \in Nat \ {0}
  /\ COUNTER_BITS \in Nat

LINE == 2 * WORD                 \* symbols in a data line
BlockSizes == {LINE, 2 * LINE}

superblock_size(b) == BLOCKS_IN_SUPERBLOCK * b

------------------------------------------------------------------------------
(* Data lines (DataLine, rank_intra_block, select_intra_block).            *)

n_lines(n) == (n + LINE - 1) \div LINE

\* QVectorBuilder::push fills lines from the front; the rest of the last line
\* stays zero, which reads as symbol 0.
data_lines(v, n) ==
  [p \in 0..(n_lines(n) * LINE - 1) |-> IF p < n THEN v[p] ELSE 0]

\* normalize(symbol) masked to the first n bits of the word at position p.
Ones(r, s, p, n) == Cardinality({j \in p..(p + n - 1) : r.data[j] = s})

\* DataLine::rank_unchecked at an offset 0..LINE: whole words and a part.
line_rank(r, s, line, i) ==
  LET last_word == i \div WORD
      offset == i % WORD
      mask(w) == IF last_word = w THEN offset ELSE IF last_word > w THEN WORD ELSE 0
  IN Ones(r, s, line * LINE, mask(0)) + Ones(r, s, line * LINE + WORD, mask(1))

\* self.qv.data.get(line): a line past the end counts nothing.
get_line_rank(r, s, line, i) ==
  IF line * LINE \in DOMAIN r.data THEN line_rank(r, s, line, i) ELSE 0

rank_intra_block(r, s, i) ==
  IF r.b_size = LINE
    THEN get_line_rank(r, s, i \div LINE, i % LINE)
    ELSE LET block == i \div (2 * LINE)
             offset == i % (2 * LINE)
         IN IF offset <= LINE
              THEN get_line_rank(r, s, 2 * block, offset)
              ELSE get_line_rank(r, s, 2 * block, LINE)
                     + get_line_rank(r, s, 2 * block + 1, offset - LINE)

\* The words of the block at pos whose line is there, and the one of them, by
\* popcounts, that holds the block's i-th occurrence of s (i >= 1).
block_words(b) == 0..((IF b = LINE THEN 2 ELSE 4) - 1)
word_start(pos, w) == (pos \div LINE) * LINE + w * WORD
words_there(r, pos) == {w \in block_words(r.b_size) : word_start(pos, w) \in DOMAIN r.data}
ones_before(r, s, pos, w) == Ones(r, s, word_start(pos, 0), w * WORD)
word_hit(r, s, i, pos) ==
  {w \in words_there(r, pos) :
     /\ ones_before(r, s, pos, w) < i
     /\ i <= ones_before(r, s, pos, w) + Ones(r, s, word_start(pos, w), WORD)}

\* The occurrence in that word, by select_in_word.
offset_in_block(r, s, i, pos, w) ==
  w * WORD + Min({j \in 0..(WORD - 1) :
    Ones(r, s, word_start(pos, w), j + 1) = i - ones_before(r, s, pos, w)})

\* 0 if the block does not have that many.  get_unchecked on a line that is not
\* there has no defined result.
select_intra_block(r, s, i, pos) ==
  LET hit == word_hit(r, s, i, pos) IN
  IF hit # {} THEN offset_in_block(r, s, i, pos, Min(hit))
  ELSE IF words_there(r, pos) = block_words(r.b_size) THEN 0 ELSE None

------------------------------------------------------------------------------
(* Superblocks and samples (SuperblockPlain, RSSupportPlain).              *)

\* counters[symbol] |= counter << shift, on one field: bitwise or.
or_field(a, b) ==
  LET bit(x, k) == (x \div 2 ^ (k - 1)) % 2
      low[k \in 0..COUNTER_BITS] ==
        IF k = 0 THEN 0
        ELSE low[k - 1] + (IF bit(a, k) + bit(b, k) > 0 THEN 2 ^ (k - 1) ELSE 0)
  IN IF a = 0 THEN b ELSE low[COUNTER_BITS]

\* SuperblockPlain::new.
new_superblock(totals) ==
  [counter |-> totals,
   block |-> [j \in 1..(BLOCKS_IN_SUPERBLOCK - 1) |-> [s \in Quads |-> 0]]]

\* SuperblockPlain::set_block_counters, after its assertions.
set_block_counters(sb, block_id, counters) ==
  IF block_id = 0 THEN sb
  ELSE [sb EXCEPT !.block[block_id] =
          [s \in Quads |-> or_field(@[s], counters[s])]]

\* The assertion in it.
fits(counters) == \A s \in Quads : counters[s] < 2 ^ COUNTER_BITS

get_block_counter(sb, s, block_id) == IF block_id = 0 THEN 0 ELSE sb.block[block_id][s]
get_rank(sb, s, block_id) == sb.counter[s] + get_block_counter(sb, s, block_id)

\* The first block (from 1) whose counter reaches target, less one.  Mutant: the
\* first that exceeds it.
block_predecessor_mutant(sb, s, target) ==
  LET above == {j \in 1..(BLOCKS_IN_SUPERBLOCK - 1) : sb.block[j][s] > target}
      id == IF above = {} THEN BLOCKS_IN_SUPERBLOCK - 1 ELSE Min(above) - 1
  IN <<id, get_block_counter(sb, s, id)>>
block_predecessor(sb, s, target) ==
  LET reach == {j \in 1..(BLOCKS_IN_SUPERBLOCK - 1) : sb.block[j][s] >= target}
      id == IF reach = {} THEN BLOCKS_IN_SUPERBLOCK - 1 ELSE Min(reach) - 1
  IN <<id, get_block_counter(sb, s, id)>>

rank_block(r, s, i) ==
  get_rank(r.superblocks[i \div superblock_size(r.b_size) + 1], s,
           (i \div r.b_size) % BLOCKS_IN_SUPERBLOCK)

\* floor(sqrt(n)), which f64::sqrt gives for every superblock count.
isqrt(n) == CHOOSE k \in 0..n : k * k <= n /\ n < (k + 1) * (k + 1)

\* The sampled superblock before the i-th occurrence of s, i >= 1, and the end of
\* the search, past the next sample.
search_begin(r, s, i) == r.select_samples[s][(i - 1) \div SELECT_NUM_SAMPLES + 1]
search_end(r, s, i) == 1 + r.select_samples[s][(i - 1) \div SELECT_NUM_SAMPLES + 2]

superblock_counter(r, s, k) == r.superblocks[k + 1].counter[s]
stops(r, s, i, k) == k >= search_end(r, s, i) \/ superblock_counter(r, s, k) >= i

\* In strides of about a square root to a superblock whose counter reaches i, and
\* one stride back.
strided(r, s, i) ==
  LET first == search_begin(r, s, i)
      last == search_end(r, s, i)
      step == isqrt(last - first) + 1
      strides == Min({k \in 0..last : stops(r, s, i, first + k * step)})
  IN first + (strides - 1) * step

\* From there in single steps forward, and one back.
superblock_predecessor(r, s, i) ==
  LET back == strided(r, s, i)
  IN Min({k \in back..(back + search_end(r, s, i)) : stops(r, s, i, k)}) - 1

\* (position, rank) of the block with the i-th occurrence of s.  A stride back
\* below zero is an underflow.
select_block(r, s, i) ==
  LET id == superblock_predecessor(r, s, i)
      rank_before == superblock_counter(r, s, id)
      block == block_predecessor(r.superblocks[id + 1], s, i - rank_before)
  IN IF strided(r, s, i) < 0 \/ search_begin(r, s, i) > search_end(r, s, i)
       THEN <<None, None>>
     ELSE <<id * superblock_size(r.b_size) + block[1] * r.b_size, rank_before + block[2]>>

------------------------------------------------------------------------------
(* The queries of RSQVector (RankQuad, SelectQuad, WTSupport).             *)

\* From<QVector>: occurrences of each symbol, shifted and summed up.
n_occs_smaller(v, n) ==
  LET sum[c \in 0..4] == IF c = 0 THEN 0 ELSE sum[c - 1] + Count(v, c - 1, n)
  IN sum

occs(r, s) == r.n_occs_smaller[s + 1] - r.n_occs_smaller[s]
occs_smaller(r, s) == r.n_occs_smaller[s]

rank(r, s, i) ==
  IF s \notin Quads \/ i > r.len THEN None
  ELSE rank_block(r, s, i) + rank_intra_block(r, s, i)

select(r, s, i) ==
  IF s \notin Quads THEN None
  ELSE IF occs(r, s) <= i THEN None
  ELSE LET block == select_block(r, s, i + 1)
           inner == select_intra_block(r, s, i - block[2] + 1, block[1])
       IN IF block[1] = None \/ inner = None THEN None ELSE block[1] + inner

------------------------------------------------------------------------------
(* The support of a sequence, field by field: what both builders promise.  *)

\* Block j of superblock k begins at k * superblock + j * b.  Its counter is
\* exact if it begins in the sequence; the one block after that is the sentinel
\* of select and counts to the end; later ones are zero.
SuperblocksOf(v, n, b) ==
  LET sbs == superblock_size(b)
      from(k) == k * sbs
      upto(k, j) == MinOf(from(k) + j * b, n)
  IN [x \in 1..((n + sbs) \div sbs) |->
       [counter |-> [s \in Quads |-> Count(v, s, from(x - 1))],
        block |-> [j \in 1..(BLOCKS_IN_SUPERBLOCK - 1) |->
          [s \in Quads |->
            IF from(x - 1) + (j - 1) * b <= n
              THEN Count(v, s, upto(x - 1, j)) - Count(v, s, from(x - 1))
              ELSE 0]]]]

\* The superblock of every SELECT_NUM_SAMPLES-th occurrence (0 if there is
\* none) and the last superblock as a sentinel.
SelectSamplesOf(v, n, b, s) ==
  LET sbs == superblock_size(b)
      m == Count(v, s, n)
      samples == (m + SELECT_NUM_SAMPLES - 1) \div SELECT_NUM_SAMPLES
      sampled(k) == CHOOSE p \in Selected(v, n, s, (k - 1) * SELECT_NUM_SAMPLES) : TRUE
  IN (IF m = 0 THEN <<0>> ELSE [k \in 1..samples |-> sampled(k) \div sbs])
       \o <<n \div sbs>>

SupportOf(v, n, b) ==
  [b_size |-> b, len |-> n, data |-> data_lines(v, n),
   superblocks |-> SuperblocksOf(v, n, b),
   select_samples |-> [s \in Quads |-> SelectSamplesOf(v, n, b, s)],
   n_occs_smaller |-> n_occs_smaller(v, n)]
==============================================================================
