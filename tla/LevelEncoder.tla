---------------------------- MODULE LevelEncoder -----------------------------
(***************************************************************************)
(* LevelEncoder (bytes/direct.rs): the streaming counterpart of            *)
(* RSSupportPlain::new.  The direct builders feed the two-bit digits of a  *)
(* level in blocks of any length (push_block); each block is cut into      *)
(* pieces that do not cross a PIECE_ROWS boundary (push_piece), and the    *)
(* rank support is written to files as superblocks fill up, so only one    *)
(* superblock and one data line are in memory.  One action per piece, and  *)
(* finish.  Always B_SIZE = one data line.                                 *)
(*                                                                         *)
(* BufWriter is transparent here; I/O failures are in DirectBuild.         *)
(***************************************************************************)
EXTENDS RSQuadVector

CONSTANTS
  PIECE_ROWS,  \* 64
  WRAP,        \* 2^64, the modulus of wrapping_sub; any number above the row
               \* counts and SELECT_NUM_SAMPLES does
  Symbols,     \* digits that occur in the level
  MaxRows      \* bound: most rows of a level

BLOCK_ROWS == LINE
SUPERBLOCK_ROWS == superblock_size(BLOCK_ROWS)

\* A piece lies in one word of one data line, and a symbol crosses at most one
\* sample threshold in it.
ASSUME EncoderAssumption ==
  /\ PIECE_ROWS \in Nat \ {0}
  /\ WORD % PIECE_ROWS = 0
  /\ PIECE_ROWS <= SELECT_NUM_SAMPLES
  /\ Symbols \subseteq Quads
  /\ MaxRows \in Nat \ {0}
  /\ SUPERBLOCK_ROWS <= 2 ^ COUNTER_BITS
  /\ WRAP \in Nat /\ MaxRows < WRAP /\ SELECT_NUM_SAMPLES < WRAP

VARIABLES
  digits,            \* the level's digits in order, a function on 0..rows-1
  rows,
  pc,                \* "push", "done" or "error"
  row,               \* rows pushed so far
  rest,              \* digits of the current block not yet pushed
  words,             \* digits of the data line being filled
  data,              \* data file: sequence of lines, each a sequence of digits
  global,            \* [Quads -> occurrences so far]
  block,             \* [Quads -> occurrences in the superblock so far]
  superblock_words,  \* the superblock being filled
  superblocks,       \* superblock file
  n_superblocks,
  select_files       \* [Quads -> select file]

vars == <<digits, rows, pc, row, rest, words, data, global, block,
          superblock_words, superblocks, n_superblocks, select_files>>

Zero == [s \in Quads |-> 0]

\* LevelEncoder::new.  A level has at least one row: no level is encoded for
\* an empty input.
Init ==
  /\ rows \in 1..MaxRows
  /\ digits \in [0..(rows - 1) -> Symbols]
  /\ pc = "push"
  /\ row = 0
  /\ rest = 0
  /\ words = <<>>
  /\ data = <<>>
  /\ global = Zero
  /\ block = Zero
  /\ superblock_words = new_superblock(Zero)
  /\ superblocks = <<>>
  /\ n_superblocks = 1
  /\ select_files = [s \in Quads |-> <<>>]

\* flush_line: the words of an unfinished line are zero.
flush_line(line) == Append(data, line \o [k \in 1..(LINE - Len(line)) |-> 0])

\* The superblock after LevelEncoder::set_block_counters, which rejects a
\* counter that does not fit (and returns early for block 0).
rejects(block_id, counters) == block_id # 0 /\ ~fits(counters)

\* A block is as long as its staging buffers or the rows of the source that are
\* left, so it may have any length and start anywhere.
block_lens == 1..(rows - row)

\* push_block is called with the next n digits.
PushBlock ==
  /\ pc = "push"
  /\ rest = 0
  /\ \E n \in block_lens : rest' = n
  /\ UNCHANGED <<digits, rows, pc, row, words, data, global, block,
                 superblock_words, superblocks, n_superblocks, select_files>>

\* The length of the next piece.
piece_len == MinOf(rest, PIECE_ROWS - (row % PIECE_ROWS))

\* The select threshold test on the occurrences before and after a piece.
\* Mutants: without the wrap, the first occurrence is not sampled; every piece
\* is sampled.
crosses_mutant(first, count) ==
  (first + count - 1) \div SELECT_NUM_SAMPLES
    # (IF first = 0 THEN 0 ELSE first - 1) \div SELECT_NUM_SAMPLES
crosses_always_mutant(first, count) == TRUE
crosses(first, count) ==
  (first + count - 1) \div SELECT_NUM_SAMPLES
    # ((first - 1) % WRAP) \div SELECT_NUM_SAMPLES

\* The counters of the superblock, zero where a new one begins.  Mutant: they
\* run on.
counters_from_mutant(boundary) == block
counters_from(boundary) == IF boundary THEN Zero ELSE block

PushPiece ==
  /\ pc = "push"
  /\ rest > 0
  /\ LET boundary == row > 0 /\ row % SUPERBLOCK_ROWS = 0
         sb == IF boundary THEN new_superblock(global) ELSE superblock_words
         counters == counters_from(boundary)
         starts == row % BLOCK_ROWS = 0
         block_id == (row \div BLOCK_ROWS) % BLOCKS_IN_SUPERBLOCK
         n == piece_len
         count == [s \in Quads |->
                     Cardinality({k \in row..(row + n - 1) : digits[k] = s})]
         line == words \o [k \in 1..n |-> digits[row + k - 1]]
     IN /\ superblocks' = IF boundary THEN Append(superblocks, superblock_words)
                                      ELSE superblocks
        /\ n_superblocks' = IF boundary THEN n_superblocks + 1 ELSE n_superblocks
        /\ IF starts /\ rejects(block_id, counters)
             THEN /\ pc' = "error"
                  /\ UNCHANGED <<row, rest, words, data, global, block,
                                 superblock_words, select_files>>
             ELSE /\ superblock_words' =
                       IF starts THEN set_block_counters(sb, block_id, counters) ELSE sb
                  /\ select_files' =
                       [s \in Quads |->
                         IF count[s] > 0 /\ crosses(global[s], count[s])
                           THEN Append(select_files[s], row \div SUPERBLOCK_ROWS)
                           ELSE select_files[s]]
                  /\ global' = [s \in Quads |-> global[s] + count[s]]
                  /\ block' = [s \in Quads |-> counters[s] + count[s]]
                  /\ IF Len(line) = BLOCK_ROWS
                       THEN words' = <<>> /\ data' = flush_line(line)
                       ELSE words' = line /\ data' = data
                  /\ row' = row + n
                  /\ rest' = rest - n
                  /\ UNCHANGED pc
  /\ UNCHANGED <<digits, rows>>

\* Whether finish opens a terminal superblock.
terminal_superblock == rows % SUPERBLOCK_ROWS = 0

\* The sentinel of each select file, after a first sample if there is none.
sentinel(last) == last

Finish ==
  /\ pc = "push"
  /\ row = rows
  /\ LET opened == terminal_superblock
         counters == IF opened THEN Zero ELSE block
         fresh == IF opened THEN new_superblock(global) ELSE superblock_words
         here == (rows \div BLOCK_ROWS) % BLOCKS_IN_SUPERBLOCK
         starts == ~opened /\ rows % BLOCK_ROWS = 0
         sb == IF starts THEN set_block_counters(fresh, here, counters) ELSE fresh
         next_block == here + 1
         total == IF opened THEN n_superblocks + 1 ELSE n_superblocks
     IN /\ data' = IF words # <<>> THEN flush_line(words) ELSE data
        /\ words' = <<>>
        /\ n_superblocks' = total
        /\ block' = counters
        /\ IF \/ starts /\ rejects(here, counters)
              \/ next_block < BLOCKS_IN_SUPERBLOCK /\ rejects(next_block, counters)
             THEN pc' = "error" /\ UNCHANGED <<superblock_words, superblocks, select_files>>
             ELSE /\ superblock_words' =
                       IF next_block < BLOCKS_IN_SUPERBLOCK
                         THEN set_block_counters(sb, next_block, counters) ELSE sb
                  /\ superblocks' =
                       (IF opened THEN Append(superblocks, superblock_words)
                                  ELSE superblocks) \o <<superblock_words'>>
                  /\ select_files' = [s \in Quads |->
                       (IF select_files[s] = <<>> THEN <<0>> ELSE select_files[s])
                         \o <<sentinel(total - 1)>>]
                  /\ pc' = "done"
  /\ UNCHANGED <<digits, rows, row, rest, global>>

Next == PushBlock \/ PushPiece \/ Finish

Spec == Init /\ [][Next]_vars

\* LevelSummary.n_occs_smaller.
cumulative == [c \in 0..4 |-> MapThenSumSet(LAMBDA s : global[s], 0..(c - 1))]

\* What a reader finds in the level files.
level ==
  [b_size |-> BLOCK_ROWS, len |-> rows,
   data |-> [p \in 0..(Len(data) * LINE - 1) |-> data[(p \div LINE) + 1][(p % LINE) + 1]],
   superblocks |-> superblocks, select_samples |-> select_files,
   n_occs_smaller |-> cumulative]

\* aux_bytes of LevelSummary: a line and a superblock take 64 bytes, a sample 4.
\* aux_upper_bound is scratch_upper_bound's
\* share for these files.
aux_bytes ==
  LET entries == [s \in Quads |-> Len(select_files[s])]
  IN 64 * Len(data) + 64 * Len(superblocks)
       + 4 * MapThenSumSet(LAMBDA s : entries[s], Quads)
aux_upper_bound ==
  64 * ((rows + LINE - 1) \div LINE)
    + 64 * ((rows + SUPERBLOCK_ROWS) \div SUPERBLOCK_ROWS)
    + 4 * ((rows + SELECT_NUM_SAMPLES - 1) \div SELECT_NUM_SAMPLES + 8)

------------------------------------------------------------------------------
\* "rank-support block counter is out of range" is never reported.
NoCounterError == pc # "error"

\* The level files hold, bit for bit, the support RSSupportPlain::new builds
\* for the same digits, however the digits were cut into blocks; until then the
\* line being filled and the row counter stay in step ("line_rows == row %
\* DIRECT_BLOCK_ROWS", debug_assert_eq in push_piece).
FilesMatchSupport ==
  /\ pc = "push" => Len(words) = row % BLOCK_ROWS
  /\ pc = "done" => level = SupportOf(digits, rows, BLOCK_ROWS)

\* The level files are never larger than the share that scratch_upper_bound
\* set aside for them before the build began.
AuxWithinBound == pc = "done" => aux_bytes <= aux_upper_bound
==============================================================================
