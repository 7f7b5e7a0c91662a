----------------------------- MODULE ByteLayout ------------------------------
(***************************************************************************)
(* Where the parts of a saved tree lie (bytes/qwtb.rs, bytes/util.rs):     *)
(* header, level directory, and per level a region of data lines, one of   *)
(* superblocks and four of select samples.  Offsets and sizes are in bytes *)
(* and as in the code; how many elements a region has follows from the     *)
(* sizes LINE, BLOCKS and SAMPLES, which are small here.                   *)
(***************************************************************************)
EXTENDS QuadLevel, Sequences

CONSTANTS
  LINE,     \* symbols in a data line (256)
  BLOCKS,   \* blocks in a superblock (8)
  SAMPLES   \* SELECT_NUM_SAMPLES (8192)

ASSUME LayoutAssumption ==
  LINE \in Nat \ {0} /\ BLOCKS \in Nat \ {0} /\ SAMPLES \in Nat \ {0}

HEADER_SIZE == 32
LEVEL_DIR_SIZE == 128
ALIGNMENT == 64
LINE_BYTES == 64
SUPERBLOCK_BYTES == 64
SAMPLE_BYTES == 4

align_up(x, align) == ((x + align - 1) \div align) * align

\* A region of count elements ends inside the buffer.  Mutant: its beginning
\* does.
checked_region_mutant(off, count, elem_size, buf_len) == off <= buf_len
checked_region(off, count, elem_size, buf_len) == off + count * elem_size <= buf_len

\* Elements of the regions of a level of m symbols, in blocks of one line or two.
lines_for(m) == (m + LINE - 1) \div LINE
superblocks_for(m, b512) == m \div (LINE * BLOCKS * (IF b512 THEN 2 ELSE 1)) + 1
samples_for(occurrences) == IF occurrences = 0 THEN 2 ELSE (occurrences - 1) \div SAMPLES + 2

\* The directory entry of a level [len, qv] whose regions begin at cursor, and
\* the cursor after them.
plan_entry(level, cursor, b512) ==
  LET n_datalines == lines_for(level.len)
      n_superblocks == superblocks_for(level.len, b512)
      n_sel == [s \in Quads |-> samples_for(Count(level.qv, s, level.len))]
      off_data == align_up(cursor, ALIGNMENT)
      off_superblocks == align_up(off_data + n_datalines * LINE_BYTES, ALIGNMENT)
      samples == align_up(off_superblocks + n_superblocks * SUPERBLOCK_BYTES, 4)
      before(s) == SAMPLE_BYTES * MapThenSumSet(LAMBDA t : n_sel[t], 0..(s - 1))
  IN [off_data |-> off_data, n_datalines |-> n_datalines,
      position_bits |-> 2 * level.len,
      off_superblocks |-> off_superblocks, n_superblocks |-> n_superblocks,
      off_sel |-> [s \in Quads |-> samples + before(s)], n_sel |-> n_sel,
      end |-> samples + before(4)]

\* The first pass of to_bytes: an entry per level, one after the other.
plan(levels, first, b512) ==
  LET entry[l \in 1..Len(levels)] ==
        plan_entry(levels[l], IF l = 1 THEN first ELSE entry[l - 1].end, b512)
  IN [l \in 1..Len(levels) |-> entry[l]]
size_for(dirs, first) == IF dirs = <<>> THEN first ELSE dirs[Len(dirs)].end

\* An entry that a reader of either kind takes: data and superblocks aligned,
\* every region in the buffer, and a length the data lines can hold.
entry_fits(dir, size) ==
  /\ dir.off_data % ALIGNMENT = 0 /\ dir.off_superblocks % ALIGNMENT = 0
  /\ checked_region(dir.off_data, dir.n_datalines, LINE_BYTES, size)
  /\ checked_region(dir.off_superblocks, dir.n_superblocks, SUPERBLOCK_BYTES, size)
  /\ \A s \in Quads : checked_region(dir.off_sel[s], dir.n_sel[s], SAMPLE_BYTES, size)
  /\ dir.position_bits % 2 = 0
  /\ dir.position_bits <= dir.n_datalines * LINE * 2

\* cast_slice in a buffer that begins at a multiple of 64 bytes, or does not.
castable(dir, base_aligned) ==
  /\ base_aligned \/ dir.n_datalines + dir.n_superblocks = 0
  /\ \A s \in Quads : dir.n_sel[s] = 0 \/ dir.off_sel[s] % SAMPLE_BYTES = 0

\* The regions of an entry, each from its first byte to the one after it.
regions(dir) ==
  LET region(off, count, elem_size) == <<off, off + count * elem_size>> IN
  <<region(dir.off_data, dir.n_datalines, LINE_BYTES),
    region(dir.off_superblocks, dir.n_superblocks, SUPERBLOCK_BYTES)>>
    \o [s \in 1..4 |-> region(dir.off_sel[s - 1], dir.n_sel[s - 1], SAMPLE_BYTES)]

\* No region begins before the one in front of it ends, and the last ends the file.
RegionsInOrder(dirs, first, size) ==
  LET all[l \in 0..Len(dirs)] == IF l = 0 THEN <<<<0, first>>>> ELSE all[l - 1] \o regions(dirs[l])
      rs == all[Len(dirs)]
  IN /\ \A k \in 1..(Len(rs) - 1) : rs[k][2] <= rs[k + 1][1]
     /\ rs[Len(rs)][2] <= size /\ (dirs # <<>> => rs[Len(rs)][2] = size)
==============================================================================
