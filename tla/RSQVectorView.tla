---------------------------- MODULE RSQVectorView ----------------------------
(***************************************************************************)
(* RSQVectorView (bytes/level.rs): one level of a saved tree, read in      *)
(* place.  from_dir recounts the digits and refuses a level whose tables   *)
(* do not follow from them, because the queries index without bounds       *)
(* checks by what the tables say.                                          *)
(*                                                                         *)
(* A stored level is a record f with                                       *)
(*   aligned         offsets and buffer are 64-byte aligned                *)
(*   in_bounds       every region lies inside the buffer                   *)
(*   position_bits   twice the length, in a level as it was written        *)
(* and data, superblocks, select_samples and n_occs_smaller as in          *)
(* RSQuadVector.  Bytes and offsets are left out.                          *)
(***************************************************************************)
EXTENDS RSQuadVector

\* The level as the queries read it, for block size b.
read_level(f, b) ==
  [b_size |-> b, len |-> f.position_bits \div 2, data |-> f.data,
   superblocks |-> f.superblocks, select_samples |-> f.select_samples,
   n_occs_smaller |-> f.n_occs_smaller]

\* Regions, and a length that the data lines can hold.
regions_fit(f) ==
  /\ f.aligned /\ f.in_bounds
  /\ f.position_bits % 2 = 0
  /\ f.position_bits <= 2 * Cardinality(DOMAIN f.data)

child_offsets_monotone(r) ==
  /\ r.n_occs_smaller[0] = 0 /\ r.n_occs_smaller[4] = r.len
  /\ \A c \in 0..3 : r.n_occs_smaller[c] <= r.n_occs_smaller[c + 1]

superblock_count(r) ==
  Len(r.superblocks) = (r.len + superblock_size(r.b_size)) \div superblock_size(r.b_size)

\* The digits before p recounted line by line, and since p's superblock began.
totals(r, s, p) ==
  MapThenSumSet(LAMBDA l : line_rank(r, s, l, LINE), 0..(p \div LINE - 1))
    + get_line_rank(r, s, p \div LINE, p % LINE)
base(r, p) == (p \div superblock_size(r.b_size)) * superblock_size(r.b_size)
since_base(r, s, p) == totals(r, s, p) - totals(r, s, base(r, p))

\* The loop over block_start: the counters of every superblock and block that
\* begins in the level or right at its end.
superblock_ranks_exact(r) ==
  \A k \in 1..Len(r.superblocks), s \in Quads :
    r.superblocks[k].counter[s] = totals(r, s, (k - 1) * superblock_size(r.b_size))
block_ranks_exact(r) ==
  \A b \in 0..(r.len \div r.b_size), s \in Quads :
    get_block_counter(r.superblocks[b \div BLOCKS_IN_SUPERBLOCK + 1], s,
                      b % BLOCKS_IN_SUPERBLOCK) = since_base(r, s, b * r.b_size)

\* The counter after the last of them, at which block_predecessor stops.  Mutant:
\* not looked at.
sentinel_exact_mutant(r) == TRUE
sentinel_exact(r) ==
  LET sentinel_block == ((r.len \div r.b_size) % BLOCKS_IN_SUPERBLOCK) + 1
      current == r.superblocks[r.len \div superblock_size(r.b_size) + 1]
  IN sentinel_block < BLOCKS_IN_SUPERBLOCK =>
       \A s \in Quads :
         get_block_counter(current, s, sentinel_block) = since_base(r, s, r.len)

child_offsets_exact(r) == \A s \in Quads : occs(r, s) = totals(r, s, r.len)

\* Mutant: one more sample when the occurrences fill the last one.
expected_samples_mutant(occurrences) ==
  IF occurrences = 0 THEN 2 ELSE occurrences \div SELECT_NUM_SAMPLES + 2
expected_samples(occurrences) ==
  IF occurrences = 0 THEN 2 ELSE (occurrences - 1) \div SELECT_NUM_SAMPLES + 2

\* Sample k is the superblock of occurrence k * SELECT_NUM_SAMPLES.
sample_exact(r, s, k) ==
  LET target == (k - 1) * SELECT_NUM_SAMPLES
      sb == r.select_samples[s][k] + 1
  IN /\ r.superblocks[sb].counter[s] <= target
     /\ sb < Len(r.superblocks) => r.superblocks[sb + 1].counter[s] > target
samples_exact(r) ==
  \A s \in Quads :
    LET samples == r.select_samples[s]
        last_sb == Len(r.superblocks) - 1
    IN /\ Len(samples) = expected_samples(occs(r, s))
       /\ samples[Len(samples)] = last_sb
       /\ \A k \in 1..(Len(samples) - 1) : samples[k] <= samples[k + 1]
       /\ \A k \in 1..Len(samples) : samples[k] <= last_sb
       /\ occs(r, s) > 0 => \A k \in 1..(Len(samples) - 1) : sample_exact(r, s, k)

\* The last loop: counters grow, by no more than a superblock holds.
counters_in_bounds(r) ==
  \A s \in Quads, k \in 1..Len(r.superblocks) :
    LET prefix(x) == IF x = 0 THEN 0 ELSE r.superblocks[x].counter[s]
        sbs == superblock_size(r.b_size)
        left == IF r.len > (k - 1) * sbs THEN r.len - (k - 1) * sbs ELSE 0
        symbols == MinOf(left, sbs)
        valid == IF symbols = sbs THEN BLOCKS_IN_SUPERBLOCK
                 ELSE MinOf(symbols \div r.b_size + 1, BLOCKS_IN_SUPERBLOCK)
        block(j) == get_block_counter(r.superblocks[k], s, j)
    IN /\ prefix(k - 1) <= prefix(k) /\ prefix(k) <= r.len
       /\ k > 1 => prefix(k) - prefix(k - 1) <= sbs
       /\ \A j \in 0..(valid - 1) : block(j) <= symbols /\ (j > 0 => block(j - 1) <= block(j))

from_dir(f, b) ==
  /\ regions_fit(f)
  /\ LET r == read_level(f, b) IN
     /\ child_offsets_monotone(r)
     /\ superblock_count(r)
     /\ superblock_ranks_exact(r)
     /\ block_ranks_exact(r)
     /\ sentinel_exact(r)
     /\ child_offsets_exact(r)
     /\ samples_exact(r)
     /\ counters_in_bounds(r)

------------------------------------------------------------------------------
(* The queries of an open view.  They differ from those of RSQVector in    *)
(* what they do when a table leads nowhere: None, or a count of nothing.   *)

view_get(r, i) == IF i >= r.len THEN None ELSE r.data[i]

view_rank_block(r, s, i) ==
  IF i \div superblock_size(r.b_size) >= Len(r.superblocks) THEN 0
  ELSE rank_block(r, s, i)

view_rank(r, s, i) ==
  IF s \notin Quads \/ i > r.len THEN None
  ELSE view_rank_block(r, s, i) + rank_intra_block(r, s, i)

\* rank_all_unchecked and rank_intra_block_all: the same counts for all symbols.
view_rank_all(r, i) ==
  [s \in Quads |-> view_rank_block(r, s, i) + rank_intra_block(r, s, i)]

\* As select_block, but a stride or a step back stops at zero and an index that
\* is not there gives None.
there(r, k) == k + 1 \in DOMAIN r.superblocks
view_stops(r, s, i, k) == ~there(r, k) \/ stops(r, s, i, k)

\* Where the strides stop, and one stride back.
view_stride(r, s, i) ==
  LET first == search_begin(r, s, i)
      last == search_end(r, s, i)
      step == isqrt(last - first) + 1
  IN first + step * Min({k \in 0..last : view_stops(r, s, i, first + k * step)})
view_strided(r, s, i) ==
  LET step == isqrt(search_end(r, s, i) - search_begin(r, s, i)) + 1
  IN IF view_stride(r, s, i) > step THEN view_stride(r, s, i) - step ELSE 0

\* Where the single steps stop.
view_ahead(r, s, i) ==
  LET back == view_strided(r, s, i)
  IN Min({k \in back..(back + search_end(r, s, i)) : view_stops(r, s, i, k)})

view_select_block(r, s, i) ==
  LET ahead == view_ahead(r, s, i)
      id == IF ahead > 0 THEN ahead - 1 ELSE 0
      leads_out(k) == k < search_end(r, s, i) /\ ~there(r, k)
      block == block_predecessor(r.superblocks[id + 1], s, i - superblock_counter(r, s, id))
  IN IF \/ (i - 1) \div SELECT_NUM_SAMPLES + 2 > Len(r.select_samples[s])
        \/ leads_out(view_stride(r, s, i)) \/ leads_out(ahead)
        \/ ~there(r, id) \/ superblock_counter(r, s, id) > i
       THEN <<None, None>>
     ELSE <<id * superblock_size(r.b_size) + block[1] * r.b_size,
            superblock_counter(r, s, id) + block[2]>>

view_select_intra_block(r, s, i, pos) ==
  LET hit == word_hit(r, s, i, pos)
  IN IF hit = {} THEN None ELSE offset_in_block(r, s, i, pos, Min(hit))

\* A position that is not in the level is None.
inside(r, pos) == IF pos < r.len THEN pos ELSE None

view_select(r, s, i) ==
  IF s \notin Quads THEN None
  ELSE IF occs(r, s) <= i THEN None
  ELSE LET block == view_select_block(r, s, i + 1)
           inner == view_select_intra_block(r, s, i - block[2] + 1, block[1])
       IN IF block[1] = None \/ i < block[2] \/ inner = None THEN None
          ELSE inside(r, block[1] + inner)

\* select_after: from an occurrence to the advance-th after it, line by line with
\* the digits up to the current one masked out of its line.  Mutant: not masked.
line_matches_mutant(r, s, l, next) ==
  {p \in (l * LINE)..((l + 1) * LINE - 1) : r.data[p] = s}
line_matches(r, s, l, next) ==
  {p \in (l * LINE)..((l + 1) * LINE - 1) : p >= next /\ r.data[p] = s}
matches_passed(r, s, next) ==
  LET first == next \div LINE
      passed[l \in (first - 1)..(r.len \div LINE + 1)] ==
        IF l < first THEN 0 ELSE passed[l - 1] + Cardinality(line_matches(r, s, l, next))
  IN passed
lines_reaching(r, s, next, advance) ==
  {l \in (next \div LINE)..(r.len \div LINE) :
     l * LINE < r.len /\ matches_passed(r, s, next)[l] >= advance}
selected_after(r, s, next, advance) ==
  LET line == Min(lines_reaching(r, s, next, advance))
      matches == line_matches(r, s, line, next)
      ahead(p) == Cardinality({q \in matches : q <= p})
  IN CHOOSE p \in matches : ahead(p) = advance - matches_passed(r, s, next)[line - 1]
select_after(r, s, position, advance) ==
  LET next == position + 1
  IN IF s \notin Quads \/ position >= r.len \/ advance = 0 THEN None
     ELSE IF next >= r.len \/ lines_reaching(r, s, next, advance) = {} THEN None
     ELSE inside(r, selected_after(r, s, next, advance))
==============================================================================
