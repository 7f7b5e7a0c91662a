------------------------------- MODULE DArray --------------------------------
(***************************************************************************)
(* DArray (darray/mod.rs): select on a bit vector by inventories of the    *)
(* positions of its ones (or zeros).  Every BLOCK_SIZE positions are a     *)
(* block.  A dense block keeps its first position and the 16-bit distance  *)
(* of every SUBBLOCK_SIZE-th; a sparse one keeps all of its positions in   *)
(* overflow_positions and a negative pointer to them.                      *)
(*                                                                         *)
(* Inventories::new drives BitVectorBitPositionsIter (bitvector/mod.rs):   *)
(* one action loads a word, one takes the next position from it and        *)
(* flushes a full block.  The vector is one that BitVector's operations   *)
(* have made.                                                              *)
(***************************************************************************)
EXTENDS RSBin

CONSTANTS
  BLOCK_SIZE,             \* 1024
  SUBBLOCK_SIZE,          \* 32
  MAX_IN_BLOCK_DISTANCE   \* 2^16; one more than u16::MAX

ASSUME DArrayAssumption ==
  /\ {BLOCK_SIZE, SUBBLOCK_SIZE, MAX_IN_BLOCK_DISTANCE} \subseteq Nat \ {0}
  /\ BLOCK_SIZE % SUBBLOCK_SIZE = 0

VARIABLES
  bit,                   \* the const generic BIT
  pc,                    \* "none", "scan" or "done"
  cur_word_pos,          \* next word the iterator will load
  cur_word,              \* positions left in the word it is in
  curr_block_positions,
  n_sets,
  block_inventory,
  subblock_inventory,
  overflow_positions

vars == <<bit, pc, cur_word_pos, cur_word, curr_block_positions,
          n_sets, block_inventory, subblock_inventory, overflow_positions>>
inventories == <<block_inventory, subblock_inventory, overflow_positions>>

Init ==
  /\ InitBits
  /\ bit = TRUE
  /\ pc = "none"
  /\ cur_word_pos = 0
  /\ cur_word = {}
  /\ curr_block_positions = <<>>
  /\ n_sets = 0
  /\ block_inventory = <<>>
  /\ subblock_inventory = <<>>
  /\ overflow_positions = <<>>

\* DArray::new of a BitVector, which it keeps; zeros are indexed on request.
New ==
  /\ pc = "none" /\ kind = "fixed"
  /\ kind' = "moved"
  /\ bit' \in BOOLEAN
  /\ pc' = "scan"
  /\ UNCHANGED <<cur_word_pos, cur_word, curr_block_positions, n_sets, inventories>>
  /\ UNCHANGED <<data, n_bits, count_ones>>

\* The positions of a word, negated when zeros are looked for.
word(w) == {p \in (w * WORD_BITS)..((w + 1) * WORD_BITS - 1) : data[p] = bit}

\* A block that spans fewer than MAX_IN_BLOCK_DISTANCE bits is dense.  Mutant: one more.
dense_mutant(ps) == ps[Len(ps)] - ps[1] <= MAX_IN_BLOCK_DISTANCE
dense(ps) == ps[Len(ps)] - ps[1] < MAX_IN_BLOCK_DISTANCE

\* The distances of every SUBBLOCK_SIZE-th position, as u16.
distances(ps) ==
  [k \in 1..((Len(ps) + SUBBLOCK_SIZE - 1) \div SUBBLOCK_SIZE) |->
     (ps[(k - 1) * SUBBLOCK_SIZE + 1] - ps[1]) % MAX_IN_BLOCK_DISTANCE]

flush_block(ps) ==
  IF ps = <<>> THEN UNCHANGED inventories
  ELSE IF dense(ps)
    THEN /\ block_inventory' = Append(block_inventory, ps[1])
         /\ subblock_inventory' = subblock_inventory \o distances(ps)
         /\ UNCHANGED overflow_positions
    ELSE /\ block_inventory' = Append(block_inventory, -Len(overflow_positions) - 1)
         /\ overflow_positions' = overflow_positions \o ps
         /\ subblock_inventory' = subblock_inventory
              \o [k \in 1..Len(ps) |-> MAX_IN_BLOCK_DISTANCE - 1]

\* The iterator has used up its word and loads another.
LoadWord ==
  /\ pc = "scan" /\ cur_word = {} /\ cur_word_pos < n_words
  /\ cur_word' = word(cur_word_pos)
  /\ cur_word_pos' = cur_word_pos + 1
  /\ UNCHANGED <<bitVars, bit, pc, curr_block_positions, n_sets, inventories>>

\* The iterator yields the next position.  Mutant of the test that it is in the
\* vector: left out.
in_vector_mutant(p) == TRUE
in_vector(p) == p < n_bits

\* A block is flushed when it is full.
full(ps) == Len(ps) = BLOCK_SIZE

TakePosition ==
  /\ pc = "scan" /\ cur_word # {} /\ in_vector(Min(cur_word))
  /\ LET ps == Append(curr_block_positions, Min(cur_word)) IN
     IF full(ps) THEN flush_block(ps) /\ curr_block_positions' = <<>>
                 ELSE curr_block_positions' = ps /\ UNCHANGED inventories
  /\ n_sets' = n_sets + 1
  /\ cur_word' = cur_word \ {Min(cur_word)}
  /\ UNCHANGED <<bitVars, bit, pc, cur_word_pos>>

\* The iterator is at its end; the last block is flushed.
Finish ==
  /\ pc = "scan"
  /\ \/ cur_word = {} /\ cur_word_pos = n_words
     \/ cur_word # {} /\ ~in_vector(Min(cur_word))
  /\ flush_block(curr_block_positions)
  /\ pc' = "done"
  /\ UNCHANGED <<bitVars, bit, cur_word_pos, cur_word, curr_block_positions, n_sets>>

Next ==
  \/ NextBits /\ UNCHANGED vars
  \/ New
  \/ LoadWord
  \/ TakePosition
  \/ Finish

Spec == Init /\ [][Next]_<<vars, bitVars>>

------------------------------------------------------------------------------
(* select0 and select1.                                                    *)

at(seq, k) == IF k < Len(seq) THEN seq[k + 1] ELSE Panic

\* The r-th position (from 0) from start on, word by word.
scan_select_words(start, r) ==
  LET found == {p \in start..(n_words * WORD_BITS - 1) :
                  /\ data[p] = bit
                  /\ Cardinality({q \in start..(p - 1) : data[q] = bit}) = r}
  IN IF found = {} THEN Panic ELSE Min(found)

subblock(i) == i \div SUBBLOCK_SIZE

select(i) ==
  LET block_pos == block_inventory[(i \div BLOCK_SIZE) + 1]
      start_pos == block_pos + at(subblock_inventory, subblock(i))
      reminder == i % SUBBLOCK_SIZE
  IN IF i >= n_sets THEN None
     ELSE IF block_pos < 0 THEN at(overflow_positions, (i % BLOCK_SIZE) - block_pos - 1)
     ELSE IF at(subblock_inventory, subblock(i)) = Panic THEN Panic
     ELSE IF reminder = 0 THEN start_pos
     ELSE scan_select_words(start_pos, reminder)

------------------------------------------------------------------------------
(* Properties.                                                             *)

\* The iterator feeds every position once and in order, and every block entry
\* leads to its block: the first position if dense, and if sparse the place of
\* all of them in overflow_positions, however dense and sparse blocks alternate.
BlocksExact ==
  pc = "done" =>
    /\ n_sets = Cardinality(Positions(bit))
    /\ Len(block_inventory) = (n_sets + BLOCK_SIZE - 1) \div BLOCK_SIZE
    /\ \A b \in 0..(Len(block_inventory) - 1) :
         LET entry == block_inventory[b + 1] IN
         IF entry >= 0 THEN entry = Position(bit, b * BLOCK_SIZE)
         ELSE \A k \in 0..(BLOCK_SIZE - 1) : b * BLOCK_SIZE + k < n_sets =>
                at(overflow_positions, -entry - 1 + k) = Position(bit, b * BLOCK_SIZE + k)

SelectIsExact(i) == select(i) = IF i < n_sets THEN Position(bit, i) ELSE None

\* No dense block comes after a sparse one.
Unmixed ==
  \A b, c \in 1..Len(block_inventory) :
    b < c /\ block_inventory[b] < 0 => block_inventory[c] < 0

\* On a vector whose sparse blocks, if any, all come last, select is exact.
SelectExactUnmixed == pc = "done" /\ Unmixed => \A i \in 0..n_bits : SelectIsExact(i)

\* "The query select1(i) returns the position of the (i+1)-th occurrence of 1 in
\* the binary vector" (and select0 of 0), on every vector.
SelectExact == pc = "done" => \A i \in 0..n_bits : SelectIsExact(i)
==============================================================================
