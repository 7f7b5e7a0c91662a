--------------------------- MODULE RSSupportPlain ----------------------------
(***************************************************************************)
(* RSSupportPlain::new (rs_support_plain.rs) and RSQVector::from           *)
(* (rs_qvector.rs): one pass over a quad vector that fills superblocks,    *)
(* block counters and select samples, one action per iteration of the      *)
(* loop, and the sentinels at the end.  An assertion that fails leads to   *)
(* "panic".                                                                *)
(***************************************************************************)
EXTENDS RSQuadVector

CONSTANTS
  Symbols,  \* symbols that occur in the sequence
  MaxLen    \* bound: longest sequence

\* A superblock of the larger block size fits a block counter: 8 * 512 = 2^12.
ASSUME InputAssumption ==
  /\ Symbols \subseteq Quads
  /\ MaxLen \in Nat
  /\ BLOCKS_IN_SUPERBLOCK * 2 * LINE <= 2 ^ COUNTER_BITS

VARIABLES
  qv,                   \* the sequence, a function on 0..len-1
  len,
  b_size,               \* the const generic B_SIZE
  pc,                   \* "scan", "sentinel", "done" or "panic"
  i,                    \* the loop variable
  superblock_counters,  \* [Quads -> Nat] from the beginning; also `occs`
  block_counters,       \* [Quads -> Nat] from the beginning of the superblock
  superblocks,
  select_samples

vars == <<qv, len, b_size, pc, i, superblock_counters, block_counters,
          superblocks, select_samples>>

Zero == [s \in Quads |-> 0]

Init ==
  /\ len \in 0..MaxLen
  /\ qv \in [0..(len - 1) -> Symbols]
  /\ b_size \in BlockSizes
  /\ pc = "scan"
  /\ i = 0
  /\ superblock_counters = Zero
  /\ block_counters = Zero
  /\ superblocks = <<>>
  /\ select_samples = [s \in Quads |-> <<>>]

\* Block counters at a position: reset where a superblock begins.
reset_at(p) == p % superblock_size(b_size) = 0

\* The superblocks after the push and set_block_counters of position i.
start_block(counters) ==
  LET sbs == IF i % superblock_size(b_size) = 0
               THEN Append(superblocks, new_superblock(superblock_counters))
               ELSE superblocks
      block_id == (i \div b_size) % BLOCKS_IN_SUPERBLOCK
  IN IF i % b_size = 0
       THEN [sbs EXCEPT ![Len(sbs)] = set_block_counters(@, block_id, counters)]
       ELSE sbs

\* occs[symbol] % SELECT_NUM_SAMPLES == 0.
sampled(n) == n % SELECT_NUM_SAMPLES = 0

\* One iteration of `for i in 0..qv.len() + 1`.
Scan ==
  /\ pc = "scan"
  /\ LET counters == IF reset_at(i) THEN Zero ELSE block_counters
     IN IF i % b_size = 0 /\ ~fits(counters)
          THEN /\ pc' = "panic"
               /\ UNCHANGED <<i, superblock_counters, block_counters, superblocks,
                              select_samples>>
          ELSE /\ superblocks' = start_block(counters)
               /\ IF i = len
                    THEN /\ pc' = "sentinel"
                         /\ block_counters' = counters
                         /\ UNCHANGED <<i, superblock_counters, select_samples>>
                    ELSE LET s == qv[i] IN
                         /\ select_samples' =
                              IF sampled(superblock_counters[s])
                                THEN [select_samples EXCEPT ![s] =
                                        Append(@, i \div superblock_size(b_size))]
                                ELSE select_samples
                         /\ superblock_counters' = [superblock_counters EXCEPT ![s] = @ + 1]
                         /\ block_counters' = [counters EXCEPT ![s] = @ + 1]
                         /\ i' = i + 1
                         /\ UNCHANGED pc
  /\ UNCHANGED <<qv, len, b_size>>

\* The block after the one that holds the last symbol.  Mutant: that block.
next_block_id_mutant == (len \div b_size) % BLOCKS_IN_SUPERBLOCK
next_block_id == ((len \div b_size) % BLOCKS_IN_SUPERBLOCK) + 1

\* The sentinel of every select table.
last_superblock == Len(superblocks) - 1

\* What follows the loop.
Sentinel ==
  /\ pc = "sentinel"
  /\ IF next_block_id < BLOCKS_IN_SUPERBLOCK /\ ~fits(block_counters)
       THEN pc' = "panic" /\ UNCHANGED <<superblocks, select_samples>>
       ELSE /\ superblocks' =
                 IF next_block_id < BLOCKS_IN_SUPERBLOCK
                   THEN [superblocks EXCEPT ![Len(superblocks)] =
                           set_block_counters(@, next_block_id, block_counters)]
                   ELSE superblocks
            /\ select_samples' =
                 [s \in Quads |->
                   (IF select_samples[s] = <<>> THEN <<0>> ELSE select_samples[s])
                     \o <<last_superblock>>]
            /\ pc' = "done"
  /\ UNCHANGED <<qv, len, b_size, i, superblock_counters, block_counters>>

Next == Scan \/ Sentinel

Spec == Init /\ [][Next]_vars

\* The finished support, with the child offsets RSQVector::from adds.
support ==
  [b_size |-> b_size, len |-> len, data |-> data_lines(qv, len),
   superblocks |-> superblocks, select_samples |-> select_samples,
   n_occs_smaller |-> n_occs_smaller(qv, len)]

------------------------------------------------------------------------------
\* No assertion fails ("assert!(counter < (1 << 12))": eight full blocks are
\* exactly 2^12), and the finished tables are the ones the sequence determines,
\* sentinels included.  (LevelEncoder promises the same tables.)
TablesExact ==
  /\ pc # "panic"
  /\ pc = "done" => support = SupportOf(qv, len, b_size)

\* rank(symbol, i) counts the occurrences of symbol before i and select(symbol, k)
\* is the position of the (k+1)-th, None if there is none: at block, superblock
\* and line boundaries as elsewhere, whatever samples, strides and the sentinel
\* block are met on the way.
QueriesExact ==
  pc = "done" =>
    \A s \in Quads :
      /\ \A p \in 0..len : rank(support, s, p) = Count(qv, s, p)
      /\ rank(support, s, len + 1) = None
      /\ occs(support, s) = Count(qv, s, len)
      /\ \A k \in 0..len : select(support, s, k) = SelectIn(qv, len, s, k)
==============================================================================
