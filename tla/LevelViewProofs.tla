--------------------------- MODULE LevelViewProofs ---------------------------
(***************************************************************************)
(* Proofs about a level from its construction to a zero-copy view, for     *)
(* sequences of any length and for any sizes of words, superblocks,        *)
(* samples and counters that the assumptions allow: RSSupportPlain::new    *)
(* builds exact tables, the checks of RSQVectorView::from_dir accept what  *)
(* it builds, and whatever they accept answers as its digits determine.    *)
(***************************************************************************)
EXTENDS LevelView, RSQuadVectorProofs, SequenceTheorems

------------------------------------------------------------------------------
(* The tables that RSSupportPlain::new builds.                             *)

\* The inductive invariant of the scan: the variables have their types and no
\* assertion has failed, the counters are exact, and superblocks and samples are
\* those of the positions visited so far.
TypeInv ==
  /\ len \in 0..MaxLen
  /\ qv \in [0..(len - 1) -> Quads]
  /\ b_size \in BlockSizes
  /\ pc \in {"scan", "sentinel", "done"}
  /\ i \in 0..len
  /\ DOMAIN select_samples = Quads
  /\ select_samples = [s \in Quads |-> select_samples[s]]
SamplesExact(m) ==
  \A s \in Quads : SamplesAfter(select_samples[s], qv, b_size, s, m)
ScanInv ==
  /\ superblock_counters = [s \in Quads |-> Count(qv, s, i)]
  /\ pc = "scan" =>
       /\ ~reset_at(i) => block_counters = InSuperblock(qv, b_size, i)
       /\ superblocks = SuperblocksAfter(qv, b_size, i)
       /\ SamplesExact(i)
  /\ pc = "sentinel" =>
       /\ block_counters = InSuperblock(qv, b_size, len)
       /\ superblocks = SuperblocksAfter(qv, b_size, len + 1)
       /\ SamplesExact(len)
  /\ pc = "done" =>
       /\ superblocks = SuperblocksOf(qv, len, b_size)
       /\ select_samples = [s \in Quads |-> SelectSamplesOf(qv, len, b_size, s)]
Inv == TypeInv /\ ScanInv

\* Sizes and positions.
LEMMA Sizes ==
  ASSUME TypeInv
  PROVE  /\ len \in Nat /\ i \in Nat /\ b_size \in BlockSizes
         /\ superblock_size(b_size) \in Nat \ {0}
BY InputAssumption, SizesType DEF TypeInv

\* The counters written at a position count from the beginning of its
\* superblock, and every one fits its field.
LEMMA CountersExact ==
  ASSUME NEW p \in Nat, b_size \in BlockSizes
  PROVE  /\ fits(InSuperblock(qv, b_size, p))
         /\ reset_at(p) => InSuperblock(qv, b_size, p) = Zero
         /\ InSuperblock(qv, b_size, p) \in [Quads -> Nat]
<1>1. /\ InSuperblock(qv, b_size, p) \in [Quads -> Nat]
      /\ \A s \in Quads : InSuperblock(qv, b_size, p)[s] < superblock_size(b_size)
      /\ p % superblock_size(b_size) = 0 => InSuperblock(qv, b_size, p) = [s \in Quads |-> 0]
  BY InSuperblockIs
<1>2. /\ superblock_size(b_size) \in Nat
      /\ superblock_size(b_size) <= BLOCKS_IN_SUPERBLOCK * 2 * LINE
      /\ BLOCKS_IN_SUPERBLOCK * 2 * LINE \in Nat
  BY SizesType, SupportAssumption DEF LINE
<1>3. 2 ^ COUNTER_BITS \in Int /\ BLOCKS_IN_SUPERBLOCK * 2 * LINE <= 2 ^ COUNTER_BITS
  BY SupportAssumption, InputAssumption
<1>4. fits(InSuperblock(qv, b_size, p))
  BY <1>1, <1>2, <1>3 DEF fits
<1>5. QED
  BY <1>1, <1>4 DEF reset_at, Zero

\* The superblocks after a position has been visited.
LEMMA StartBlock ==
  ASSUME TypeInv, superblocks = SuperblocksAfter(qv, b_size, i),
         superblock_counters = [s \in Quads |-> Count(qv, s, i)]
  PROVE  start_block(InSuperblock(qv, b_size, i)) = SuperblocksAfter(qv, b_size, i + 1)
<1> DEFINE sb == superblock_size(b_size)
           q == i \div sb
           y == (i \div b_size) % BLOCKS_IN_SUPERBLOCK
           c == InSuperblock(qv, b_size, i)
           old == SuperblocksAfter(qv, b_size, i)
           new == SuperblocksAfter(qv, b_size, i + 1)
<1> SUFFICES start_block(c) = new
  OBVIOUS
<1>t. i \in Nat /\ b_size \in BlockSizes /\ sb \in Nat \ {0} /\ b_size \in Nat \ {0}
  BY Sizes, SizesType
<1>g. /\ q \in Nat /\ y \in 0..(BLOCKS_IN_SUPERBLOCK - 1) /\ i % b_size \in 0..(b_size - 1)
      /\ i % sb = b_size * y + (i % b_size) /\ i = sb * q + (i % sb) /\ sb * q \in Nat
      /\ i % sb \in 0..(sb - 1)
  BY <1>t, BlockGrid
<1>n. /\ new \in Seq(Superblock) /\ Len(new) = q + 1
      /\ \A x \in 1..(q + 1) : new[x] = SuperblockAfter(qv, b_size, x - 1, i + 1)
  <2>1. i + 1 \in Nat /\ OpenedBefore(b_size, i + 1) = q + 1
    BY <1>t, OpenedIs
  <2>2. /\ new \in Seq(Superblock) /\ Len(new) = OpenedBefore(b_size, i + 1)
        /\ \A x \in 1..OpenedBefore(b_size, i + 1) : new[x] = SuperblockAfter(qv, b_size, x - 1, i + 1)
    BY <1>t, <2>1, SuperblocksSeq
  <2> HIDE DEF new, q
  <2>3. QED
    BY <2>1, <2>2
<1>o. /\ old \in Seq(Superblock) /\ Len(old) = (IF i % sb = 0 THEN q ELSE q + 1)
      /\ \A x \in 1..Len(old) : old[x] = SuperblockAfter(qv, b_size, x - 1, i)
  <2>1. OpenedBefore(b_size, i) = IF i % sb = 0 THEN q ELSE q + 1
    BY <1>t, OpenedIs
  <2>2. /\ old \in Seq(Superblock) /\ Len(old) = OpenedBefore(b_size, i)
        /\ \A x \in 1..OpenedBefore(b_size, i) : old[x] = SuperblockAfter(qv, b_size, x - 1, i)
    BY <1>t, SuperblocksSeq
  <2> HIDE DEF old, q, sb
  <2>3. QED
    BY <2>1, <2>2
<1> HIDE DEF q, y, c, old, new, sb
\* Superblocks that have been passed stay.
<1>p. ASSUME NEW x \in 1..q PROVE old[x] = new[x]
  <2>1. x - 1 \in Nat /\ (x - 1) + 1 <= q /\ x \in 1..Len(old) /\ x \in 1..(q + 1)
    BY <1>g, <1>o
  <2>2. sb * ((x - 1) + 1) <= sb * q
    BY <2>1, <1>g, <1>t, MulMono
  <2>3. sb * ((x - 1) + 1) \in Nat
    BY <1>t, <2>1
  <2>4. sb * ((x - 1) + 1) <= i /\ sb * ((x - 1) + 1) <= i + 1
    BY <2>2, <2>3, <1>g, <1>t
  <2>5. SuperblockAfter(qv, b_size, x - 1, i) = SuperblockAfter(qv, b_size, x - 1, i + 1)
    BY <2>1, <2>4, <1>t, SuperblockClosed DEF sb
  <2>6. QED
    BY <2>1, <2>5, <1>n, <1>o
<1>1. CASE i % sb = 0
  <2>1. i % b_size = 0 /\ y = 0
    <3>1. y # 0 => b_size * y >= 1
      BY <1>t, <1>g
    <3>2. b_size * y \in Nat
      BY <1>t, <1>g
    <3>3. QED
      BY <1>1, <1>g, <3>1, <3>2
  <2>2. superblocks = old /\ superblock_counters = [s \in Quads |-> Count(qv, s, sb * q)]
    BY <1>1, <1>g DEF old
  <2>3. new[q + 1] = new_superblock(superblock_counters)
    <3>1. (q + 1) - 1 = q /\ q + 1 \in 1..(q + 1) /\ i + 1 = sb * q + 1
      BY <1>1, <1>g
    <3>2. new[q + 1] = SuperblockAfter(qv, b_size, q, sb * q + 1)
      BY <3>1, <1>n
    <3>3. QED
      BY <3>2, <2>2, <1>g, <1>t, SuperblockOpens DEF sb
  <2>4. Append(old, new[q + 1]) = new
    <3>1. new[q + 1] \in Superblock
      BY <1>n, <1>g
    <3>2. QED
      BY <3>1, <1>1, <1>o, <1>n, <1>p, <1>g
  <2>5. start_block(c) = [new EXCEPT ![Len(new)] = set_block_counters(new[Len(new)], 0, c)]
    BY <1>1, <2>1, <2>2, <2>3, <2>4 DEF start_block, sb, y
  <2>6. set_block_counters(new[Len(new)], 0, c) = new[Len(new)]
    BY DEF set_block_counters
  <2>7. QED
    <3>1. [new EXCEPT ![Len(new)] = new[Len(new)]] = new
      BY <1>n
    <3>2. QED
      BY <2>5, <2>6, <3>1
<1>2. CASE i % sb # 0 /\ i % b_size = 0
  <2>1. y # 0
    <3>1. y = 0 => b_size * y = 0
      BY <1>t
    <3>2. QED
      BY <1>2, <1>g, <3>1
  <2>2. start_block(c) = [old EXCEPT ![Len(old)] = set_block_counters(old[Len(old)], y, c)]
    BY <1>2 DEF start_block, sb, y, old
  <2>3. Len(old) = q + 1 /\ q + 1 \in 1..Len(old) /\ (q + 1) - 1 = q
    BY <1>2, <1>o, <1>g
  <2>4. set_block_counters(SuperblockAfter(qv, b_size, q, i), y, c)
          = SuperblockAfter(qv, b_size, q, i + 1)
    BY <1>2, <2>1, <1>t, SuperblockFills DEF y, q, c, sb
  <2>5. old[q + 1] = SuperblockAfter(qv, b_size, q, i)
        /\ new[q + 1] = SuperblockAfter(qv, b_size, q, i + 1)
    BY <2>3, <1>o, <1>n
  <2>6. [old EXCEPT ![q + 1] = new[q + 1]] = new
    BY <2>3, <1>o, <1>n, <1>p, <1>g
  <2>7. QED
    BY <2>2, <2>3, <2>4, <2>5, <2>6
<1>3. CASE i % b_size # 0
  <2>1. i % sb # 0
    <3>1. b_size * y \in Nat
      BY <1>t, <1>g
    <3>2. QED
      BY <1>3, <1>g, <3>1
  <2>2. start_block(c) = old
    BY <1>3, <2>1 DEF start_block, sb, old
  <2>3. SuperblockAfter(qv, b_size, q, i) = SuperblockAfter(qv, b_size, q, i + 1)
    <3>1. \A z \in i..(i + 1 - 1) : z % b_size # 0
      BY <1>3, <1>t
    <3>2. QED
      BY <3>1, <1>t, <1>g, SuperblockRests
  <2>4. Len(old) = q + 1 /\ q + 1 \in 1..Len(old) /\ (q + 1) - 1 = q
    BY <2>1, <1>o, <1>g
  <2>5. old = new
    <3>1. old[q + 1] = new[q + 1]
      BY <2>3, <2>4, <1>o, <1>n
    <3>2. QED
      BY <2>4, <3>1, <1>o, <1>n, <1>p, <1>g
  <2>6. QED
    BY <2>2, <2>5
<1>4. QED
  BY <1>1, <1>2, <1>3

\* Counting one more symbol.
LEMMA CountersStep ==
  ASSUME TypeInv, i < len
  PROVE  /\ qv[i] \in Quads
         /\ [[s \in Quads |-> Count(qv, s, i)] EXCEPT ![qv[i]] = @ + 1]
              = [s \in Quads |-> Count(qv, s, i + 1)]
         /\ ~reset_at(i + 1) =>
              [InSuperblock(qv, b_size, i) EXCEPT ![qv[i]] = @ + 1]
                = InSuperblock(qv, b_size, i + 1)
<1> DEFINE sb == superblock_size(b_size)
           from == sb * (i \div sb)
<1>1. i \in Nat /\ sb \in Nat \ {0} /\ qv[i] \in Quads
  BY Sizes DEF TypeInv
<1>2. \A s \in Quads : /\ Count(qv, s, i) \in Nat
                       /\ Count(qv, s, i + 1) = Count(qv, s, i) + (IF qv[i] = s THEN 1 ELSE 0)
  BY <1>1, CountType, CountStep
<1>3. [[s \in Quads |-> Count(qv, s, i)] EXCEPT ![qv[i]] = @ + 1]
        = [s \in Quads |-> Count(qv, s, i + 1)]
  BY <1>1, <1>2
<1>4. ASSUME ~reset_at(i + 1)
      PROVE  [InSuperblock(qv, b_size, i) EXCEPT ![qv[i]] = @ + 1]
                = InSuperblock(qv, b_size, i + 1)
  <2>1. (i + 1) \div sb = i \div sb
    BY <1>1, <1>4, DivStep DEF reset_at
  <2>2. from \in Nat
    BY <1>1, BlockGrid DEF TypeInv
  <2>3. \A s \in Quads : Count(qv, s, from) \in Nat
    BY <2>2, CountType
  <2>4. InSuperblock(qv, b_size, i) = [s \in Quads |-> Count(qv, s, i) - Count(qv, s, from)]
    BY DEF InSuperblock
  <2>5. InSuperblock(qv, b_size, i + 1) = [s \in Quads |-> Count(qv, s, i + 1) - Count(qv, s, from)]
    BY <2>1 DEF InSuperblock
  <2> HIDE DEF from
  <2>6. QED
    BY <1>1, <1>2, <2>3, <2>4, <2>5
<1>5. QED
  BY <1>1, <1>3, <1>4

\* Taking a sample where one is due.
LEMMA SamplesStep ==
  ASSUME TypeInv, i < len, SamplesExact(i),
         superblock_counters = [s \in Quads |-> Count(qv, s, i)],
         NEW t \in Quads
  PROVE  SamplesAfter((IF sampled(superblock_counters[qv[i]])
                         THEN [select_samples EXCEPT ![qv[i]] =
                                 Append(@, i \div superblock_size(b_size))]
                         ELSE select_samples)[t], qv, b_size, t, i + 1)
<1> DEFINE due == qv[i] = t /\ Count(qv, t, i) % SELECT_NUM_SAMPLES = 0
<1>1. i \in Nat /\ i + 1 \in Nat /\ i <= i + 1 /\ i \in 0..(i + 1 - 1) /\ b_size \in BlockSizes
  BY Sizes
<1>2. qv[i] \in Quads /\ DOMAIN select_samples = Quads
  BY Sizes DEF TypeInv
<1>3. /\ SampleCount(qv, t, i + 1) = SampleCount(qv, t, i) + (IF due THEN 1 ELSE 0)
      /\ due => Count(qv, t, i) = SELECT_NUM_SAMPLES * SampleCount(qv, t, i)
      /\ SampleCount(qv, t, i) \in Nat
  BY <1>1, SampleCountStep
<1>4. SamplesAfter(select_samples[t], qv, b_size, t, i)
  BY DEF SamplesExact
<1>5. CASE due
  <2>1. SamplesAfter(Append(select_samples[t], i \div superblock_size(b_size)), qv, b_size, t, i + 1)
    BY <1>1, <1>3, <1>4, <1>5, SamplesTaken
  <2>2. sampled(superblock_counters[qv[i]])
    BY <1>5 DEF sampled
  <2>3. QED
    BY <1>2, <1>5, <2>1, <2>2
<1>6. CASE ~due
  <2>1. SamplesAfter(select_samples[t], qv, b_size, t, i + 1)
    BY <1>1, <1>3, <1>4, <1>6, SamplesKept
  <2>2. sampled(superblock_counters[qv[i]]) => qv[i] # t
    BY <1>2, <1>6 DEF sampled
  <2>3. QED
    BY <1>2, <2>1, <2>2
<1>7. QED
  BY <1>5, <1>6

\* An iteration of the loop: its assertions hold, and it keeps the invariant.
LEMMA ScanStep ==
  ASSUME Inv, Scan
  PROVE  Inv'
<1> DEFINE counters == IF reset_at(i) THEN Zero ELSE block_counters
<1>1. TypeInv /\ ScanInv /\ pc = "scan"
  BY DEF Inv, Scan
<1>2. i \in Nat /\ len \in Nat /\ i <= len /\ b_size \in BlockSizes
  BY <1>1, Sizes DEF TypeInv
<1>3. counters = InSuperblock(qv, b_size, i)
  BY <1>1, <1>2, CountersExact DEF ScanInv
<1>4. fits(counters)
  BY <1>2, <1>3, CountersExact
<1>5. superblock_counters = [s \in Quads |-> Count(qv, s, i)] /\ SamplesExact(i)
      /\ superblocks = SuperblocksAfter(qv, b_size, i)
  BY <1>1 DEF ScanInv
<1>6. /\ superblocks' = start_block(counters)
      /\ qv' = qv /\ len' = len /\ b_size' = b_size
  BY <1>4 DEF Scan
<1>7. superblocks' = SuperblocksAfter(qv, b_size, i + 1)
  BY <1>1, <1>3, <1>5, <1>6, StartBlock
<1>8. CASE i = len
  <2>1. /\ pc' = "sentinel" /\ block_counters' = counters
        /\ i' = i /\ superblock_counters' = superblock_counters
        /\ select_samples' = select_samples
    BY <1>4, <1>8 DEF Scan
  <2>2. TypeInv'
    BY <1>1, <1>6, <2>1 DEF TypeInv
  <2>3. ScanInv'
    <3> HIDE DEF counters
    <3> QED
      BY <1>3, <1>5, <1>6, <1>7, <1>8, <2>1 DEF ScanInv, SamplesExact
  <2>4. QED
    BY <2>2, <2>3 DEF Inv
<1>9. CASE i # len
  <2> DEFINE sampling == IF sampled(superblock_counters[qv[i]])
                           THEN [select_samples EXCEPT ![qv[i]] =
                                   Append(@, i \div superblock_size(b_size))]
                           ELSE select_samples
  <2>1. /\ pc' = "scan" /\ block_counters' = [counters EXCEPT ![qv[i]] = @ + 1]
        /\ i' = i + 1
        /\ superblock_counters' = [superblock_counters EXCEPT ![qv[i]] = @ + 1]
        /\ select_samples' = sampling
    BY <1>1, <1>4, <1>9 DEF Scan
  <2>2. i < len
    BY <1>2, <1>9
  <2>3. /\ qv[i] \in Quads
        /\ superblock_counters' = [s \in Quads |-> Count(qv, s, i + 1)]
        /\ ~reset_at(i + 1) => block_counters' = InSuperblock(qv, b_size, i + 1)
    BY <1>1, <1>3, <1>5, <2>1, <2>2, CountersStep
  <2>4. \A s \in Quads : SamplesAfter(sampling[s], qv, b_size, s, i + 1)
    BY <1>1, <1>5, <2>2, SamplesStep
  <2>5. DOMAIN sampling = Quads /\ sampling = [s \in Quads |-> sampling[s]]
    BY <1>1 DEF TypeInv
  <2> HIDE DEF sampling, counters
  <2>6. i + 1 \in 0..len
    BY <1>2, <2>2
  <2>7. TypeInv'
    BY <1>1, <1>6, <2>1, <2>5, <2>6 DEF TypeInv
  <2>8. SamplesExact(i)'
    BY <1>6, <2>1, <2>4 DEF SamplesExact
  <2>9. ScanInv'
    BY <1>6, <1>7, <2>1, <2>3, <2>8 DEF ScanInv, reset_at
  <2>10. QED
    BY <2>7, <2>9 DEF Inv
<1>10. QED
  BY <1>8, <1>9

\* The sentinels complete the tables.
LEMMA SentinelStep ==
  ASSUME Inv, Sentinel
  PROVE  Inv'
<1> DEFINE sb == superblock_size(b_size)
           q == len \div sb
           sealed == IF next_block_id < BLOCKS_IN_SUPERBLOCK
                       THEN [superblocks EXCEPT ![Len(superblocks)] =
                               set_block_counters(@, next_block_id, block_counters)]
                       ELSE superblocks
           final == SuperblocksOf(qv, len, b_size)
<1>1. TypeInv /\ ScanInv /\ pc = "sentinel"
  BY DEF Inv, Sentinel
<1>2. len \in Nat /\ b_size \in BlockSizes
  BY <1>1, Sizes
<1>3. /\ block_counters = InSuperblock(qv, b_size, len)
      /\ superblocks = SuperblocksAfter(qv, b_size, len + 1)
      /\ SamplesExact(len)
  BY <1>1 DEF ScanInv
<1>4. fits(block_counters)
  BY <1>2, <1>3, CountersExact
<1>5. /\ superblocks' = sealed /\ pc' = "done"
      /\ select_samples' = [s \in Quads |->
           (IF select_samples[s] = <<>> THEN <<0>> ELSE select_samples[s])
             \o <<last_superblock>>]
      /\ qv' = qv /\ len' = len /\ b_size' = b_size /\ i' = i
      /\ superblock_counters' = superblock_counters
  BY <1>4 DEF Sentinel
<1>6. /\ OpenedBefore(b_size, len + 1) = q + 1 /\ q \in Nat /\ (len + sb) \div sb = q + 1
  BY <1>2, OpenedIs
<1>7. /\ superblocks \in Seq(Superblock) /\ Len(superblocks) = q + 1
      /\ \A x \in 1..(q + 1) : superblocks[x] = SuperblockAfter(qv, b_size, x - 1, len + 1)
  <2>1. len + 1 \in Nat
    BY <1>2
  <2>2. QED
    BY <1>2, <1>3, <1>6, <2>1, SuperblocksSeq
<1>8. DOMAIN final = 1..(q + 1) /\ final = [x \in 1..(q + 1) |-> final[x]]
  BY <1>6 DEF SuperblocksOf
<1>9. DOMAIN sealed = 1..(q + 1) /\ sealed = [x \in 1..(q + 1) |-> sealed[x]]
  <2>1. DOMAIN superblocks = 1..(q + 1)
    BY <1>6, <1>7
  <2>2. superblocks = [x \in 1..(q + 1) |-> superblocks[x]]
    BY <2>1, <1>7
  <2> DEFINE last == Len(superblocks)
             new == set_block_counters(superblocks[last], next_block_id, block_counters)
  <2>3. sealed = IF next_block_id < BLOCKS_IN_SUPERBLOCK
                   THEN [superblocks EXCEPT ![last] = new] ELSE superblocks
    OBVIOUS
  <2> HIDE DEF sealed, q, last, new
  <2>4. QED
    BY <2>1, <2>2, <2>3
<1>10. ASSUME NEW x \in 1..(q + 1) PROVE final[x] = sealed[x]
  <2>1. x - 1 \in 0..(len \div superblock_size(b_size)) /\ (x - 1) + 1 = x
    BY <1>6
  <2>2. /\ (x - 1 = q /\ next_block_id < BLOCKS_IN_SUPERBLOCK) =>
             final[x] = set_block_counters(SuperblockAfter(qv, b_size, x - 1, len + 1),
                                           next_block_id, block_counters)
        /\ ~(x - 1 = q /\ next_block_id < BLOCKS_IN_SUPERBLOCK) =>
             final[x] = SuperblockAfter(qv, b_size, x - 1, len + 1)
    BY <1>2, <1>3, <2>1, SuperblocksFinal DEF next_block_id
  <2>3. superblocks[x] = SuperblockAfter(qv, b_size, x - 1, len + 1)
    BY <1>7
  <2>4. DOMAIN superblocks = 1..(q + 1)
    BY <1>6, <1>7
  <2> HIDE DEF final, q
  <2>5. QED
    BY <2>2, <2>3, <2>4, <1>6, <1>7
<1>11. superblocks' = final
  <2> HIDE DEF final, sealed, q
  <2> QED
    BY <1>5, <1>8, <1>9, <1>10
<1>12. last_superblock = q
  BY <1>6, <1>7 DEF last_superblock
<1>13. select_samples' = [s \in Quads |-> SelectSamplesOf(qv, len, b_size, s)]
  <2>1. ASSUME NEW s \in Quads
        PROVE  (IF select_samples[s] = <<>> THEN <<0>> ELSE select_samples[s])
                  \o <<last_superblock>> = SelectSamplesOf(qv, len, b_size, s)
    <3>1. SamplesAfter(select_samples[s], qv, b_size, s, len)
      BY <1>3 DEF SamplesExact
    <3>2. QED
      BY <1>2, <1>12, <3>1, SamplesFinal
  <2>2. QED
    BY <1>5, <2>1
<1>14. TypeInv'
  BY <1>1, <1>5, <1>13 DEF TypeInv
<1>15. ScanInv'
  <2>1. (superblock_counters = [s \in Quads |-> Count(qv, s, i)])'
    BY <1>1, <1>5 DEF ScanInv
  <2>2. QED
    BY <1>5, <1>11, <1>13, <2>1 DEF ScanInv
<1>16. QED
  BY <1>14, <1>15 DEF Inv

\* Before the scan nothing has been counted.
LEMMA InitInv ==
  ASSUME Init
  PROVE  Inv
<1>1. TypeInv
  BY InputAssumption DEF Init, TypeInv
<1>2. len \in Nat /\ b_size \in BlockSizes
  BY <1>1, Sizes
<1>3. \A s \in Quads : Count(qv, s, 0) = 0
  BY CountZero
<1>4. superblock_counters = [s \in Quads |-> Count(qv, s, i)]
  BY <1>3 DEF Init, Zero
<1>5. reset_at(i)
  BY <1>2, SizesType DEF Init, reset_at
<1>6. superblocks = SuperblocksAfter(qv, b_size, i)
  <2>1. 0 % superblock_size(b_size) = 0 /\ 0 \div superblock_size(b_size) = 0
    BY <1>2, SizesType
  <2>2. OpenedBefore(b_size, 0) = 0
    BY <1>2, <2>1, OpenedIs
  <2>3. /\ SuperblocksAfter(qv, b_size, 0) \in Seq(Superblock)
        /\ Len(SuperblocksAfter(qv, b_size, 0)) = 0
    BY <1>2, <2>2, SuperblocksSeq
  <2>4. QED
    BY <2>3 DEF Init
<1>7. SamplesExact(i)
  <2>1. ASSUME NEW s \in Quads PROVE SampleCount(qv, s, 0) = 0
    <3>1. SELECT_NUM_SAMPLES \in Nat \ {0} /\ 0 + SELECT_NUM_SAMPLES - 1 \in 0..(SELECT_NUM_SAMPLES - 1)
      BY SupportAssumption
    <3>2. (0 + SELECT_NUM_SAMPLES - 1) \div SELECT_NUM_SAMPLES = 0
      BY <3>1, DivUnique
    <3>3. QED
      BY <3>2, <1>3 DEF SampleCount
  <2>2. QED
    BY <2>1 DEF Init, SamplesExact, SamplesAfter
<1>8. QED
  BY <1>1, <1>4, <1>5, <1>6, <1>7 DEF Inv, ScanInv, Init

\* The invariant is one.
LEMMA InvHolds == Spec => []Inv
<1>1. Init => Inv
  BY InitInv
<1>2. Inv /\ [Next]_vars => Inv'
  <2> SUFFICES ASSUME Inv, [Next]_vars PROVE Inv'
    OBVIOUS
  <2>1. CASE Scan
    BY <2>1, ScanStep
  <2>2. CASE Sentinel
    BY <2>2, SentinelStep
  <2>3. CASE UNCHANGED vars
    BY <2>3 DEF vars, Inv, TypeInv, ScanInv, SamplesExact, reset_at
  <2>4. QED
    BY <2>1, <2>2, <2>3 DEF Next
<1>3. QED
  BY <1>1, <1>2, PTL DEF Spec

\* RSSupportPlain::new never fails its assertion on a block counter, and the
\* superblocks, block counters, select samples and sentinels it leaves are those
\* the sequence determines, whatever its length and the sizes.
THEOREM TablesAreExact == Spec => []TablesExact
<1>1. Inv => TablesExact
  BY DEF Inv, TypeInv, ScanInv, TablesExact, support, SupportOf
<1>2. QED
  BY <1>1, InvHolds, PTL

\* On the finished support rank and occs count, and select finds, what the
\* sequence holds, for every symbol and position: at the boundaries of words,
\* lines, blocks and superblocks, with few samples and many, up to the end.
THEOREM QueriesAreExact == Spec => []QueriesExact
<1>1. Inv => QueriesExact
  <2> SUFFICES ASSUME Inv, pc = "done", NEW s \in Quads
               PROVE  /\ \A p \in 0..len : rank(support, s, p) = Count(qv, s, p)
                      /\ rank(support, s, len + 1) = None
                      /\ occs(support, s) = Count(qv, s, len)
                      /\ \A k \in 0..len : select(support, s, k) = SelectIn(qv, len, s, k)
    BY DEF QueriesExact
  <2>1. support = SupportOf(qv, len, b_size)
    BY DEF Inv, ScanInv, support, SupportOf
  <2>2. len \in Nat /\ b_size \in BlockSizes
    BY Sizes DEF Inv
  <2>8. Supports(support, qv, len, b_size)
    BY <2>1, <2>2, SupportSupports
  <2>3. \A p \in 0..len : rank(support, s, p) = Count(qv, s, p)
    BY <2>2, <2>8, RankExact
  <2>4. rank(support, s, len + 1) = None
    <3>1. support.len = len /\ len + 1 > len
      BY <2>2 DEF support
    <3>2. QED
      BY <3>1 DEF rank
  <2>5. occs(support, s) = Count(qv, s, len)
    BY <2>1, <2>2, OccsExact
  <2>6. \A k \in 0..len : select(support, s, k) = SelectIn(qv, len, s, k)
    BY <2>2, <2>8, SelectExact
  <2>7. QED
    BY <2>3, <2>4, <2>5, <2>6
<1>2. QED
  BY <1>1, InvHolds, PTL

------------------------------------------------------------------------------
(* The recount of the digits.                                              *)

\* Occurrences in a set of lines, and the sum of their ranks.
InLines(r, s, T) == {j \in Nat : j \div LINE \in T /\ r.data[j] = s}
LineSum(r, s, T) == MapThenSumSet(LAMBDA l : line_rank(r, s, l, LINE), T)

\* The positions of a line.
LEMMA LinePositions ==
  ASSUME NEW l \in Nat, NEW j \in Nat
  PROVE  /\ l * LINE \in Nat /\ l * LINE + LINE \in Nat
         /\ (l + 1) * LINE = l * LINE + LINE
         /\ j \div LINE = l <=> j \in (l * LINE)..((l * LINE + LINE) - 1)
<1>1. LINE \in Nat \ {0}
  BY LineSize
<1>2. l * LINE \in Nat /\ l * LINE = LINE * l /\ (l + 1) * LINE = l * LINE + LINE
  BY <1>1
<1> DEFINE q == j \div LINE
           e == j % LINE
<1>3. q \in Nat /\ e \in 0..(LINE - 1) /\ j = LINE * q + e
  BY <1>1, DivMod
<1>4. q = l => j \in (l * LINE)..((l * LINE + LINE) - 1)
  <2> HIDE DEF q, e
  <2>1. q = l => LINE * q = l * LINE
    BY <1>2
  <2> DEFINE z == l * LINE
             y == LINE * q
  <2>2. z \in Nat /\ j = y + e /\ (q = l => y = z)
    BY <1>2, <1>3, <2>1
  <2> HIDE DEF z, y
  <2>3. q = l => j \in z..((z + LINE) - 1)
    BY <2>2, <1>1, <1>3
  <2>4. QED
    BY <2>3 DEF z
<1>5. j \in (l * LINE)..((l * LINE + LINE) - 1) => q = l
  <2> SUFFICES ASSUME j \in (l * LINE)..((l * LINE + LINE) - 1) PROVE j \div LINE = l
    OBVIOUS
  <2> DEFINE z == LINE * l
             d == j - z
  <2>1. z \in Nat /\ j \in z..((z + LINE) - 1)
    BY <1>2
  <2>2. d \in 0..(LINE - 1) /\ j = z + d
    <3> HIDE DEF z
    <3> QED
      BY <2>1, <1>1
  <2>3. j = LINE * l + d
    BY <2>2
  <2> HIDE DEF d
  <2>4. l \in Int
    OBVIOUS
  <2>5. QED
    BY <1>1, <2>2, <2>3, <2>4, DivUnique
<1>6. QED
  BY <1>1, <1>2, <1>4, <1>5

\* One line more adds its rank.
LEMMA InLinesStep ==
  ASSUME NEW r, NEW s, NEW T, NEW x \in T, x \in Nat, NEW U, U = T \ {x},
         IsFiniteSet(InLines(r, s, T))
  PROVE  /\ Cardinality(InLines(r, s, T))
              = line_rank(r, s, x, LINE) + Cardinality(InLines(r, s, U))
         /\ line_rank(r, s, x, LINE) \in Nat
<1> DEFINE at == x * LINE
           A == InLines(r, s, U)
           B == Occurrences(r.data, s, at, at + LINE)
<1>1. LINE \in Nat \ {0} /\ x \in Nat /\ at \in Nat /\ at + LINE \in Nat
  BY LineSize
<1>2. InLines(r, s, T) = A \cup B
  <2>1. ASSUME NEW j PROVE j \in InLines(r, s, T) <=> j \in A \cup B
    <3>1. CASE j \in Nat
      <4>1. j \div LINE = x <=> j \in at..((at + LINE) - 1)
        BY <1>1, <3>1, LinePositions
      <4>2. QED
        BY <3>1, <4>1 DEF InLines, Occurrences
    <3>2. CASE j \notin Nat
      <4>1. j \notin at..((at + LINE) - 1)
        <5> HIDE DEF at
        <5> QED
          BY <1>1, <3>2
      <4>2. QED
        BY <3>2, <4>1 DEF InLines, Occurrences
    <3>3. QED
      BY <3>1, <3>2
  <2> HIDE DEF A, B
  <2>2. QED
    BY <2>1
<1>3. A \cap B = {}
  <2>1. SUFFICES ASSUME NEW j \in A, j \in B PROVE FALSE
    OBVIOUS
  <2>2. j \in Nat /\ j \div LINE # x /\ j \in at..((at + LINE) - 1)
    BY <2>1 DEF InLines, Occurrences
  <2>3. QED
    BY <1>1, <2>2, LinePositions
<1>4. IsFiniteSet(A)
  BY <1>2, FS_Subset
<1>5. IsFiniteSet(B) /\ Cardinality(B) \in Nat
  BY <1>1, OccurrencesFinite
<1>6. line_rank(r, s, x, LINE) = Cardinality(B)
  <2>1. LINE \in 0..LINE
    BY <1>1
  <2>2. line_rank(r, s, x, LINE) = Count(r.data, s, at + LINE) - Count(r.data, s, at)
    BY <1>1, <2>1, LineRank
  <2>3. at <= at + LINE
    <3> HIDE DEF at
    <3> QED
      BY <1>1
  <2>4. Count(r.data, s, at + LINE) = Count(r.data, s, at) + Cardinality(B)
    <3> HIDE DEF at
    <3> QED
      BY <1>1, <2>3, CountSplit
  <2>5. Count(r.data, s, at) \in Nat
    BY <1>1, CountType
  <2> HIDE DEF at, B
  <2>6. QED
    BY <2>2, <2>4, <2>5, <1>5
<1> HIDE DEF A, B
<1>7. Cardinality(A \cup B) = Cardinality(A) + Cardinality(B) - Cardinality({})
  BY <1>3, <1>4, <1>5, FS_Union
<1>8. Cardinality({}) = 0 /\ Cardinality(A) \in Nat
  BY <1>4, FS_EmptySet, FS_CardinalityType
<1>9. QED
  BY <1>2, <1>5, <1>6, <1>7, <1>8 DEF A

\* So the ranks of the first lines add up to the count before their end.
LEMMA LineSumIs ==
  ASSUME NEW r, NEW s, NEW m \in Nat
  PROVE  LineSum(r, s, 0..(m - 1)) = Count(r.data, s, m * LINE)
<1> DEFINE S == 0..(m - 1)
           closed(T) == Cardinality(InLines(r, s, T))
           step(f, T) == IF T = {} THEN 0
                         ELSE line_rank(r, s, CHOOSE x \in T : TRUE, LINE)
                                + f[T \ {CHOOSE x \in T : TRUE}]
           G(f) == [T \in SUBSET S |-> step(f, T)]
           iter == CHOOSE f : f = G(f)
           F == [T \in SUBSET S |-> closed(T)]
<1>1. LineSum(r, s, S) = iter[S]
  BY DEF LineSum, MapThenSumSet, MapThenFoldSet
<1>3. closed({}) = 0
  BY FS_EmptySet DEF InLines
<1>s. closed(S) = Count(r.data, s, m * LINE) /\ IsFiniteSet(InLines(r, s, S))
  <2>0. m * LINE \in Nat /\ LINE \in Nat \ {0}
    BY LineSize
  <2>1. \A j \in Nat : j \div LINE \in S <=> j \in 0..(m * LINE - 1)
    <3> SUFFICES ASSUME NEW j \in Nat PROVE j \div LINE \in S <=> j \in 0..(m * LINE - 1)
      OBVIOUS
    <3> DEFINE q == j \div LINE
    <3>1. q \in Nat /\ q * LINE \in Nat /\ j \in (q * LINE)..((q * LINE + LINE) - 1)
          /\ (q + 1) * LINE = q * LINE + LINE
      <4>1. q \in Nat
        BY <2>0, DivMod
      <4>2. QED
        BY <4>1, LinePositions
    <3>2. q + 1 <= m => LINE * (q + 1) <= LINE * m
      BY <2>0, <3>1, MulMono
    <3>3. m <= q => LINE * m <= LINE * q
      BY <2>0, <3>1, MulMono
    <3>4. LINE * (q + 1) = (q + 1) * LINE /\ LINE * m = m * LINE /\ LINE * q = q * LINE
      BY <2>0, <3>1
    <3> DEFINE z == q * LINE
               y == m * LINE
    <3>5. /\ z \in Nat /\ y \in Nat /\ j \in z..((z + LINE) - 1)
          /\ q + 1 <= m => z + LINE <= y
          /\ m <= q => y <= z
      BY <2>0, <3>1, <3>2, <3>3, <3>4
    <3> HIDE DEF z, y, q
    <3>6. q \in S <=> j \in 0..(y - 1)
      BY <2>0, <3>1, <3>5
    <3>7. QED
      BY <3>6 DEF y, q
  <2>2. InLines(r, s, S) = Occurrences(r.data, s, 0, m * LINE)
    <3> DEFINE y == m * LINE
    <3> HIDE DEF y, S
    <3>1. \A j \in Nat : j \div LINE \in S <=> j \in 0..(y - 1)
      BY <2>1 DEF y
    <3>2. \A j \in 0..(y - 1) : j \in Nat
      OBVIOUS
    <3>3. QED
      BY <3>1, <3>2 DEF InLines, Occurrences, y
  <2>3. closed(S) = Count(r.data, s, m * LINE)
    BY <2>0, <2>2, CountIs
  <2>4. IsFiniteSet(Occurrences(r.data, s, 0, m * LINE))
    <3>1. 0 \in Int /\ m * LINE \in Int
      BY <2>0
    <3>2. QED
      BY <3>1, OccurrencesFinite
  <2>5. QED
    BY <2>2, <2>3, <2>4
<1>2. ASSUME NEW T \in SUBSET S, NEW x \in T
      PROVE  closed(T) = line_rank(r, s, x, LINE) + closed(T \ {x})
  <2> DEFINE U == T \ {x}
  <2>1. U = T \ {x} /\ x \in Nat
    OBVIOUS
  <2>2. IsFiniteSet(InLines(r, s, T))
    <3>1. InLines(r, s, T) \subseteq InLines(r, s, S)
      BY DEF InLines
    <3>2. QED
      BY <3>1, <1>s, FS_Subset
  <2> HIDE DEF U
  <2>3. Cardinality(InLines(r, s, T))
          = line_rank(r, s, x, LINE) + Cardinality(InLines(r, s, U))
    BY <2>1, <2>2, InLinesStep
  <2>4. QED
    BY <2>3 DEF U
<1> HIDE DEF closed
<1>4. F = G(F)
  <2>1. ASSUME NEW T \in SUBSET S PROVE closed(T) = step(F, T)
    <3>1. CASE T = {}
      BY <3>1, <1>3
    <3>2. CASE T # {}
      <4> DEFINE x == CHOOSE x \in T : TRUE
      <4>1. x \in T
        BY <3>2
      <4>2. F[T \ {x}] = closed(T \ {x})
        OBVIOUS
      <4>3. step(F, T) = line_rank(r, s, x, LINE) + F[T \ {x}]
        BY <3>2
      <4> HIDE DEF x, F, step
      <4>4. QED
        BY <3>2, <4>1, <4>2, <4>3, <1>2
    <3>3. QED
      BY <3>1, <3>2
  <2> HIDE DEF step
  <2>2. QED
    BY <2>1
<1>5. iter = G(iter)
  <2> HIDE DEF F, G
  <2> QED
    BY <1>4
<1>6. \A T \in SUBSET S : iter[T] = step(iter, T)
  <2> HIDE DEF iter, step
  <2> QED
    BY <1>5
<1> HIDE DEF iter, F, G
<1>7. \A T \in SUBSET S : IsFiniteSet(T) /\ Cardinality(T) \in Nat
  <2>1. 0 \in Int /\ m - 1 \in Int
    OBVIOUS
  <2>2. IsFiniteSet(S)
    BY <2>1, FS_Interval
  <2>3. QED
    BY <2>2, FS_Subset, FS_CardinalityType
<1> HIDE DEF S
<1> DEFINE Bad == {n \in Nat : \E T \in SUBSET S : Cardinality(T) = n /\ iter[T] # closed(T)}
<1>8. Bad = {}
  <2> SUFFICES ASSUME Bad # {} PROVE FALSE
    OBVIOUS
  <2>1. PICK n \in Bad : \A k \in Bad : n <= k
    BY LeastNat
  <2>2. PICK T \in SUBSET S : Cardinality(T) = n /\ iter[T] # closed(T)
    BY <2>1
  <2> DEFINE x == CHOOSE x \in T : TRUE
  <2>3. T # {}
    BY <2>2, <1>3, <1>6
  <2>4. x \in T
    BY <2>3
  <2>5. iter[T] = line_rank(r, s, x, LINE) + iter[T \ {x}]
    BY <2>3, <1>6
  <2> HIDE DEF x
  <2>6. Cardinality(T \ {x}) = Cardinality(T) - 1
    BY <2>4, <1>7, FS_RemoveElement
  <2>7. iter[T \ {x}] = closed(T \ {x})
    <3>1. T \ {x} \in SUBSET S /\ Cardinality(T \ {x}) \in Nat /\ Cardinality(T \ {x}) < n
      BY <2>2, <2>6, <1>7
    <3>2. Cardinality(T \ {x}) \notin Bad
      <4>1. n \in Nat
        BY <2>1
      <4> HIDE DEF Bad
      <4>2. QED
        BY <2>1, <3>1, <4>1
    <3>3. QED
      BY <3>1, <3>2
  <2>8. QED
    BY <2>2, <2>4, <2>5, <2>7, <1>2
<1>9. iter[S] = closed(S)
  BY <1>7, <1>8
<1>10. QED
  BY <1>1, <1>9, <1>s DEF S

\* The recount up to a position is the count before it, and since the beginning
\* of its superblock the difference of two.
LEMMA TotalsAre ==
  ASSUME NEW v, NEW n \in Nat, NEW r, Holds(r.data, v, n), NEW s, NEW p \in 0..n
  PROVE  totals(r, s, p) = Count(v, s, p)
<1> DEFINE q == p \div LINE
           o == p % LINE
           at == q * LINE
<1>1. LINE \in Nat \ {0} /\ p \in Nat
  BY LineSize
<1>2. q \in Nat /\ o \in 0..(LINE - 1) /\ p = LINE * q + o
  BY <1>1, DivMod
<1>3. at \in Nat /\ LINE * q = at
  BY <1>1, <1>2
<1>4. totals(r, s, p) = LineSum(r, s, 0..(q - 1)) + get_line_rank(r, s, q, o)
  BY DEF totals, LineSum
<1> HIDE DEF q, o
<1>5. o \in 0..LINE /\ at + o = p /\ at + o <= n /\ at \in 0..n
  <2> HIDE DEF at
  <2> QED
    BY <1>1, <1>2, <1>3
<1>6. LineSum(r, s, 0..(q - 1)) = Count(v, s, at)
  <2>1. LineSum(r, s, 0..(q - 1)) = Count(r.data, s, at)
    BY <1>2, LineSumIs
  <2>2. Count(r.data, s, at) = Count(v, s, at)
    <3> HIDE DEF at
    <3> QED
      BY <1>5, DataCount
  <2>3. QED
    BY <2>1, <2>2
<1>7. get_line_rank(r, s, q, o) = Count(v, s, p) - Count(v, s, at)
  BY <1>2, <1>5, GetLineRank
<1>8. Count(v, s, p) \in Nat /\ Count(v, s, at) \in Nat
  BY <1>1, <1>3, CountType
<1> HIDE DEF at
<1>9. QED
  BY <1>4, <1>6, <1>7, <1>8

\* The recount since the superblock of p began.
LEMMA SinceBaseIs ==
  ASSUME NEW v, NEW n \in Nat, NEW r, Holds(r.data, v, n), r.b_size \in BlockSizes,
         NEW s, NEW p \in 0..n
  PROVE  LET size == superblock_size(r.b_size)
         IN since_base(r, s, p) = Count(v, s, p) - Count(v, s, size * (p \div size))
<1> DEFINE size == superblock_size(r.b_size)
           from == size * (p \div size)
<1>1. size \in Nat \ {0} /\ p \in Nat
  BY SizesType
<1>2. p = size * (p \div size) + (p % size) /\ from \in Nat /\ p % size \in 0..(size - 1)
      /\ p \div size \in Nat
  <2> HIDE DEF size
  <2>1. p = size * (p \div size) + (p % size) /\ p % size \in 0..(size - 1) /\ p \div size \in Nat
    BY <1>1, DivMod
  <2>2. from \in Nat
    BY <1>1, <2>1
  <2>3. QED
    BY <2>1, <2>2
<1>3. base(r, p) = from
  <2>1. base(r, p) = (p \div size) * size
    BY DEF base
  <2> HIDE DEF size
  <2>2. QED
    BY <1>1, <1>2, <2>1
<1>4. from \in 0..n
  <2> HIDE DEF from, size
  <2>1. p = from + (p % size)
    BY <1>2 DEF from
  <2>2. QED
    BY <1>1, <1>2, <2>1
<1>5. totals(r, s, p) = Count(v, s, p)
  BY TotalsAre
<1>6. totals(r, s, from) = Count(v, s, from)
  <2> HIDE DEF from
  <2> QED
    BY <1>4, TotalsAre
<1>7. QED
  BY <1>3, <1>5, <1>6 DEF since_base

------------------------------------------------------------------------------
(* What is accepted supports the queries.                                  *)

\* The shape of a stored level: whole lines of digits, a sequence of superblocks,
\* and samples and offsets that are numbers.
LineData == UNION {[0..(l * LINE - 1) -> Quads] : l \in Nat}
StoredLevels ==
  [aligned: BOOLEAN, in_bounds: BOOLEAN, position_bits: Nat, data: LineData,
   superblocks: Seq(Superblock), select_samples: [Quads -> Seq(Nat)],
   n_occs_smaller: [0..4 -> Nat]]
Shape(f) == f \in StoredLevels

\* The digits a level has.
Digits(f) == [p \in 0..((f.position_bits \div 2) - 1) |-> f.data[p]]

\* The length of an accepted level, whose lines hold its digits.
LEMMA AcceptedLength ==
  ASSUME NEW f, Shape(f), regions_fit(f)
  PROVE  /\ f.position_bits \div 2 \in Nat
         /\ Holds(f.data, Digits(f), f.position_bits \div 2)
         /\ \A p \in 0..((f.position_bits \div 2) - 1) : Digits(f)[p] \in Quads
<1> DEFINE n == f.position_bits \div 2
<1>1. n \in Nat /\ f.position_bits = 2 * n
  <2>1. f.position_bits \in Nat
    BY DEF Shape, StoredLevels
  <2>2. QED
    BY <2>1 DEF regions_fit
<1>2. PICK l \in Nat : f.data \in [0..(l * LINE - 1) -> Quads]
  BY DEF Shape, StoredLevels, LineData
<1> DEFINE t == l * LINE
<1>3. t \in Nat
  BY LineSize
<1>4. Cardinality(DOMAIN f.data) = t
  <2> HIDE DEF t
  <2>1. 0 \in Int /\ t - 1 \in Int
    BY <1>3
  <2>2. Cardinality(0..(t - 1)) = IF 0 > t - 1 THEN 0 ELSE (t - 1) - 0 + 1
    BY <2>1, FS_Interval
  <2>3. DOMAIN f.data = 0..(t - 1)
    BY <1>2 DEF t
  <2>4. QED
    BY <1>3, <2>2, <2>3
<1>5. n <= t
  <2> HIDE DEF t, n
  <2> QED
    BY <1>1, <1>3, <1>4 DEF regions_fit
<1>6. DOMAIN f.data = 0..(l * LINE - 1) /\ n <= l * LINE
  BY <1>2, <1>5
<1>7. \A p \in 0..(n - 1) : f.data[p] = Digits(f)[p] /\ Digits(f)[p] \in Quads
  <2>1. \A p \in 0..(n - 1) : p \in 0..(t - 1)
    <3> HIDE DEF t, n
    <3> QED
      BY <1>1, <1>3, <1>5
  <2>2. \A p \in 0..(n - 1) : Digits(f)[p] = f.data[p]
    BY DEF Digits
  <2>3. QED
    BY <1>2, <2>1, <2>2
<1>8. QED
  BY <1>1, <1>6, <1>7 DEF Holds

\* The block a position lies in.
LEMMA InBlock ==
  ASSUME NEW b \in BlockSizes, NEW x \in Nat, NEW j \in 0..(BLOCKS_IN_SUPERBLOCK - 1),
         NEW e \in 0..(b - 1), NEW p \in Nat, p = BlockStart(b, x, j) + e
  PROVE  p \div superblock_size(b) = x /\ (p \div b) % BLOCKS_IN_SUPERBLOCK = j
<1> DEFINE K == BLOCKS_IN_SUPERBLOCK
<1>1. b \in Nat \ {0} /\ K \in Nat \ {0} /\ superblock_size(b) = K * b
  BY SizesType
<1> DEFINE at == BlockStart(b, x, j)
<1>2. at \in Nat /\ at % b = 0 /\ at \div superblock_size(b) = x /\ (at \div b) % K = j
  BY BlockStarts
<1> HIDE DEF at, K
<1>3. p = at + e /\ (at % b) + b <= b /\ b \in Nat \ {0}
  BY <1>1, <1>2 DEF at
<1>4. p \div b = at \div b
  <2> DEFINE q == at \div b
  <2>1. q \in Nat /\ at = b * q + (at % b)
    BY <1>2, <1>3, DivMod
  <2> HIDE DEF q
  <2>2. p = b * q + e /\ q \in Int
    <3>1. b * q \in Nat
      BY <1>3, <2>1
    <3> DEFINE z == b * q
    <3>2. z \in Nat /\ at = z + 0
      BY <1>2, <2>1, <3>1
    <3> HIDE DEF z
    <3>3. p = z + e
      BY <1>3, <3>2
    <3>4. QED
      BY <2>1, <3>3 DEF z
  <2>3. p \div b = q
    BY <1>3, <2>2, DivUnique
  <2>4. QED
    BY <2>3 DEF q
<1>5. (at % (K * b)) + b <= K * b
  BY <1>1, <1>2, <1>3, PieceFits
<1>6. superblock_size(b) \in Nat \ {0}
  BY SizesType
<1>7. p \div superblock_size(b) = x
  <2> DEFINE size == superblock_size(b)
             o == at % size
  <2>1. size \in Nat \ {0} /\ o + b <= size
    BY <1>1, <1>5, <1>6
  <2> HIDE DEF size
  <2>2. at \div size = x
    BY <1>2 DEF size
  <2>3. o \in 0..(size - 1) /\ at = size * x + o /\ size * x \in Nat
    <3>1. at \in Nat /\ size \in Nat \ {0}
      BY <1>2, <2>1
    <3>2. at = size * (at \div size) + o /\ o \in 0..(size - 1)
      BY <3>1, DivMod
    <3>3. size * x \in Nat
      BY <3>1
    <3>4. QED
      BY <2>2, <3>2, <3>3
  <2> HIDE DEF o
  <2>4. p = size * x + (o + e) /\ o + e \in 0..(size - 1)
    <3> DEFINE z == size * x
    <3>1. z \in Nat /\ at = z + o
      BY <2>3
    <3> HIDE DEF z
    <3>2. p = z + (o + e) /\ o + e \in 0..(size - 1)
      BY <1>3, <2>1, <2>3, <3>1
    <3>3. QED
      BY <3>2 DEF z
  <2> DEFINE u == o + e
  <2>5. p = size * x + u /\ u \in 0..(size - 1) /\ x \in Int
    BY <2>4
  <2> HIDE DEF u
  <2>6. p \div size = x
    BY <2>1, <2>5, DivUnique
  <2>7. QED
    BY <2>6 DEF size
<1>8. QED
  BY <1>2, <1>4, <1>7 DEF K

\* Rank counters that pass the checks are exact as far as the queries use them.
LEMMA AcceptedCounters ==
  ASSUME NEW v, NEW n \in Nat, NEW b \in BlockSizes, NEW r, r.b_size = b, r.len = n,
         Holds(r.data, v, n), superblock_count(r), superblock_ranks_exact(r),
         block_ranks_exact(r), sentinel_exact(r)
  PROVE  CountersHold(r, v, n, b) /\ Len(r.superblocks) = n \div superblock_size(b) + 1
<1> DEFINE K == BLOCKS_IN_SUPERBLOCK
           size == superblock_size(b)
<1>t. /\ b \in Nat \ {0} /\ K \in Nat \ {0, 1} /\ size \in Nat \ {0} /\ size = K * b
  BY SizesType
<1>n. n \div size \in Nat /\ Len(r.superblocks) = n \div size + 1
  BY OpenedIs DEF superblock_count
<1> SUFFICES ASSUME NEW s \in Quads, NEW x \in 0..(n \div size)
             PROVE  /\ r.superblocks[x + 1].counter[s] = Count(v, s, size * x)
                    /\ \A j \in BlockIds : BlockStart(b, x, j - 1) <= n =>
                         r.superblocks[x + 1].block[j][s]
                           = Count(v, s, MinOf(BlockStart(b, x, j), n)) - Count(v, s, size * x)
  BY <1>n DEF CountersHold
<1>x. x \in Nat /\ size * x \in Nat /\ size * x <= n /\ x * size = size * x
  <2> DEFINE q == n \div size
  <2>1. x \in Nat /\ q \in Nat /\ x <= q
    BY <1>n
  <2>2. n = size * q + (n % size) /\ n % size \in 0..(size - 1)
    <3> HIDE DEF size
    <3> QED
      BY <1>t, DivMod
  <2> HIDE DEF q, size
  <2>3. size * x <= size * q /\ size * x \in Nat /\ size * q \in Nat /\ x * size = size * x
    <3>1. size * x <= size * q
      BY <1>t, <2>1, MulMono
    <3>2. QED
      BY <1>t, <2>1, <3>1
  <2>4. QED
    BY <1>t, <2>1, <2>2, <2>3
<1>1. r.superblocks[x + 1].counter[s] = Count(v, s, size * x)
  <2>1. x + 1 \in 1..Len(r.superblocks) /\ (x + 1) - 1 = x
    BY <1>n, <1>x
  <2>2. r.superblocks[x + 1].counter[s] = totals(r, s, ((x + 1) - 1) * size)
    BY <2>1 DEF superblock_ranks_exact
  <2>3. x * size \in 0..n
    BY <1>x
  <2>4. totals(r, s, x * size) = Count(v, s, x * size)
    BY <2>3, TotalsAre
  <2>5. ((x + 1) - 1) * size = x * size
    BY <2>1
  <2>6. QED
    BY <2>2, <2>4, <2>5, <1>x
<1>2. ASSUME NEW j \in BlockIds, BlockStart(b, x, j - 1) <= n
      PROVE  r.superblocks[x + 1].block[j][s]
               = Count(v, s, MinOf(BlockStart(b, x, j), n)) - Count(v, s, size * x)
  <2> DEFINE at == BlockStart(b, x, j)
             prev == BlockStart(b, x, j - 1)
  <2>1. j \in 1..(K - 1) /\ j \in Nat /\ j # 0 /\ j \in 0..(K - 1) /\ j - 1 \in 0..(K - 1)
        /\ j - 1 \in Nat
    BY <1>t DEF BlockIds
  <2>2. /\ at \in Nat /\ at \div size = x /\ (at \div b) % K = j /\ at % b = 0
        /\ prev \in Nat
    BY <1>x, <2>1, BlockStarts
  <2>3. at = prev + b
    <3>1. b * j = b * (j - 1) + b /\ b * (j - 1) \in Nat
      BY <1>t, <2>1
    <3>2. QED
      BY <1>t, <1>x, <3>1 DEF BlockStart
  <2>4. CASE at <= n
    <3> DEFINE B == at \div b
    <3>1. B \in Nat /\ at = b * B + (at % b)
      <4>1. at \in Nat /\ b \in Nat \ {0}
        BY <1>t, <2>2
      <4> HIDE DEF at
      <4>2. QED
        BY <4>1, DivMod
    <3>2. B * b = at /\ B \in 0..(n \div b)
      <4>1. B \in 0..(n \div b)
        BY <1>t, <2>2, <2>4, DivMono
      <4> HIDE DEF B, at
      <4>2. B * b = b * B /\ b * B \in Nat
        BY <1>t, <3>1
      <4> DEFINE z == b * B
      <4>3. at = z + 0 /\ B * b = z /\ z \in Nat
        BY <2>2, <3>1, <4>2
      <4> HIDE DEF z
      <4>4. at = z
        BY <4>3
      <4>5. QED
        BY <4>1, <4>3, <4>4
    <3>3. B % K = j /\ B \div K = x
      <4>1. at = (K * b) * x + b * j + 0 /\ 0 \in 0..(b - 1)
        BY <1>t, <1>x, <2>1 DEF BlockStart
      <4>2. B = K * x + j
        <5>1. (K * b) * x = b * (K * x) /\ K * x \in Nat
          BY <1>t, <1>x
        <5>2. b * (K * x) + b * j = b * (K * x + j) /\ K * x + j \in Nat
          BY <1>t, <1>x, <2>1, <5>1
        <5> DEFINE z == K * x + j
        <5>3. b * (K * x) \in Nat /\ b * j \in Nat /\ b * z \in Nat
          BY <1>t, <2>1, <5>1, <5>2
        <5>4. at = b * z + 0
          <6> DEFINE u == b * (K * x)
                     w == b * j
                     y == b * z
          <6>1. u \in Nat /\ w \in Nat /\ y \in Nat /\ at = u + w + 0 /\ u + w = y
            BY <4>1, <5>1, <5>2, <5>3
          <6> HIDE DEF u, w, y, at
          <6>2. at = y + 0
            BY <6>1
          <6>3. QED
            BY <6>2 DEF y
        <5>5. z \in Int
          BY <5>2
        <5> HIDE DEF z, at
        <5>6. at \div b = z
          BY <1>t, <2>2, <4>1, <5>4, <5>5, DivUnique
        <5>7. QED
          BY <5>6 DEF z
      <4> HIDE DEF B
      <4>3. x \in Int /\ B \in Nat /\ K \in Nat \ {0} /\ j \in 0..(K - 1)
        BY <1>t, <1>x, <2>1, <3>1
      <4>4. QED
        BY <4>2, <4>3, DivUnique
    <3>4. get_block_counter(r.superblocks[x + 1], s, j) = since_base(r, s, at)
      <4>1. get_block_counter(r.superblocks[B \div K + 1], s, B % K) = since_base(r, s, B * b)
        <5> HIDE DEF B
        <5> QED
          BY <3>2 DEF block_ranks_exact
      <4> HIDE DEF B, at
      <4>2. QED
        BY <3>2, <3>3, <4>1
    <3>5. at \in 0..n
      <4> HIDE DEF at
      <4> QED
        BY <2>2, <2>4
    <3>6. since_base(r, s, at) = Count(v, s, at) - Count(v, s, size * x)
      <4>1. since_base(r, s, at) = Count(v, s, at) - Count(v, s, size * (at \div size))
        <5> HIDE DEF at
        <5> QED
          BY <3>5, SinceBaseIs
      <4>2. QED
        BY <2>2, <4>1
    <3>7. MinOf(at, n) = at
      <4> HIDE DEF at
      <4> QED
        BY <2>2, <2>4 DEF MinOf
    <3>8. QED
      BY <2>1, <3>4, <3>6, <3>7 DEF get_block_counter
  <2>5. CASE at > n
    <3>1. n = prev + (n - prev) /\ n - prev \in 0..(b - 1)
      <4> HIDE DEF at, prev
      <4>1. prev <= n
        BY <1>2 DEF prev
      <4> QED
        BY <1>t, <2>2, <2>3, <2>5, <4>1
    <3>2. x = n \div (K * b) /\ j - 1 = (n \div b) % K
      <4> DEFINE e == n - prev
                 y == j - 1
      <4>1. n = BlockStart(b, x, y) + e /\ e \in 0..(b - 1) /\ y \in 0..(K - 1)
        BY <2>1, <3>1
      <4> HIDE DEF e, y
      <4>2. n \div superblock_size(b) = x /\ (n \div b) % K = y
        BY <1>x, <4>1, InBlock
      <4>3. QED
        BY <1>t, <4>2 DEF y
    <3>3. n \div size = x /\ ((n \div b) % K) + 1 = j
      BY <1>t, <2>1, <3>2
    <3>4. get_block_counter(r.superblocks[x + 1], s, j) = since_base(r, s, n)
      <4>1. j < K
        BY <1>t, <2>1
      <4>2. QED
        BY <3>3, <4>1 DEF sentinel_exact
    <3>5. since_base(r, s, n) = Count(v, s, n) - Count(v, s, size * x)
      <4>1. n \in 0..n
        OBVIOUS
      <4>2. since_base(r, s, n) = Count(v, s, n) - Count(v, s, size * (n \div size))
        BY <4>1, SinceBaseIs
      <4>3. QED
        BY <3>3, <4>2
    <3>6. MinOf(at, n) = n
      <4> HIDE DEF at
      <4> QED
        BY <2>2, <2>5 DEF MinOf
    <3>7. QED
      BY <2>1, <3>4, <3>5, <3>6 DEF get_block_counter
  <2>6. QED
    BY <2>2, <2>4, <2>5
<1>3. QED
  BY <1>1, <1>2

\* Both samples around an occurrence are there.
SamplesThere(r, v, n) ==
  \A s \in Quads, p \in 0..(n - 1) : v[p] = s =>
    Count(v, s, p) \div SELECT_NUM_SAMPLES + 2 \in 1..Len(r.select_samples[s])

\* What an open view has: a support whose superblocks and samples are all there.
ViewSupports(r, v, n, b) ==
  /\ Supports(r, v, n, b)
  /\ \A k \in 0..(n \div superblock_size(b)) : there(r, k)
  /\ Len(r.superblocks) = n \div superblock_size(b) + 1
  /\ SamplesThere(r, v, n)

\* Samples that pass the checks enclose the superblock of every occurrence.
LEMMA AcceptedSamples ==
  ASSUME NEW v, NEW n \in Nat, NEW b \in BlockSizes, NEW r, r.b_size = b, r.len = n,
         CountersHold(r, v, n, b), Len(r.superblocks) = n \div superblock_size(b) + 1,
         samples_exact(r), \A s \in Quads : occs(r, s) = Count(v, s, n),
         \A s \in Quads : r.select_samples[s] \in Seq(Nat)
  PROVE  SamplesEnclose(r, v, n, b) /\ SamplesThere(r, v, n)
<1> DEFINE S == SELECT_NUM_SAMPLES
           size == superblock_size(b)
           final == n \div size
<1> SUFFICES ASSUME NEW s \in Quads, NEW p \in 0..(n - 1), v[p] = s
             PROVE  LET a == Count(v, s, p) \div S
                        x == p \div size
                    IN /\ r.select_samples[s][a + 1] \in 0..x
                       /\ r.select_samples[s][a + 2] \in x..final
                       /\ a + 2 \in 1..Len(r.select_samples[s])
  BY DEF SamplesEnclose, SamplesThere
<1> DEFINE c == Count(v, s, p)
           m == Count(v, s, n)
           a == c \div S
           x == p \div size
           samples == r.select_samples[s]
           C(k) == Count(v, s, size * k)
<1>t. S \in Nat \ {0} /\ size \in Nat \ {0} /\ p \in Nat /\ p < n
  BY SizesType
<1>1. x \in Nat /\ final \in Nat /\ x <= final
  <2>0. size \in Nat \ {0} /\ p \in Nat /\ n \in Nat /\ p <= n
    BY <1>t
  <2>1. x \in 0..final /\ final \in Nat
    <3> HIDE DEF size
    <3>1. x \in 0..final
      BY <2>0, DivMono
    <3>2. final \in Nat
      BY <2>0, DivMod
    <3>3. QED
      BY <3>1, <3>2
  <2> HIDE DEF x, final
  <2>2. QED
    BY <2>1
<1>2. c \in Nat /\ m \in Nat /\ c < m /\ Count(v, s, p + 1) = c + 1
  <2>1. Count(v, s, p + 1) = c + 1 /\ c \in Nat /\ m \in Nat
    BY <1>t, CountStep, CountType
  <2>2. Count(v, s, p + 1) <= m
    BY <1>t, CountMono
  <2> HIDE DEF c, m
  <2>3. QED
    BY <2>1, <2>2
<1>3. a \in Nat /\ c = S * a + (c % S) /\ c % S \in 0..(S - 1) /\ S * a \in Nat
  <2>0. c \in Nat /\ S \in Nat \ {0}
    BY <1>t, <1>2
  <2> HIDE DEF c, S
  <2>1. a \in Nat /\ c = S * a + (c % S) /\ c % S \in 0..(S - 1)
    BY <2>0, DivMod
  <2>2. S * a \in Nat
    <3>1. S \in Nat /\ a \in Nat
      BY <2>0, <2>1
    <3> HIDE DEF a
    <3>2. QED
      BY <3>1
  <2>3. QED
    BY <2>1, <2>2
\* There is a sample for the occurrence and one after it.
<1>4. /\ samples \in Seq(Nat) /\ Len(samples) \in Nat
      /\ Len(samples) = ((m - 1) \div S) + 2
      /\ samples[Len(samples)] = final
      /\ \A k \in 1..Len(samples) : samples[k] <= final
      /\ \A k \in 1..(Len(samples) - 1) : sample_exact(r, s, k)
  <2>1. occs(r, s) = m /\ m > 0 /\ m # 0
    BY <1>2
  <2>2. (final + 1) - 1 = final
    BY <1>1
  <2>3. Len(r.superblocks) - 1 = final
    <3>1. Len(r.superblocks) = final + 1
      OBVIOUS
    <3> HIDE DEF final
    <3>2. QED
      BY <2>2, <3>1
  <2>4. samples \in Seq(Nat) /\ Len(samples) \in Nat
    BY LenProperties
  <2> HIDE DEF final, m
  <2>5. QED
    BY <2>1, <2>3, <2>4 DEF samples_exact, expected_samples
<1>5. a + 1 \in 1..(Len(samples) - 1) /\ a + 2 \in 1..Len(samples)
  <2>1. a \in 0..((m - 1) \div S)
    <3>1. m - 1 \in Nat /\ c <= m - 1
      <4> HIDE DEF c, m
      <4> QED
        BY <1>2
    <3> HIDE DEF c, m, S
    <3>2. QED
      BY <1>t, <1>2, <3>1, DivMono
  <2> DEFINE e == (m - 1) \div S
  <2>2. e \in Int
    <3> HIDE DEF m
    <3> QED
      BY <1>t, <1>2
  <2>3. Len(samples) = e + 2 /\ a \in 0..e
    BY <1>4, <2>1
  <2> HIDE DEF e, a
  <2>4. QED
    BY <2>2, <2>3
<1>6. samples[a + 1] \in Nat /\ samples[a + 2] \in Nat /\ samples[a + 1] <= final
      /\ samples[a + 2] <= final
  <2>1. a + 1 \in 1..Len(samples)
    <3> HIDE DEF a, samples
    <3> QED
      BY <1>3, <1>4, <1>5
  <2> HIDE DEF a, samples, final
  <2>2. QED
    BY <1>4, <1>5, <2>1, ElementOfSeq
<1> DEFINE low == samples[a + 1]
           high == samples[a + 2]
\* Superblocks after that of the occurrence count more than c, the others not.
<1>7. ASSUME NEW k \in Nat
      PROVE  /\ C(k) \in Nat
             /\ k <= x => C(k) <= c
             /\ x < k => C(k) >= c + 1
  <2>1. size * k \in Nat /\ size * x \in Nat /\ size * (x + 1) = size * x + size
    <3> HIDE DEF size, x
    <3> QED
      BY <1>t, <1>1
  <2>2. p = size * x + (p % size) /\ p % size \in 0..(size - 1)
    <3> HIDE DEF size
    <3> QED
      BY <1>t, DivMod
  <2>3. C(k) \in Nat
    BY <2>1, CountType
  <2>4. k <= x => size * k <= size * x
    <3> HIDE DEF x
    <3> QED
      BY <1>t, <1>1, MulMono
  <2>5. x < k => size * (x + 1) <= size * k
    <3>1. x + 1 \in Nat /\ (x < k => x + 1 <= k)
      <4> HIDE DEF x
      <4> QED
        BY <1>1
    <3> HIDE DEF x
    <3>2. QED
      BY <1>t, <3>1, MulMono
  <2> DEFINE z == size * k
             y == size * x
  <2>6. z \in Nat /\ y \in Nat /\ (k <= x => z <= p) /\ (x < k => p + 1 <= z)
    <3>1. /\ z \in Nat /\ y \in Nat /\ p = y + (p % size) /\ p % size \in 0..(size - 1)
          /\ (k <= x => z <= y) /\ (x < k => y + size <= z) /\ size \in Nat
      BY <1>t, <2>1, <2>2, <2>4, <2>5
    <3> DEFINE o == p % size
    <3> HIDE DEF z, y, x, o, size
    <3>2. QED
      BY <1>t, <3>1 DEF o
  <2>7. Count(v, s, z) \in Nat /\ (z <= p => Count(v, s, z) <= c)
        /\ (p + 1 <= z => Count(v, s, p + 1) <= Count(v, s, z))
    <3> HIDE DEF z
    <3> QED
      BY <1>t, <2>6, CountMono, CountType
  <2> HIDE DEF z, c, x
  <2>8. QED
    BY <1>2, <2>6, <2>7 DEF z
<1>8. ASSUME NEW k \in 0..final
      PROVE  r.superblocks[k + 1].counter[s] = C(k)
  BY DEF CountersHold
<1>9. low <= x
  <2>1. sample_exact(r, s, a + 1) /\ (a + 1) - 1 = a
    <3> HIDE DEF samples, a
    <3> QED
      BY <1>3, <1>4, <1>5
  <2>2. r.superblocks[low + 1].counter[s] <= ((a + 1) - 1) * S
    BY <2>1 DEF sample_exact
  <2>3. ((a + 1) - 1) * S = S * a
    <3> HIDE DEF a, S
    <3> QED
      BY <1>t, <1>3, <2>1
  <2> HIDE DEF low
  <2>4. low \in Nat /\ low <= final
    BY <1>6 DEF low
  <2>5. r.superblocks[low + 1].counter[s] = C(low)
    <3> HIDE DEF final, C
    <3> QED
      BY <1>1, <1>8, <2>4
  <2> DEFINE z == S * a
  <2>6. C(low) <= z /\ z \in Nat /\ z <= c
    <3>1. C(low) <= z
      BY <2>2, <2>3, <2>5
    <3>2. z \in Nat /\ c = z + (c % S) /\ c % S \in 0..(S - 1)
      BY <1>3
    <3> DEFINE o == c % S
    <3> HIDE DEF z, c, S, o
    <3>3. z <= c
      BY <1>t, <3>2 DEF o
    <3>4. QED
      BY <3>1, <3>2, <3>3
  <2>7. C(low) \in Nat /\ (x < low => C(low) >= c + 1)
    BY <1>7, <2>4
  <2> HIDE DEF z, c, C, x
  <2>8. QED
    BY <1>1, <1>2, <2>4, <2>6, <2>7
<1>10. x <= high
  <2>1. CASE a + 2 = Len(samples)
    <3>1. high = final
      BY <1>4, <2>1
    <3> HIDE DEF high, x, final
    <3>2. QED
      BY <1>1, <3>1
  <2>2. CASE a + 2 # Len(samples)
    <3>1. a + 2 \in 1..(Len(samples) - 1) /\ (a + 2) - 1 = a + 1
      <4> HIDE DEF a, samples
      <4> QED
        BY <1>3, <1>4, <1>5, <2>2
    <3>2. sample_exact(r, s, a + 2)
      <4> HIDE DEF a, samples
      <4> QED
        BY <1>4, <3>1
    <3>3. high + 1 < Len(r.superblocks) =>
            r.superblocks[(high + 1) + 1].counter[s] > ((a + 2) - 1) * S
      BY <3>2 DEF sample_exact
    <3>4. ((a + 2) - 1) * S = S * a + S
      <4> HIDE DEF a, S
      <4> QED
        BY <1>t, <1>3, <3>1
    <3> HIDE DEF high
    <3>5. high \in Nat /\ high <= final
      BY <1>6 DEF high
    <3>6. CASE high = final
      <4> HIDE DEF x, final
      <4> QED
        BY <1>1, <3>6
    <3>7. CASE high # final
      <4>1. high + 1 \in 0..final /\ high + 1 \in Nat /\ high + 1 < Len(r.superblocks)
        <5>1. Len(r.superblocks) = final + 1
          OBVIOUS
        <5> HIDE DEF final
        <5>2. QED
          BY <1>1, <3>5, <3>7, <5>1
      <4>2. C(high + 1) > S * a + S
        <5>1. r.superblocks[(high + 1) + 1].counter[s] = C(high + 1)
          <6> HIDE DEF C, final
          <6> QED
            BY <1>8, <4>1
        <5>2. QED
          BY <3>3, <3>4, <4>1, <5>1
      <4>3. S * a + S > c
        <5> DEFINE z == S * a
                   o == c % S
        <5>1. z \in Nat /\ c = z + o /\ o \in 0..(S - 1)
          BY <1>3
        <5> HIDE DEF z, o, c, S
        <5>2. z + S > c
          BY <1>t, <5>1
        <5>3. QED
          BY <5>2 DEF z
      <4>4. C(high + 1) \in Nat /\ (high + 1 <= x => C(high + 1) <= c)
        BY <1>7, <4>1
      <4> DEFINE z == S * a + S
      <4>5. z \in Nat /\ C(high + 1) > z /\ z > c
        <5>1. C(high + 1) > z /\ z > c
          BY <4>2, <4>3
        <5> DEFINE y == S * a
        <5>2. y \in Nat /\ z = y + S /\ S \in Nat
          BY <1>t, <1>3
        <5> HIDE DEF y
        <5>3. z \in Nat
          <6> HIDE DEF z, S
          <6> QED
            BY <5>2
        <5>4. QED
          BY <5>1, <5>3
      <4> HIDE DEF z, C, c, x
      <4>6. QED
        BY <1>1, <1>2, <3>5, <4>4, <4>5
    <3>8. QED
      BY <3>6, <3>7
  <2>3. QED
    BY <2>1, <2>2
<1>11. low \in 0..x /\ high \in x..final
  <2>1. low \in Nat /\ high \in Nat /\ high <= final
    BY <1>6
  <2> HIDE DEF low, high, x, final
  <2>2. QED
    BY <1>1, <1>9, <1>10, <2>1
<1>12. QED
  BY <1>5, <1>11

\* A level that from_dir accepts supports the queries on its digits.
LEMMA AcceptedSupports ==
  ASSUME NEW f, Shape(f), NEW b \in BlockSizes, from_dir(f, b)
  PROVE  LET n == f.position_bits \div 2
         IN /\ n \in Nat
            /\ ViewSupports(read_level(f, b), Digits(f), n, b)
            /\ \A p \in 0..(n - 1) : Digits(f)[p] \in Quads
<1> DEFINE n == f.position_bits \div 2
           r == read_level(f, b)
           v == Digits(f)
           size == superblock_size(b)
<1>1. /\ regions_fit(f) /\ superblock_count(r) /\ superblock_ranks_exact(r)
      /\ block_ranks_exact(r) /\ sentinel_exact(r) /\ child_offsets_exact(r)
      /\ samples_exact(r)
  BY DEF from_dir
<1>2. /\ r.b_size = b /\ r.len = n /\ r.data = f.data /\ r.superblocks = f.superblocks
      /\ r.select_samples = f.select_samples
  BY DEF read_level
<1>3. n \in Nat /\ Holds(f.data, v, n) /\ \A p \in 0..(n - 1) : v[p] \in Quads
  BY <1>1, AcceptedLength
<1>4. Holds(r.data, v, n)
  BY <1>2, <1>3
<1>5. \A s \in Quads : r.select_samples[s] \in Seq(Nat)
  BY <1>2 DEF Shape, StoredLevels
<1>6. r.superblocks \in Seq(Superblock)
  BY <1>2 DEF Shape, StoredLevels
<1> HIDE DEF r, v, n
<1>7. CountersHold(r, v, n, b) /\ Len(r.superblocks) = n \div size + 1
  BY <1>1, <1>2, <1>3, <1>4, AcceptedCounters
<1>8. \A s \in Quads : occs(r, s) = Count(v, s, n)
  <2> SUFFICES ASSUME NEW s \in Quads PROVE occs(r, s) = Count(v, s, n)
    OBVIOUS
  <2>1. n \in 0..n
    BY <1>3
  <2>2. totals(r, s, n) = Count(v, s, n)
    BY <1>3, <1>4, <2>1, TotalsAre
  <2>3. QED
    BY <1>1, <1>2, <2>2 DEF child_offsets_exact
<1>9. SamplesEnclose(r, v, n, b) /\ SamplesThere(r, v, n)
  BY <1>1, <1>2, <1>3, <1>5, <1>7, <1>8, AcceptedSamples
<1>10. \A k \in 0..(n \div size) : there(r, k)
  <2>1. DOMAIN r.superblocks = 1..Len(r.superblocks)
    BY <1>6, LenProperties
  <2>2. n \div size \in Nat
    BY <1>3, OpenedIs
  <2> DEFINE q == n \div size
  <2>3. DOMAIN r.superblocks = 1..(q + 1) /\ q \in Nat
    BY <1>7, <2>1, <2>2
  <2> HIDE DEF q
  <2>4. \A k \in 0..q : k + 1 \in DOMAIN r.superblocks
    BY <2>3
  <2>5. QED
    BY <2>4 DEF there, q
<1>11. ViewSupports(r, v, n, b)
  BY <1>2, <1>4, <1>7, <1>8, <1>9, <1>10 DEF ViewSupports, Supports
<1>12. QED
  BY <1>3, <1>11 DEF r, v, n

------------------------------------------------------------------------------
(* The queries of an open view.                                            *)

\* Access and rank.
LEMMA ViewRank ==
  ASSUME NEW v, NEW n \in Nat, NEW b \in BlockSizes, NEW r, ViewSupports(r, v, n, b),
         NEW p \in 0..n
  PROVE  /\ view_get(r, p) = IF p < n THEN v[p] ELSE None
         /\ \A s \in Quads : view_rank(r, s, p) = Count(v, s, p)
         /\ view_rank_all(r, p) = [s \in Quads |-> Count(v, s, p)]
<1> DEFINE size == superblock_size(b)
<1>1. /\ r.b_size = b /\ r.len = n /\ Holds(r.data, v, n) /\ Supports(r, v, n, b)
      /\ Len(r.superblocks) = n \div size + 1
  BY DEF ViewSupports, Supports
<1>2. view_get(r, p) = IF p < n THEN v[p] ELSE None
  <2>1. p < n => r.data[p] = v[p]
    BY <1>1 DEF Holds
  <2>2. QED
    BY <1>1, <2>1 DEF view_get
<1>3. ~(p \div size >= Len(r.superblocks))
  <2>1. size \in Nat \ {0} /\ p \in Nat /\ n \in Nat /\ p <= n
    BY SizesType
  <2> HIDE DEF size
  <2>2. p \div size \in 0..(n \div size)
    BY <2>1, DivMono
  <2>3. n \div size \in Nat
    BY <2>1, DivMod
  <2> DEFINE q == n \div size
             x == p \div size
  <2>4. x \in 0..q /\ q \in Nat /\ Len(r.superblocks) = q + 1
    BY <1>1, <2>2, <2>3
  <2> HIDE DEF q, x
  <2>5. ~(x >= Len(r.superblocks))
    BY <2>4
  <2>6. QED
    BY <2>5 DEF x
<1>4. ASSUME NEW s \in Quads
      PROVE  view_rank_block(r, s, p) + rank_intra_block(r, s, p) = Count(v, s, p)
  <2>1. view_rank_block(r, s, p) = rank_block(r, s, p)
    BY <1>1, <1>3 DEF view_rank_block
  <2>2. rank(r, s, p) = Count(v, s, p)
    BY <1>1, RankExact
  <2>3. rank(r, s, p) = rank_block(r, s, p) + rank_intra_block(r, s, p)
    <3>1. ~(p > r.len)
      BY <1>1
    <3>2. QED
      BY <3>1 DEF rank
  <2>4. QED
    BY <2>1, <2>2, <2>3
<1>5. \A s \in Quads : view_rank(r, s, p) = Count(v, s, p)
  <2>1. ~(p > r.len)
    BY <1>1
  <2>2. QED
    BY <1>4, <2>1 DEF view_rank
<1>6. view_rank_all(r, p) = [s \in Quads |-> Count(v, s, p)]
  BY <1>4 DEF view_rank_all
<1>7. QED
  BY <1>2, <1>5, <1>6

\* What select_block computes once its searches have ended.
LEMMA ViewSelectBlockIs ==
  ASSUME NEW r, NEW s, NEW k, NEW id,
         id = IF view_ahead(r, s, k) > 0 THEN view_ahead(r, s, k) - 1 ELSE 0,
         NEW block,
         block = block_predecessor(r.superblocks[id + 1], s, k - superblock_counter(r, s, id)),
         ~((k - 1) \div SELECT_NUM_SAMPLES + 2 > Len(r.select_samples[s])),
         ~(view_stride(r, s, k) < search_end(r, s, k) /\ ~there(r, view_stride(r, s, k))),
         ~(view_ahead(r, s, k) < search_end(r, s, k) /\ ~there(r, view_ahead(r, s, k))),
         there(r, id), ~(superblock_counter(r, s, id) > k)
  PROVE  view_select_block(r, s, k) =
           <<id * superblock_size(r.b_size) + block[1] * r.b_size,
             superblock_counter(r, s, id) + block[2]>>
BY DEF view_select_block

\* The strides and steps of an open view end at the superblock of the occurrence.
LEMMA ViewSearch ==
  ASSUME NEW v, NEW n \in Nat, NEW b \in BlockSizes, NEW r, ViewSupports(r, v, n, b),
         NEW s \in Quads, NEW p \in 0..(n - 1), v[p] = s
  PROVE  LET k == Count(v, s, p) + 1
             x == p \div superblock_size(b)
         IN /\ view_ahead(r, s, k) = x + 1
            /\ view_stride(r, s, k) \in Nat
<1> DEFINE size == superblock_size(b)
           x == p \div size
           c == Count(v, s, p)
           first == search_begin(r, s, c + 1)
           last == search_end(r, s, c + 1)
           step == isqrt(last - first) + 1
           counter(k) == superblock_counter(r, s, k)
           T == {k \in Nat : stops(r, s, c + 1, k)}
           stride == view_stride(r, s, c + 1)
           back == view_strided(r, s, c + 1)
           ahead == view_ahead(r, s, c + 1)
<1> SUFFICES ahead = x + 1 /\ stride \in Nat
  OBVIOUS
<1>s. \A k : stops(r, s, c + 1, k) <=> (k >= last \/ counter(k) >= c + 1)
  BY DEF stops
<1>0. /\ c \in Nat
      /\ x \in Nat /\ n \div size \in Nat /\ first \in Nat /\ last \in Nat /\ first < last
      /\ last <= n \div size + 1 /\ first <= x /\ x < last
      /\ \A k \in Nat : k <= x => counter(k) \in Nat /\ counter(k) <= c
      /\ \A k \in Nat : x < k /\ k < last => counter(k) \in Nat /\ counter(k) >= c + 1
  <2>1. Supports(r, v, n, b)
    BY DEF ViewSupports
  <2>2. QED
    BY <2>1, SearchBounds
<1>c. c \in Nat
  BY <1>0
<1>3. /\ x \in Nat /\ n \div size \in Nat /\ first \in Nat /\ last \in Nat /\ first < last
      /\ last <= n \div size + 1 /\ first <= x /\ x < last
  BY <1>0
<1>4. step \in Nat \ {0}
  <2>1. last - first \in Nat
    <3> HIDE DEF last, first
    <3> QED
      BY <1>3
  <2>2. isqrt(last - first) \in Nat
    <3> HIDE DEF last, first
    <3> QED
      BY <2>1, IsqrtType
  <2> QED
    BY <2>2
<1>6. \A k \in Nat : k <= x => counter(k) \in Nat /\ counter(k) <= c
  BY <1>0
<1>7. \A k \in Nat : x < k /\ k < last => counter(k) \in Nat /\ counter(k) >= c + 1
  BY <1>0
<1>8. first \notin T
  <2>1. counter(first) <= c /\ counter(first) \in Nat
    BY <1>3, <1>6
  <2> HIDE DEF first, last, counter, c
  <2>2. QED
    BY <2>1, <1>3, <1>c, <1>s
<1>9. \A k \in Nat : k >= last => k \in T
  BY <1>s
<1>10. \A k \in Nat : view_stops(r, s, c + 1, k) <=> k \in T
  <2> SUFFICES ASSUME NEW k \in Nat PROVE view_stops(r, s, c + 1, k) <=> k \in T
    OBVIOUS
  <2>1. CASE k < last
    <3>1. k \in 0..(n \div size)
      <4> DEFINE q == n \div size
      <4>1. q \in Nat /\ last <= q + 1 /\ last \in Nat
        BY <1>3
      <4> HIDE DEF q, last
      <4>2. k \in 0..q
        BY <2>1, <4>1
      <4>3. QED
        BY <4>2 DEF q
    <3>2. there(r, k)
      BY <3>1 DEF ViewSupports
    <3>3. QED
      BY <3>2 DEF view_stops
  <2>2. CASE k >= last
    BY <2>2, <1>9, <1>s DEF view_stops
  <2>3. QED
    <3> HIDE DEF last
    <3> QED
      BY <1>3, <2>1, <2>2
<1> DEFINE A == {k \in 0..last : first + k * step \in T}
           M == Min(A)
<1>11. stride = first + step * M
  <2>1. \A k \in 0..last : first + k * step \in Nat
    <3> HIDE DEF first, step, last
    <3>1. \A k \in 0..last : k * step \in Nat
      BY <1>4, <1>3
    <3>2. QED
      BY <3>1, <1>3
  <2>2. {k \in 0..last : view_stops(r, s, c + 1, first + k * step)} = A
    <3> HIDE DEF first, step, last, c, T
    <3> QED
      BY <2>1, <1>10
  <2>3. stride = first + step * Min({k \in 0..last : view_stops(r, s, c + 1, first + k * step)})
    BY DEF view_stride
  <2> HIDE DEF A
  <2>4. QED
    BY <2>2, <2>3
<1>12. M \in Nat
  <2>1. first + last * step \in T
    <3> HIDE DEF T, first, step, last
    <3>1. last * step \in Nat /\ last * 1 <= last * step
      <4>1. 1 <= step /\ 1 \in Nat /\ step \in Nat
        BY <1>4
      <4>2. QED
        BY <1>3, <4>1, MulMono
    <3> DEFINE z == last * step
    <3>2. z \in Nat /\ last <= z
      BY <1>3, <3>1
    <3> HIDE DEF z
    <3>3. first + z \in Nat /\ first + z >= last
      BY <1>3, <3>2
    <3>4. first + z \in T
      BY <1>9, <3>3
    <3>5. QED
      BY <3>4 DEF z
  <2>2. last \in A /\ A \in SUBSET Nat
    <3> HIDE DEF T, first, step, last
    <3> QED
      BY <1>3, <2>1
  <2> HIDE DEF A
  <2>3. A # {} /\ A \in SUBSET Nat
    BY <2>2
  <2>4. M \in A
    BY <2>3, MinNat
  <2>5. QED
    BY <2>2, <2>4
<1> DEFINE back2 == first + (M - 1) * step
           id2 == Min({k \in back2..(back2 + last) : k \in T}) - 1
<1>13. back2 \in Nat /\ id2 \in Nat /\ id2 \notin T /\ id2 + 1 \in T
  <2>1. T \in SUBSET Nat
    OBVIOUS
  <2> HIDE DEF T, first, step, last
  <2>2. QED
    BY <2>1, <1>3, <1>4, <1>8, <1>9, StridedSearch
<1>14. stride = back2 + step /\ stride \in Nat
  <2> HIDE DEF M, first, step, stride
  <2>1. step * M = (M - 1) * step + step /\ step * M \in Nat /\ (M - 1) * step \in Int
    BY <1>4, <1>12
  <2> DEFINE y == step * M
             z == (M - 1) * step
  <2>2. y \in Nat /\ z \in Int /\ y = z + step /\ stride = first + y /\ back2 = first + z
    BY <1>11, <2>1
  <2> HIDE DEF y, z, back2
  <2>3. QED
    BY <1>3, <1>4, <2>2
<1>15. back = back2
  <2>1. back = IF stride > step THEN stride - step ELSE 0
    BY DEF view_strided
  <2> HIDE DEF back, back2, stride, step
  <2>2. QED
    BY <1>4, <1>13, <1>14, <2>1
<1> DEFINE B == {k \in back2..(back2 + last) : k \in T}
<1>16. ahead = Min(B)
  <2>1. ahead = Min({k \in back..(back + last) : view_stops(r, s, c + 1, k)})
    BY DEF view_ahead
  <2>2. back2 \in Nat
    BY <1>13
  <2>3. \A k \in back2..(back2 + last) : k \in Nat
    <3> HIDE DEF back2, last
    <3> QED
      BY <1>3, <2>2
  <2>4. {k \in back2..(back2 + last) : view_stops(r, s, c + 1, k)} = B
    <3> HIDE DEF back2, last, T, c
    <3> QED
      BY <2>3, <1>10
  <2> HIDE DEF B, back, back2, last, ahead
  <2>5. QED
    BY <2>1, <2>4, <1>15
<1>17. id2 = x
  <2> DEFINE id == id2
  <2>0. id \in Nat /\ id \notin T /\ id + 1 \in T
    BY <1>13
  <2> HIDE DEF id, last, counter, c, x
  <2>1. id < last /\ ~(counter(id) >= c + 1) /\ (id + 1 >= last \/ counter(id + 1) >= c + 1)
    BY <2>0, <1>3, <1>s
  <2>2. ~(x < id)
    BY <2>1, <1>7, <2>0
  <2>3. ~(id < x)
    <3> SUFFICES ASSUME id < x PROVE FALSE
      OBVIOUS
    <3>1. id + 1 \in Nat /\ id + 1 <= x /\ ~(id + 1 >= last)
      BY <2>0, <1>3
    <3>2. counter(id + 1) \in Nat /\ counter(id + 1) <= c
      BY <3>1, <1>6
    <3>3. QED
      BY <2>1, <3>1, <3>2, <1>c
  <2>4. id = x
    BY <2>2, <2>3, <1>3, <2>0
  <2>5. QED
    BY <2>4 DEF id
<1>18. ahead = x + 1
  <2> DEFINE m == Min(B)
  <2>1. m - 1 = x /\ x \in Nat /\ ahead = m
    BY <1>16, <1>17, <1>3
  <2>2. m \in Int
    <3>1. B \in SUBSET Nat
      BY DEF B
    <3>2. B # {}
      <4>1. back2 \in Nat
        BY <1>13
      <4> HIDE DEF back2, last, T
      <4>2. back2 + last \in Nat /\ back2 + last >= last
            /\ back2 + last \in back2..(back2 + last)
        BY <1>3, <4>1
      <4>3. back2 + last \in T
        BY <1>9, <4>2
      <4>4. QED
        BY <4>2, <4>3
    <3> HIDE DEF B
    <3>3. m \in B
      BY <3>1, <3>2, MinNat
    <3> HIDE DEF m
    <3>4. QED
      BY <3>1, <3>3
  <2> HIDE DEF m, x, ahead
  <2>3. QED
    BY <2>1, <2>2
<1>19. QED
  BY <1>14, <1>18

\* The block an open view finds for an occurrence, and the rank at its beginning.
LEMMA ViewSelectBlock ==
  ASSUME NEW v, NEW n \in Nat, NEW b \in BlockSizes, NEW r, ViewSupports(r, v, n, b),
         NEW s \in Quads, NEW p \in 0..(n - 1), v[p] = s
  PROVE  LET x == p \div superblock_size(b)
             y == (p \div b) % BLOCKS_IN_SUPERBLOCK
         IN view_select_block(r, s, Count(v, s, p) + 1)
              = <<BlockStart(b, x, y), Count(v, s, BlockStart(b, x, y))>>
<1> DEFINE size == superblock_size(b)
           x == p \div size
           y == (p \div b) % BLOCKS_IN_SUPERBLOCK
           c == Count(v, s, p)
           k == c + 1
           at == BlockStart(b, x, y)
           from == Count(v, s, size * x)
           block == block_predecessor(r.superblocks[x + 1], s, k - superblock_counter(r, s, x))
<1> SUFFICES view_select_block(r, s, k) = <<at, Count(v, s, at)>>
  OBVIOUS
<1>1. Supports(r, v, n, b) /\ r.b_size = b
  BY DEF ViewSupports, Supports
<1>2. /\ c \in Nat /\ x \in Nat /\ n \div size \in Nat
      /\ search_end(r, s, k) \in Nat /\ search_end(r, s, k) <= n \div size + 1
      /\ x < search_end(r, s, k)
      /\ \A j \in Nat : j <= x => superblock_counter(r, s, j) \in Nat
                                    /\ superblock_counter(r, s, j) <= c
      /\ superblock_counter(r, s, x) = from
  BY <1>1, SearchBounds
<1>3. view_ahead(r, s, k) = x + 1 /\ view_stride(r, s, k) \in Nat
  BY ViewSearch
<1>4. \A j \in Nat : j < search_end(r, s, k) => there(r, j)
  <2> DEFINE q == n \div size
             last == search_end(r, s, k)
  <2>1. q \in Nat /\ last \in Nat /\ last <= q + 1 /\ \A j \in 0..q : there(r, j)
    BY <1>2 DEF ViewSupports
  <2> HIDE DEF q, last
  <2>2. \A j \in Nat : j < last => there(r, j)
    BY <2>1
  <2>3. QED
    BY <2>2 DEF last
<1>5. block = <<y, Count(v, s, at) - from>>
  <2>1. block = block_predecessor(r.superblocks[x + 1], s, (c + 1) - from)
    BY <1>2
  <2>2. QED
    BY <1>1, <2>1, BlockPredecessor
<1>6. block[1] = y /\ block[2] = Count(v, s, at) - from
  <2> HIDE DEF block, y
  <2> QED
    BY <1>5
<1>7. ~(superblock_counter(r, s, x) > k)
  <2>1. superblock_counter(r, s, x) \in Nat /\ superblock_counter(r, s, x) <= c
    <3>1. x <= x
      BY <1>2
    <3>2. QED
      BY <1>2, <3>1
  <2> HIDE DEF c
  <2>2. QED
    BY <1>2, <2>1
<1>8. ~((k - 1) \div SELECT_NUM_SAMPLES + 2 > Len(r.select_samples[s]))
  <2>1. k - 1 = c
    <3> HIDE DEF c
    <3> QED
      BY <1>2
  <2> DEFINE e == c \div SELECT_NUM_SAMPLES + 2
  <2>2. e \in 1..Len(r.select_samples[s])
    BY DEF ViewSupports, SamplesThere
  <2> HIDE DEF e
  <2>3. ~(e > Len(r.select_samples[s]))
    BY <2>2
  <2>4. QED
    BY <2>1, <2>3 DEF e
<1>9. there(r, x)
  BY <1>2, <1>4
<1>10. ~(view_stride(r, s, k) < search_end(r, s, k) /\ ~there(r, view_stride(r, s, k)))
  BY <1>3, <1>4
<1>11. ~(view_ahead(r, s, k) < search_end(r, s, k) /\ ~there(r, view_ahead(r, s, k)))
  <2>1. x + 1 \in Nat
    BY <1>2
  <2>2. QED
    BY <1>3, <1>4, <2>1
<1>12. x = IF view_ahead(r, s, k) > 0 THEN view_ahead(r, s, k) - 1 ELSE 0
  <2> HIDE DEF x
  <2> QED
    BY <1>2, <1>3
<1>13. view_select_block(r, s, k)
         = <<x * superblock_size(r.b_size) + block[1] * r.b_size,
             superblock_counter(r, s, x) + block[2]>>
  <2> HIDE DEF k, x
  <2> QED
    BY <1>7, <1>8, <1>9, <1>10, <1>11, <1>12, ViewSelectBlockIs
<1>14. x * superblock_size(r.b_size) + block[1] * r.b_size = at
  <2>1. y \in Nat /\ b \in Nat /\ size \in Nat
    <3>1. p \in Nat
      OBVIOUS
    <3>2. y \in 0..(BLOCKS_IN_SUPERBLOCK - 1)
      BY <3>1, BlockGrid
    <3> HIDE DEF y
    <3>3. QED
      BY <3>2, SizesType
  <2>2. x * size = size * x /\ y * b = b * y
    <3> HIDE DEF x, y, size
    <3> QED
      BY <1>2, <2>1
  <2>3. QED
    BY <1>1, <1>6, <2>2 DEF BlockStart
<1>15. superblock_counter(r, s, x) + block[2] = Count(v, s, at)
  <2>1. at \in Nat /\ size * x \in Nat
    <3>1. p \in Nat
      OBVIOUS
    <3>2. x \in Nat /\ y \in 0..(BLOCKS_IN_SUPERBLOCK - 1)
      BY <3>1, BlockGrid
    <3>3. QED
      BY <3>2, BlockStarts
  <2>2. Count(v, s, at) \in Nat /\ from \in Nat
    BY <2>1, CountType
  <2> HIDE DEF at, from, block, x
  <2>3. QED
    BY <1>2, <1>6, <2>2
<1>16. QED
  BY <1>13, <1>14, <1>15

\* Select finds the occurrence, or None if there are not so many.
LEMMA ViewSelect ==
  ASSUME NEW v, NEW n \in Nat, NEW b \in BlockSizes, NEW r, ViewSupports(r, v, n, b),
         NEW s \in Quads, NEW k \in Nat
  PROVE  view_select(r, s, k) = SelectIn(v, n, s, k)
<1>0. Supports(r, v, n, b) /\ r.len = n /\ r.b_size = b /\ Holds(r.data, v, n)
  BY DEF ViewSupports, Supports
<1>1. occs(r, s) = Count(v, s, n) /\ Count(v, s, n) \in Nat
  BY <1>0, CountType DEF Supports
<1>2. CASE Count(v, s, n) <= k
  <2>1. select(r, s, k) = None
    BY <1>1, <1>2 DEF select
  <2>2. select(r, s, k) = SelectIn(v, n, s, k)
    BY <1>0, SelectExact
  <2>3. view_select(r, s, k) = None
    BY <1>1, <1>2 DEF view_select
  <2>4. QED
    BY <2>1, <2>2, <2>3
<1>3. CASE k < Count(v, s, n)
  <2>1. PICK p \in 0..(n - 1) : v[p] = s /\ Count(v, s, p) = k
    BY <1>3, SelectedExists
  <2> DEFINE x == p \div superblock_size(b)
             y == (p \div b) % BLOCKS_IN_SUPERBLOCK
             at == BlockStart(b, x, y)
             m == Count(v, s, at)
  <2>t. p \in Nat /\ b \in Nat \ {0} /\ p < n
    BY SizesType
  <2>2. view_select_block(r, s, k + 1) = <<at, m>>
    BY <2>1, ViewSelectBlock
  <2>3. at \in 0..p /\ at % b = 0 /\ p - at < b /\ at \in Nat
    <3>1. x \in Nat /\ y \in 0..(BLOCKS_IN_SUPERBLOCK - 1) /\ p % b \in 0..(b - 1) /\ p = at + (p % b)
      BY <2>t, BlockGrid
    <3>2. at \in Nat /\ at % b = 0
      BY <3>1, BlockStarts
    <3> HIDE DEF at
    <3>3. QED
      BY <3>1, <3>2, <2>t
  <2>4. view_select_intra_block(r, s, (k - m) + 1, at) = p - at
    <3> DEFINE e == (k - m) + 1
               hit == word_hit(r, s, e, at)
    <3> HIDE DEF at
    <3>2. hit # {} /\ offset_in_block(r, s, e, at, Min(hit)) = p - at
      BY <1>0, <2>1, <2>3, SelectIntraBlock
    <3>3. QED
      BY <3>2 DEF view_select_intra_block
  <2>5. view_select(r, s, k) = p
    <3>1. at # None /\ p - at # None /\ at + (p - at) = p
      <4> HIDE DEF at
      <4> QED
        BY <2>3, <2>t DEF None
    <3>2. ~(occs(r, s) <= k)
      BY <1>1, <1>3
    <3>3. inside(r, p) = p
      BY <1>0, <2>t DEF inside
    <3>4. ~(k < m)
      <4> HIDE DEF at
      <4>1. Count(v, s, at) <= Count(v, s, p) /\ Count(v, s, at) \in Nat
        BY <2>3, <2>t, CountMono, CountType
      <4>2. QED
        BY <2>1, <4>1
    <3> HIDE DEF at, m
    <3>5. QED
      BY <2>2, <2>4, <3>1, <3>2, <3>3, <3>4 DEF view_select
  <2>6. Selected(v, n, s, k) = {p}
    BY <2>1, <2>t, SelectedUnique DEF Selected
  <2>7. Min({p}) = p
    BY <2>t DEF Min
  <2>8. SelectIn(v, n, s, k) = p
    BY <2>6, <2>7 DEF SelectIn
  <2>9. QED
    BY <2>5, <2>8
<1>4. QED
  BY <1>1, <1>2, <1>3

------------------------------------------------------------------------------
(* From one occurrence to a later one.                                     *)

\* The matches of a line from the first on: those of the part after the current
\* occurrence, or of the whole line.
Begin(next, l) == IF l = next \div LINE THEN next ELSE l * LINE

\* The matches of a line after the current occurrence, as a stretch of positions.
LEMMA LineMatches ==
  ASSUME NEW r, NEW s, NEW next \in Nat, NEW l \in Nat, next \div LINE <= l
  PROVE  /\ Begin(next, l) \in Nat /\ (l + 1) * LINE \in Nat
         /\ next <= Begin(next, l) /\ Begin(next, l) <= (l + 1) * LINE
         /\ l * LINE <= Begin(next, l)
         /\ line_matches(r, s, l, next) = Occurrences(r.data, s, Begin(next, l), (l + 1) * LINE)
<1> DEFINE first == next \div LINE
           lo == Begin(next, l)
           z == l * LINE
           y == first * LINE
<1>1. LINE \in Nat \ {0} /\ next \in Nat
  BY LineSize
<1>2. first \in Nat
  BY <1>1, DivMod
<1>l. first <= l
  OBVIOUS
<1>3. y \in Nat /\ next \in y..((y + LINE) - 1)
  BY <1>2, LinePositions
<1>4. z \in Nat /\ (l + 1) * LINE = z + LINE
  BY LinePositions
<1>5. first # l => y + LINE <= z
  <2> HIDE DEF first
  <2>1. first # l => first + 1 <= l
    BY <1>2, <1>l
  <2>2. first + 1 <= l => LINE * (first + 1) <= LINE * l
    BY <1>1, <1>2, MulMono
  <2>3. LINE * (first + 1) = y + LINE /\ LINE * l = z
    BY <1>1, <1>2
  <2>4. QED
    BY <2>1, <2>2, <2>3
<1>6. first = l => y = z
  BY <1>1
<1>7. lo = IF l = first THEN next ELSE z
  BY DEF Begin
<1> HIDE DEF y, z, lo, first
<1>8. lo \in Nat /\ next <= lo /\ lo <= z + LINE /\ z <= lo
  BY <1>1, <1>3, <1>4, <1>5, <1>6, <1>7
<1>9. \A q \in Int : (q \in z..((z + LINE) - 1) /\ q >= next) <=> q \in lo..((z + LINE) - 1)
  BY <1>1, <1>3, <1>4, <1>5, <1>6, <1>7
<1>10. line_matches(r, s, l, next)
         = {q \in z..((z + LINE) - 1) : q >= next /\ r.data[q] = s}
  BY <1>4 DEF line_matches, z
<1>11. Occurrences(r.data, s, lo, z + LINE) = {q \in lo..((z + LINE) - 1) : r.data[q] = s}
  BY DEF Occurrences
<1>12. \A q \in z..((z + LINE) - 1) : q \in Int
  OBVIOUS
<1>13. \A q \in lo..((z + LINE) - 1) : q \in Int
  OBVIOUS
<1>14. line_matches(r, s, l, next) = Occurrences(r.data, s, lo, z + LINE)
  BY <1>9, <1>10, <1>11, <1>12, <1>13
<1>15. z + LINE \in Nat
  BY <1>1, <1>4
<1>16. QED
  BY <1>4, <1>8, <1>14, <1>15 DEF lo, z

\* The matches passed at the end of a line, counted from the current occurrence.
LEMMA PassedIs ==
  ASSUME NEW r, r.len \in Nat, NEW s, NEW next \in Nat
  PROVE  \A l \in (next \div LINE - 1)..(r.len \div LINE + 1) :
           matches_passed(r, s, next)[l]
             = IF l < next \div LINE THEN 0
               ELSE Count(r.data, s, (l + 1) * LINE) - Count(r.data, s, next)
<1> DEFINE first == next \div LINE
           end == r.len \div LINE + 1
           D == (first - 1)..end
           C(p) == Count(r.data, s, p)
           closed(l) == IF l < first THEN 0 ELSE C((l + 1) * LINE) - C(next)
           step(f, l) == IF l < first THEN 0
                         ELSE f[l - 1] + Cardinality(line_matches(r, s, l, next))
           G(f) == [l \in D |-> step(f, l)]
           passed == CHOOSE f : f = G(f)
           F == [l \in D |-> closed(l)]
<1> SUFFICES \A l \in D : matches_passed(r, s, next)[l] = closed(l)
  OBVIOUS
<1>0. LINE \in Nat \ {0} /\ next \in Nat /\ first \in Nat /\ end \in Nat
  <2>1. LINE \in Nat \ {0} /\ next \in Nat
    BY LineSize
  <2>2. first \in Nat
    BY <2>1, DivMod
  <2>3. r.len \div LINE \in Nat
    BY <2>1, DivMod
  <2>4. QED
    BY <2>1, <2>2, <2>3
<1>1. matches_passed(r, s, next) = passed
  BY DEF matches_passed
<1>2. ASSUME NEW l \in D, ~(l < first)
      PROVE  closed(l) = closed(l - 1) + Cardinality(line_matches(r, s, l, next))
  <2> DEFINE lo == Begin(next, l)
             hi == (l + 1) * LINE
  <2>1. l \in Nat /\ first <= l /\ l - 1 \in Int
    <3> HIDE DEF first, end
    <3> QED
      BY <1>0, <1>2
  <2>2. /\ lo \in Nat /\ hi \in Nat /\ next <= lo /\ lo <= hi
        /\ line_matches(r, s, l, next) = Occurrences(r.data, s, lo, hi)
    BY <1>0, <2>1, LineMatches
  <2>3. C(hi) = C(lo) + Cardinality(Occurrences(r.data, s, lo, hi))
        /\ Cardinality(Occurrences(r.data, s, lo, hi)) \in 0..(hi - lo)
    <3> HIDE DEF lo, hi
    <3> QED
      BY <2>2, CountSplit
  <2>4. C(hi) \in Nat /\ C(lo) \in Nat /\ C(next) \in Nat
    <3> HIDE DEF lo, hi
    <3> QED
      BY <1>0, <2>2, CountType
  <2>5. closed(l) = C(hi) - C(next)
    BY <1>2
  <2>6. closed(l - 1) = C(lo) - C(next)
    <3>1. CASE l = first
      <4>1. l - 1 < first /\ lo = next
        BY <1>0, <2>1, <3>1 DEF Begin
      <4>2. closed(l - 1) = 0
        BY <4>1
      <4> HIDE DEF lo, closed
      <4>3. QED
        BY <2>4, <4>1, <4>2
    <3>2. CASE l # first
      <4>1. ~(l - 1 < first) /\ (l - 1) + 1 = l
        <5> HIDE DEF first
        <5> QED
          BY <1>0, <2>1, <3>2
      <4>2. lo = l * LINE
        BY <3>2 DEF Begin
      <4>3. closed(l - 1) = C(((l - 1) + 1) * LINE) - C(next)
        BY <4>1
      <4>4. QED
        BY <4>1, <4>2, <4>3
    <3>3. QED
      BY <3>1, <3>2
  <2> DEFINE e == Cardinality(Occurrences(r.data, s, lo, hi))
             a1 == C(hi)
             a2 == C(lo)
             a3 == C(next)
  <2>7. /\ a1 = a2 + e /\ e \in 0..(hi - lo) /\ a1 \in Nat /\ a2 \in Nat /\ a3 \in Nat
        /\ closed(l) = a1 - a3 /\ closed(l - 1) = a2 - a3
        /\ Cardinality(line_matches(r, s, l, next)) = e
    BY <2>2, <2>3, <2>4, <2>5, <2>6
  <2> HIDE DEF e, a1, a2, a3, closed, lo, hi
  <2>8. QED
    BY <2>7
<1> HIDE DEF closed
<1>3. \A l \in D : l < first => closed(l) = 0
  BY DEF closed
<1>4. F = G(F)
  <2>1. ASSUME NEW l \in D PROVE closed(l) = step(F, l)
    <3>1. CASE l < first
      BY <3>1, <1>3
    <3>2. CASE ~(l < first)
      <4>1. l - 1 \in D
        <5> HIDE DEF first, end
        <5> QED
          BY <1>0, <3>2
      <4>2. F[l - 1] = closed(l - 1)
        BY <4>1
      <4>3. step(F, l) = F[l - 1] + Cardinality(line_matches(r, s, l, next))
        BY <3>2
      <4>4. QED
        <5> HIDE DEF F, step, D, first
        <5> QED
          BY <3>2, <4>2, <4>3, <1>2
    <3>3. QED
      BY <3>1, <3>2
  <2> HIDE DEF step
  <2>2. QED
    BY <2>1
<1>5. passed = G(passed)
  <2> HIDE DEF F, G
  <2> QED
    BY <1>4
<1>6. \A l \in D : passed[l] = step(passed, l)
  <2> HIDE DEF passed, step
  <2> QED
    BY <1>5
<1> HIDE DEF passed, F, G
<1> DEFINE Bad == {m \in Nat : \E l \in D : l - (first - 1) = m /\ passed[l] # closed(l)}
<1>7. Bad = {}
  <2> SUFFICES ASSUME Bad # {} PROVE FALSE
    OBVIOUS
  <2>1. PICK m \in Bad : \A k \in Bad : m <= k
    BY LeastNat
  <2>2. PICK l \in D : l - (first - 1) = m /\ passed[l] # closed(l)
    BY <2>1
  <2>3. l \in Int /\ ~(l < first)
    <3>1. l \in Int
      BY <1>0
    <3>2. l < first => passed[l] = 0
      BY <1>6
    <3>3. QED
      BY <3>1, <3>2, <2>2, <1>3
  <2>4. l - 1 \in D /\ (l - 1) - (first - 1) = m - 1 /\ m - 1 \in Nat /\ m \in Nat
    <3>1. m \in Nat
      BY <2>1
    <3> HIDE DEF first, end
    <3>2. QED
      BY <1>0, <2>2, <2>3, <3>1
  <2>5. m - 1 \notin Bad
    <3> HIDE DEF Bad
    <3> QED
      BY <2>1, <2>4
  <2>6. passed[l - 1] = closed(l - 1)
    <3> HIDE DEF D
    <3> QED
      BY <2>4, <2>5
  <2>7. passed[l] = passed[l - 1] + Cardinality(line_matches(r, s, l, next))
    BY <2>3, <1>6
  <2>8. QED
    <3> HIDE DEF D, first
    <3> QED
      BY <2>2, <2>3, <2>6, <2>7, <1>2
<1>8. QED
  <2> SUFFICES ASSUME NEW l \in D PROVE passed[l] = closed(l)
    BY <1>1
  <2>1. l - (first - 1) \in Nat
    <3> HIDE DEF first, end
    <3> QED
      BY <1>0
  <2> HIDE DEF D
  <2>2. QED
    BY <1>7, <2>1

\* What the scan of the lines selects, if it stops: the occurrence that comes
\* after as many as asked for.
LEMMA SelectedAfterIs ==
  ASSUME NEW r, r.len \in Nat, NEW s, NEW next \in Nat, next <= r.len,
         NEW a \in Nat \ {0}, lines_reaching(r, s, next, a) # {}
  PROVE  LET q == selected_after(r, s, next, a)
         IN q \in Nat /\ r.data[q] = s
              /\ Count(r.data, s, q) = (Count(r.data, s, next) + a) - 1
<1> DEFINE lines == lines_reaching(r, s, next, a)
           first == next \div LINE
           end == r.len \div LINE
           L == Min(lines)
           C(p) == Count(r.data, s, p)
           passed == matches_passed(r, s, next)
           lo == Begin(next, L)
           hi == (L + 1) * LINE
           M == line_matches(r, s, L, next)
           ahead(p) == Cardinality({q \in M : q <= p})
           q == selected_after(r, s, next, a)
<1>0. LINE \in Nat \ {0} /\ next \in Nat /\ first \in Nat /\ end \in Nat
  <2>1. LINE \in Nat \ {0} /\ next \in Nat
    BY LineSize
  <2>2. first \in Nat
    BY <2>1, DivMod
  <2>3. end \in Nat
    BY <2>1, DivMod
  <2>4. QED
    BY <2>1, <2>2, <2>3
<1>1. lines = {l \in first..end : l * LINE < r.len /\ passed[l] >= a}
  BY DEF lines_reaching
<1>2. lines \in SUBSET Nat
  <2>1. \A l \in first..end : l \in Nat
    <3> HIDE DEF first, end
    <3> QED
      BY <1>0
  <2>2. QED
    BY <1>1, <2>1
<1>3. L \in lines /\ \A l \in lines : L <= l
  <2> HIDE DEF lines
  <2>1. lines # {}
    BY DEF lines
  <2>2. QED
    BY <1>2, <2>1, MinNat
<1>4. L \in Nat /\ L \in first..end /\ first <= L /\ passed[L] >= a /\ L * LINE < r.len
  <2>1. L \in first..end /\ passed[L] >= a /\ L * LINE < r.len /\ L \in Nat
    <3> HIDE DEF L, passed, first, end
    <3> QED
      BY <1>1, <1>2, <1>3
  <2> HIDE DEF L, first, end
  <2>2. QED
    BY <1>0, <2>1
<1>5. /\ lo \in Nat /\ hi \in Nat /\ next <= lo /\ lo <= hi /\ L * LINE <= lo
      /\ M = Occurrences(r.data, s, lo, hi)
  <2> HIDE DEF L
  <2> QED
    BY <1>0, <1>4, LineMatches
<1>6. C(lo) \in Nat /\ C(hi) \in Nat /\ C(next) \in Nat
  <2> HIDE DEF lo, hi
  <2> QED
    BY <1>0, <1>5, CountType
<1>7. \A l \in (first - 1)..(end + 1) :
        passed[l] = IF l < first THEN 0 ELSE C((l + 1) * LINE) - C(next)
  BY PassedIs
<1>8. passed[L] = C(hi) - C(next)
  <2>1. L \in (first - 1)..(end + 1) /\ ~(L < first)
    <3> HIDE DEF L, first, end
    <3> QED
      BY <1>0, <1>4
  <2> HIDE DEF passed, first, end
  <2>2. QED
    BY <1>7, <2>1
<1>9. passed[L - 1] = C(lo) - C(next) /\ C(lo) - C(next) < a
  <2>1. CASE L = first
    <3>1. L - 1 \in (first - 1)..(end + 1) /\ L - 1 < first
      <4> HIDE DEF L, first, end
      <4> QED
        BY <1>0, <1>4, <2>1
    <3>2. passed[L - 1] = 0
      <4> HIDE DEF passed, first, end
      <4> QED
        BY <1>7, <3>1
    <3>3. lo = next
      BY <2>1 DEF Begin
    <3> HIDE DEF lo, passed, C
    <3>4. QED
      BY <1>6, <3>2, <3>3
  <2>2. CASE L # first
    <3> DEFINE k == L - 1
    <3>1. k \in first..end /\ k \in (first - 1)..(end + 1) /\ ~(k < first) /\ k + 1 = L
          /\ k \in Nat /\ k < L
      <4> HIDE DEF L, first, end
      <4> QED
        BY <1>0, <1>4, <2>2
    <3>2. passed[k] = C((k + 1) * LINE) - C(next)
      <4> HIDE DEF passed, first, end, k
      <4> QED
        BY <1>7, <3>1
    <3>3. lo = L * LINE
      BY <2>2 DEF Begin
    <3>4. passed[k] = C(lo) - C(next)
      <4> HIDE DEF k, lo, passed, L
      <4> QED
        BY <3>1, <3>2, <3>3
    <3>5. k * LINE < r.len
      <4> HIDE DEF k, L
      <4>1. LINE * k <= LINE * L
        <5>1. k <= L
          BY <1>4, <3>1
        <5>2. QED
          BY <1>0, <1>4, <3>1, <5>1, MulMono
      <4>2. LINE * k = k * LINE /\ LINE * L = L * LINE /\ k * LINE \in Nat /\ L * LINE \in Nat
        BY <1>0, <1>4, <3>1
      <4>3. QED
        BY <1>4, <4>1, <4>2
    <3>6. k \notin lines
      <4>1. L \in Nat /\ (k \in lines => L <= k)
        BY <1>3, <1>4
      <4> HIDE DEF lines, L, k
      <4>2. QED
        BY <3>1, <4>1
    <3>7. ~(passed[k] >= a)
      <4> HIDE DEF k, passed, first, end
      <4> QED
        BY <1>1, <3>1, <3>5, <3>6
    <3> DEFINE d == C(lo) - C(next)
    <3>8. d \in Int
      <4> HIDE DEF lo
      <4> QED
        BY <1>6
    <3> HIDE DEF d, passed
    <3>9. d < a
      BY <3>4, <3>7, <3>8 DEF d
    <3>10. QED
      BY <3>4, <3>9 DEF d
  <2>3. QED
    BY <2>1, <2>2
\* An occurrence in the line is selected exactly if so many come before it.
<1>10. ASSUME NEW p \in M
       PROVE  /\ p \in Nat /\ r.data[p] = s /\ p < hi
              /\ ahead(p) = a - passed[L - 1] <=> C(p) = (C(next) + a) - 1
  <2>1. p \in lo..(hi - 1) /\ r.data[p] = s
    <3> HIDE DEF lo, hi, M
    <3> QED
      BY <1>5, <1>10 DEF Occurrences
  <2>2. p \in Nat /\ lo <= p /\ p < hi /\ p + 1 \in Nat /\ lo <= p + 1
    <3> HIDE DEF lo, hi
    <3> QED
      BY <1>5, <2>1
  <2>3. {z \in M : z <= p} = Occurrences(r.data, s, lo, p + 1)
    <3>1. \A z \in Int : (z \in lo..(hi - 1) /\ z <= p) <=> z \in lo..((p + 1) - 1)
      <4> HIDE DEF lo, hi
      <4> QED
        BY <1>5, <2>2
    <3>2. (\A z \in lo..(hi - 1) : z \in Int) /\ (\A z \in lo..((p + 1) - 1) : z \in Int)
      OBVIOUS
    <3> HIDE DEF lo, hi, M
    <3>3. QED
      BY <1>5, <3>1, <3>2 DEF Occurrences
  <2>4. C(p + 1) = C(lo) + Cardinality(Occurrences(r.data, s, lo, p + 1))
        /\ Cardinality(Occurrences(r.data, s, lo, p + 1)) \in 0..((p + 1) - lo)
    <3> HIDE DEF lo
    <3> QED
      BY <1>5, <2>2, CountSplit
  <2>5. C(p + 1) = C(p) + 1 /\ C(p) \in Nat
    BY <2>1, <2>2, CountStep, CountType
  <2> DEFINE e == Cardinality(Occurrences(r.data, s, lo, p + 1))
             cp == C(p)
             cl == C(lo)
             cn == C(next)
  <2>6. /\ ahead(p) = e /\ e \in Int /\ cp + 1 = cl + e
        /\ cp \in Nat /\ cl \in Nat /\ cn \in Nat /\ passed[L - 1] = cl - cn
    <3>1. e \in Int
      <4> DEFINE w == (p + 1) - lo
      <4>1. e \in 0..w
        BY <2>4
      <4> HIDE DEF w, e
      <4>2. QED
        BY <4>1
    <3>2. QED
      BY <1>6, <1>9, <2>3, <2>4, <2>5, <3>1
  <2> HIDE DEF e, cp, cl, cn, ahead, passed
  <2>7. ahead(p) = a - passed[L - 1] <=> cp = (cn + a) - 1
    BY <2>6
  <2>8. QED
    BY <2>1, <2>2, <2>7 DEF cp, cn
<1>11. \E p \in M : ahead(p) = a - passed[L - 1]
  <2> DEFINE k == (C(next) + a) - 1
  <2>1. k \in Nat /\ k < C(hi) /\ C(lo) <= k
    <3> DEFINE cl == C(lo)
               ch == C(hi)
               cn == C(next)
    <3>1. /\ cl \in Nat /\ ch \in Nat /\ cn \in Nat /\ cl - cn < a /\ ch - cn >= a
          /\ k = (cn + a) - 1
      BY <1>4, <1>6, <1>8, <1>9
    <3> HIDE DEF cl, ch, cn, k
    <3>2. k \in Nat /\ k < ch /\ cl <= k
      BY <3>1
    <3>3. QED
      BY <3>2 DEF cl, ch
  <2> HIDE DEF k
  <2>2. PICK p \in 0..(hi - 1) : r.data[p] = s /\ C(p) = k
    <3> HIDE DEF hi
    <3> QED
      BY <1>5, <2>1, SelectedExists
  <2>3. p \in Nat /\ p < hi
    <3> HIDE DEF hi
    <3> QED
      BY <1>5
  <2>4. lo <= p
    <3> SUFFICES ASSUME ~(lo <= p) PROVE FALSE
      OBVIOUS
    <3>1. p + 1 \in Nat /\ p + 1 <= lo
      <4> HIDE DEF lo
      <4> QED
        BY <1>5, <2>3
    <3>2. C(p + 1) = C(p) + 1 /\ C(p + 1) <= C(lo)
      <4> HIDE DEF lo
      <4> QED
        BY <1>5, <2>2, <2>3, <3>1, CountStep, CountMono
    <3> DEFINE cl == C(lo)
    <3>3. C(p) = k /\ cl \in Nat /\ cl <= k /\ C(p + 1) = k + 1 /\ C(p + 1) <= cl
      BY <1>6, <2>1, <2>2, <3>2
    <3> HIDE DEF cl, C
    <3>4. QED
      BY <2>1, <3>3
  <2>5. p \in M
    <3>1. p \in lo..(hi - 1)
      <4> HIDE DEF lo, hi
      <4> QED
        BY <1>5, <2>3, <2>4
    <3> HIDE DEF lo, hi, M
    <3>2. QED
      BY <1>5, <2>2, <3>1 DEF Occurrences
  <2>6. ahead(p) = a - passed[L - 1]
    <3> HIDE DEF M, ahead, passed, C
    <3> QED
      BY <1>10, <2>2, <2>5 DEF k
  <2>7. QED
    BY <2>5, <2>6
<1>12. q = CHOOSE p \in M : ahead(p) = a - passed[L - 1]
  BY DEF selected_after
<1>13. q \in M /\ ahead(q) = a - passed[L - 1]
  <2> HIDE DEF M, ahead, passed, q
  <2> QED
    BY <1>11, <1>12
<1>14. QED
  <2> HIDE DEF M, ahead, passed, q, C
  <2>1. q \in Nat /\ r.data[q] = s /\ C(q) = (C(next) + a) - 1
    BY <1>10, <1>13
  <2>2. QED
    BY <2>1 DEF C, q

\* An occurrence that is there makes the scan stop.
LEMMA ReachingExists ==
  ASSUME NEW r, r.len \in Nat, NEW s, NEW next \in Nat, NEW a \in Nat \ {0},
         NEW t \in Nat, next <= t, t < r.len, r.data[t] = s,
         Count(r.data, s, t) = (Count(r.data, s, next) + a) - 1
  PROVE  lines_reaching(r, s, next, a) # {}
<1> DEFINE first == next \div LINE
           end == r.len \div LINE
           L == t \div LINE
           C(p) == Count(r.data, s, p)
           passed == matches_passed(r, s, next)
           hi == (L + 1) * LINE
<1>0. LINE \in Nat \ {0} /\ next \in Nat /\ t \in Nat /\ t <= r.len
  BY LineSize
<1>1. L \in first..end /\ first \in Nat /\ end \in Nat /\ L \in Nat
  <2>1. first \in 0..L
    BY <1>0, DivMono
  <2>2. L \in 0..end
    BY <1>0, DivMono
  <2>3. L \in Nat
    BY <1>0, DivMod
  <2>4. end \in Nat
    BY <1>0, DivMod
  <2>5. first \in Nat
    BY <1>0, DivMod
  <2> HIDE DEF L, first, end
  <2>6. QED
    BY <2>1, <2>2, <2>3, <2>4, <2>5
<1>2. /\ L * LINE \in Nat /\ hi = L * LINE + LINE /\ t \in (L * LINE)..((L * LINE + LINE) - 1)
  BY <1>1, LinePositions
<1>3. L * LINE < r.len /\ t + 1 <= hi /\ hi \in Nat /\ t + 1 \in Nat
  <2> DEFINE z == L * LINE
  <2>1. z \in Nat /\ hi = z + LINE /\ t \in z..((z + LINE) - 1)
    BY <1>2
  <2> HIDE DEF z, hi
  <2>2. z < r.len /\ t + 1 <= hi /\ hi \in Nat /\ t + 1 \in Nat
    BY <1>0, <2>1
  <2>3. QED
    BY <2>2 DEF z
<1>4. passed[L] = C(hi) - C(next)
  <2>1. L \in (first - 1)..(end + 1) /\ ~(L < first)
    <3> HIDE DEF L, first, end
    <3> QED
      BY <1>1
  <2>2. \A l \in (first - 1)..(end + 1) :
          passed[l] = IF l < first THEN 0 ELSE C((l + 1) * LINE) - C(next)
    BY PassedIs
  <2> HIDE DEF passed, first, end
  <2>3. QED
    BY <2>1, <2>2
<1>5. C(t + 1) = C(t) + 1 /\ C(t + 1) <= C(hi) /\ C(hi) \in Nat /\ C(next) \in Nat /\ C(t) \in Nat
  <2> HIDE DEF hi
  <2> QED
    BY <1>0, <1>3, CountStep, CountMono, CountType
<1>6. passed[L] >= a
  <2> DEFINE ch == C(hi)
             cn == C(next)
             ct == C(t)
  <2>1. /\ ch \in Nat /\ cn \in Nat /\ ct \in Nat /\ ct = (cn + a) - 1 /\ ct + 1 <= ch
        /\ passed[L] = ch - cn
    BY <1>4, <1>5
  <2> HIDE DEF ch, cn, ct, passed
  <2>2. QED
    BY <2>1
<1>7. L \in lines_reaching(r, s, next, a)
  <2> HIDE DEF L
  <2> QED
    BY <1>1, <1>3, <1>6 DEF lines_reaching
<1>8. QED
  BY <1>7

\* select_after is select, counted from the occurrence it starts at.
LEMMA SelectAfter ==
  ASSUME NEW v, NEW n \in Nat, NEW r, r.len = n, Holds(r.data, v, n),
         NEW p \in 0..(n - 1), v[p] \in Quads, NEW a \in Nat \ {0}
  PROVE  select_after(r, v[p], p, a) = SelectIn(v, n, v[p], Count(v, v[p], p) + a)
<1> DEFINE s == v[p]
           c == Count(v, s, p)
           next == p + 1
           lines == lines_reaching(r, s, next, a)
           q == selected_after(r, s, next, a)
           after == select_after(r, s, p, a)
<1>1. p \in Nat /\ p < n /\ next \in Nat /\ next <= n /\ p \in 0..n /\ next \in 0..n
  OBVIOUS
<1>2. c \in Nat /\ Count(v, s, next) = c + 1 /\ Count(r.data, s, next) = c + 1
  <2>1. c \in Nat /\ Count(v, s, next) = c + 1
    BY <1>1, CountStep, CountType
  <2>2. Count(r.data, s, next) = Count(v, s, next)
    <3> HIDE DEF s, next
    <3> QED
      BY <1>1, DataCount
  <2>3. QED
    BY <2>1, <2>2
<1> DEFINE k == c + a
<1>3. k \in Nat /\ k = (Count(r.data, s, next) + a) - 1 /\ c < k
  <2> DEFINE cn == Count(r.data, s, next)
  <2>1. cn = c + 1 /\ c \in Nat
    BY <1>2
  <2> HIDE DEF cn, c
  <2>2. k \in Nat /\ k = (cn + a) - 1 /\ c < k
    BY <2>1
  <2>3. QED
    BY <2>2 DEF cn
<1>4. after = IF next >= n \/ lines = {} THEN None ELSE IF q < n THEN q ELSE None
  <2>1. ~(s \notin Quads \/ p >= r.len \/ a = 0)
    BY <1>1
  <2> HIDE DEF s
  <2>2. QED
    BY <2>1 DEF select_after, inside
<1>5. lines # {} => q \in Nat /\ r.data[q] = s /\ Count(r.data, s, q) = k
  <2> HIDE DEF s, next, k
  <2> QED
    BY <1>1, <1>3, SelectedAfterIs
<1>6. CASE \E t \in 0..(n - 1) : v[t] = s /\ Count(v, s, t) = k
  <2>1. PICK t \in 0..(n - 1) : v[t] = s /\ Count(v, s, t) = k
    BY <1>6
  <2>2. t \in Nat /\ t < n /\ t \in 0..n
    OBVIOUS
  <2>3. next <= t
    <3> SUFFICES ASSUME ~(next <= t) PROVE FALSE
      OBVIOUS
    <3>1. t <= p
      BY <1>1, <2>2
    <3>2. Count(v, s, t) <= c /\ Count(v, s, t) \in Nat
      BY <1>1, <2>2, <3>1, CountMono, CountType
    <3> HIDE DEF c, k
    <3>3. QED
      BY <1>2, <1>3, <2>1, <3>2
  <2>4. r.data[t] = s /\ Count(r.data, s, t) = k
    <3>1. r.data[t] = s
      BY <2>1 DEF Holds
    <3> HIDE DEF s, k
    <3>2. Count(r.data, s, t) = Count(v, s, t)
      BY <2>2, DataCount
    <3>3. QED
      BY <2>1, <3>1, <3>2
  <2>5. lines # {}
    <3> HIDE DEF s, next, k
    <3> QED
      BY <1>1, <1>3, <2>2, <2>3, <2>4, ReachingExists
  <2>6. q = t
    <3> HIDE DEF s, k, q, lines
    <3> QED
      BY <1>5, <2>2, <2>4, <2>5, SelectedUnique
  <2>7. after = t
    <3>1. ~(next >= n)
      BY <1>1, <2>2, <2>3
    <3> HIDE DEF after, q, lines, next
    <3>2. QED
      BY <1>4, <2>2, <2>5, <2>6, <3>1
  <2>8. Selected(v, n, s, k) = {t}
    <3> HIDE DEF s, k
    <3> QED
      BY <2>1, <2>2, SelectedUnique DEF Selected
  <2>9. Min({t}) = t
    BY <2>2 DEF Min
  <2>10. SelectIn(v, n, s, k) = t
    <3> HIDE DEF s, k
    <3> QED
      BY <2>8, <2>9 DEF SelectIn
  <2>11. QED
    BY <2>7, <2>10
<1>7. CASE ~(\E t \in 0..(n - 1) : v[t] = s /\ Count(v, s, t) = k)
  <2>1. SelectIn(v, n, s, k) = None
    <3>1. Selected(v, n, s, k) = {}
      BY <1>7 DEF Selected
    <3> HIDE DEF s, k
    <3>2. QED
      BY <3>1 DEF SelectIn
  <2>2. after = None
    <3> SUFFICES ASSUME lines # {}, q < n PROVE FALSE
      <4> HIDE DEF after, q, lines, next
      <4> QED
        BY <1>4
    <3>1. q \in Nat /\ r.data[q] = s /\ Count(r.data, s, q) = k
      BY <1>5
    <3> HIDE DEF q, s, k, lines
    <3>2. q \in 0..(n - 1) /\ q \in 0..n
      BY <3>1
    <3>3. v[q] = s /\ Count(v, s, q) = k
      <4>1. r.data[q] = v[q]
        BY <3>2 DEF Holds
      <4>2. Count(r.data, s, q) = Count(v, s, q)
        BY <3>2, DataCount
      <4>3. QED
        BY <3>1, <4>1, <4>2
    <3>4. QED
      BY <1>7, <3>2, <3>3
  <2>3. QED
    BY <2>1, <2>2
<1>8. QED
  BY <1>6, <1>7

------------------------------------------------------------------------------
(* What is built is accepted.                                              *)

\* The samples of a symbol that occurs, one by one.
LEMMA SamplesAre ==
  ASSUME NEW v, NEW n \in Nat, NEW b \in BlockSizes, NEW s, Count(v, s, n) # 0
  PROVE  LET m == Count(v, s, n)
             samples == SelectSamplesOf(v, n, b, s)
             count == (m - 1) \div SELECT_NUM_SAMPLES + 1
             size == superblock_size(b)
         IN /\ samples \in Seq(Nat) /\ count \in Nat \ {0} /\ Len(samples) = count + 1
            /\ samples[count + 1] = n \div size
            /\ \A k \in 1..count : \E p \in 0..(n - 1) :
                 /\ v[p] = s /\ Count(v, s, p) = (k - 1) * SELECT_NUM_SAMPLES
                 /\ samples[k] = p \div size
<1> DEFINE S == SELECT_NUM_SAMPLES
           size == superblock_size(b)
           m == Count(v, s, n)
           q == (m - 1) \div S
           count == q + 1
           pick(k) == CHOOSE p \in Selected(v, n, s, (k - 1) * S) : TRUE
           listed == [k \in 1..count |-> pick(k) \div size]
           samples == SelectSamplesOf(v, n, b, s)
<1>t. S \in Nat \ {0} /\ size \in Nat \ {0}
  BY SizesType
<1>1. m \in Nat /\ m - 1 \in Nat /\ m # 0
  <2>1. m \in Nat /\ m # 0
    BY CountType
  <2> HIDE DEF m
  <2>2. QED
    BY <2>1
<1>2. q \in Nat /\ m - 1 = S * q + ((m - 1) % S) /\ (m - 1) % S \in 0..(S - 1) /\ S * q \in Nat
  <2> DEFINE e == m - 1
  <2>0. e \in Nat /\ S \in Nat \ {0}
    BY <1>1, <1>t
  <2> HIDE DEF e, S
  <2>1. e \div S \in Nat /\ e = S * (e \div S) + (e % S) /\ e % S \in 0..(S - 1)
    BY <2>0, DivMod
  <2> DEFINE d == e \div S
  <2>2. S * d \in Nat
    <3>1. S \in Nat /\ d \in Nat
      BY <2>0, <2>1
    <3> HIDE DEF d
    <3>2. QED
      BY <3>1
  <2>3. QED
    BY <2>1, <2>2 DEF e
<1>3. (m + S - 1) \div S = count
  <2> DEFINE e == m - 1
  <2>1. e \in Nat /\ S \in Nat \ {0} /\ e + S = m + S - 1
    <3> HIDE DEF m, S
    <3> QED
      BY <1>t, <1>1
  <2> HIDE DEF e, S
  <2>2. (e + S) \div S = e \div S + 1
    BY <2>1, CeilDiv
  <2>3. QED
    BY <2>1, <2>2 DEF e
<1>4. samples = listed \o <<n \div size>>
  <2>1. samples = (IF m = 0 THEN <<0>> ELSE [k \in 1..((m + S - 1) \div S) |-> pick(k) \div size])
                    \o <<n \div size>>
    BY DEF SelectSamplesOf
  <2> DEFINE old == (m + S - 1) \div S
  <2>2. old = count
    BY <1>3
  <2>3. samples = (IF m = 0 THEN <<0>> ELSE [k \in 1..old |-> pick(k) \div size])
                    \o <<n \div size>>
    BY <2>1
  <2> HIDE DEF old, m, samples, size, pick, count
  <2>4. QED
    BY <1>1, <2>2, <2>3, Zenon
<1>5. ASSUME NEW k \in 1..count
      PROVE  /\ pick(k) \in 0..(n - 1) /\ v[pick(k)] = s
             /\ Count(v, s, pick(k)) = (k - 1) * S
  <2>1. k - 1 \in Nat /\ k - 1 <= q
    <3> HIDE DEF q
    <3> QED
      BY <1>2
  <2>2. (k - 1) * S \in Nat /\ (k - 1) * S < m
    <3> DEFINE j == k - 1
    <3>1. j \in Nat /\ j <= q /\ q \in Nat /\ S \in Nat
      BY <1>t, <1>2, <2>1
    <3>2. S * j <= S * q
      <4> HIDE DEF j, q, S
      <4> QED
        BY <3>1, MulMono
    <3>3. j * S = S * j /\ S * j \in Nat
      <4> HIDE DEF j, S
      <4> QED
        BY <3>1
    <3> DEFINE z == S * q
               y == S * j
               o == (m - 1) % S
    <3>4. y <= z /\ z \in Nat /\ y \in Nat /\ m - 1 = z + o /\ o \in 0..(S - 1) /\ m \in Nat
      BY <1>1, <1>2, <3>2, <3>3
    <3> HIDE DEF z, y, o, m, S
    <3>5. y < m
      BY <3>1, <3>4
    <3>6. QED
      BY <3>3, <3>4, <3>5 DEF y
  <2>3. Selected(v, n, s, (k - 1) * S) # {}
    <3> DEFINE c == (k - 1) * S
    <3>1. c \in Nat /\ c < m
      BY <2>2
    <3> HIDE DEF c
    <3>2. \E p \in 0..(n - 1) : v[p] = s /\ Count(v, s, p) = c
      BY <3>1, SelectedExists
    <3>3. QED
      BY <3>2 DEF Selected, c
  <2>4. pick(k) \in Selected(v, n, s, (k - 1) * S)
    BY <2>3
  <2> HIDE DEF pick
  <2>5. QED
    BY <2>4 DEF Selected
<1>6. n \div size \in Nat
  BY OpenedIs
<1>7. count \in Nat \ {0}
  <2> HIDE DEF q
  <2> QED
    BY <1>2
<1>8. \A k \in 1..count : listed[k] = pick(k) \div size /\ pick(k) \div size \in Nat
  <2> SUFFICES ASSUME NEW k \in 1..count
               PROVE  listed[k] = pick(k) \div size /\ pick(k) \div size \in Nat
    OBVIOUS
  <2>1. pick(k) \in Nat /\ size \in Nat \ {0}
    BY <1>5, <1>t
  <2> HIDE DEF pick, size, count
  <2>2. pick(k) \div size \in Nat
    BY <2>1, DivMod
  <2>3. QED
    BY <2>2
<1>9. listed \in Seq(Nat) /\ Len(listed) = count
  <2>1. \A k \in 1..count : pick(k) \div size \in Nat
    BY <1>8
  <2> HIDE DEF count, pick
  <2>2. QED
    BY <1>7, <2>1
<1> HIDE DEF listed, count
<1> DEFINE tail == <<n \div size>>
<1>10. tail \in Seq(Nat) /\ samples = listed \o tail /\ Len(tail) = 1
  BY <1>4, <1>6
<1>11. samples \in Seq(Nat) /\ Len(samples) = count + 1
       /\ \A k \in 1..count : samples[k] = listed[k]
  <2> HIDE DEF tail, samples
  <2>1. /\ samples \in Seq(Nat) /\ Len(samples) = Len(listed) + Len(tail)
        /\ \A k \in 1..(Len(listed) + Len(tail)) :
             samples[k] = IF k <= Len(listed) THEN listed[k] ELSE tail[k - Len(listed)]
    BY <1>9, <1>10, ConcatProperties
  <2>2. QED
    BY <1>7, <1>9, <1>10, <2>1
<1>12. samples[count + 1] = n \div size
  <2> HIDE DEF samples, size
  <2> QED
    BY <1>4, <1>6, <1>9, ConcatLast
<1>13. ASSUME NEW k \in 1..count
       PROVE  \E p \in 0..(n - 1) : /\ v[p] = s /\ Count(v, s, p) = (k - 1) * S
                                    /\ samples[k] = p \div size
  <2>1. samples[k] = pick(k) \div size
    BY <1>8, <1>11
  <2> HIDE DEF pick, samples
  <2>2. QED
    BY <1>5, <2>1
<1>14. QED
  BY <1>7, <1>11, <1>12, <1>13 DEF count

\* Without an occurrence there are two samples, zero and the last superblock.
LEMMA SamplesOfNone ==
  ASSUME NEW v, NEW n \in Nat, NEW b \in BlockSizes, NEW s, Count(v, s, n) = 0
  PROVE  LET samples == SelectSamplesOf(v, n, b, s)
         IN /\ samples \in Seq(Nat) /\ Len(samples) = 2
            /\ samples[1] = 0 /\ samples[2] = n \div superblock_size(b)
<1> DEFINE size == superblock_size(b)
           samples == SelectSamplesOf(v, n, b, s)
           listed == [k \in 1..((Count(v, s, n) + SELECT_NUM_SAMPLES - 1) \div SELECT_NUM_SAMPLES)
                        |-> (CHOOSE p \in Selected(v, n, s, (k - 1) * SELECT_NUM_SAMPLES) : TRUE)
                              \div size]
           first == <<0>>
           tail == <<n \div size>>
<1>1. samples = (IF Count(v, s, n) = 0 THEN first ELSE listed) \o tail
  BY DEF SelectSamplesOf
<1>2. n \div size \in Nat
  BY OpenedIs
<1>3. /\ first \in Seq(Nat) /\ Len(first) = 1 /\ first[1] = 0
      /\ tail \in Seq(Nat) /\ Len(tail) = 1 /\ tail[1] = n \div size
  BY <1>2
<1> HIDE DEF listed, size, first, tail, samples
<1>4. samples = first \o tail
  BY <1>1
<1>5. /\ samples \in Seq(Nat) /\ Len(samples) = Len(first) + Len(tail)
      /\ \A k \in 1..(Len(first) + Len(tail)) :
           samples[k] = IF k <= Len(first) THEN first[k] ELSE tail[k - Len(first)]
  BY <1>3, <1>4, ConcatProperties
<1>6. samples \in Seq(Nat) /\ Len(samples) = 2 /\ samples[1] = 0 /\ samples[2] = n \div size
  BY <1>3, <1>5
<1>7. QED
  BY <1>6 DEF samples, size

\* The samples as they are built pass the check of the samples.
LEMMA BuiltSamples ==
  ASSUME NEW v, NEW n \in Nat, NEW b \in BlockSizes, NEW r, r.b_size = b, r.len = n,
         CountersHold(r, v, n, b), Len(r.superblocks) = n \div superblock_size(b) + 1,
         \A s \in Quads : occs(r, s) = Count(v, s, n),
         \A s \in Quads : r.select_samples[s] = SelectSamplesOf(v, n, b, s)
  PROVE  samples_exact(r)
<1> DEFINE S == SELECT_NUM_SAMPLES
           size == superblock_size(b)
           final == n \div size
<1>t. S \in Nat \ {0} /\ size \in Nat \ {0} /\ final \in Nat
  BY SizesType, OpenedIs
<1>l. Len(r.superblocks) - 1 = final /\ Len(r.superblocks) = final + 1
  <2>1. Len(r.superblocks) = final + 1
    OBVIOUS
  <2> HIDE DEF final
  <2>2. QED
    BY <1>t, <2>1
<1> SUFFICES ASSUME NEW s \in Quads
             PROVE  LET samples == r.select_samples[s]
                    IN /\ Len(samples) = expected_samples(occs(r, s))
                       /\ samples[Len(samples)] = final
                       /\ \A k \in 1..(Len(samples) - 1) : samples[k] <= samples[k + 1]
                       /\ \A k \in 1..Len(samples) : samples[k] <= final
                       /\ occs(r, s) > 0 =>
                            \A k \in 1..(Len(samples) - 1) : sample_exact(r, s, k)
  <2> HIDE DEF final
  <2> QED
    BY <1>l DEF samples_exact
<1> DEFINE m == Count(v, s, n)
           samples == SelectSamplesOf(v, n, b, s)
<1>o. occs(r, s) = m /\ m \in Nat /\ r.select_samples[s] = samples
  BY CountType
<1>1. CASE m = 0
  <2>1. Len(samples) = 2 /\ samples[1] = 0 /\ samples[2] = final
    BY <1>1, SamplesOfNone
  <2> HIDE DEF samples, m, final
  <2>2. Len(samples) = expected_samples(m) /\ ~(m > 0)
    BY <1>1, <2>1 DEF expected_samples
  <2>3. \A k \in 1..2 : samples[k] <= final
    BY <1>t, <2>1
  <2>4. \A k \in 1..(2 - 1) : samples[k] <= samples[k + 1]
    BY <1>t, <2>1
  <2>5. QED
    BY <1>o, <2>1, <2>2, <2>3, <2>4
<1>2. CASE m # 0
  <2> DEFINE count == (m - 1) \div S + 1
             At(k, p) == /\ v[p] = s /\ Count(v, s, p) = (k - 1) * S
                         /\ samples[k] = p \div size
  <2>1. /\ samples \in Seq(Nat) /\ count \in Nat \ {0} /\ Len(samples) = count + 1
        /\ samples[count + 1] = final
        /\ \A k \in 1..count : \E p \in 0..(n - 1) : At(k, p)
    BY <1>2, SamplesAre
  <2>2. Len(samples) = expected_samples(m)
    <3> DEFINE q == (m - 1) \div S
    <3>1. q + 1 \in Nat \ {0} /\ Len(samples) = (q + 1) + 1
      BY <2>1
    <3>2. q \in Int
      <4> HIDE DEF m, S
      <4> QED
        BY <1>t, <1>o
    <3>3. expected_samples(m) = q + 2
      BY <1>2 DEF expected_samples
    <3> HIDE DEF q, samples
    <3>4. QED
      BY <3>1, <3>2, <3>3
  <2>c. \A k \in 1..count : \E p \in 0..(n - 1) : At(k, p)
    BY <2>1
  <2>3. ASSUME NEW k \in 1..count, NEW p \in 0..(n - 1), At(k, p)
        PROVE  samples[k] \in 0..final /\ sample_exact(r, s, k)
    <3> DEFINE x == p \div size
               C(z) == Count(v, s, size * z)
    <3>1. p \in Nat /\ n \in Nat /\ p <= n /\ size \in Nat \ {0} /\ p + 1 <= n
      BY <1>t
    <3>2. x \in 0..final /\ x \in Nat /\ p = size * x + (p % size) /\ p % size \in 0..(size - 1)
      <4>1. x \in 0..final
        <5> HIDE DEF size
        <5> QED
          BY <3>1, DivMono
      <4>2. x \in Nat /\ p = size * x + (p % size) /\ p % size \in 0..(size - 1)
        <5>1. p \in Nat /\ size \in Nat \ {0}
          BY <3>1
        <5> HIDE DEF size
        <5>2. QED
          BY <5>1, DivMod
      <4>3. QED
        BY <4>1, <4>2
    <3>3. size * x \in Nat /\ size * (x + 1) = size * x + size /\ size * (x + 1) \in Nat
      <4> HIDE DEF size, x
      <4> QED
        BY <1>t, <3>2
    <3>4. size * x <= p /\ p + 1 <= size * (x + 1)
      <4> DEFINE y == size * x
                 w == size * (x + 1)
                 o == p % size
      <4>1. y \in Nat /\ w = y + size /\ p = y + o /\ o \in 0..(size - 1) /\ size \in Nat
        BY <1>t, <3>2, <3>3
      <4> HIDE DEF y, w, o, size
      <4>2. y <= p /\ p + 1 <= w
        BY <3>1, <4>1
      <4>3. QED
        BY <4>2 DEF y, w
    <3>5. C(x) <= Count(v, s, p) /\ C(x) \in Nat
      <4> DEFINE y == size * x
      <4>1. y \in Nat /\ y <= p
        BY <3>3, <3>4
      <4> HIDE DEF y
      <4>2. Count(v, s, y) <= Count(v, s, p) /\ Count(v, s, y) \in Nat
        BY <3>1, <4>1, CountMono, CountType
      <4>3. QED
        BY <4>2 DEF y
    <3>6. Count(v, s, p) + 1 <= C(x + 1) /\ C(x + 1) \in Nat /\ Count(v, s, p) \in Nat
      <4> DEFINE y == size * (x + 1)
      <4>1. y \in Nat /\ p + 1 <= y /\ p + 1 \in Nat
        BY <3>1, <3>3, <3>4
      <4> HIDE DEF y
      <4>2. Count(v, s, p + 1) <= Count(v, s, y) /\ Count(v, s, y) \in Nat
        BY <4>1, CountMono, CountType
      <4>3. Count(v, s, p + 1) = Count(v, s, p) + 1 /\ Count(v, s, p) \in Nat
        <5>1. v[p] = s /\ p \in Nat
          BY <2>3, <3>1
        <5>2. QED
          BY <5>1, CountStep, CountType
      <4>4. Count(v, s, p) + 1 <= Count(v, s, y)
        BY <4>2, <4>3
      <4>5. QED
        BY <4>2, <4>3, <4>4 DEF y
    <3>7. \A z \in 0..final : r.superblocks[z + 1].counter[s] = C(z)
      BY DEF CountersHold
    <3>8. r.superblocks[x + 1].counter[s] = C(x)
      <4> HIDE DEF x, final, C
      <4> QED
        BY <3>2, <3>7
    <3>9. x + 1 < Len(r.superblocks) => r.superblocks[(x + 1) + 1].counter[s] = C(x + 1)
      <4>1. x + 1 < Len(r.superblocks) => x + 1 \in 0..final
        <5> HIDE DEF x, final
        <5> QED
          BY <1>t, <1>l, <3>2
      <4> HIDE DEF x, final, C
      <4>2. QED
        BY <3>7, <4>1
    <3>10. samples[k] = x /\ Count(v, s, p) = (k - 1) * S
      BY <2>3
    <3> DEFINE t == (k - 1) * S
    <3>11. /\ r.superblocks[x + 1].counter[s] <= t
           /\ x + 1 < Len(r.superblocks) => r.superblocks[(x + 1) + 1].counter[s] > t
      <4> DEFINE cp == Count(v, s, p)
                 cx == C(x)
                 cy == C(x + 1)
      <4>1. /\ cp = t /\ cp \in Nat /\ cx \in Nat /\ cy \in Nat /\ cx <= cp /\ cp + 1 <= cy
            /\ r.superblocks[x + 1].counter[s] = cx
            /\ x + 1 < Len(r.superblocks) => r.superblocks[(x + 1) + 1].counter[s] = cy
        BY <3>5, <3>6, <3>8, <3>9, <3>10
      <4> HIDE DEF cp, cx, cy, t, x
      <4>2. QED
        BY <4>1
    <3>12. sample_exact(r, s, k)
      <4> HIDE DEF x, samples
      <4> QED
        BY <1>o, <3>10, <3>11 DEF sample_exact
    <3>13. QED
      BY <3>2, <3>10, <3>12
  <2>4. \A k \in 1..count : samples[k] \in 0..final /\ sample_exact(r, s, k)
    <3> HIDE DEF At, count, samples, final
    <3> QED
      BY <2>c, <2>3
  <2>5. ASSUME NEW k \in 1..count, k + 1 \in 1..count
        PROVE  samples[k] <= samples[k + 1]
    <3>1. PICK p \in 0..(n - 1) : At(k, p)
      BY <2>c
    <3>2. PICK z \in 0..(n - 1) : At(k + 1, z)
      BY <2>5, <2>c
    <3>3. p \in Nat /\ z \in Nat /\ size \in Nat \ {0} /\ k \in Nat
      BY <1>t, <2>1
    <3>4. Count(v, s, p) <= Count(v, s, z) /\ Count(v, s, p) # Count(v, s, z)
          /\ Count(v, s, p) \in Nat /\ Count(v, s, z) \in Nat
      <4>1. (k - 1) * S \in Nat /\ ((k + 1) - 1) * S = (k - 1) * S + S
        <5>1. k - 1 \in Nat /\ (k + 1) - 1 = (k - 1) + 1
          <6> HIDE DEF count
          <6> QED
            BY <3>3, <2>1
        <5> DEFINE j == k - 1
        <5>2. j \in Nat /\ S \in Nat
          BY <1>t, <5>1
        <5>3. j * S \in Nat /\ (j + 1) * S = j * S + S
          <6> HIDE DEF j, S
          <6> QED
            BY <5>2
        <5>4. QED
          BY <5>1, <5>3
      <4> DEFINE y == (k - 1) * S
                 w == ((k + 1) - 1) * S
      <4>2. y \in Nat /\ w = y + S /\ S \in Nat \ {0} /\ Count(v, s, p) = y /\ Count(v, s, z) = w
        BY <1>t, <3>1, <3>2, <4>1
      <4> HIDE DEF y, w, S
      <4>3. QED
        BY <4>2
    <3>5. p <= z
      <4> SUFFICES ASSUME ~(p <= z) PROVE FALSE
        OBVIOUS
      <4>1. Count(v, s, z) <= Count(v, s, p)
        BY <3>3, CountMono
      <4>2. QED
        BY <3>4, <4>1
    <3>6. p \div size \in 0..(z \div size) /\ z \div size \in Nat
      <4> HIDE DEF size
      <4>1. p \div size \in 0..(z \div size)
        BY <3>3, <3>5, DivMono
      <4>2. z \div size \in Nat
        BY <3>3, DivMod
      <4>3. QED
        BY <4>1, <4>2
    <3>7. samples[k] = p \div size /\ samples[k + 1] = z \div size
      BY <3>1, <3>2
    <3> DEFINE y == p \div size
               w == z \div size
    <3>8. y \in 0..w /\ w \in Nat /\ samples[k] = y /\ samples[k + 1] = w
      BY <3>6, <3>7
    <3> HIDE DEF y, w, samples
    <3>9. QED
      BY <3>8
  <2> HIDE DEF At, count, samples, final, m
  <2>6. Len(samples) - 1 = count
    BY <2>1
  <2>7. \A k \in 1..count : samples[k] <= samples[k + 1]
    <3> SUFFICES ASSUME NEW k \in 1..count PROVE samples[k] <= samples[k + 1]
      OBVIOUS
    <3>1. CASE k + 1 \in 1..count
      BY <2>5, <3>1
    <3>2. CASE k + 1 \notin 1..count
      <4>1. k = count
        BY <2>1, <3>2
      <4>2. samples[k] \in 0..final /\ samples[k + 1] = final
        BY <2>1, <2>4, <4>1
      <4>3. QED
        BY <1>t, <4>2
    <3>3. QED
      BY <3>1, <3>2
  <2>8. \A k \in 1..(count + 1) : samples[k] <= final
    <3> SUFFICES ASSUME NEW k \in 1..(count + 1) PROVE samples[k] <= final
      OBVIOUS
    <3>1. CASE k = count + 1
      BY <1>t, <2>1, <3>1
    <3>2. CASE k # count + 1
      <4>1. k \in 1..count
        BY <2>1, <3>2
      <4>2. samples[k] \in 0..final
        BY <2>4, <4>1
      <4>3. QED
        BY <1>t, <4>2
    <3>3. QED
      BY <3>1, <3>2
  <2>9. \A k \in 1..count : sample_exact(r, s, k)
    BY <2>4
  <2>10. QED
    BY <1>o, <2>1, <2>2, <2>6, <2>7, <2>8, <2>9
<1>3. QED
  BY <1>1, <1>2

\* Block j of superblock x, if it begins in the level or right at its end, is
\* counted from the beginning of the superblock.
LEMMA BuiltBlock ==
  ASSUME NEW v, NEW n \in Nat, NEW b \in BlockSizes, NEW r, CountersHold(r, v, n, b),
         NEW s \in Quads, NEW x \in 0..(n \div superblock_size(b)),
         NEW j \in 0..(BLOCKS_IN_SUPERBLOCK - 1), BlockStart(b, x, j) <= n
  PROVE  get_block_counter(r.superblocks[x + 1], s, j)
           = Count(v, s, BlockStart(b, x, j)) - Count(v, s, superblock_size(b) * x)
<1> DEFINE K == BLOCKS_IN_SUPERBLOCK
           size == superblock_size(b)
           at == BlockStart(b, x, j)
<1>t. b \in Nat \ {0} /\ K \in Nat \ {0, 1} /\ x \in Nat /\ j \in Nat
  BY SizesType, OpenedIs
<1>1. at \in Nat /\ size * x \in Nat
  BY <1>t, BlockStarts
<1>2. CASE j = 0
  <2>1. at = size * x
    <3>1. b * j = 0
      BY <1>t, <1>2
    <3>2. at = size * x + b * j
      BY DEF BlockStart
    <3> HIDE DEF at
    <3>3. QED
      BY <1>1, <3>1, <3>2
  <2>2. Count(v, s, at) \in Nat
    BY <1>1, CountType
  <2>3. get_block_counter(r.superblocks[x + 1], s, j) = 0
    BY <1>2 DEF get_block_counter
  <2> HIDE DEF at
  <2>4. Count(v, s, at) - Count(v, s, at) = 0
    BY <2>2
  <2>5. QED
    BY <2>1, <2>3, <2>4 DEF at
<1>3. CASE j # 0
  <2>1. j \in BlockIds /\ j - 1 \in Nat /\ j - 1 \in 0..(K - 1)
    BY <1>t, <1>3 DEF BlockIds
  <2>2. BlockStart(b, x, j - 1) <= n
    <3>1. b * (j - 1) \in Nat /\ b * j = b * (j - 1) + b
      BY <1>t, <2>1
    <3> DEFINE z == size * x
               y == b * (j - 1)
               prev == BlockStart(b, x, j - 1)
    <3>2. z \in Nat /\ y \in Nat /\ prev = z + y /\ at = z + (y + b) /\ at <= n
      BY <1>1, <3>1 DEF BlockStart
    <3> HIDE DEF z, y, prev, at
    <3>3. prev <= n
      BY <1>t, <3>2
    <3>4. QED
      BY <3>3 DEF prev
  <2>3. r.superblocks[x + 1].block[j][s] = Count(v, s, MinOf(at, n)) - Count(v, s, size * x)
    BY <2>1, <2>2 DEF CountersHold
  <2>4. MinOf(at, n) = at
    <3>1. at <= n
      OBVIOUS
    <3> HIDE DEF at
    <3>2. QED
      BY <1>1, <3>1 DEF MinOf
  <2>5. QED
    BY <1>3, <2>3, <2>4 DEF get_block_counter
<1>4. QED
  BY <1>2, <1>3

\* The rank counters as they are built pass the checks of the ranks.
LEMMA BuiltRanks ==
  ASSUME NEW v, NEW n \in Nat, NEW b \in BlockSizes, NEW r, r.b_size = b, r.len = n,
         Holds(r.data, v, n), CountersHold(r, v, n, b),
         Len(r.superblocks) = n \div superblock_size(b) + 1
  PROVE  superblock_ranks_exact(r) /\ block_ranks_exact(r) /\ sentinel_exact(r)
<1> DEFINE K == BLOCKS_IN_SUPERBLOCK
           size == superblock_size(b)
           final == n \div size
<1>t. /\ b \in Nat \ {0} /\ K \in Nat \ {0, 1} /\ size \in Nat \ {0} /\ size = K * b
      /\ final \in Nat
  BY SizesType, OpenedIs
<1>f. size * final \in Nat /\ size * final <= n
  <2>1. n = size * final + (n % size) /\ n % size \in 0..(size - 1)
    <3> HIDE DEF size
    <3> QED
      BY <1>t, DivMod
  <2>2. size * final \in Nat
    <3> HIDE DEF size, final
    <3> QED
      BY <1>t
  <2> DEFINE z == size * final
             o == n % size
  <2>3. z \in Nat /\ n = z + o /\ o \in 0..(size - 1) /\ size \in Nat
    BY <1>t, <2>1, <2>2
  <2> HIDE DEF z, o, size
  <2>4. z <= n
    BY <2>3
  <2>5. QED
    BY <2>2, <2>4 DEF z
<1>1. superblock_ranks_exact(r)
  <2> SUFFICES ASSUME NEW k \in 1..Len(r.superblocks), NEW s \in Quads
               PROVE  r.superblocks[k].counter[s] = totals(r, s, (k - 1) * size)
    BY DEF superblock_ranks_exact
  <2> DEFINE x == k - 1
  <2>1. x \in 0..final /\ x \in Nat /\ x + 1 = k
    <3>1. Len(r.superblocks) = final + 1
      OBVIOUS
    <3> HIDE DEF final
    <3>2. QED
      BY <1>t, <3>1
  <2>2. r.superblocks[x + 1].counter[s] = Count(v, s, size * x)
    <3> HIDE DEF x
    <3> QED
      BY <2>1 DEF CountersHold
  <2>3. x * size = size * x /\ x * size \in 0..n
    <3> HIDE DEF x, size, final
    <3>1. x * size = size * x /\ size * x \in Nat
      BY <1>t, <2>1
    <3>2. size * x <= size * final
      <4>1. x <= final /\ size \in Nat
        BY <1>t, <2>1
      <4>2. QED
        BY <1>t, <2>1, <4>1, MulMono
    <3>3. QED
      BY <1>f, <3>1, <3>2
  <2>4. totals(r, s, x * size) = Count(v, s, x * size)
    <3> DEFINE z == x * size
    <3>1. z \in 0..n
      BY <2>3
    <3> HIDE DEF z
    <3>2. totals(r, s, z) = Count(v, s, z)
      BY <3>1, TotalsAre
    <3>3. QED
      BY <3>2 DEF z
  <2>5. QED
    BY <2>1, <2>2, <2>3, <2>4
<1>2. block_ranks_exact(r)
  <2> SUFFICES ASSUME NEW B \in 0..(n \div b), NEW s \in Quads
               PROVE  get_block_counter(r.superblocks[B \div K + 1], s, B % K)
                        = since_base(r, s, B * b)
    BY DEF block_ranks_exact
  <2> DEFINE x == B \div K
             j == B % K
             at == BlockStart(b, x, j)
  <2>1. B \in Nat
    OBVIOUS
  <2>2. x \in Nat /\ j \in 0..(K - 1) /\ B = K * x + j
    <3>1. B \in Nat /\ K \in Nat \ {0}
      BY <1>t
    <3> HIDE DEF K
    <3>2. QED
      BY <3>1, DivMod
  <2>3. at = B * b
    <3>1. at = size * x + b * j
      BY DEF BlockStart
    <3> HIDE DEF at, x, j, size, K
    <3>2. (K * b) * x = b * (K * x) /\ b * (K * x) + b * j = b * (K * x + j)
      BY <1>t, <2>2
    <3>3. B * b = b * B
      BY <1>t, <2>1
    <3>4. at = (K * b) * x + b * j
      BY <1>t, <3>1
    <3>5. QED
      BY <2>2, <3>2, <3>3, <3>4
  <2>4. at \in 0..n
    <3> DEFINE q == n \div b
    <3>1. q \in Nat /\ n = b * q + (n % b) /\ n % b \in 0..(b - 1)
      BY <1>t, DivMod
    <3>2. b * B <= b * q /\ b * B \in Nat /\ b * q \in Nat /\ B * b = b * B
      <4>1. B <= q /\ q \in Nat /\ b \in Nat
        BY <1>t, <3>1
      <4> HIDE DEF q
      <4>2. b * B <= b * q
        BY <2>1, <4>1, MulMono
      <4>3. QED
        BY <2>1, <4>1, <4>2
    <3> DEFINE y == b * B
               z == b * q
               o == n % b
    <3>3. y <= z /\ y \in Nat /\ z \in Nat /\ n = z + o /\ o \in 0..(b - 1) /\ at = y
      BY <2>3, <3>1, <3>2
    <3> HIDE DEF y, z, o, at
    <3>4. QED
      BY <1>t, <3>3
  <2>5. at \div size = x
    BY <2>2, BlockStarts
  <2>6. x \in 0..final
    <3> HIDE DEF at
    <3>1. at \in Nat /\ at <= n /\ size \in Nat \ {0}
      BY <1>t, <2>4
    <3> HIDE DEF size
    <3>2. at \div size \in 0..(n \div size)
      BY <3>1, DivMono
    <3>3. QED
      BY <2>5, <3>2 DEF size
  <2>7. get_block_counter(r.superblocks[x + 1], s, j) = Count(v, s, at) - Count(v, s, size * x)
    <3>1. at <= n
      <4> HIDE DEF at
      <4> QED
        BY <2>4
    <3> HIDE DEF x, j
    <3>2. QED
      BY <2>2, <2>6, <3>1, BuiltBlock
  <2>8. since_base(r, s, at) = Count(v, s, at) - Count(v, s, size * (at \div size))
    <3> HIDE DEF at
    <3> QED
      BY <2>4, SinceBaseIs
  <2>9. QED
    BY <2>3, <2>5, <2>7, <2>8
<1>3. sentinel_exact(r)
  <2> DEFINE y == (n \div b) % K
             j == y + 1
             x == n \div size
  <2> SUFFICES ASSUME j < K, NEW s \in Quads
               PROVE  get_block_counter(r.superblocks[x + 1], s, j) = since_base(r, s, n)
    BY DEF sentinel_exact
  <2>1. x \in Nat /\ y \in 0..(K - 1) /\ n % b \in 0..(b - 1) /\ n = BlockStart(b, x, y) + (n % b)
        /\ size * x \in Nat
    BY BlockGrid
  <2>2. j \in BlockIds /\ j - 1 = y /\ j # 0 /\ j \in Nat /\ j \in 0..(K - 1) /\ y \in Nat
    <3>1. y \in 0..(K - 1) /\ j < K
      BY <2>1
    <3> HIDE DEF y
    <3>2. QED
      BY <1>t, <3>1 DEF BlockIds
  <2> DEFINE prev == BlockStart(b, x, y)
             at == BlockStart(b, x, j)
  <2>3. prev \in Nat /\ at = prev + b
    <3>1. prev \in Nat
      BY <2>1, BlockStarts
    <3>2. b * (y + 1) = b * y + b /\ b * y \in Nat
      <4> HIDE DEF y
      <4> QED
        BY <1>t, <2>2
    <3> DEFINE z == size * x
               w == b * y
    <3>3. prev = z + w /\ at = z + (w + b) /\ z \in Nat /\ w \in Nat
      BY <2>1, <3>2 DEF BlockStart
    <3> HIDE DEF z, w, prev, at
    <3>4. QED
      BY <1>t, <3>1, <3>3
  <2>4. prev <= n /\ MinOf(at, n) = n
    <3> DEFINE o == n % b
    <3>1. n = prev + o /\ o \in 0..(b - 1)
      BY <2>1
    <3> HIDE DEF o, prev, at
    <3>2. QED
      BY <1>t, <2>3, <3>1 DEF MinOf
  <2>5. x \in 0..final
    BY <2>1
  <2>6. r.superblocks[x + 1].block[j][s] = Count(v, s, n) - Count(v, s, size * x)
    <3>1. BlockStart(b, x, j - 1) <= n
      BY <2>2, <2>4
    <3> HIDE DEF j, x
    <3>2. r.superblocks[x + 1].block[j][s] = Count(v, s, MinOf(BlockStart(b, x, j), n))
                                               - Count(v, s, size * x)
      BY <2>2, <2>5, <3>1 DEF CountersHold
    <3>3. QED
      BY <2>4, <3>2
  <2>7. since_base(r, s, n) = Count(v, s, n) - Count(v, s, size * x)
    <3>1. n \in 0..n
      OBVIOUS
    <3>2. QED
      BY <3>1, SinceBaseIs
  <2>8. QED
    BY <2>2, <2>6, <2>7 DEF get_block_counter
<1>4. QED
  BY <1>1, <1>2, <1>3

\* The counters grow, by no more than a superblock holds.
LEMMA BuiltBounds ==
  ASSUME NEW v, NEW n \in Nat, NEW b \in BlockSizes, NEW r, r.b_size = b, r.len = n,
         CountersHold(r, v, n, b), Len(r.superblocks) = n \div superblock_size(b) + 1
  PROVE  counters_in_bounds(r)
<1> DEFINE K == BLOCKS_IN_SUPERBLOCK
           size == superblock_size(b)
           final == n \div size
<1>t. /\ b \in Nat \ {0} /\ K \in Nat \ {0, 1} /\ size \in Nat \ {0} /\ size = K * b
      /\ final \in Nat
  BY SizesType, OpenedIs
<1> SUFFICES ASSUME NEW s \in Quads, NEW k \in 1..Len(r.superblocks)
             PROVE  LET prefix(x) == IF x = 0 THEN 0 ELSE r.superblocks[x].counter[s]
                        left == IF n > (k - 1) * size THEN n - (k - 1) * size ELSE 0
                        symbols == MinOf(left, size)
                        valid == IF symbols = size THEN K ELSE MinOf(symbols \div b + 1, K)
                        block(j) == get_block_counter(r.superblocks[k], s, j)
                    IN /\ prefix(k - 1) <= prefix(k) /\ prefix(k) <= n
                       /\ k > 1 => prefix(k) - prefix(k - 1) <= size
                       /\ \A j \in 0..(valid - 1) :
                            block(j) <= symbols /\ (j > 0 => block(j - 1) <= block(j))
  BY DEF counters_in_bounds
<1> DEFINE x == k - 1
           from == size * x
           C(p) == Count(v, s, p)
           prefix(z) == IF z = 0 THEN 0 ELSE r.superblocks[z].counter[s]
           left == IF n > (k - 1) * size THEN n - (k - 1) * size ELSE 0
           symbols == MinOf(left, size)
           valid == IF symbols = size THEN K ELSE MinOf(symbols \div b + 1, K)
           block(j) == get_block_counter(r.superblocks[k], s, j)
<1>1. x \in 0..final /\ x \in Nat /\ x + 1 = k /\ k \in Nat /\ k # 0
  <2>1. Len(r.superblocks) = final + 1
    OBVIOUS
  <2> HIDE DEF final
  <2>2. QED
    BY <1>t, <2>1
<1>2. from \in Nat /\ from <= n /\ x * size = from
  <2>1. n = size * final + (n % size) /\ n % size \in 0..(size - 1)
    <3> HIDE DEF size
    <3> QED
      BY <1>t, DivMod
  <2>2. size * x <= size * final /\ size * x \in Nat /\ size * final \in Nat /\ x * size = size * x
    <3> HIDE DEF size, final, x
    <3>1. x <= final /\ size \in Nat
      BY <1>t, <1>1
    <3>2. size * x <= size * final
      BY <1>t, <1>1, <3>1, MulMono
    <3>3. QED
      BY <1>t, <1>1, <3>2
  <2> DEFINE z == size * final
             o == n % size
  <2>3. z \in Nat /\ n = z + o /\ o \in 0..(size - 1) /\ size \in Nat /\ from <= z /\ from \in Nat
    BY <1>t, <2>1, <2>2
  <2> HIDE DEF z, o, size, from
  <2>4. from <= n
    BY <2>3
  <2>5. QED
    BY <2>2, <2>3, <2>4 DEF from
<1>3. \A z \in 0..final : r.superblocks[z + 1].counter[s] = C(size * z)
  BY DEF CountersHold
<1>4. prefix(k) = C(from) /\ C(from) \in Nat /\ C(from) <= n
  <2>1. r.superblocks[x + 1].counter[s] = C(from)
    <3> HIDE DEF x, final
    <3> QED
      BY <1>1, <1>3
  <2>2. C(from) \in Nat /\ C(from) <= from
    <3> HIDE DEF from
    <3> QED
      BY <1>2, CountType
  <2>3. prefix(k) = C(from)
    BY <1>1, <2>1
  <2> HIDE DEF from, C
  <2>4. QED
    BY <1>2, <2>2, <2>3
<1>5. prefix(k - 1) <= prefix(k) /\ (k > 1 => prefix(k) - prefix(k - 1) <= size)
  <2>1. CASE k = 1
    <3>1. prefix(k - 1) = 0 /\ ~(k > 1)
      BY <2>1
    <3> HIDE DEF prefix, C
    <3>2. QED
      BY <1>4, <3>1
  <2>2. CASE k # 1
    <3> DEFINE y == x - 1
               w == size * y
    <3>1. y \in 0..final /\ y \in Nat /\ y + 1 = k - 1 /\ k - 1 # 0
      <4> HIDE DEF final
      <4> QED
        BY <1>t, <1>1, <2>2
    <3>2. prefix(k - 1) = C(w)
      <4>1. r.superblocks[y + 1].counter[s] = C(w)
        <5> HIDE DEF y, final
        <5> QED
          BY <1>3, <3>1
      <4>2. QED
        BY <3>1, <4>1
    <3>3. w \in Nat /\ from = w + size
      <4>1. x = y + 1
        BY <1>1, <3>1
      <4> HIDE DEF y, size, x
      <4>2. QED
        BY <1>t, <3>1, <4>1
    <3>4. C(w) <= C(from) /\ C(from) - C(w) <= size
      <4>1. w <= from /\ from - w = size
        <5> HIDE DEF w, from, size
        <5> QED
          BY <1>t, <3>3
      <4>2. C(w) <= C(from) /\ C(from) - C(w) <= from - w
        <5> HIDE DEF w, from
        <5> QED
          BY <1>2, <3>3, <4>1, CountMono
      <4>3. QED
        BY <4>1, <4>2
    <3>5. QED
      BY <1>4, <3>2, <3>4
  <2>3. QED
    BY <2>1, <2>2
<1>6. left = n - from /\ left \in Nat /\ symbols \in Nat /\ symbols <= size /\ symbols <= left
  <2>1. left = IF n > from THEN n - from ELSE 0
    BY <1>2
  <2> HIDE DEF from, left, size
  <2>2. left = n - from /\ left \in Nat
    BY <1>2, <2>1
  <2>3. QED
    BY <1>t, <2>2 DEF MinOf
<1>7. ASSUME NEW j \in 0..(valid - 1)
      PROVE  j \in 0..(K - 1) /\ j \in Nat /\ b * j \in Nat /\ b * j <= symbols
  <2> HIDE DEF symbols
  <2>1. CASE symbols = size
    <3>1. j \in 0..(K - 1)
      BY <2>1
    <3>2. j \in Nat /\ j <= K /\ b * j <= b * K /\ b * j \in Nat /\ b * K = K * b
      <4>1. j \in Nat /\ j <= K
        BY <1>t, <3>1
      <4>2. b * j <= b * K
        BY <1>t, <4>1, MulMono
      <4>3. QED
        BY <1>t, <4>1, <4>2
    <3>3. QED
      BY <1>t, <2>1, <3>1, <3>2
  <2>2. CASE symbols # size
    <3> DEFINE q == symbols \div b
               o == symbols % b
    <3>1. q \in Nat /\ symbols = b * q + o /\ o \in 0..(b - 1)
      <4>1. symbols \in Nat /\ b \in Nat \ {0}
        BY <1>t, <1>6
      <4>2. QED
        BY <4>1, DivMod
    <3>2. valid = MinOf(q + 1, K)
      BY <2>2
    <3> HIDE DEF q, o, valid, K
    <3>3. j \in 0..(K - 1) /\ j \in Nat /\ j <= q
      BY <1>t, <3>1, <3>2 DEF MinOf
    <3>4. b * j <= b * q /\ b * j \in Nat /\ b * q \in Nat
      <4>1. b * j <= b * q
        BY <1>t, <3>1, <3>3, MulMono
      <4>2. QED
        BY <1>t, <3>1, <3>3, <4>1
    <3> DEFINE z == b * q
               y == b * j
    <3>5. y <= z /\ y \in Nat /\ z \in Nat /\ symbols = z + o
      BY <3>1, <3>4
    <3> HIDE DEF z, y
    <3>6. y <= symbols
      BY <1>t, <3>1, <3>5
    <3>7. QED
      BY <3>3, <3>4, <3>6 DEF y
  <2>3. QED
    BY <2>1, <2>2
<1>8. ASSUME NEW j \in 0..(K - 1), j \in Nat, b * j \in Nat, b * j <= symbols
      PROVE  LET at == from + b * j
             IN at \in Nat /\ from <= at /\ at <= n /\ block(j) = C(at) - C(from)
  <2> DEFINE y == b * j
             at == from + y
  <2>1. y \in Nat /\ y <= symbols
    BY <1>8
  <2>2. at \in Nat /\ at <= n /\ from <= at
    <3> HIDE DEF from, y, symbols, left
    <3> QED
      BY <1>2, <1>6, <2>1
  <2>3. at = BlockStart(b, x, j)
    BY DEF BlockStart
  <2>4. BlockStart(b, x, j) <= n
    BY <2>2, <2>3
  <2>5. get_block_counter(r.superblocks[x + 1], s, j)
          = C(BlockStart(b, x, j)) - C(size * x)
    <3> HIDE DEF x
    <3> QED
      BY <1>1, <2>4, BuiltBlock
  <2>6. QED
    BY <1>1, <2>2, <2>3, <2>5
<1>9. ASSUME NEW j \in 0..(valid - 1)
      PROVE  block(j) <= symbols /\ (j > 0 => block(j - 1) <= block(j))
  <2> DEFINE y == b * j
             at == from + y
  <2>1. j \in 0..(K - 1) /\ j \in Nat /\ y \in Nat /\ y <= symbols
    BY <1>7, <1>9
  <2>2. at \in Nat /\ from <= at /\ at <= n /\ block(j) = C(at) - C(from)
    <3> HIDE DEF symbols, from, block
    <3> QED
      BY <1>8, <2>1
  <2>3. C(at) - C(from) <= at - from /\ C(at) \in Nat /\ C(from) \in Nat
    <3> HIDE DEF at, from
    <3> QED
      BY <1>2, <2>2, CountMono, CountType
  <2>4. block(j) <= symbols
    <3>1. at - from = y
      <4> HIDE DEF from, y
      <4> QED
        BY <1>2, <2>1
    <3> DEFINE d == C(at) - C(from)
    <3>2. d <= y /\ d \in Int /\ block(j) = d
      BY <2>2, <2>3, <3>1
    <3> HIDE DEF d, y, symbols, block
    <3>3. QED
      BY <1>6, <2>1, <3>2
  <2>5. CASE j > 0
    <3> DEFINE i2 == j - 1
               w == b * i2
               p == from + w
    <3>1. i2 \in 0..(K - 1) /\ i2 \in Nat
      BY <1>t, <2>1, <2>5
    <3>2. w \in Nat /\ y = w + b
      <4> HIDE DEF i2
      <4>1. j = i2 + 1
        BY <2>1 DEF i2
      <4>2. QED
        BY <1>t, <3>1, <4>1
    <3>3. w <= symbols /\ p <= at
      <4> HIDE DEF w, y, symbols, from
      <4> QED
        BY <1>t, <1>2, <1>6, <2>1, <3>2
    <3>4. p \in Nat /\ block(i2) = C(p) - C(from)
      <4> HIDE DEF symbols, from, block, i2
      <4> QED
        BY <1>8, <3>1, <3>2, <3>3
    <3>5. C(p) <= C(at) /\ C(p) \in Nat
      <4> HIDE DEF p, at
      <4> QED
        BY <2>2, <3>3, <3>4, CountMono, CountType
    <3> DEFINE c1 == C(p)
               c2 == C(at)
               c3 == C(from)
    <3>6. c1 <= c2 /\ c1 \in Nat /\ c2 \in Nat /\ c3 \in Nat
          /\ block(i2) = c1 - c3 /\ block(j) = c2 - c3
      BY <2>2, <2>3, <3>4, <3>5
    <3> HIDE DEF c1, c2, c3, block, i2
    <3>7. block(i2) <= block(j)
      BY <3>6
    <3>8. QED
      BY <2>4, <3>7 DEF i2
  <2>6. QED
    BY <2>4, <2>5
<1>10. QED
  BY <1>4, <1>5, <1>9

\* The superblocks as they are built: a sequence, one more than there are whole
\* superblocks of digits.
LEMMA BuiltSuperblocks ==
  ASSUME NEW v, NEW n \in Nat, NEW b \in BlockSizes
  PROVE  /\ SuperblocksOf(v, n, b) \in Seq(Superblock)
         /\ Len(SuperblocksOf(v, n, b)) = n \div superblock_size(b) + 1
<1> DEFINE size == superblock_size(b)
           from(k) == k * size
           upto(k, j) == MinOf(from(k) + j * b, n)
           counter(x) == [s \in Quads |-> Count(v, s, from(x - 1))]
           blocks(x) == [j \in BlockIds |->
                          [s \in Quads |->
                            IF from(x - 1) + (j - 1) * b <= n
                              THEN Count(v, s, upto(x - 1, j)) - Count(v, s, from(x - 1))
                              ELSE 0]]
           m == (n + size) \div size
           sbs == SuperblocksOf(v, n, b)
<1>t. b \in Nat \ {0} /\ size \in Nat \ {0}
  BY SizesType
<1>1. m = n \div size + 1 /\ m \in Nat
  <2>1. n \div size \in Nat /\ m = n \div size + 1
    BY OpenedIs
  <2> HIDE DEF m
  <2>2. QED
    BY <2>1
<1>2. sbs = [x \in 1..m |-> [counter |-> counter(x), block |-> blocks(x)]]
  BY DEF SuperblocksOf, BlockIds
<1>3. ASSUME NEW x \in 1..m
      PROVE  counter(x) \in [Quads -> Nat] /\ blocks(x) \in Blocks
  <2>1. x - 1 \in Nat
    <3> HIDE DEF m
    <3> QED
      BY <1>1
  <2>2. from(x - 1) \in Nat
    <3> DEFINE y == x - 1
    <3>1. y \in Nat /\ size \in Nat
      BY <1>t, <2>1
    <3>2. y * size \in Nat
      <4> HIDE DEF y, size
      <4> QED
        BY <3>1
    <3>3. QED
      BY <3>2
  <2>3. \A s \in Quads : Count(v, s, from(x - 1)) \in Nat
    <3> DEFINE y == from(x - 1)
    <3>1. y \in Nat
      BY <2>2
    <3> HIDE DEF y
    <3>2. \A s \in Quads : Count(v, s, y) \in Nat
      BY <3>1, CountType
    <3>3. QED
      BY <3>2 DEF y
  <2>4. ASSUME NEW j \in BlockIds PROVE upto(x - 1, j) \in Nat
    <3> DEFINE y == from(x - 1)
               w == j * b
    <3>1. j \in Nat
      BY SupportAssumption DEF BlockIds
    <3>2. y \in Nat /\ w \in Nat
      <4>1. w \in Nat
        BY <1>t, <3>1
      <4>2. QED
        BY <2>2, <4>1
    <3> HIDE DEF y, w
    <3>3. MinOf(y + w, n) \in Nat
      BY <3>2 DEF MinOf
    <3>4. QED
      BY <3>3 DEF y, w
  <2>5. \A j \in BlockIds, s \in Quads : Count(v, s, upto(x - 1, j)) \in Nat
    <3> SUFFICES ASSUME NEW j \in BlockIds, NEW s \in Quads
                 PROVE  Count(v, s, upto(x - 1, j)) \in Nat
      OBVIOUS
    <3> DEFINE y == upto(x - 1, j)
    <3>1. y \in Nat
      BY <2>4
    <3> HIDE DEF y
    <3>2. Count(v, s, y) \in Nat
      BY <3>1, CountType
    <3>3. QED
      BY <3>2 DEF y
  <2>6. counter(x) \in [Quads -> Nat]
    <3> HIDE DEF from
    <3> QED
      BY <2>3
  <2>7. blocks(x) \in Blocks
    <3> HIDE DEF from, upto
    <3>1. \A j \in BlockIds, s \in Quads :
            (IF from(x - 1) + (j - 1) * b <= n
               THEN Count(v, s, upto(x - 1, j)) - Count(v, s, from(x - 1)) ELSE 0) \in Int
      BY <2>3, <2>5
    <3>2. QED
      BY <3>1 DEF Blocks
  <2>8. QED
    BY <2>6, <2>7
<1>4. sbs \in [1..m -> Superblock]
  <2> HIDE DEF counter, blocks, m, sbs
  <2> QED
    BY <1>2, <1>3 DEF Superblock
<1>5. sbs \in Seq(Superblock) /\ Len(sbs) = m
  <2>1. DOMAIN sbs = 1..m
    BY <1>4
  <2> HIDE DEF sbs, m
  <2>2. QED
    BY <1>1, <1>4
<1>6. QED
  BY <1>1, <1>5

\* The level that the construction stores is accepted, and has the shape of one.
LEMMA BuiltIsAccepted ==
  ASSUME NEW v, NEW n \in Nat, \A p \in 0..(n - 1) : v[p] \in Quads, NEW b \in BlockSizes,
         NEW f, f.aligned, f.in_bounds, f.position_bits = 2 * n,
         f.data = data_lines(v, n), f.superblocks = SuperblocksOf(v, n, b),
         f.select_samples = [s \in Quads |-> SelectSamplesOf(v, n, b, s)],
         f.n_occs_smaller = n_occs_smaller(v, n)
  PROVE  from_dir(f, b)
<1> DEFINE r == read_level(f, b)
           size == superblock_size(b)
<1>1. f.position_bits \div 2 = n /\ f.position_bits % 2 = 0
  OBVIOUS
<1>2. r = SupportOf(v, n, b)
  BY <1>1 DEF read_level, SupportOf
<1>3. /\ r.b_size = b /\ r.len = n /\ r.data = f.data /\ r.superblocks = SuperblocksOf(v, n, b)
      /\ \A s \in Quads : r.select_samples[s] = SelectSamplesOf(v, n, b, s)
      /\ r.n_occs_smaller = n_occs_smaller(v, n)
  BY <1>1 DEF read_level
<1>4. /\ Holds(r.data, v, n) /\ CountersHold(r, v, n, b)
      /\ \A s \in Quads : occs(r, s) = Count(v, s, n)
  <2> HIDE DEF r
  <2>1. Supports(r, v, n, b)
    BY <1>2, SupportSupports
  <2>2. QED
    BY <2>1 DEF Supports
<1>5. Len(r.superblocks) = n \div size + 1
  BY <1>3, BuiltSuperblocks
<1>6. regions_fit(f)
  <2> DEFINE t == n_lines(n) * LINE
  <2>1. t \in Nat /\ n <= t /\ DOMAIN f.data = 0..(t - 1)
    BY DataLines
  <2> HIDE DEF t
  <2>2. 0 \in Int /\ t - 1 \in Int
    BY <2>1
  <2>3. Cardinality(0..(t - 1)) = IF 0 > t - 1 THEN 0 ELSE (t - 1) - 0 + 1
    BY <2>2, FS_Interval
  <2>4. Cardinality(DOMAIN f.data) = t
    BY <2>1, <2>3
  <2>5. f.position_bits <= 2 * Cardinality(DOMAIN f.data)
    BY <2>1, <2>4
  <2>6. QED
    BY <1>1, <2>5 DEF regions_fit
<1>7. child_offsets_monotone(r)
  <2> DEFINE c0 == Count(v, 0, n)
             c1 == Count(v, 1, n)
             c2 == Count(v, 2, n)
             c3 == Count(v, 3, n)
             sum == r.n_occs_smaller
  <2>1. c0 \in Nat /\ c1 \in Nat /\ c2 \in Nat /\ c3 \in Nat /\ c0 + c1 + c2 + c3 = n
    BY CountType, CountAll
  <2>2. /\ sum[0] = 0 /\ sum[1] = c0 /\ sum[2] = c0 + c1 /\ sum[3] = c0 + c1 + c2
        /\ sum[4] = c0 + c1 + c2 + c3
    BY <1>3, OccsSmallerIs
  <2> HIDE DEF c0, c1, c2, c3, sum
  <2>3. sum[0] = 0 /\ sum[4] = n /\ sum[0] <= sum[1] /\ sum[1] <= sum[2] /\ sum[2] <= sum[3]
        /\ sum[3] <= sum[4]
    BY <2>1, <2>2
  <2>4. \A c \in 0..3 : sum[c] <= sum[c + 1]
    <3> SUFFICES ASSUME NEW c \in 0..3 PROVE sum[c] <= sum[c + 1]
      OBVIOUS
    <3>1. c = 0 \/ c = 1 \/ c = 2 \/ c = 3
      OBVIOUS
    <3>2. QED
      BY <2>3, <3>1
  <2>5. QED
    BY <1>3, <2>3, <2>4 DEF child_offsets_monotone, sum
<1>8. superblock_count(r)
  <2>1. (n + size) \div size = n \div size + 1
    BY OpenedIs
  <2>2. QED
    BY <1>3, <1>5, <2>1 DEF superblock_count
<1> HIDE DEF r
<1>9. superblock_ranks_exact(r) /\ block_ranks_exact(r) /\ sentinel_exact(r)
  BY <1>3, <1>4, <1>5, BuiltRanks
<1>10. child_offsets_exact(r)
  <2> SUFFICES ASSUME NEW s \in Quads PROVE occs(r, s) = totals(r, s, r.len)
    BY DEF child_offsets_exact
  <2>1. n \in 0..n
    OBVIOUS
  <2>2. totals(r, s, n) = Count(v, s, n)
    BY <1>4, <2>1, TotalsAre
  <2>3. QED
    BY <1>3, <1>4, <2>2
<1>11. samples_exact(r)
  BY <1>3, <1>4, <1>5, BuiltSamples
<1>12. counters_in_bounds(r)
  BY <1>3, <1>4, <1>5, BuiltBounds
<1>13. QED
  BY <1>6, <1>7, <1>8, <1>9, <1>10, <1>11, <1>12 DEF from_dir, r

\* What is stored has the shape of a stored level.
LEMMA BuiltShape ==
  ASSUME NEW v, NEW n \in Nat, \A p \in 0..(n - 1) : v[p] \in Quads, NEW b \in BlockSizes
  PROVE  /\ data_lines(v, n) \in LineData
         /\ SuperblocksOf(v, n, b) \in Seq(Superblock)
         /\ [s \in Quads |-> SelectSamplesOf(v, n, b, s)] \in [Quads -> Seq(Nat)]
         /\ n_occs_smaller(v, n) \in [0..4 -> Nat]
<1>1. data_lines(v, n) \in LineData
  <2> DEFINE l == n_lines(n)
             t == l * LINE
  <2>1. l \in Nat /\ t \in Nat
    BY DataLines
  <2>2. data_lines(v, n) = [p \in 0..(t - 1) |-> IF p < n THEN v[p] ELSE 0]
    BY DEF data_lines
  <2> HIDE DEF l
  <2>3. \A p \in 0..(t - 1) : (IF p < n THEN v[p] ELSE 0) \in Quads
    <3> HIDE DEF t
    <3> QED
      BY <2>1 DEF Quads
  <2>4. data_lines(v, n) \in [0..(t - 1) -> Quads]
    <3> HIDE DEF t
    <3> QED
      BY <2>2, <2>3
  <2>5. QED
    BY <2>1, <2>4 DEF LineData
<1>2. SuperblocksOf(v, n, b) \in Seq(Superblock)
  BY BuiltSuperblocks
<1>3. ASSUME NEW s \in Quads PROVE SelectSamplesOf(v, n, b, s) \in Seq(Nat)
  <2>1. CASE Count(v, s, n) = 0
    BY <2>1, SamplesOfNone
  <2>2. CASE Count(v, s, n) # 0
    BY <2>2, SamplesAre
  <2>3. QED
    BY <2>1, <2>2
<1>4. n_occs_smaller(v, n) \in [0..4 -> Nat]
  <2> DEFINE sum == n_occs_smaller(v, n)
             c0 == Count(v, 0, n)
             c1 == Count(v, 1, n)
             c2 == Count(v, 2, n)
             c3 == Count(v, 3, n)
  <2>1. c0 \in Nat /\ c1 \in Nat /\ c2 \in Nat /\ c3 \in Nat
    BY CountType
  <2>2. /\ sum = [c \in 0..4 |-> sum[c]]
        /\ sum[0] = 0 /\ sum[1] = c0 /\ sum[2] = c0 + c1 /\ sum[3] = c0 + c1 + c2
        /\ sum[4] = c0 + c1 + c2 + c3
    BY OccsSmallerIs
  <2> HIDE DEF sum, c0, c1, c2, c3
  <2>3. \A c \in 0..4 : sum[c] \in Nat
    <3> SUFFICES ASSUME NEW c \in 0..4 PROVE sum[c] \in Nat
      OBVIOUS
    <3>1. c = 0 \/ c = 1 \/ c = 2 \/ c = 3 \/ c = 4
      OBVIOUS
    <3>2. QED
      BY <2>1, <2>2, <3>1
  <2>4. sum \in [0..4 -> Nat]
    BY <2>2, <2>3
  <2>5. QED
    BY <2>4 DEF sum
<1>5. QED
  BY <1>1, <1>2, <1>3, <1>4

------------------------------------------------------------------------------
(* The alterations keep the shape.                                         *)

\* The directory entry.
LEMMA AlteredEntryShape ==
  ASSUME NEW f \in StoredLevels, NEW g, AlteredEntry(f, g)
  PROVE  g \in StoredLevels
<1>1. CASE g \in {[f EXCEPT !.aligned = FALSE], [f EXCEPT !.in_bounds = FALSE]}
  BY <1>1 DEF StoredLevels
<1>2. CASE \E y \in Nat : g = [f EXCEPT !.position_bits = y]
  BY <1>2 DEF StoredLevels
<1>3. CASE \E c \in 0..4, y \in Nat : g = [f EXCEPT !.n_occs_smaller[c] = y]
  <2>1. PICK c \in 0..4, y \in Nat : g = [f EXCEPT !.n_occs_smaller[c] = y]
    BY <1>3
  <2> DEFINE o == [f.n_occs_smaller EXCEPT ![c] = y]
  <2>2. f.n_occs_smaller \in [0..4 -> Nat]
    BY DEF StoredLevels
  <2>3. o \in [0..4 -> Nat] /\ g = [f EXCEPT !.n_occs_smaller = o]
    BY <2>1, <2>2
  <2> HIDE DEF o
  <2>4. QED
    BY <2>3 DEF StoredLevels
<1>4. f.position_bits \in Nat /\ \A c \in 0..4 : f.n_occs_smaller[c] \in Nat
  BY DEF StoredLevels
<1>5. \A c \in 0..4 : Near(f.n_occs_smaller[c]) \subseteq Nat
  BY <1>4 DEF Near
<1>6. \A y \in (f.position_bits - 2)..(f.position_bits + 2) : y >= 0 => y \in Nat
  BY <1>4
<1>7. QED
  BY <1>1, <1>2, <1>3, <1>5, <1>6, Zenon DEF AlteredEntry

\* The digits.
LEMMA AlteredDigitsShape ==
  ASSUME NEW f \in StoredLevels, NEW g, AlteredDigits(f, g)
  PROVE  g \in StoredLevels
<1>1. PICK l \in Nat : f.data \in [0..(l * LINE - 1) -> Quads]
  BY DEF StoredLevels, LineData
<1> DEFINE D == 0..(l * LINE - 1)
<1>2. f.data \in [D -> Quads] /\ DOMAIN f.data = D /\ [D -> Quads] \subseteq LineData
  BY <1>1 DEF LineData
<1> HIDE DEF D
<1>3. ASSUME NEW d \in [D -> Quads], g = [f EXCEPT !.data = d]
      PROVE  g \in StoredLevels
  BY <1>2, <1>3 DEF StoredLevels
<1>4. CASE \E p \in D, d \in Symbols : g = [f EXCEPT !.data[p] = d]
  <2>1. PICK p \in D, d \in Symbols : g = [f EXCEPT !.data[p] = d]
    BY <1>4
  <2>2. d \in Quads
    BY InputAssumption
  <2>3. [f.data EXCEPT ![p] = d] \in [D -> Quads]
    BY <1>2, <2>2
  <2>4. g = [f EXCEPT !.data = [f.data EXCEPT ![p] = d]]
    BY <2>1
  <2>5. QED
    BY <1>3, <2>3, <2>4
<1>5. CASE \E p \in D, q \in D : g = [f EXCEPT !.data[p] = f.data[q], !.data[q] = f.data[p]]
  <2>1. PICK p \in D, q \in D : g = [f EXCEPT !.data[p] = f.data[q], !.data[q] = f.data[p]]
    BY <1>5
  <2> DEFINE d == [f.data EXCEPT ![p] = f.data[q], ![q] = f.data[p]]
  <2>2. d \in [D -> Quads]
    BY <1>2
  <2>3. g = [f EXCEPT !.data = d]
    BY <2>1 DEF StoredLevels
  <2>4. QED
    BY <1>3, <2>2, <2>3
<1>6. \/ \E p \in DOMAIN f.data, d \in Symbols : g = [f EXCEPT !.data[p] = d]
      \/ \E p \in DOMAIN f.data, q \in DOMAIN f.data :
           g = [f EXCEPT !.data[p] = f.data[q], !.data[q] = f.data[p]]
  BY Zenon DEF AlteredDigits
<1>7. QED
  BY <1>2, <1>4, <1>5, <1>6, Zenon

\* The rank tables.
LEMMA AlteredRanksShape ==
  ASSUME NEW f \in StoredLevels, NEW g, AlteredRanks(f, g)
  PROVE  g \in StoredLevels
<1>1. f.superblocks \in Seq(Superblock) /\ Len(f.superblocks) \in Nat
      /\ DOMAIN f.superblocks = 1..Len(f.superblocks)
  BY LenProperties DEF StoredLevels
<1>2. ASSUME NEW q \in Seq(Superblock), g = [f EXCEPT !.superblocks = q]
      PROVE  g \in StoredLevels
  BY <1>2 DEF StoredLevels
<1>3. ASSUME NEW k \in DOMAIN f.superblocks, NEW sb \in Superblock,
             g = [f EXCEPT !.superblocks[k] = sb]
      PROVE  g \in StoredLevels
  <2>1. [f.superblocks EXCEPT ![k] = sb] \in Seq(Superblock)
    BY <1>1, <1>3, ExceptSeq
  <2>2. g = [f EXCEPT !.superblocks = [f.superblocks EXCEPT ![k] = sb]]
    BY <1>3
  <2>3. QED
    BY <1>2, <2>1, <2>2
<1>4. ASSUME NEW k \in DOMAIN f.superblocks, NEW s \in Quads, NEW y \in Nat,
             g = [f EXCEPT !.superblocks[k].counter[s] = y]
      PROVE  g \in StoredLevels
  <2> DEFINE sb == f.superblocks[k]
             nb == [sb EXCEPT !.counter[s] = y]
  <2>1. sb \in Superblock
    BY <1>1, ElementOfSeq
  <2>2. nb \in Superblock
    <3> HIDE DEF sb
    <3> QED
      BY <2>1 DEF Superblock
  <2>3. g = [f EXCEPT !.superblocks[k] = nb]
    BY <1>4
  <2> HIDE DEF nb
  <2>4. QED
    BY <1>3, <2>2, <2>3
<1>5. ASSUME NEW k \in DOMAIN f.superblocks, NEW s \in Quads, NEW j \in BlockIds, NEW y \in Nat,
             g = [f EXCEPT !.superblocks[k].block[j][s] = y]
      PROVE  g \in StoredLevels
  <2> DEFINE sb == f.superblocks[k]
             nb == [sb EXCEPT !.block[j][s] = y]
  <2>1. sb \in Superblock
    BY <1>1, ElementOfSeq
  <2>2. nb \in Superblock
    <3> HIDE DEF sb
    <3>1. sb.block \in Blocks /\ sb.block[j] \in [Quads -> Int]
      BY <2>1 DEF Superblock, Blocks
    <3> DEFINE row == [sb.block[j] EXCEPT ![s] = y]
               bl == [sb.block EXCEPT ![j] = row]
    <3>2. row \in [Quads -> Int]
      BY <3>1
    <3> HIDE DEF row
    <3>3. bl \in Blocks
      BY <3>1, <3>2 DEF Blocks
    <3>4. nb = [sb EXCEPT !.block = bl]
      BY DEF row
    <3> HIDE DEF bl
    <3>5. QED
      BY <2>1, <3>3, <3>4 DEF Superblock
  <2>3. g = [f EXCEPT !.superblocks[k] = nb]
    BY <1>5
  <2> HIDE DEF nb
  <2>4. QED
    BY <1>3, <2>2, <2>3
<1>6. ASSUME NEW k \in 0..(Len(f.superblocks) - 1),
             g = [f EXCEPT !.superblocks = SubSeq(f.superblocks, 1, k)]
      PROVE  g \in StoredLevels
  <2>1. 1 \in 1..(Len(f.superblocks) + 1) /\ k \in (1 - 1)..Len(f.superblocks)
    BY <1>1
  <2>2. SubSeq(f.superblocks, 1, k) \in Seq(Superblock)
    BY <1>1, <2>1, SubSeqProperties
  <2>3. QED
    BY <1>2, <1>6, <2>2
<1>7. \A k \in DOMAIN f.superblocks, s \in Quads :
        /\ f.superblocks[k].counter[s] \in Nat
        /\ \A j \in BlockIds : f.superblocks[k].block[j][s] \in Int
  <2> SUFFICES ASSUME NEW k \in DOMAIN f.superblocks, NEW s \in Quads
               PROVE  /\ f.superblocks[k].counter[s] \in Nat
                      /\ \A j \in BlockIds : f.superblocks[k].block[j][s] \in Int
    OBVIOUS
  <2> DEFINE sb == f.superblocks[k]
  <2>1. sb \in Superblock
    BY <1>1, ElementOfSeq
  <2> HIDE DEF sb
  <2>2. sb.counter[s] \in Nat /\ \A j \in BlockIds : sb.block[j][s] \in Int
    BY <2>1 DEF Superblock, Blocks
  <2>3. QED
    BY <2>2 DEF sb
<1>8. \A y \in Int : Near(y) \subseteq Nat
  BY DEF Near
<1>9. \/ \E k \in DOMAIN f.superblocks, s \in Quads :
           \/ \E y \in Near(f.superblocks[k].counter[s]) :
                g = [f EXCEPT !.superblocks[k].counter[s] = y]
           \/ \E j \in BlockIds : \E y \in Near(f.superblocks[k].block[j][s]) :
                g = [f EXCEPT !.superblocks[k].block[j][s] = y]
      \/ \E k \in 0..(Len(f.superblocks) - 1) :
           g = [f EXCEPT !.superblocks = SubSeq(f.superblocks, 1, k)]
  BY Zenon DEF AlteredRanks, BlockIds
<1>10. CASE \E k \in 0..(Len(f.superblocks) - 1) :
              g = [f EXCEPT !.superblocks = SubSeq(f.superblocks, 1, k)]
  BY <1>6, <1>10, Zenon
<1>11. ASSUME NEW k \in DOMAIN f.superblocks, NEW s \in Quads,
              NEW y \in Near(f.superblocks[k].counter[s]),
              g = [f EXCEPT !.superblocks[k].counter[s] = y]
       PROVE  g \in StoredLevels
  <2>1. y \in Nat
    BY <1>7, <1>8
  <2>2. QED
    BY <1>4, <1>11, <2>1, Zenon
<1>12. ASSUME NEW k \in DOMAIN f.superblocks, NEW s \in Quads, NEW j \in BlockIds,
              NEW y \in Near(f.superblocks[k].block[j][s]),
              g = [f EXCEPT !.superblocks[k].block[j][s] = y]
       PROVE  g \in StoredLevels
  <2>1. y \in Nat
    BY <1>7, <1>8
  <2>2. QED
    BY <1>5, <1>12, <2>1, Zenon
<1>13. QED
  BY <1>9, <1>10, <1>11, <1>12, Zenon

\* The select samples.
LEMMA AlteredSamplesShape ==
  ASSUME NEW f \in StoredLevels, NEW g, AlteredSamples(f, g)
  PROVE  g \in StoredLevels
<1>1. f.select_samples \in [Quads -> Seq(Nat)]
  BY DEF StoredLevels
<1>2. ASSUME NEW s \in Quads, NEW q \in Seq(Nat), g = [f EXCEPT !.select_samples[s] = q]
      PROVE  g \in StoredLevels
  <2> DEFINE d == [f.select_samples EXCEPT ![s] = q]
  <2>1. d \in [Quads -> Seq(Nat)] /\ g = [f EXCEPT !.select_samples = d]
    BY <1>1, <1>2
  <2> HIDE DEF d
  <2>2. QED
    BY <2>1 DEF StoredLevels
<1>3. ASSUME NEW s \in Quads, NEW k \in DOMAIN f.select_samples[s],
             NEW y \in Near(f.select_samples[s][k]),
             g = [f EXCEPT !.select_samples[s][k] = y]
      PROVE  g \in StoredLevels
  <2> DEFINE t == f.select_samples[s]
             q == [t EXCEPT ![k] = y]
  <2>1. t \in Seq(Nat) /\ DOMAIN t = 1..Len(t) /\ k \in 1..Len(t)
    BY <1>1, LenProperties
  <2>2. t[k] \in Nat
    BY <2>1, ElementOfSeq
  <2>3. y \in Nat
    BY <2>2 DEF Near
  <2>4. q \in Seq(Nat)
    <3> HIDE DEF t
    <3> QED
      BY <2>1, <2>3, ExceptSeq
  <2>5. g = [f EXCEPT !.select_samples[s] = q]
    BY <1>3
  <2> HIDE DEF q
  <2>6. QED
    BY <1>2, <2>4, <2>5
<1>4. ASSUME NEW s \in Quads, f.select_samples[s] # <<>>,
             \/ g = [f EXCEPT !.select_samples[s] = Tail(f.select_samples[s])]
             \/ g = [f EXCEPT !.select_samples[s] = Append(@, Last(@))]
      PROVE  g \in StoredLevels
  <2> DEFINE t == f.select_samples[s]
  <2>1. t \in Seq(Nat) /\ t # <<>> /\ Len(t) \in Nat
    BY <1>1, <1>4, LenProperties
  <2>2. Tail(t) \in Seq(Nat)
    <3> HIDE DEF t
    <3> QED
      BY <2>1, HeadTailProperties
  <2>3. Append(t, Last(t)) \in Seq(Nat)
    <3> HIDE DEF t
    <3>1. Len(t) \in 1..Len(t)
      BY <2>1, EmptySeq
    <3>2. t[Len(t)] \in Nat
      BY <2>1, <3>1, ElementOfSeq
    <3>3. QED
      BY <2>1, <3>2, AppendProperties DEF Last
  <2>4. CASE g = [f EXCEPT !.select_samples[s] = Tail(t)]
    BY <1>2, <2>2, <2>4, Zenon
  <2>5. CASE g = [f EXCEPT !.select_samples[s] = Append(@, Last(@))]
    <3>1. g = [f EXCEPT !.select_samples[s] = Append(t, Last(t))]
      BY <1>1, <2>5
    <3>2. QED
      BY <1>2, <2>3, <3>1, Zenon
  <2>6. QED
    BY <1>4, <2>4, <2>5
<1>5. \/ \E s \in Quads : \E k \in DOMAIN f.select_samples[s] :
           \E y \in Near(f.select_samples[s][k]) :
             g = [f EXCEPT !.select_samples[s][k] = y]
      \/ \E s \in Quads : /\ f.select_samples[s] # <<>>
                          /\ \/ g = [f EXCEPT !.select_samples[s] = Tail(f.select_samples[s])]
                             \/ g = [f EXCEPT !.select_samples[s] = Append(@, Last(@))]
  BY Zenon DEF AlteredSamples
<1>6. QED
  BY <1>3, <1>4, <1>5, Zenon

------------------------------------------------------------------------------
(* The specification.                                                      *)

\* The inductive invariant.  A level is stored only when its tables are finished;
\* from then on it keeps the shape the checks rely on, it is the built level as
\* long as nothing altered it, and the view says what from_dir says of it.
ViewInv ==
  /\ Inv
  /\ altered \in Nat
  /\ view \in {"none", "open", "refused"}
  /\ file = Nothing => altered = 0 /\ view = "none"
  /\ file # Nothing =>
       /\ pc = "done" /\ file \in StoredLevels
       /\ altered = 0 => file = stored_level
       /\ view = "open" => from_dir(file, b_size)
       /\ view = "refused" => ~from_dir(file, b_size)

\* The level that Store writes has the shape, and from_dir accepts it.
LEMMA StoredLevel ==
  ASSUME Inv, pc = "done"
  PROVE  stored_level \in StoredLevels /\ from_dir(stored_level, b_size)
<1>1. /\ len \in Nat /\ b_size \in BlockSizes /\ \A p \in 0..(len - 1) : qv[p] \in Quads
  BY Sizes DEF Inv, TypeInv
<1>2. /\ superblocks = SuperblocksOf(qv, len, b_size)
      /\ select_samples = [s \in Quads |-> SelectSamplesOf(qv, len, b_size, s)]
  BY DEF Inv, ScanInv
<1>3. /\ data_lines(qv, len) \in LineData
      /\ superblocks \in Seq(Superblock)
      /\ select_samples \in [Quads -> Seq(Nat)]
      /\ n_occs_smaller(qv, len) \in [0..4 -> Nat]
  BY <1>1, <1>2, BuiltShape
<1>4. /\ stored_level = [aligned |-> TRUE, in_bounds |-> TRUE, position_bits |-> 2 * len,
                         data |-> data_lines(qv, len), superblocks |-> superblocks,
                         select_samples |-> select_samples,
                         n_occs_smaller |-> n_occs_smaller(qv, len)]
  BY DEF stored_level, support
<1>5. stored_level \in StoredLevels
  <2>1. 2 * len \in Nat
    BY <1>1
  <2>2. QED
    BY <1>3, <1>4, <2>1 DEF StoredLevels
<1>6. /\ stored_level.aligned /\ stored_level.in_bounds
      /\ stored_level.position_bits = 2 * len
      /\ stored_level.data = data_lines(qv, len)
      /\ stored_level.superblocks = SuperblocksOf(qv, len, b_size)
      /\ stored_level.select_samples = [s \in Quads |-> SelectSamplesOf(qv, len, b_size, s)]
      /\ stored_level.n_occs_smaller = n_occs_smaller(qv, len)
  BY <1>2, <1>4
<1>7. from_dir(stored_level, b_size)
  <2> DEFINE f == stored_level
  <2> HIDE DEF f
  <2>1. /\ f.aligned /\ f.in_bounds /\ f.position_bits = 2 * len
        /\ f.data = data_lines(qv, len) /\ f.superblocks = SuperblocksOf(qv, len, b_size)
        /\ f.select_samples = [s \in Quads |-> SelectSamplesOf(qv, len, b_size, s)]
        /\ f.n_occs_smaller = n_occs_smaller(qv, len)
    BY <1>6 DEF f
  <2>2. from_dir(f, b_size)
    BY <1>1, <2>1, BuiltIsAccepted
  <2>3. QED
    BY <2>2 DEF f
<1>8. QED
  BY <1>5, <1>7

\* Nothing is not a stored level.
LEMMA NothingIsNoLevel == Nothing \notin StoredLevels
<1> SUFFICES ASSUME Nothing \in StoredLevels PROVE FALSE
  OBVIOUS
<1>1. DOMAIN Nothing = {"none"}
  BY DEF Nothing
<1>2. "data" \in DOMAIN Nothing
  BY DEF StoredLevels
<1>3. QED
  BY <1>1, <1>2

\* A step that leaves construction and tables alone keeps their invariant.
LEMMA TablesKept ==
  ASSUME Inv, UNCHANGED vars
  PROVE  Inv'
BY DEF vars, Inv, TypeInv, ScanInv, SamplesExact, reset_at

\* The invariant is one.
LEMMA ViewInvHolds == SpecView => []ViewInv
<1>1. InitView => ViewInv
  BY InitInv DEF InitView, ViewInv
<1>2. ViewInv /\ [NextView]_<<vars, levelVars>> => ViewInv'
  <2> SUFFICES ASSUME ViewInv, [NextView]_<<vars, levelVars>> PROVE ViewInv'
    OBVIOUS
  <2>0. Inv
    BY DEF ViewInv
  <2>1. CASE Next /\ UNCHANGED levelVars
    <3>1. pc # "done"
      BY <2>1 DEF Next, Scan, Sentinel
    <3>2. file = Nothing /\ altered = 0 /\ view = "none"
      BY <3>1 DEF ViewInv
    <3>3. Inv'
      BY <2>0, <2>1, ScanStep, SentinelStep DEF Next
    <3>4. file' = Nothing /\ altered' = 0 /\ view' = "none"
      BY <2>1, <3>2 DEF levelVars
    <3>5. QED
      BY <3>3, <3>4 DEF ViewInv
  <2>2. CASE Store
    <3>1. pc = "done" /\ file = Nothing /\ file' = stored_level /\ UNCHANGED <<altered, view, vars>>
      BY <2>2 DEF Store
    <3>2. Inv' /\ pc' = "done"
      BY <2>0, <3>1, TablesKept DEF vars
    <3>3. file' \in StoredLevels /\ from_dir(stored_level, b_size)
      BY <2>0, <3>1, StoredLevel
    <3>4. stored_level' = stored_level
      BY <3>1 DEF vars, stored_level, support
    <3>5. altered' = 0 /\ view' = "none" /\ file' # Nothing
      BY <3>1, <3>3, NothingIsNoLevel DEF ViewInv
    <3>6. QED
      BY <3>1, <3>2, <3>3, <3>4, <3>5 DEF ViewInv
  <2>3. CASE Alter
    <3>1. /\ file # Nothing /\ view = "none" /\ altered' = altered + 1
          /\ UNCHANGED <<view, vars>>
          /\ \/ AlteredEntry(file, file') \/ AlteredDigits(file, file')
             \/ AlteredRanks(file, file') \/ AlteredSamples(file, file')
      BY <2>3 DEF Alter
    <3>2. file \in StoredLevels /\ pc = "done" /\ altered \in Nat
      BY <3>1 DEF ViewInv
    <3>3. file' \in StoredLevels
      BY <3>1, <3>2, AlteredEntryShape, AlteredDigitsShape, AlteredRanksShape,
         AlteredSamplesShape
    <3>4. file' # Nothing
      BY <3>3, NothingIsNoLevel
    <3>5. Inv' /\ pc' = "done" /\ view' = "none"
      BY <2>0, <3>1, <3>2, TablesKept DEF vars
    <3>6. altered' \in Nat /\ altered' # 0
      BY <3>1, <3>2
    <3>7. QED
      BY <3>3, <3>4, <3>5, <3>6 DEF ViewInv
  <2>4. CASE FromDir
    <3>1. /\ file # Nothing /\ view = "none" /\ UNCHANGED <<file, altered, vars>>
          /\ view' = IF from_dir(file, b_size) THEN "open" ELSE "refused"
      BY <2>4 DEF FromDir
    <3>2. Inv' /\ pc' = pc /\ b_size' = b_size
      BY <2>0, <3>1, TablesKept DEF vars
    <3>3. stored_level' = stored_level
      BY <3>1 DEF vars, stored_level, support
    <3>4. QED
      BY <3>1, <3>2, <3>3 DEF ViewInv
  <2>5. CASE UNCHANGED <<vars, levelVars>>
    <3>1. UNCHANGED vars /\ UNCHANGED <<file, altered, view>>
      BY <2>5 DEF levelVars
    <3>2. Inv' /\ pc' = pc /\ b_size' = b_size
      BY <2>0, <3>1, TablesKept DEF vars
    <3>3. stored_level' = stored_level
      BY <3>1 DEF vars, stored_level, support
    <3>4. QED
      BY <3>1, <3>2, <3>3 DEF ViewInv
  <2>6. QED
    BY <2>1, <2>2, <2>3, <2>4, <2>5 DEF NextView
<1>3. QED
  BY <1>1, <1>2, PTL DEF SpecView

\* What a view opened on a level of the shape sees.
LEMMA OpenView ==
  ASSUME ViewInv, view = "open"
  PROVE  LET n == file.position_bits \div 2
         IN /\ n \in Nat /\ b_size \in BlockSizes /\ Opened.len = n
            /\ ViewSupports(Opened, Digits(file), n, b_size)
            /\ \A p \in 0..(n - 1) : Digits(file)[p] \in Quads
            /\ Digits(file) = [p \in 0..(Opened.len - 1) |-> file.data[p]]
<1>1. Shape(file) /\ from_dir(file, b_size) /\ b_size \in BlockSizes
  BY Sizes DEF ViewInv, Inv, TypeInv, Shape
<1>2. Opened.len = file.position_bits \div 2
  BY DEF Opened, read_level
<1>3. QED
  BY <1>1, <1>2, AcceptedSupports DEF Opened, Digits

\* from_dir accepts every level as RSSupportPlain::new builds it, whatever its
\* length, its symbols, the block size and the sizes of lines, samples and
\* superblocks: a level that was saved can be opened.
THEOREM BuiltLevelsOpen == SpecView => []StoredIsAccepted
<1>1. ViewInv => StoredIsAccepted
  <2> SUFFICES ASSUME ViewInv, altered = 0, view = "refused" PROVE FALSE
    BY DEF StoredIsAccepted
  <2>1. file = stored_level /\ pc = "done" /\ ~from_dir(file, b_size)
    BY DEF ViewInv
  <2>2. from_dir(stored_level, b_size)
    BY StoredLevel DEF ViewInv
  <2>3. QED
    BY <2>1, <2>2
<1>2. QED
  BY <1>1, ViewInvHolds, PTL

\* Whatever the stored level contains, a view that from_dir has opened on it
\* answers get, rank, rank_all and select as its digits determine: the checks
\* reach every counter and sample a query reads.
THEOREM OpenViewsAreExact == SpecView => []AcceptedIsExact
<1>1. ViewInv => AcceptedIsExact
  <2> SUFFICES ASSUME ViewInv, view = "open" PROVE AcceptedIsExact
    BY DEF AcceptedIsExact
  <2> DEFINE r == Opened
             n == file.position_bits \div 2
             v == Digits(file)
  <2>1. /\ n \in Nat /\ b_size \in BlockSizes /\ r.len = n /\ ViewSupports(r, v, n, b_size)
        /\ v = [p \in 0..(r.len - 1) |-> file.data[p]]
    BY OpenView
  <2> HIDE DEF r, n, v
  <2>2. \A x \in 0..n :
          /\ view_get(r, x) = IF x < n THEN v[x] ELSE None
          /\ \A s \in Quads : view_rank(r, s, x) = Count(v, s, x)
          /\ view_rank_all(r, x) = [s \in Quads |-> Count(v, s, x)]
    BY <2>1, ViewRank
  <2>3. \A s \in Quads, k \in 0..n : view_select(r, s, k) = SelectIn(v, n, s, k)
    BY <2>1, ViewSelect
  <2>4. QED
    BY <2>1, <2>2, <2>3, Zenon DEF AcceptedIsExact, r
<1>2. QED
  BY <1>1, ViewInvHolds, PTL

\* On an open view select_after, which scans the lines after a known occurrence,
\* finds what select finds through the tables, or None where select does.
THEOREM CursorsMayUseEither == SpecView => []SelectAfterIsSelect
<1>1. ViewInv => SelectAfterIsSelect
  <2> SUFFICES ASSUME ViewInv, view = "open" PROVE SelectAfterIsSelect
    BY DEF SelectAfterIsSelect
  <2> DEFINE r == Opened
             n == file.position_bits \div 2
             v == Digits(file)
  <2>1. /\ n \in Nat /\ r.len = n /\ ViewSupports(r, v, n, b_size)
        /\ \A p \in 0..(n - 1) : v[p] \in Quads
        /\ v = [p \in 0..(r.len - 1) |-> file.data[p]]
    BY OpenView
  <2> HIDE DEF r, n, v
  <2>2. Holds(r.data, v, n)
    BY <2>1 DEF ViewSupports, Supports
  <2>3. ASSUME NEW p \in 0..(n - 1), NEW a \in 1..n
        PROVE  select_after(r, v[p], p, a) = SelectIn(v, n, v[p], Count(v, v[p], p) + a)
    <3>1. a \in Nat \ {0} /\ v[p] \in Quads
      BY <2>1
    <3>2. QED
      BY <2>1, <2>2, <3>1, SelectAfter
  <2>4. QED
    BY <2>1, <2>3, Zenon DEF SelectAfterIsSelect, r
<1>2. QED
  BY <1>1, ViewInvHolds, PTL

==============================================================================
