------------------------- MODULE RSQuadVectorProofs --------------------------
(***************************************************************************)
(* Lemmas about the operators of RSQuadVector, for any sizes: the grid of  *)
(* blocks and superblocks, the tables after a prefix of the sequence, and  *)
(* the queries, which are exact on any record that Supports a sequence.    *)
(***************************************************************************)
EXTENDS RSQuadVector, QuadLevelProofs

\* Where position p lies in the grid of blocks of b symbols and superblocks of
\* BLOCKS_IN_SUPERBLOCK blocks: in block j of superblock q.
LEMMA Grid ==
  ASSUME NEW b \in Nat \ {0}, NEW K \in Nat \ {0}, NEW p \in Nat
  PROVE  LET q == p \div (K * b)
             j == (p \div b) % K
         IN /\ K * b \in Nat \ {0}
            /\ q \in Nat /\ j \in 0..(K - 1)
            /\ p = (K * b) * q + b * j + (p % b)
            /\ p % b \in 0..(b - 1)
            /\ p % (K * b) = b * j + (p % b)
            /\ p % (K * b) \in 0..(K * b - 1)
<1> DEFINE B == p \div b
           r == p % b
           j == B % K
           k == B \div K
<1>1. B \in Nat /\ r \in 0..(b - 1) /\ p = b * B + r
  BY DivMod
<1>2. j \in 0..(K - 1) /\ k \in Nat /\ B = K * k + j
  BY <1>1, DivMod
<1>3. p = (K * b) * k + (b * j + r)
  <2> HIDE DEF B, r, j, k
  <2>1. b * (K * k + j) = (K * b) * k + b * j
    BY <1>1, <1>2
  <2>2. QED
    BY <1>1, <1>2, <2>1
<1>4. K * b \in Nat \ {0} /\ b * j + r \in 0..(K * b - 1)
  <2> HIDE DEF B, r, j, k
  <2>1. b * j <= b * (K - 1) /\ b * j \in Nat
    BY <1>2, MulMono
  <2>2. b * (K - 1) = K * b - b
    OBVIOUS
  <2>3. K * b \in Nat /\ K * b >= b
    OBVIOUS
  <2>4. QED
    BY <1>1, <2>1, <2>2, <2>3
<1>5. p \div (K * b) = k /\ p % (K * b) = b * j + r
  <2> DEFINE d == K * b
             o == b * j + r
  <2>1. d \in Nat \ {0} /\ k \in Int /\ o \in 0..(d - 1) /\ p = d * k + o
    BY <1>2, <1>3, <1>4
  <2> HIDE DEF B, r, j, k, d, o
  <2>2. p \div d = k /\ p % d = o
    BY <2>1, DivUnique
  <2>3. QED
    BY <2>2 DEF d, o
<1>6. QED
  BY <1>1, <1>2, <1>3, <1>4, <1>5

\* A piece that does not cross a multiple of p does not cross a multiple of k * p.
LEMMA PieceFits ==
  ASSUME NEW p \in Nat \ {0}, NEW k \in Nat \ {0}, NEW r \in Nat, NEW n \in Nat,
         (r % p) + n <= p
  PROVE  (r % (k * p)) + n <= k * p
<1> DEFINE j == (r \div p) % k
           o == r % p
<1>1. j \in 0..(k - 1) /\ o \in 0..(p - 1) /\ r % (k * p) = p * j + o
  BY Grid
<1>2. o + n <= p
  OBVIOUS
<1> HIDE DEF j, o
<1>3. p * (j + 1) <= p * k /\ p * (j + 1) = p * j + p /\ p * j \in Nat /\ p * k = k * p
  BY <1>1, MulMono
<1>4. QED
  BY <1>1, <1>2, <1>3

\* Every position of the grid is named once.
LEMMA GridUnique ==
  ASSUME NEW b \in Nat \ {0}, NEW K \in Nat \ {0}, NEW p \in Nat,
         NEW x \in Nat, NEW y \in 0..(K - 1), NEW r \in 0..(b - 1),
         p = (K * b) * x + b * y + r
  PROVE  x = p \div (K * b) /\ y = (p \div b) % K /\ r = p % b
<1>1. b * (K * x + y) = (K * b) * x + b * y /\ K * x + y \in Nat
  OBVIOUS
<1>2. p \div b = K * x + y /\ p % b = r
  <2> DEFINE B == K * x + y
  <2>1. p = b * B + r /\ B \in Nat
    BY <1>1
  <2> HIDE DEF B
  <2>2. p \div b = B /\ p % b = r
    BY <2>1, DivUnique
  <2>3. QED
    BY <2>2 DEF B
<1>3. (K * x + y) \div K = x /\ (K * x + y) % K = y
  BY <1>1, DivUnique
<1>4. p \div (K * b) = x
  <2>1. b * y <= b * (K - 1) /\ b * y \in Nat
    BY MulMono
  <2>2. b * (K - 1) = K * b - b
    OBVIOUS
  <2>3. b * y + r \in 0..(K * b - 1) /\ K * b \in Nat \ {0}
    BY <2>1, <2>2
  <2>4. QED
    BY <2>3, DivUnique
<1>5. QED
  BY <1>2, <1>3, <1>4

\* An empty field takes the value or-ed into it.
LEMMA OrEmpty ==
  ASSUME NEW x
  PROVE  or_field(0, x) = x
BY DEF or_field

\* Block and superblock sizes.
LEMMA SizesType ==
  ASSUME NEW b \in BlockSizes
  PROVE  /\ b \in Nat \ {0} /\ BLOCKS_IN_SUPERBLOCK \in Nat \ {0, 1}
         /\ superblock_size(b) = BLOCKS_IN_SUPERBLOCK * b
         /\ superblock_size(b) \in Nat \ {0}
         /\ superblock_size(b) <= BLOCKS_IN_SUPERBLOCK * 2 * LINE
         /\ SELECT_NUM_SAMPLES \in Nat \ {0}
BY SupportAssumption DEF BlockSizes, LINE, superblock_size

------------------------------------------------------------------------------
\* Superblock x (from 0) of a sequence v once the positions before m have been
\* visited: a block counter is in place as soon as the beginning of its block
\* has been.
BlockStart(b, x, j) == superblock_size(b) * x + b * j
BlockAfter(v, b, x, m, j) ==
  [s \in Quads |->
    IF BlockStart(b, x, j) < m
      THEN Count(v, s, BlockStart(b, x, j)) - Count(v, s, superblock_size(b) * x)
      ELSE 0]
SuperblockAfter(v, b, x, m) ==
  [counter |-> [s \in Quads |-> Count(v, s, superblock_size(b) * x)],
   block |-> [j \in 1..(BLOCKS_IN_SUPERBLOCK - 1) |-> BlockAfter(v, b, x, m, j)]]

\* All superblocks that have been opened by then.
OpenedBefore(b, m) == (m + superblock_size(b) - 1) \div superblock_size(b)
SuperblocksAfter(v, b, m) ==
  [x \in 1..OpenedBefore(b, m) |-> SuperblockAfter(v, b, x - 1, m)]

\* Occurrences from the beginning of the superblock of position p.
InSuperblock(v, b, p) ==
  [s \in Quads |->
    Count(v, s, p) - Count(v, s, superblock_size(b) * (p \div superblock_size(b)))]

\* A superblock is the same after two visits that passed the same blocks.
LEMMA SameBlocks ==
  ASSUME NEW v, NEW b, NEW x, NEW m, NEW n,
         \A j \in 1..(BLOCKS_IN_SUPERBLOCK - 1) :
           (BlockStart(b, x, j) < m) <=> (BlockStart(b, x, j) < n)
  PROVE  SuperblockAfter(v, b, x, m) = SuperblockAfter(v, b, x, n)
<1>1. \A j \in 1..(BLOCKS_IN_SUPERBLOCK - 1) : BlockAfter(v, b, x, m, j) = BlockAfter(v, b, x, n, j)
  BY DEF BlockAfter
<1>2. QED
  BY <1>1 DEF SuperblockAfter

\* The counters of the blocks of a superblock, by block.
BlockIds == 1..(BLOCKS_IN_SUPERBLOCK - 1)
Blocks == [BlockIds -> [Quads -> Int]]

\* Writing the counters of block j, while it is still zero, makes the blocks of
\* a superblock from B into D.
LEMMA SetBlock ==
  ASSUME NEW C, NEW j \in BlockIds, NEW B \in Blocks, NEW D \in Blocks,
         \A s \in Quads : B[j][s] = 0,
         \A k \in BlockIds : k # j => D[k] = B[k]
  PROVE  set_block_counters([counter |-> C, block |-> B], j, D[j])
           = [counter |-> C, block |-> D]
<1> DEFINE c == D[j]
<1> USE DEF BlockIds, Blocks
<1>1. j # 0
  BY SupportAssumption
<1>2. \A s \in Quads : or_field(B[j][s], c[s]) = c[s]
  BY OrEmpty
<1>3. [s \in Quads |-> or_field(B[j][s], c[s])] = D[j]
  BY <1>2
<1>4. set_block_counters([counter |-> C, block |-> B], j, c)
        = [counter |-> C, block |-> [B EXCEPT ![j] = [s \in Quads |-> or_field(B[j][s], c[s])]]]
  BY <1>1 DEF set_block_counters
<1>5. [B EXCEPT ![j] = D[j]] = D
  OBVIOUS
<1>6. QED
  BY <1>3, <1>4, <1>5

\* A superblock as it is opened.
LEMMA SuperblockOpens ==
  ASSUME NEW v, NEW b \in BlockSizes, NEW x \in Nat
  PROVE  SuperblockAfter(v, b, x, superblock_size(b) * x + 1)
           = new_superblock([s \in Quads |-> Count(v, s, superblock_size(b) * x)])
<1>1. ASSUME NEW j \in 1..(BLOCKS_IN_SUPERBLOCK - 1)
      PROVE  ~(BlockStart(b, x, j) < superblock_size(b) * x + 1)
  <2>1. b * j >= 1 /\ b * j \in Nat /\ superblock_size(b) * x \in Nat
    BY SizesType
  <2>2. QED
    BY <2>1 DEF BlockStart
<1>2. \A j \in 1..(BLOCKS_IN_SUPERBLOCK - 1) :
        BlockAfter(v, b, x, superblock_size(b) * x + 1, j) = [s \in Quads |-> 0]
  BY <1>1 DEF BlockAfter
<1>3. QED
  BY <1>2 DEF SuperblockAfter, new_superblock

\* A superblock does not change once its positions have been passed.
LEMMA SuperblockClosed ==
  ASSUME NEW v, NEW b \in BlockSizes, NEW x \in Nat, NEW m \in Nat, NEW n \in Nat,
         superblock_size(b) * (x + 1) <= m, superblock_size(b) * (x + 1) <= n
  PROVE  SuperblockAfter(v, b, x, m) = SuperblockAfter(v, b, x, n)
<1>1. ASSUME NEW j \in 1..(BLOCKS_IN_SUPERBLOCK - 1)
      PROVE  BlockStart(b, x, j) < superblock_size(b) * (x + 1) /\ BlockStart(b, x, j) \in Nat
  <2> DEFINE K == BLOCKS_IN_SUPERBLOCK
             sb == superblock_size(b)
  <2>1. b \in Nat \ {0} /\ sb = K * b /\ K \in Nat \ {0, 1} /\ sb \in Nat
    BY SizesType
  <2>2. b * j <= b * (K - 1) /\ b * j \in Nat
    BY <2>1, MulMono
  <2>3. b * (K - 1) = sb - b
    BY <2>1
  <2>4. sb * (x + 1) = sb * x + sb /\ sb * x \in Nat
    BY <2>1
  <2>5. QED
    BY <2>1, <2>2, <2>3, <2>4 DEF BlockStart
<1>2. superblock_size(b) * (x + 1) \in Nat
  BY SizesType
<1>3. \A j \in 1..(BLOCKS_IN_SUPERBLOCK - 1) :
         BlockStart(b, x, j) < m /\ BlockStart(b, x, j) < n
  BY <1>1, <1>2
<1>4. QED
  BY <1>3, SameBlocks

\* The blocks of the grid, in terms of a position.
LEMMA BlockGrid ==
  ASSUME NEW b \in BlockSizes, NEW p \in Nat
  PROVE  LET x == p \div superblock_size(b)
             y == (p \div b) % BLOCKS_IN_SUPERBLOCK
         IN /\ x \in Nat /\ y \in 0..(BLOCKS_IN_SUPERBLOCK - 1)
            /\ p % b \in 0..(b - 1)
            /\ p = BlockStart(b, x, y) + (p % b)
            /\ p % superblock_size(b) = b * y + (p % b)
            /\ p = superblock_size(b) * x + (p % superblock_size(b))
            /\ p % superblock_size(b) \in 0..(superblock_size(b) - 1)
            /\ superblock_size(b) * x \in Nat
<1> DEFINE K == BLOCKS_IN_SUPERBLOCK
<1>1. b \in Nat \ {0} /\ K \in Nat \ {0} /\ superblock_size(b) = K * b
  BY SizesType
<1>2. LET q == p \div (K * b)
          j == (p \div b) % K
      IN /\ K * b \in Nat \ {0}
         /\ q \in Nat /\ j \in 0..(K - 1)
         /\ p = (K * b) * q + b * j + (p % b)
         /\ p % b \in 0..(b - 1)
         /\ p % (K * b) = b * j + (p % b)
         /\ p % (K * b) \in 0..(K * b - 1)
  BY <1>1, Grid
<1>3. QED
  BY <1>1, <1>2 DEF BlockStart

\* The counters since the beginning of a superblock.
LEMMA InSuperblockIs ==
  ASSUME NEW v, NEW b \in BlockSizes, NEW p \in Nat
  PROVE  /\ InSuperblock(v, b, p) \in [Quads -> Nat]
         /\ \A s \in Quads : InSuperblock(v, b, p)[s] < superblock_size(b)
         /\ p % superblock_size(b) = 0 => InSuperblock(v, b, p) = [s \in Quads |-> 0]
<1> DEFINE sb == superblock_size(b)
           from == sb * (p \div sb)
<1>1. /\ p = from + (p % sb) /\ p % sb \in 0..(sb - 1) /\ from \in Nat /\ sb \in Nat \ {0}
  BY BlockGrid, SizesType
<1>2. ASSUME NEW s \in Quads
      PROVE  /\ Count(v, s, p) - Count(v, s, from) \in Nat
             /\ Count(v, s, p) - Count(v, s, from) <= p % sb
  <2>1. from <= p
    BY <1>1
  <2>2. Count(v, s, from) <= Count(v, s, p) /\ Count(v, s, p) - Count(v, s, from) <= p - from
    BY <2>1, <1>1, CountMono
  <2>3. Count(v, s, from) \in Nat /\ Count(v, s, p) \in Nat
    BY <1>1, CountType
  <2> HIDE DEF from, sb
  <2>4. QED
    BY <1>1, <2>2, <2>3
<1>3. \A s \in Quads : InSuperblock(v, b, p)[s] = Count(v, s, p) - Count(v, s, from)
  BY DEF InSuperblock
<1>4. InSuperblock(v, b, p) \in [Quads -> Nat]
  BY <1>2 DEF InSuperblock
<1>5. \A s \in Quads : InSuperblock(v, b, p)[s] < sb
  <2> HIDE DEF from, sb
  <2> QED
    BY <1>1, <1>2, <1>3, <1>4
<1>6. p % sb = 0 => \A s \in Quads : Count(v, s, p) - Count(v, s, from) = 0
  BY <1>2
<1>7. p % sb = 0 => InSuperblock(v, b, p) = [s \in Quads |-> 0]
  BY <1>6 DEF InSuperblock
<1>8. QED
  BY <1>4, <1>5, <1>7

\* A block begins at a position with remainder 0, and no other block does.
LEMMA BlockStarts ==
  ASSUME NEW b \in BlockSizes, NEW x \in Nat, NEW j \in 0..(BLOCKS_IN_SUPERBLOCK - 1)
  PROVE  /\ BlockStart(b, x, j) \in Nat
         /\ BlockStart(b, x, j) % b = 0
         /\ BlockStart(b, x, j) \div superblock_size(b) = x
         /\ (BlockStart(b, x, j) \div b) % BLOCKS_IN_SUPERBLOCK = j
         /\ superblock_size(b) * x \in Nat
         /\ superblock_size(b) * x <= BlockStart(b, x, j)
         /\ BlockStart(b, x, j) < superblock_size(b) * (x + 1)
<1> DEFINE K == BLOCKS_IN_SUPERBLOCK
           p == BlockStart(b, x, j)
<1>1. b \in Nat \ {0} /\ K \in Nat \ {0} /\ superblock_size(b) = K * b
  BY SizesType
<1>2. p \in Nat /\ p = (K * b) * x + b * j + 0 /\ 0 \in 0..(b - 1)
  BY <1>1 DEF BlockStart
<1>3. x = p \div (K * b) /\ j = (p \div b) % K /\ 0 = p % b
  <2> HIDE DEF p, K
  <2>1. QED
    BY <1>1, <1>2, GridUnique DEF K
<1>4. b * j <= b * (K - 1) /\ b * j \in Nat
  BY <1>1, MulMono
<1>5. b * (K - 1) = K * b - b
  BY <1>1
<1>6. p < superblock_size(b) * (x + 1)
  BY <1>1, <1>2, <1>4, <1>5
<1>7. QED
  BY <1>1, <1>2, <1>3, <1>4, <1>6

\* The counters of a block after m positions.
LEMMA BlockType ==
  ASSUME NEW v, NEW b \in BlockSizes, NEW x \in Nat, NEW m,
         NEW j \in 0..(BLOCKS_IN_SUPERBLOCK - 1)
  PROVE  BlockAfter(v, b, x, m, j) \in [Quads -> Int]
<1>1. BlockStart(b, x, j) \in Nat /\ superblock_size(b) * x \in Nat
  BY BlockStarts
<1>2. \A s \in Quads : /\ Count(v, s, BlockStart(b, x, j)) \in Nat
                       /\ Count(v, s, superblock_size(b) * x) \in Nat
  BY <1>1, CountType
<1>3. QED
  BY <1>2 DEF BlockAfter

\* The counters of a block are written when its beginning is visited.
LEMMA SuperblockFills ==
  ASSUME NEW v, NEW b \in BlockSizes, NEW p \in Nat, p % b = 0,
         (p \div b) % BLOCKS_IN_SUPERBLOCK # 0
  PROVE  set_block_counters(SuperblockAfter(v, b, p \div superblock_size(b), p),
                            (p \div b) % BLOCKS_IN_SUPERBLOCK, InSuperblock(v, b, p))
           = SuperblockAfter(v, b, p \div superblock_size(b), p + 1)
<1> DEFINE x == p \div superblock_size(b)
           y == (p \div b) % BLOCKS_IN_SUPERBLOCK
           J == 1..(BLOCKS_IN_SUPERBLOCK - 1)
           B == [k \in J |-> BlockAfter(v, b, x, p, k)]
           c == InSuperblock(v, b, p)
           C == [s \in Quads |-> Count(v, s, superblock_size(b) * x)]
<1>1. x \in Nat /\ y \in 0..(BLOCKS_IN_SUPERBLOCK - 1) /\ p = BlockStart(b, x, y) /\ y \in J
  <2>1. x \in Nat /\ y \in 0..(BLOCKS_IN_SUPERBLOCK - 1) /\ p = BlockStart(b, x, y) + (p % b)
    BY BlockGrid
  <2>2. BlockStart(b, x, y) \in Nat
    BY <2>1, BlockStarts
  <2>3. QED
    BY <2>1, <2>2, SupportAssumption
<1>2. \A k \in J : BlockStart(b, x, k) \in Nat /\ (k # y => BlockStart(b, x, k) # p)
  <2> SUFFICES ASSUME NEW k \in J
               PROVE  BlockStart(b, x, k) \in Nat /\ (k # y => BlockStart(b, x, k) # p)
    OBVIOUS
  <2>1. k \in 0..(BLOCKS_IN_SUPERBLOCK - 1)
    BY SupportAssumption
  <2>2. /\ BlockStart(b, x, k) \in Nat
        /\ (BlockStart(b, x, k) \div b) % BLOCKS_IN_SUPERBLOCK = k
    BY <1>1, <2>1, BlockStarts
  <2>3. QED
    BY <2>2
<1>3. \A s \in Quads : B[y][s] = 0
  BY <1>1 DEF BlockAfter
<1>4. c = BlockAfter(v, b, x, p + 1, y)
  BY <1>1 DEF InSuperblock, BlockAfter
<1>5. \A k \in J : k # y => B[k] = BlockAfter(v, b, x, p + 1, k)
  BY <1>2 DEF BlockAfter
<1> DEFINE D == [k \in J |-> BlockAfter(v, b, x, p + 1, k)]
<1>6. B \in Blocks /\ D \in Blocks /\ y \in BlockIds
  <2> HIDE DEF x, y
  <2>1. \A k \in J : k \in 0..(BLOCKS_IN_SUPERBLOCK - 1)
    BY SupportAssumption
  <2>2. \A k \in J : BlockAfter(v, b, x, p, k) \in [Quads -> Int]
                     /\ BlockAfter(v, b, x, p + 1, k) \in [Quads -> Int]
    BY <1>1, <2>1, BlockType
  <2>3. QED
    BY <1>1, <2>2 DEF Blocks, BlockIds
<1>7. D[y] = c /\ \A k \in BlockIds : k # y => D[k] = B[k]
  BY <1>1, <1>4, <1>5 DEF BlockIds
<1>8. set_block_counters([counter |-> C, block |-> B], y, c) = [counter |-> C, block |-> D]
  <2> HIDE DEF B, c, x, y, C, D
  <2>1. set_block_counters([counter |-> C, block |-> B], y, D[y]) = [counter |-> C, block |-> D]
    BY <1>3, <1>6, <1>7, SetBlock
  <2>2. QED
    BY <2>1, <1>7
<1>9. QED
  BY <1>8 DEF SuperblockAfter

\* Between two beginnings of blocks nothing is written.
LEMMA SuperblockRests ==
  ASSUME NEW v, NEW b \in BlockSizes, NEW x \in Nat, NEW m \in Nat, NEW n \in Nat, m <= n,
         \A p \in m..(n - 1) : p % b # 0
  PROVE  SuperblockAfter(v, b, x, m) = SuperblockAfter(v, b, x, n)
<1> SUFFICES ASSUME NEW j \in 1..(BLOCKS_IN_SUPERBLOCK - 1)
             PROVE  (BlockStart(b, x, j) < m) <=> (BlockStart(b, x, j) < n)
  BY SameBlocks
<1>1. BlockStart(b, x, j) \in Nat /\ BlockStart(b, x, j) % b = 0
  BY BlockStarts, SupportAssumption
<1>2. QED
  BY <1>1

\* How many superblocks have been opened.
LEMMA OpenedIs ==
  ASSUME NEW b \in BlockSizes, NEW m \in Nat
  PROVE  /\ OpenedBefore(b, m + 1) = (m \div superblock_size(b)) + 1
         /\ OpenedBefore(b, m) = IF m % superblock_size(b) = 0 THEN m \div superblock_size(b)
                                                         ELSE (m \div superblock_size(b)) + 1
         /\ (m + superblock_size(b)) \div superblock_size(b) = (m \div superblock_size(b)) + 1
         /\ m \div superblock_size(b) \in Nat
<1>1. superblock_size(b) \in Nat \ {0}
  BY SizesType
<1>2. m + 1 + superblock_size(b) - 1 = m + superblock_size(b)
  BY <1>1
<1>3. QED
  BY <1>1, <1>2, CeilDiv DEF OpenedBefore

\* The superblocks form a sequence.
Superblock == [counter: [Quads -> Nat], block: Blocks]
\* The superblocks after m positions, as a sequence.
LEMMA SuperblocksSeq ==
  ASSUME NEW v, NEW b \in BlockSizes, NEW m \in Nat
  PROVE  /\ SuperblocksAfter(v, b, m) \in Seq(Superblock)
         /\ Len(SuperblocksAfter(v, b, m)) = OpenedBefore(b, m)
         /\ OpenedBefore(b, m) \in Nat
         /\ \A x \in 1..OpenedBefore(b, m) :
              SuperblocksAfter(v, b, m)[x] = SuperblockAfter(v, b, x - 1, m)
<1>1. OpenedBefore(b, m) \in Nat
  BY OpenedIs
<1>2. ASSUME NEW x \in Nat PROVE SuperblockAfter(v, b, x, m) \in Superblock
  <2>1. superblock_size(b) * x \in Nat
    BY SizesType
  <2>2. \A s \in Quads : Count(v, s, superblock_size(b) * x) \in Nat
    BY <2>1, CountType
  <2>3. \A k \in BlockIds : BlockAfter(v, b, x, m, k) \in [Quads -> Int]
    BY BlockType, SupportAssumption DEF BlockIds
  <2>4. [k \in BlockIds |-> BlockAfter(v, b, x, m, k)] \in Blocks
    BY <2>3 DEF Blocks
  <2>5. [s \in Quads |-> Count(v, s, superblock_size(b) * x)] \in [Quads -> Nat]
    BY <2>2
  <2>6. QED
    BY <2>4, <2>5 DEF SuperblockAfter, Superblock, BlockIds
<1>3. \A x \in 1..OpenedBefore(b, m) : x - 1 \in Nat
  BY <1>1
<1>4. SuperblocksAfter(v, b, m) \in [1..OpenedBefore(b, m) -> Superblock]
  BY <1>2, <1>3 DEF SuperblocksAfter
<1>5. QED
  BY <1>1, <1>4 DEF SuperblocksAfter

\* What SupportOf asks of superblock x of a sequence of n symbols: what is there
\* once all positions up to n have been visited and, in the last superblock, the
\* sentinel in the block after the one of position n, if it has one.
LEMMA SuperblocksFinal ==
  ASSUME NEW v, NEW b \in BlockSizes, NEW n \in Nat,
         NEW x \in 0..(n \div superblock_size(b))
  PROVE  SuperblocksOf(v, n, b)[x + 1] =
           LET last == SuperblockAfter(v, b, x, n + 1)
               next == ((n \div b) % BLOCKS_IN_SUPERBLOCK) + 1
           IN IF x = n \div superblock_size(b) /\ next < BLOCKS_IN_SUPERBLOCK
                THEN set_block_counters(last, next, InSuperblock(v, b, n))
                ELSE last
<1> DEFINE sb == superblock_size(b)
           q == n \div sb
           y == (n \div b) % BLOCKS_IN_SUPERBLOCK
           K == BLOCKS_IN_SUPERBLOCK
           C == [s \in Quads |-> Count(v, s, sb * x)]
           B == [k \in BlockIds |-> BlockAfter(v, b, x, n + 1, k)]
           D == [k \in BlockIds |-> [s \in Quads |->
                  IF sb * x + b * (k - 1) <= n
                    THEN Count(v, s, MinOf(sb * x + b * k, n)) - Count(v, s, sb * x)
                    ELSE 0]]
<1>t. b \in Nat \ {0} /\ sb \in Nat \ {0} /\ K \in Nat \ {0, 1} /\ sb = K * b
  BY SizesType
<1>g. /\ q \in Nat /\ y \in 0..(K - 1) /\ n % b \in 0..(b - 1)
      /\ n = BlockStart(b, q, y) + (n % b) /\ n = sb * q + (n % sb)
      /\ n % sb \in 0..(sb - 1)
  BY BlockGrid
<1>x. x \in Nat /\ x <= q /\ sb * x \in Nat
  BY <1>g, <1>t
<1>1. SuperblocksOf(v, n, b)[x + 1] = [counter |-> C, block |-> D]
  <2>1. x + 1 \in 1..((n + sb) \div sb)
    BY <1>x, <1>g, OpenedIs
  <2>2. (x + 1) - 1 = x /\ x * sb = sb * x
    BY <1>x, <1>t
  <2>3. \A k \in BlockIds : (k - 1) * b = b * (k - 1) /\ k * b = b * k
    BY <1>t DEF BlockIds
  <2>4. QED
    BY <2>1, <2>2, <2>3 DEF SuperblocksOf, BlockIds

<1>2. SuperblockAfter(v, b, x, n + 1) = [counter |-> C, block |-> B]
  BY DEF SuperblockAfter, BlockIds
<1>b. ASSUME NEW k \in BlockIds
      PROVE  /\ sb * x + b * k \in Nat /\ sb * x + b * (k - 1) \in Nat
             /\ sb * x + b * (k - 1) <= sb * x + b * k
             /\ BlockStart(b, x, k) = sb * x + b * k
  BY <1>t, <1>x DEF BlockIds, BlockStart
\* Blocks whose beginning has been visited.
<1>3. ASSUME NEW k \in BlockIds, sb * x + b * k <= n
      PROVE  D[k] = B[k]
  <2>1. sb * x + b * (k - 1) <= n
    BY <1>3, <1>b
  <2>2. BlockStart(b, x, k) < n + 1
    BY <1>3, <1>b
  <2>3. MinOf(sb * x + b * k, n) = sb * x + b * k
    BY <1>3, <1>b DEF MinOf
  <2>4. QED
    BY <2>1, <2>2, <2>3, <1>b DEF BlockAfter
\* Blocks beyond the one after that.
<1>4. ASSUME NEW k \in BlockIds, n < sb * x + b * (k - 1)
      PROVE  D[k] = B[k]
  <2>1. ~(BlockStart(b, x, k) < n + 1) /\ ~(sb * x + b * (k - 1) <= n)
    BY <1>4, <1>b
  <2>2. QED
    BY <2>1 DEF BlockAfter
<1>5. CASE x # q
  <2>1. ASSUME NEW k \in BlockIds PROVE sb * x + b * k <= n
    <3>1. x + 1 <= q
      BY <1>5, <1>x, <1>g
    <3>2. sb * (x + 1) <= sb * q
      BY <3>1, <1>x, <1>g, <1>t, MulMono
    <3>3. BlockStart(b, x, k) < sb * (x + 1)
      BY <1>x, <1>t, BlockStarts DEF BlockIds
    <3>4. sb * q <= n /\ sb * q \in Nat /\ sb * (x + 1) \in Nat
      BY <1>g, <1>t, <1>x
    <3>5. QED
      BY <3>2, <3>3, <3>4, <1>b
  <2>2. D = B
    BY <2>1, <1>3
  <2>3. QED
    BY <1>1, <1>2, <1>5, <2>2
<1>6. CASE x = q
  <2>1. BlockStart(b, q, y) = sb * q + b * y /\ sb * q \in Nat /\ b * y \in Nat
    BY <1>t, <1>g DEF BlockStart
  <2>2. ASSUME NEW k \in BlockIds
        PROVE  /\ k <= y => sb * x + b * k <= n
               /\ k > y => n < sb * x + b * k
               /\ k > y + 1 => n < sb * x + b * (k - 1)
               /\ k = y + 1 => sb * x + b * (k - 1) <= n
    <3>1. k <= y => b * k <= b * y
      BY <1>t, <1>g, MulMono DEF BlockIds
    <3>2. k > y => b * (y + 1) <= b * k
      BY <1>t, <1>g, MulMono DEF BlockIds
    <3>3. k > y + 1 => b * (y + 1) <= b * (k - 1)
      <4>1. k - 1 \in Nat /\ y + 1 \in Nat /\ b \in Nat /\ (k > y + 1 => y + 1 <= k - 1)
        BY <1>t, <1>g DEF BlockIds
      <4> HIDE DEF y
      <4>2. QED
        BY <4>1, MulMono
    <3>4. b * (y + 1) = b * y + b /\ b * k \in Nat /\ b * (k - 1) \in Nat
      BY <1>t, <1>g DEF BlockIds
    <3>5. n = sb * x + b * y + (n % b)
      BY <1>6, <1>g, <2>1
    <3>6. k = y + 1 => b * (k - 1) = b * y
      BY <1>t, <1>g DEF BlockIds
    <3> HIDE DEF sb, q, y, K
    <3>7. QED
      BY <3>1, <3>2, <3>3, <3>4, <3>5, <3>6, <1>6, <1>t, <1>g, <1>x, <2>1 DEF BlockIds
  <2>3. ASSUME NEW k \in BlockIds, k # y + 1 PROVE D[k] = B[k]
    <3>1. k \in Int /\ y \in Int
      BY <1>g, <1>t DEF BlockIds
    <3>2. CASE k <= y
      BY <3>2, <2>2, <1>3
    <3>3. CASE k > y + 1
      BY <3>3, <2>2, <1>4
    <3>4. QED
      BY <3>1, <3>2, <3>3, <2>3
  <2>4. CASE y + 1 < K
    <3>1. y + 1 \in BlockIds
      BY <2>4, <1>g, <1>t DEF BlockIds
    <3>2. /\ n < sb * x + b * (y + 1) /\ sb * x + b * ((y + 1) - 1) <= n
          /\ sb * x + b * (y + 1) \in Nat /\ BlockStart(b, x, y + 1) = sb * x + b * (y + 1)
      BY <3>1, <2>2, <1>b, <1>g
    <3>3. \A s \in Quads : B[y + 1][s] = 0
      BY <3>1, <3>2 DEF BlockAfter
    <3>4. MinOf(sb * x + b * (y + 1), n) = n
      BY <3>2 DEF MinOf
    <3>5. D[y + 1] = InSuperblock(v, b, n)
      BY <3>1, <3>2, <3>4, <1>6 DEF InSuperblock
    <3>6. B \in Blocks /\ D \in Blocks
      <4>1. \A k \in BlockIds : BlockAfter(v, b, x, n + 1, k) \in [Quads -> Int]
        BY <1>x, <1>t, BlockType DEF BlockIds
      <4>2. B \in Blocks
        BY <4>1 DEF Blocks
      <4>3. ASSUME NEW k \in BlockIds PROVE D[k] \in [Quads -> Int]
        <5>1. CASE k # y + 1
          BY <5>1, <2>3, <4>1
        <5>2. CASE k = y + 1
          <6>1. \A s \in Quads : Count(v, s, n) \in Nat /\ Count(v, s, sb * q) \in Nat
            BY CountType, <1>g, <1>x, <1>6
          <6>2. InSuperblock(v, b, n) \in [Quads -> Int]
            BY <6>1 DEF InSuperblock
          <6>3. QED
            BY <5>2, <6>2, <3>5
        <5>3. QED
          BY <5>1, <5>2
      <4>4. QED
        BY <4>2, <4>3 DEF Blocks
    <3>7. set_block_counters([counter |-> C, block |-> B], y + 1, InSuperblock(v, b, n))
            = [counter |-> C, block |-> D]
      <4> HIDE DEF B, C, D, y
      <4>1. set_block_counters([counter |-> C, block |-> B], y + 1, D[y + 1])
              = [counter |-> C, block |-> D]
        BY <3>1, <3>3, <3>6, <2>3, SetBlock
      <4>2. QED
        BY <4>1, <3>5
    <3>8. QED
      BY <1>1, <1>2, <1>6, <2>4, <3>7
  <2>5. CASE ~(y + 1 < K)
    <3>1. D = B
      BY <2>5, <2>3, <1>g, <1>t DEF BlockIds
    <3>2. QED
      BY <1>1, <1>2, <2>5, <3>1
  <2>6. QED
    BY <2>4, <2>5
<1>7. QED
  BY <1>5, <1>6

------------------------------------------------------------------------------
\* A sequence of samples holds the superblocks of every SELECT_NUM_SAMPLES-th of
\* the occurrences of s before m.
SampleAt(v, b, s, m, k, sample) ==
  \E p \in 0..(m - 1) :
    /\ v[p] = s /\ Count(v, s, p) = SELECT_NUM_SAMPLES * (k - 1)
    /\ sample = p \div superblock_size(b)
SampleCount(v, s, m) == (Count(v, s, m) + SELECT_NUM_SAMPLES - 1) \div SELECT_NUM_SAMPLES
SamplesAfter(samples, v, b, s, m) ==
  /\ samples \in Seq(Nat)
  /\ Len(samples) = SampleCount(v, s, m)
  /\ \A k \in 1..Len(samples) : SampleAt(v, b, s, m, k, samples[k])

\* Samples taken stay right.
LEMMA SamplesKept ==
  ASSUME NEW v, NEW b, NEW s, NEW m \in Nat, NEW n \in Nat, m <= n, NEW samples,
         SamplesAfter(samples, v, b, s, m), SampleCount(v, s, n) = SampleCount(v, s, m)
  PROVE  SamplesAfter(samples, v, b, s, n)
<1>1. \A k, x : SampleAt(v, b, s, m, k, x) => SampleAt(v, b, s, n, k, x)
  BY DEF SampleAt
<1>2. QED
  BY <1>1 DEF SamplesAfter

\* One more is taken at an occurrence that is due.
LEMMA SamplesTaken ==
  ASSUME NEW v, NEW b \in BlockSizes, NEW s, NEW m \in Nat, NEW n \in Nat, m <= n,
         NEW samples, SamplesAfter(samples, v, b, s, m),
         SampleCount(v, s, n) = SampleCount(v, s, m) + 1,
         NEW p \in 0..(n - 1), v[p] = s,
         Count(v, s, p) = SELECT_NUM_SAMPLES * SampleCount(v, s, m)
  PROVE  SamplesAfter(Append(samples, p \div superblock_size(b)), v, b, s, n)
<1> DEFINE sample == p \div superblock_size(b)
           more == Append(samples, sample)
<1>a. superblock_size(b) \in Nat \ {0} /\ SELECT_NUM_SAMPLES \in Nat /\ p \in Nat
  BY SizesType
<1>0. sample \in Nat /\ SELECT_NUM_SAMPLES \in Nat
  BY <1>a, DivMod
<1> HIDE DEF sample
<1>1. \A k, x : SampleAt(v, b, s, m, k, x) => SampleAt(v, b, s, n, k, x)
  BY DEF SampleAt
<1>2. samples \in Seq(Nat) /\ Len(samples) = SampleCount(v, s, m) /\ Len(samples) \in Nat
  BY DEF SamplesAfter
<1>3. more \in Seq(Nat) /\ Len(more) = Len(samples) + 1
  BY <1>0, <1>2
<1>4. ASSUME NEW k \in 1..Len(more) PROVE SampleAt(v, b, s, n, k, more[k])
  <2>1. CASE k <= Len(samples)
    <3>1. more[k] = samples[k] /\ k \in 1..Len(samples)
      BY <1>0, <1>2, <1>3, <2>1
    <3>2. QED
      BY <3>1, <1>1 DEF SamplesAfter
  <2>2. CASE k = Len(samples) + 1
    <3>1. more[k] = sample /\ k - 1 = SampleCount(v, s, m)
      BY <1>0, <1>2, <1>3, <2>2
    <3>2. QED
      BY <3>1 DEF SampleAt, sample
  <2>3. QED
    BY <1>2, <1>3, <2>1, <2>2
<1>5. QED
  BY <1>2, <1>3, <1>4 DEF SamplesAfter, sample

\* How the count of samples grows by one position.
LEMMA SampleCountStep ==
  ASSUME NEW v, NEW s, NEW m \in Nat
  PROVE  LET c == Count(v, s, m)
             due == v[m] = s /\ c % SELECT_NUM_SAMPLES = 0
         IN /\ SampleCount(v, s, m + 1) = SampleCount(v, s, m) + (IF due THEN 1 ELSE 0)
            /\ due => c = SELECT_NUM_SAMPLES * SampleCount(v, s, m)
            /\ SampleCount(v, s, m) \in Nat
<1> DEFINE S == SELECT_NUM_SAMPLES
           c == Count(v, s, m)
<1>0. S \in Nat \ {0} /\ c \in Nat
  BY SupportAssumption, CountType
<1>1. Count(v, s, m + 1) = IF v[m] = s THEN c + 1 ELSE c
  BY CountStep, <1>0
<1>2. /\ c \div S \in Nat /\ (c + S) \div S = c \div S + 1
      /\ (c + S - 1) \div S = IF c % S = 0 THEN c \div S ELSE c \div S + 1
  BY <1>0, CeilDiv
<1>3. c + 1 + S - 1 = c + S
  BY <1>0
<1>4. c % S = 0 => c = S * (c \div S)
  <2>1. c \div S \in Nat /\ c = S * (c \div S) + (c % S)
    BY <1>0, DivMod
  <2>2. S * (c \div S) \in Nat
    BY <1>0, <2>1
  <2>3. QED
    BY <2>1, <2>2
<1>5. SampleCount(v, s, m + 1) = IF v[m] = s THEN c \div S + 1 ELSE SampleCount(v, s, m)
  BY <1>1, <1>2, <1>3 DEF SampleCount
<1>6. QED
  BY <1>2, <1>4, <1>5 DEF SampleCount

\* A sample taken for a piece of one superblock that holds an occurrence that is
\* due.
LEMMA SamplesPiece ==
  ASSUME NEW v, NEW b \in BlockSizes, NEW s, NEW m \in Nat, NEW n \in Nat,
         NEW samples, SamplesAfter(samples, v, b, s, m),
         SampleCount(v, s, m + n) = SampleCount(v, s, m) + 1,
         SampleCount(v, s, m) \in Nat,
         Count(v, s, m) <= SELECT_NUM_SAMPLES * SampleCount(v, s, m),
         SELECT_NUM_SAMPLES * SampleCount(v, s, m) < Count(v, s, m + n),
         NEW x, \A z \in m..(m + n - 1) : z \div superblock_size(b) = x
  PROVE  SamplesAfter(Append(samples, x), v, b, s, m + n)
<1> DEFINE k == SELECT_NUM_SAMPLES * SampleCount(v, s, m)
<1>1. k \in Nat
  BY SupportAssumption
<1>2. PICK p \in 0..(m + n - 1) : v[p] = s /\ Count(v, s, p) = k
  BY <1>1, SelectedExists
<1>3. p >= m
  <2> SUFFICES ASSUME p < m PROVE FALSE
    OBVIOUS
  <2>1. Count(v, s, p + 1) = k + 1 /\ Count(v, s, p + 1) <= Count(v, s, m)
    BY <1>2, CountStep, CountMono
  <2> HIDE DEF k
  <2>2. QED
    BY <2>1, <1>1, CountType DEF k
<1>4. p \div superblock_size(b) = x
  BY <1>3
<1>5. QED
  BY <1>2, <1>4, SamplesTaken

\* The finished samples of a symbol, with their sentinel, are those SupportOf
\* asks for.
LEMMA SamplesFinal ==
  ASSUME NEW v, NEW b \in BlockSizes, NEW s, NEW n \in Nat, NEW samples,
         SamplesAfter(samples, v, b, s, n)
  PROVE  (IF samples = <<>> THEN <<0>> ELSE samples) \o <<n \div superblock_size(b)>>
           = SelectSamplesOf(v, n, b, s)
<1> DEFINE S == SELECT_NUM_SAMPLES
           m == Count(v, s, n)
           count == (m + S - 1) \div S
           sampled(k) == CHOOSE p \in Selected(v, n, s, (k - 1) * S) : TRUE
           listed == [k \in 1..count |-> sampled(k) \div superblock_size(b)]
<1>0. S \in Nat \ {0} /\ m \in Nat
  BY SupportAssumption, CountType
<1>1. samples \in Seq(Nat) /\ Len(samples) = count
  BY DEF SamplesAfter, SampleCount
<1>2. m = 0 <=> count = 0
  <2>1. m \div S \in Nat /\ count = IF m % S = 0 THEN m \div S ELSE m \div S + 1
    BY <1>0, CeilDiv
  <2>2. m = S * (m \div S) + (m % S) /\ m % S \in 0..(S - 1)
    BY <1>0, DivMod
  <2>3. m = 0 => m \div S = 0 /\ m % S = 0
    BY <1>0, DivUnique
  <2>4. m \div S = 0 => S * (m \div S) = 0
    BY <1>0
  <2> HIDE DEF S, m, count
  <2>5. QED
    BY <2>1, <2>2, <2>3, <2>4, <1>0
<1>3. m = 0 <=> samples = <<>>
  BY <1>1, <1>2
<1>4. ASSUME NEW k \in 1..count PROVE samples[k] = sampled(k) \div superblock_size(b)
  <2>1. PICK p \in 0..(n - 1) :
          /\ v[p] = s /\ Count(v, s, p) = S * (k - 1)
          /\ samples[k] = p \div superblock_size(b)
    BY <1>1 DEF SamplesAfter, SampleAt
  <2>2. S * (k - 1) = (k - 1) * S
    BY <1>0
  <2>3. p \in Selected(v, n, s, (k - 1) * S)
    BY <2>1, <2>2 DEF Selected
  <2>4. \A t \in Selected(v, n, s, (k - 1) * S) : t = p
    BY <2>1, <2>2, SelectedUnique DEF Selected
  <2>5. sampled(k) = p
    BY <2>3, <2>4
  <2>6. QED
    BY <2>1, <2>5
<1>5. samples = listed
  <2> HIDE DEF count, sampled
  <2>1. QED
    BY <1>1, <1>4
<1>6. SelectSamplesOf(v, n, b, s)
        = (IF m = 0 THEN <<0>> ELSE listed) \o <<n \div superblock_size(b)>>
  BY DEF SelectSamplesOf
<1> HIDE DEF listed, m
<1>7. QED
  BY <1>3, <1>5, <1>6

------------------------------------------------------------------------------
(* What the queries of a support r rely on.                                *)

\* Whole data lines with the first n digits of v in front, whatever follows.
Holds(d, v, n) ==
  /\ \E l \in Nat : DOMAIN d = 0..(l * LINE - 1) /\ n <= l * LINE
  /\ \A p \in 0..(n - 1) : d[p] = v[p]

\* The counters of the superblocks and of the blocks that begin in the sequence
\* are exact, and that of the block after them counts to the end.
CountersHold(r, v, n, b) ==
  \A s \in Quads, x \in 0..(n \div superblock_size(b)) :
    LET from == superblock_size(b) * x IN
    /\ r.superblocks[x + 1].counter[s] = Count(v, s, from)
    /\ \A j \in BlockIds : BlockStart(b, x, j - 1) <= n =>
         r.superblocks[x + 1].block[j][s]
           = Count(v, s, MinOf(BlockStart(b, x, j), n)) - Count(v, s, from)

\* The superblock of an occurrence is between the samples around it.
SamplesEnclose(r, v, n, b) ==
  \A s \in Quads, p \in 0..(n - 1) : v[p] = s =>
    LET a == Count(v, s, p) \div SELECT_NUM_SAMPLES
        x == p \div superblock_size(b)
    IN /\ r.select_samples[s][a + 1] \in 0..x
       /\ r.select_samples[s][a + 2] \in x..(n \div superblock_size(b))

Supports(r, v, n, b) ==
  /\ r.b_size = b /\ r.len = n
  /\ Holds(r.data, v, n)
  /\ CountersHold(r, v, n, b)
  /\ SamplesEnclose(r, v, n, b)
  /\ \A s \in Quads : occs(r, s) = Count(v, s, n)

\* The sizes of a line.
LEMMA LineSize == LINE \in Nat \ {0} /\ WORD \in Nat \ {0} /\ LINE = 2 * WORD
BY SupportAssumption DEF LINE

\* The data lines hold the sequence, and whole lines.
LEMMA DataLines ==
  ASSUME NEW v, NEW n \in Nat
  PROVE  /\ LINE \in Nat \ {0} /\ WORD \in Nat \ {0} /\ LINE = 2 * WORD
         /\ n_lines(n) \in Nat /\ n_lines(n) * LINE \in Nat /\ n <= n_lines(n) * LINE
         /\ DOMAIN data_lines(v, n) = 0..(n_lines(n) * LINE - 1)
         /\ \A p \in 0..(n - 1) : data_lines(v, n)[p] = v[p]
         /\ \A line \in Nat : line * LINE < n => line < n_lines(n)
<1>1. WORD \in Nat \ {0} /\ LINE = 2 * WORD
  BY SupportAssumption DEF LINE
<1>2. LINE \in Nat \ {0}
  BY <1>1
<1>3. n \div LINE \in Nat /\ n_lines(n) = IF n % LINE = 0 THEN n \div LINE ELSE n \div LINE + 1
  BY <1>2, CeilDiv DEF n_lines
<1>4. n = LINE * (n \div LINE) + (n % LINE) /\ n % LINE \in 0..(LINE - 1)
  BY <1>2, DivMod
<1>5. n_lines(n) \in Nat /\ n_lines(n) * LINE \in Nat
  BY <1>2, <1>3
<1>6. n <= n_lines(n) * LINE
  <2> DEFINE q == n \div LINE
  <2>1. q * LINE = LINE * q /\ (q + 1) * LINE = LINE * q + LINE /\ LINE * q \in Nat
    BY <1>2, <1>3
  <2> HIDE DEF q
  <2>2. QED
    BY <2>1, <1>2, <1>3, <1>4 DEF q
<1>7. ASSUME NEW line \in Nat, line * LINE < n PROVE line < n_lines(n)
  <2>1. n_lines(n) <= line => LINE * n_lines(n) <= LINE * line
    BY <1>2, <1>5, MulMono
  <2>2. LINE * n_lines(n) = n_lines(n) * LINE /\ LINE * line = line * LINE /\ line * LINE \in Nat
    BY <1>2, <1>5
  <2>3. QED
    BY <2>1, <2>2, <1>5, <1>6, <1>7
<1>8. DOMAIN data_lines(v, n) = 0..(n_lines(n) * LINE - 1)
  BY DEF data_lines
<1>9. \A p \in 0..(n - 1) : data_lines(v, n)[p] = v[p]
  BY <1>5, <1>6 DEF data_lines
<1>10. QED
  BY <1>1, <1>2, <1>5, <1>6, <1>7, <1>8, <1>9

\* The data lines of a sequence hold it.
LEMMA DataHolds ==
  ASSUME NEW v, NEW n \in Nat
  PROVE  Holds(data_lines(v, n), v, n)
BY DataLines DEF Holds

\* Lines that hold a sequence count as it does.
LEMMA DataCount ==
  ASSUME NEW v, NEW n \in Nat, NEW d, Holds(d, v, n), NEW s, NEW p \in 0..n
  PROVE  Count(d, s, p) = Count(v, s, p)
<1>1. \A q \in 0..(n - 1) : d[q] = v[q]
  BY DEF Holds
<1>2. {j \in 0..(p - 1) : d[j] = s} = {j \in 0..(p - 1) : v[j] = s}
  BY <1>1
<1>3. QED
  BY <1>2 DEF Count

\* A masked popcount is a difference of counts.
LEMMA OnesIs ==
  ASSUME NEW r, NEW s, NEW p \in Nat, NEW k \in Nat
  PROVE  /\ Ones(r, s, p, k) = Count(r.data, s, p + k) - Count(r.data, s, p)
         /\ Ones(r, s, p, k) \in Nat
<1>1. Ones(r, s, p, k) = Cardinality(Occurrences(r.data, s, p, p + k))
  BY DEF Ones, Occurrences
<1>2. /\ Count(r.data, s, p + k) = Count(r.data, s, p) + Cardinality(Occurrences(r.data, s, p, p + k))
      /\ Cardinality(Occurrences(r.data, s, p, p + k)) \in Nat
  BY CountSplit
<1>3. QED
  BY <1>1, <1>2, CountType

\* So is the rank in a line, at each of its offsets and at its end.
LEMMA LineRank ==
  ASSUME NEW r, NEW s, NEW line \in Nat, NEW o \in 0..LINE
  PROVE  line_rank(r, s, line, o)
           = Count(r.data, s, line * LINE + o) - Count(r.data, s, line * LINE)
<1> DEFINE at == line * LINE
           first(k) == Ones(r, s, at, k)
           second(k) == Ones(r, s, at + WORD, k)
           C(p) == Count(r.data, s, p)
<1>1. WORD \in Nat \ {0} /\ LINE = 2 * WORD /\ LINE \in Nat
  BY SupportAssumption DEF LINE
<1>2. at \in Nat /\ at + WORD \in Nat /\ o \in Nat
  BY <1>1
<1>3. \A k \in Nat : first(k) = C(at + k) - C(at) /\ second(k) = C(at + WORD + k) - C(at + WORD)
  BY <1>1, <1>2, OnesIs
<1>4. C(at) \in Nat /\ C(at + WORD) \in Nat /\ C(at + o) \in Nat
  BY <1>1, <1>2, CountType
<1>5. line_rank(r, s, line, o) =
        first(IF o \div WORD = 0 THEN o % WORD ELSE IF o \div WORD > 0 THEN WORD ELSE 0)
          + second(IF o \div WORD = 1 THEN o % WORD ELSE IF o \div WORD > 1 THEN WORD ELSE 0)
  BY DEF line_rank
<1>6. /\ o < WORD => o \div WORD = 0 /\ o % WORD = o
      /\ o >= WORD /\ o < 2 * WORD => o \div WORD = 1 /\ o % WORD = o - WORD
      /\ o = 2 * WORD => o \div WORD = 2 /\ o % WORD = 0
  <2>1. o < WORD => o = WORD * 0 + o /\ o \in 0..(WORD - 1)
    BY <1>1, <1>2
  <2>2. o >= WORD /\ o < 2 * WORD => o = WORD * 1 + (o - WORD) /\ o - WORD \in 0..(WORD - 1)
    BY <1>1, <1>2
  <2>3. o = 2 * WORD => o = WORD * 2 + 0 /\ 0 \in 0..(WORD - 1)
    BY <1>1, <1>2
  <2>4. QED
    BY <2>1, <2>2, <2>3, <1>1, <1>2, DivUnique
<1> HIDE DEF at, first, second, C
<1>7. at + WORD + (o - WORD) = at + o /\ at + WORD + 0 = at + WORD /\ (o = 2 * WORD => at + WORD + WORD = at + o)
  BY <1>1, <1>2
<1>8. CASE o < WORD
  BY <1>8, <1>1, <1>2, <1>3, <1>4, <1>5, <1>6, <1>7 DEF at, C
<1>9. CASE o >= WORD /\ o < 2 * WORD
  BY <1>9, <1>1, <1>2, <1>3, <1>4, <1>5, <1>6, <1>7 DEF at, C
<1>10. CASE o = 2 * WORD
  BY <1>10, <1>1, <1>2, <1>3, <1>4, <1>5, <1>6, <1>7 DEF at, C
<1>11. QED
  BY <1>1, <1>2, <1>8, <1>9, <1>10

\* A line that is not there counts nothing: its offset is 0.
LEMMA GetLineRank ==
  ASSUME NEW v, NEW n \in Nat, NEW r, Holds(r.data, v, n), NEW s,
         NEW line \in Nat, NEW o \in 0..LINE, line * LINE + o <= n
  PROVE  get_line_rank(r, s, line, o) = Count(v, s, line * LINE + o) - Count(v, s, line * LINE)
<1>0. PICK l \in Nat : DOMAIN r.data = 0..(l * LINE - 1) /\ n <= l * LINE
  BY DEF Holds
<1>1. LINE \in Nat \ {0} /\ line * LINE \in Nat /\ o \in Nat /\ l * LINE \in Nat
      /\ n <= l * LINE
  BY <1>0, LineSize
<1>2. line * LINE \in 0..n /\ line * LINE + o \in 0..n
  BY <1>1
<1>3. /\ Count(r.data, s, line * LINE) = Count(v, s, line * LINE)
      /\ Count(r.data, s, line * LINE + o) = Count(v, s, line * LINE + o)
  BY <1>2, DataCount
<1>4. CASE line * LINE \in DOMAIN r.data
  BY <1>3, <1>4, LineRank DEF get_line_rank
<1>5. CASE line * LINE \notin DOMAIN r.data
  <2>1. DOMAIN r.data = 0..(l * LINE - 1)
    BY <1>0
  <2>2. line * LINE + o = line * LINE
    BY <1>1, <1>5, <2>1
  <2>3. Count(v, s, line * LINE) \in Nat
    BY <1>1, CountType
  <2>4. QED
    BY <1>5, <2>2, <2>3 DEF get_line_rank
<1>6. QED
  BY <1>4, <1>5

\* The rank in a block.
LEMMA RankIntraBlock ==
  ASSUME NEW v, NEW n \in Nat, NEW b \in BlockSizes,
         NEW r, Holds(r.data, v, n), r.b_size = b, NEW s, NEW p \in 0..n
  PROVE  rank_intra_block(r, s, p) = Count(v, s, p) - Count(v, s, p - (p % b))
<1>1. LINE \in Nat \ {0} /\ 2 * LINE \in Nat \ {0} /\ p \in Nat /\ LINE # 2 * LINE
  BY LineSize
<1>2. CASE b = LINE
  <2> DEFINE line == p \div LINE
             o == p % LINE
  <2>1. line \in Nat /\ o \in 0..(LINE - 1) /\ p = LINE * line + o
    BY <1>1, DivMod
  <2>2. LINE * line = line * LINE /\ line * LINE \in Nat
    BY <1>1, <2>1
  <2>3. rank_intra_block(r, s, p) = get_line_rank(r, s, line, o)
    BY <1>2 DEF rank_intra_block
  <2> HIDE DEF line, o
  <2>4. line * LINE + o = p /\ o \in 0..LINE /\ line * LINE = p - o
    BY <1>1, <2>1, <2>2
  <2>5. get_line_rank(r, s, line, o) = Count(v, s, p) - Count(v, s, p - o)
    <3>1. line * LINE + o <= n
      BY <2>4
    <3>2. QED
      BY <2>1, <2>4, <3>1, GetLineRank
  <2>6. QED
    BY <1>2, <2>3, <2>5 DEF o
<1>3. CASE b = 2 * LINE
  <2> DEFINE block == p \div (2 * LINE)
             o == p % (2 * LINE)
             at == (2 * block) * LINE
             C(q) == Count(v, s, q)
  <2>1. block \in Nat /\ o \in 0..(2 * LINE - 1) /\ p = (2 * LINE) * block + o
    BY <1>1, DivMod
  <2>2. rank_intra_block(r, s, p) =
          IF o <= LINE THEN get_line_rank(r, s, 2 * block, o)
          ELSE get_line_rank(r, s, 2 * block, LINE) + get_line_rank(r, s, 2 * block + 1, o - LINE)
    BY <1>1, <1>3 DEF rank_intra_block
  <2> HIDE DEF block, o
  <2>3. /\ 2 * block \in Nat /\ 2 * block + 1 \in Nat /\ at \in Nat
        /\ (2 * block + 1) * LINE = at + LINE /\ p = at + o
    BY <1>1, <2>1
  <2> HIDE DEF at
  <2>4. at = p - o /\ C(at) \in Nat /\ C(at + LINE) \in Nat /\ C(p) \in Nat
    BY <1>1, <2>1, <2>3, CountType
  <2>5. CASE o <= LINE
    <3>1. o \in 0..LINE /\ at + o <= n
      BY <2>1, <2>3, <2>5
    <3>2. get_line_rank(r, s, 2 * block, o) = C(at + o) - C(at)
      BY <2>3, <3>1, GetLineRank DEF at
    <3>3. QED
      BY <1>3, <2>2, <2>3, <2>4, <2>5, <3>2 DEF o
  <2>6. CASE o > LINE
    <3>1. /\ o - LINE \in 0..LINE /\ LINE \in 0..LINE /\ at + LINE <= n
          /\ at + LINE + (o - LINE) = p /\ p <= n
      BY <1>1, <2>1, <2>3, <2>6
    <3>2. get_line_rank(r, s, 2 * block, LINE) = C(at + LINE) - C(at)
      BY <2>3, <3>1, GetLineRank DEF at
    <3>3. get_line_rank(r, s, 2 * block + 1, o - LINE) = C(p) - C(at + LINE)
      BY <2>3, <3>1, GetLineRank
    <3>4. ~(o <= LINE)
      BY <1>1, <2>1, <2>6
    <3> HIDE DEF C
    <3>5. QED
      BY <1>3, <2>2, <2>4, <3>2, <3>3, <3>4 DEF o, C
  <2>7. QED
    BY <1>1, <2>1, <2>5, <2>6
<1>4. QED
  BY <1>2, <1>3 DEF BlockSizes

\* The counters of the superblocks of a support, sentinel included.
LEMMA SupportCounters ==
  ASSUME NEW v, NEW n \in Nat, NEW b \in BlockSizes, NEW s \in Quads,
         NEW x \in 0..(n \div superblock_size(b))
  PROVE  LET sb == SupportOf(v, n, b).superblocks[x + 1]
             from == superblock_size(b) * x
         IN /\ sb.counter[s] = Count(v, s, from)
            /\ \A j \in BlockIds :
                 sb.block[j][s] = IF BlockStart(b, x, j - 1) <= n
                                    THEN Count(v, s, MinOf(BlockStart(b, x, j), n))
                                           - Count(v, s, from)
                                    ELSE 0
<1> DEFINE sb == superblock_size(b)
<1>1. b \in Nat \ {0} /\ sb \in Nat \ {0}
  BY SizesType
<1>2. x \in Nat /\ x + 1 \in 1..((n + sb) \div sb)
  BY <1>1, OpenedIs
<1>3. (x + 1) - 1 = x /\ x * sb = sb * x
  BY <1>1, <1>2
<1>4. \A j \in BlockIds : (j - 1) * b = b * (j - 1) /\ j * b = b * j
  BY <1>1, SupportAssumption DEF BlockIds
<1>5. QED
  BY <1>2, <1>3, <1>4 DEF SupportOf, SuperblocksOf, BlockIds, BlockStart

\* The rank up to a block.
LEMMA RankBlock ==
  ASSUME NEW v, NEW n \in Nat, NEW b \in BlockSizes, NEW r, Supports(r, v, n, b),
         NEW s \in Quads, NEW p \in 0..n
  PROVE  /\ rank_block(r, s, p) = Count(v, s, p - (p % b))
         /\ p - (p % b) \in Nat
<1> DEFINE x == p \div superblock_size(b)
           y == (p \div b) % BLOCKS_IN_SUPERBLOCK
           at == BlockStart(b, x, y)
           from == superblock_size(b) * x
           sb == r.superblocks[x + 1]
<1>t. b \in Nat \ {0} /\ superblock_size(b) \in Nat \ {0} /\ p \in Nat
      /\ BLOCKS_IN_SUPERBLOCK \in Nat \ {0, 1}
  BY SizesType
<1>1. /\ x \in Nat /\ y \in 0..(BLOCKS_IN_SUPERBLOCK - 1) /\ p % b \in 0..(b - 1)
      /\ p = at + (p % b) /\ from \in Nat
  BY <1>t, BlockGrid
<1>2. at \in Nat /\ from <= at /\ at = from + b * y
  BY <1>1, <1>t, BlockStarts DEF BlockStart
<1>3. x \in 0..(n \div superblock_size(b))
  BY <1>t, <1>1, DivMono
<1>4. rank_block(r, s, p) = sb.counter[s] + (IF y = 0 THEN 0 ELSE sb.block[y][s])
  BY DEF rank_block, Supports, get_rank, get_block_counter
<1>5. sb.counter[s] = Count(v, s, from)
  BY <1>3 DEF Supports, CountersHold
<1>6. Count(v, s, from) \in Nat /\ Count(v, s, at) \in Nat
  BY <1>1, <1>2, CountType
<1>7. y # 0 => sb.block[y][s] = Count(v, s, at) - Count(v, s, from)
  <2> SUFFICES ASSUME y # 0 PROVE sb.block[y][s] = Count(v, s, at) - Count(v, s, from)
    OBVIOUS
  <2>1. y \in BlockIds /\ y - 1 \in 0..(BLOCKS_IN_SUPERBLOCK - 1)
    BY <1>1, <1>t DEF BlockIds
  <2>2. BlockStart(b, x, y - 1) \in Nat /\ BlockStart(b, x, y - 1) <= at
    <3>1. b * (y - 1) <= b * y /\ b * (y - 1) \in Nat /\ b * y \in Nat
      BY <1>t, <1>1, <2>1, MulMono
    <3>2. QED
      BY <3>1, <1>1, <1>2 DEF BlockStart
  <2>3. at <= n /\ MinOf(at, n) = at /\ BlockStart(b, x, y - 1) <= n
    <3> HIDE DEF at
    <3> QED
      BY <1>1, <1>2, <2>2, <1>t DEF MinOf
  <2>4. sb.block[y][s] = Count(v, s, MinOf(at, n)) - Count(v, s, from)
    BY <1>3, <2>1, <2>3 DEF Supports, CountersHold
  <2>5. QED
    BY <2>3, <2>4
<1>8. y = 0 => at = from
  <2>1. y = 0 => b * y = 0
    BY <1>t
  <2>2. QED
    BY <2>1, <1>1, <1>2
<1>9. at = p - (p % b)
  <2> HIDE DEF at
  <2> QED
    BY <1>1, <1>2, <1>t
<1> HIDE DEF y, at, from, sb
<1>10. QED
  BY <1>2, <1>4, <1>5, <1>6, <1>7, <1>8, <1>9

\* rank counts the occurrences before a position, at every position up to the end.
LEMMA RankExact ==
  ASSUME NEW v, NEW n \in Nat, NEW b \in BlockSizes, NEW r, Supports(r, v, n, b),
         NEW s \in Quads, NEW p \in 0..n
  PROVE  rank(r, s, p) = Count(v, s, p)
<1>1. Holds(r.data, v, n) /\ r.b_size = b /\ r.len = n
  BY DEF Supports
<1>2. rank_block(r, s, p) = Count(v, s, p - (p % b)) /\ p - (p % b) \in Nat
  BY RankBlock
<1>3. rank_intra_block(r, s, p) = Count(v, s, p) - Count(v, s, p - (p % b))
  BY <1>1, RankIntraBlock
<1>4. Count(v, s, p - (p % b)) \in Nat /\ Count(v, s, p) \in Nat
  BY <1>2, CountType
<1>5. ~(s \notin Quads \/ p > r.len)
  BY <1>1
<1>6. QED
  BY <1>2, <1>3, <1>4, <1>5 DEF rank

\* The child offsets are the running sums of the occurrences.
LEMMA OccsSmallerIs ==
  ASSUME NEW v, NEW n \in Nat
  PROVE  LET sum == n_occs_smaller(v, n)
         IN /\ sum = [c \in 0..4 |-> sum[c]]
            /\ sum[0] = 0
            /\ sum[1] = Count(v, 0, n)
            /\ sum[2] = Count(v, 0, n) + Count(v, 1, n)
            /\ sum[3] = Count(v, 0, n) + Count(v, 1, n) + Count(v, 2, n)
            /\ sum[4] = Count(v, 0, n) + Count(v, 1, n) + Count(v, 2, n) + Count(v, 3, n)
<1> DEFINE C(c) == Count(v, c, n)
           f == [c \in 0..4 |-> IF c = 0 THEN 0 ELSE IF c = 1 THEN C(0)
                   ELSE IF c = 2 THEN C(0) + C(1) ELSE IF c = 3 THEN C(0) + C(1) + C(2)
                   ELSE C(0) + C(1) + C(2) + C(3)]
           G(g) == [c \in 0..4 |-> IF c = 0 THEN 0 ELSE g[c - 1] + Count(v, c - 1, n)]
           sum == n_occs_smaller(v, n)
<1>1. \A c \in 0..3 : C(c) \in Nat
  BY CountType
<1>2. sum = CHOOSE g : g = G(g)
  BY DEF n_occs_smaller
<1>3. f = G(f)
  <2>1. \A c \in 0..4 : f[c] = IF c = 0 THEN 0 ELSE f[c - 1] + C(c - 1)
    <3> HIDE DEF C
    <3> QED
      BY <1>1
  <2>2. QED
    BY <2>1
<1>4. sum = G(sum)
  <2> HIDE DEF f, G, sum
  <2> QED
    BY <1>2, <1>3
<1>5. DOMAIN sum = 0..4 /\ \A c \in 0..4 : sum[c] = IF c = 0 THEN 0 ELSE sum[c - 1] + C(c - 1)
  <2>1. DOMAIN G(sum) = 0..4 /\ \A c \in 0..4 : G(sum)[c] = IF c = 0 THEN 0 ELSE sum[c - 1] + C(c - 1)
    <3> HIDE DEF sum
    <3> QED
      OBVIOUS
  <2> HIDE DEF G, sum
  <2> QED
    BY <1>4, <2>1
<1>6. sum = [c \in 0..4 |-> sum[c]]
  <2>1. G(sum) = [c \in 0..4 |-> G(sum)[c]]
    <3> HIDE DEF sum
    <3> QED
      OBVIOUS
  <2> HIDE DEF G, sum
  <2>2. QED
    BY <1>4, <2>1
<1>7. QED
  <2> HIDE DEF C, sum
  <2>1. sum[0] = 0 /\ sum[1] = sum[0] + C(0) /\ sum[2] = sum[1] + C(1)
        /\ sum[3] = sum[2] + C(2) /\ sum[4] = sum[3] + C(3)
    BY <1>5
  <2>2. /\ sum[1] = C(0) /\ sum[2] = C(0) + C(1) /\ sum[3] = C(0) + C(1) + C(2)
        /\ sum[4] = C(0) + C(1) + C(2) + C(3)
    BY <2>1, <1>1
  <2>3. QED
    BY <1>6, <2>1, <2>2 DEF C, sum

\* The occurrences of a symbol.
LEMMA OccsExact ==
  ASSUME NEW v, NEW n \in Nat, NEW b, NEW s \in Quads
  PROVE  occs(SupportOf(v, n, b), s) = Count(v, s, n)
<1> DEFINE C(c) == Count(v, c, n)
           sum == n_occs_smaller(v, n)
<1>1. \A c \in 0..3 : C(c) \in Nat
  BY CountType
<1>2. /\ sum[0] = 0 /\ sum[1] = C(0) /\ sum[2] = C(0) + C(1) /\ sum[3] = C(0) + C(1) + C(2)
      /\ sum[4] = C(0) + C(1) + C(2) + C(3)
  BY OccsSmallerIs
<1>3. \A c \in 0..3 : sum[c + 1] - sum[c] = C(c)
  <2> HIDE DEF C, sum
  <2>1. QED
    BY <1>1, <1>2
<1>4. QED
  BY <1>3 DEF occs, SupportOf, Quads

\* The stride of select is a natural number.
LEMMA IsqrtType ==
  ASSUME NEW n \in Nat
  PROVE  isqrt(n) \in Nat
<1> DEFINE T == {k \in Nat : n < (k + 1) * (k + 1)}
<1>1. n \in T
  <2>1. (n + 1) * (n + 1) = n * n + 2 * n + 1 /\ n * n \in Nat
    OBVIOUS
  <2>2. n < (n + 1) * (n + 1)
    BY <2>1
  <2>3. QED
    BY <2>2
<1>2. PICK k \in T : \A j \in T : k <= j
  BY <1>1, LeastNat
<1>3. k \in 0..n /\ n < (k + 1) * (k + 1)
  BY <1>1, <1>2
<1>4. k * k <= n
  <2>1. CASE k = 0
    BY <2>1
  <2>2. CASE k # 0
    <3>1. k - 1 \in Nat /\ (k - 1) + 1 = k /\ k - 1 \notin T
      BY <1>2, <1>3, <2>2
    <3>2. ~(n < k * k) /\ k * k \in Nat
      BY <3>1
    <3>3. QED
      BY <3>2
  <2>3. QED
    BY <2>1, <2>2
<1>5. isqrt(n) \in 0..n
  <2> DEFINE root(j) == j * j <= n /\ n < (j + 1) * (j + 1)
  <2>1. isqrt(n) = CHOOSE j \in 0..n : root(j)
    BY DEF isqrt
  <2>2. root(k)
    BY <1>3, <1>4
  <2> HIDE DEF root
  <2>3. QED
    BY <2>1, <2>2, <1>3
<1>6. QED
  BY <1>5

\* Strides forward to the first stop, one back and single steps forward end
\* before the first stop, if the strides do not begin at one.
LEMMA StridedSearch ==
  ASSUME NEW T \in SUBSET Nat, NEW first \in Nat, NEW last \in Nat, NEW step \in Nat \ {0},
         first \notin T, \A k \in Nat : k >= last => k \in T
  PROVE  LET stride == Min({k \in 0..last : first + k * step \in T})
             back == first + (stride - 1) * step
             id == Min({k \in back..(back + last) : k \in T}) - 1
         IN /\ back \in Nat /\ id \in Nat
            /\ id \notin T /\ id + 1 \in T
<1> DEFINE A == {k \in 0..last : first + k * step \in T}
           stride == Min(A)
           back == first + (stride - 1) * step
           B == {k \in back..(back + last) : k \in T}
           id == Min(B) - 1
<1> SUFFICES back \in Nat /\ id \in Nat /\ id \notin T /\ id + 1 \in T
  OBVIOUS
<1>1. last \in A
  <2>1. last * 1 <= last * step /\ last * step \in Nat
    BY MulMono
  <2>2. first + last * step \in Nat /\ first + last * step >= last
    BY <2>1
  <2>3. QED
    BY <2>2
<1>2. stride \in A /\ \A k \in A : stride <= k
  <2>1. A \in SUBSET Nat
    OBVIOUS
  <2> HIDE DEF A
  <2>2. QED
    BY <1>1, <2>1, MinNat
<1>3. stride \in Nat /\ stride # 0 /\ stride <= last
  <2>1. 0 * step = 0 /\ first + 0 * step = first
    OBVIOUS
  <2>2. 0 \notin A
    BY <2>1
  <2>3. A \in SUBSET (0..last)
    OBVIOUS
  <2> HIDE DEF A, stride
  <2>4. QED
    BY <1>2, <2>2, <2>3
<1>4. stride - 1 \in 0..last /\ stride - 1 \notin A
  <2> HIDE DEF stride, A
  <2> QED
    BY <1>2, <1>3
<1>5. back \notin T /\ back \in Nat
  <2> HIDE DEF stride
  <2>1. (stride - 1) * step \in Nat
    BY <1>4
  <2>2. QED
    BY <1>4, <2>1
<1> HIDE DEF stride, back
<1>6. back + last \in B
  BY <1>5
<1>7. Min(B) \in B /\ \A k \in B : Min(B) <= k
  <2>1. B \in SUBSET Nat
    BY <1>5
  <2> HIDE DEF B
  <2>2. QED
    BY <1>6, <2>1, MinNat
<1>8. Min(B) \in T /\ Min(B) \in back..(back + last) /\ Min(B) # back
  <2> DEFINE m == Min(B)
  <2>1. m \in B /\ back \notin B
    BY <1>5, <1>7
  <2> HIDE DEF m
  <2>2. m \in T /\ m \in back..(back + last) /\ m # back
    BY <2>1
  <2>3. QED
    BY <2>2 DEF m
<1>9. id \in back..(back + last) /\ id \notin B /\ id + 1 = Min(B)
  <2> DEFINE m == Min(B)
  <2>1. /\ m \in back..(back + last) /\ m # back /\ \A k \in B : m <= k
        /\ B \in SUBSET Nat
    BY <1>7, <1>8, <1>5
  <2>2. id = m - 1
    OBVIOUS
  <2> HIDE DEF m, B, id
  <2>3. id \in back..(back + last) /\ id \notin B /\ id + 1 = m
    BY <2>1, <2>2, <1>5
  <2>4. QED
    BY <2>3 DEF m
<1> HIDE DEF id
<1>10. id \notin T
  BY <1>9
<1>11. QED
  BY <1>5, <1>8, <1>9, <1>10

\* The element after a sequence of numbers.
LEMMA ConcatLast ==
  ASSUME NEW A \in Seq(Nat), NEW e \in Nat
  PROVE  (A \o <<e>>)[Len(A) + 1] = e
OBVIOUS

\* The samples around an occurrence: its superblock is between them.
LEMMA SampleBounds ==
  ASSUME NEW v, NEW n \in Nat, NEW b \in BlockSizes, NEW s \in Quads,
         NEW p \in 0..(n - 1), v[p] = s
  PROVE  LET a == Count(v, s, p) \div SELECT_NUM_SAMPLES
             samples == SelectSamplesOf(v, n, b, s)
             x == p \div superblock_size(b)
         IN /\ a \in Nat /\ samples[a + 1] \in 0..x
            /\ samples[a + 2] \in x..(n \div superblock_size(b))
<1> DEFINE S == SELECT_NUM_SAMPLES
           sb == superblock_size(b)
           c == Count(v, s, p)
           m == Count(v, s, n)
           a == c \div S
           count == (m + S - 1) \div S
           pick(k) == CHOOSE q \in Selected(v, n, s, (k - 1) * S) : TRUE
           listed == [k \in 1..count |-> pick(k) \div sb]
           samples == SelectSamplesOf(v, n, b, s)
<1>t. S \in Nat \ {0} /\ sb \in Nat \ {0} /\ p \in Nat /\ p < n
  BY SizesType
<1>1. c \in Nat /\ m \in Nat /\ c < m
  <2>1. Count(v, s, p + 1) = c + 1 /\ c \in Nat /\ m \in Nat
    BY <1>t, CountStep, CountType
  <2>2. Count(v, s, p + 1) <= m
    BY <1>t, CountMono
  <2> HIDE DEF c, m
  <2>3. QED
    BY <2>1, <2>2
<1>2. a \in Nat /\ c = S * a + (c % S) /\ c % S \in 0..(S - 1) /\ S * a \in Nat
  <2> HIDE DEF S, c
  <2>1. a \in Nat /\ c = S * a + (c % S) /\ c % S \in 0..(S - 1)
    BY <1>1, <1>t, DivMod
  <2>2. S * a \in Nat
    BY <2>1, <1>t
  <2>3. QED
    BY <2>1, <2>2
<1>3. samples = listed \o <<n \div sb>>
  <2>1. samples = (IF m = 0 THEN <<0>> ELSE listed) \o <<n \div sb>>
    BY DEF SelectSamplesOf
  <2>2. m # 0
    BY <1>1
  <2> HIDE DEF listed, m, samples, sb
  <2>3. QED
    BY <2>1, <2>2, Zenon
<1>4. n \div sb \in Nat /\ p \div sb \in Nat /\ p \div sb <= n \div sb
  <2> HIDE DEF sb
  <2>1. n \div sb \in Nat
    BY <1>t, DivMod
  <2>2. p \div sb \in 0..(n \div sb)
    BY <1>t, DivMono
  <2>3. QED
    BY <2>1, <2>2
\* The position of a sampled occurrence.
<1>5. ASSUME NEW j \in Nat, S * j < m
      PROVE  /\ pick(j + 1) \in 0..(n - 1) /\ v[pick(j + 1)] = s
             /\ Count(v, s, pick(j + 1)) = S * j
  <2>1. S * j \in Nat /\ ((j + 1) - 1) * S = S * j
    BY <1>t
  <2>2. Selected(v, n, s, ((j + 1) - 1) * S) # {}
    BY <2>1, <1>5, SelectedExists DEF Selected
  <2>3. pick(j + 1) \in Selected(v, n, s, ((j + 1) - 1) * S)
    BY <2>2
  <2> HIDE DEF pick
  <2>4. QED
    BY <2>1, <2>3 DEF Selected
<1>6. /\ count \in Nat
      /\ \A j \in Nat : S * j < m <=> j < count
  <2> DEFINE q == m \div S
  <2>1. q \in Nat /\ m = S * q + (m % S) /\ m % S \in 0..(S - 1) /\ S * q \in Nat
    <3> HIDE DEF S, m
    <3>1. q \in Nat /\ m = S * q + (m % S) /\ m % S \in 0..(S - 1)
      BY <1>1, <1>t, DivMod
    <3>2. S * q \in Nat
      BY <3>1, <1>t
    <3>3. QED
      BY <3>1, <3>2
  <2>2. count = IF m % S = 0 THEN q ELSE q + 1
    BY <1>1, <1>t, CeilDiv
  <2>3. ASSUME NEW j \in Nat PROVE S * j < m <=> j < count
    <3> HIDE DEF S, q, m, count
    <3>1. j <= q => S * j <= S * q
      BY <2>1, <1>t, MulMono
    <3>2. j >= q + 1 => S * (q + 1) <= S * j
      BY <2>1, <1>t, MulMono
    <3>3. j + 1 <= q => S * (j + 1) <= S * q
      BY <2>1, <1>t, MulMono
    <3>4. S * (q + 1) = S * q + S /\ S * (j + 1) = S * j + S /\ S * j \in Nat
      BY <2>1, <1>t
    <3>5. j = q => S * j = S * q
      OBVIOUS
    <3>6. QED
      BY <3>1, <3>2, <3>3, <3>4, <3>5, <2>1, <2>2, <1>t
  <2> HIDE DEF count, q
  <2>4. QED
    BY <2>1, <2>2, <2>3
<1>8. \A k \in 1..count : listed[k] = pick(k) \div sb
  OBVIOUS
<1>9. \A k \in 1..count : pick(k) \div sb \in Nat
  <2> SUFFICES ASSUME NEW k \in 1..count PROVE pick(k) \div sb \in Nat
    OBVIOUS
  <2>1. k - 1 \in Nat /\ k - 1 < count /\ (k - 1) + 1 = k
    BY <1>6
  <2>2. pick(k) \in 0..(n - 1)
    BY <2>1, <1>5, <1>6
  <2> HIDE DEF pick, sb
  <2>3. QED
    BY <2>2, <1>t, DivMod
<1>10. listed \in Seq(Nat) /\ Len(listed) = count
  <2> HIDE DEF count, pick
  <2> QED
    BY <1>6, <1>9
<1> HIDE DEF listed, count
<1>11. /\ \A k \in 1..count : samples[k] = listed[k]
       /\ samples[count + 1] = n \div sb
  <2>1. \A k \in 1..count : samples[k] = listed[k]
    <3> DEFINE tail == <<n \div sb>>
    <3>1. tail \in Seq(Nat) /\ samples = listed \o tail
      BY <1>3, <1>4
    <3> HIDE DEF tail, samples, sb
    <3>2. QED
      BY <3>1, <1>10, <1>6
  <2>2. samples[count + 1] = n \div sb
    <3> HIDE DEF samples, sb
    <3> QED
      BY <1>3, <1>4, <1>10, ConcatLast
  <2>3. QED
    BY <2>1, <2>2
<1>12. a < count /\ a + 1 \in 1..count
  <2>1. S * a < m
    <3> HIDE DEF a, c, m
    <3> QED
      BY <1>1, <1>2
  <2>2. QED
    BY <2>1, <1>2, <1>6
<1>13. samples[a + 1] \in 0..(p \div sb)
  <2> DEFINE q == pick(a + 1)
  <2>1. q \in 0..(n - 1) /\ v[q] = s /\ Count(v, s, q) = S * a
    BY <1>2, <1>5, <1>6, <1>12
  <2>2. samples[a + 1] = q \div sb
    BY <1>8, <1>11, <1>12
  <2>3. q <= p
    <3> HIDE DEF q, a
    <3>1. q > p => Count(v, s, p + 1) <= Count(v, s, q)
      BY <1>t, <2>1, CountMono
    <3>2. Count(v, s, p + 1) = c + 1
      BY <1>t, CountStep, <1>1
    <3>3. S * a <= c
      BY <1>1, <1>2
    <3>4. QED
      BY <3>1, <3>2, <3>3, <2>1, <1>1, <1>2, <1>t
  <2> HIDE DEF q, samples
  <2>4. QED
    BY <2>1, <2>2, <2>3, <1>t, DivMono
<1>14. samples[a + 2] \in (p \div sb)..(n \div sb)
  <2>1. CASE a + 1 < count
    <3> DEFINE q == pick((a + 1) + 1)
    <3>1. a + 1 \in Nat /\ (a + 1) + 1 = a + 2 /\ a + 2 \in 1..count
      BY <1>2, <1>6, <2>1
    <3>2. q \in 0..(n - 1) /\ v[q] = s /\ Count(v, s, q) = S * (a + 1)
      BY <3>1, <2>1, <1>5, <1>6
    <3>3. samples[a + 2] = q \div sb
      BY <3>1, <1>8, <1>11
    <3>4. S * (a + 1) = S * a + S /\ c < S * (a + 1)
      <4>1. S * (a + 1) = S * a + S
        BY <1>2, <1>t
      <4> HIDE DEF a, c, S
      <4>2. QED
        BY <4>1, <1>2, <1>t, <1>1
    <3> HIDE DEF q, a, samples
    <3>5. p <= q
      <4>1. q < p => Count(v, s, q) <= c
        BY <1>t, <3>2, CountMono
      <4>2. QED
        BY <4>1, <3>2, <3>4, <1>1, <1>2, <1>t
    <3>6. q <= n /\ q \in Nat
      BY <3>2, <1>t
    <3>7. p \div sb \in 0..(q \div sb) /\ q \div sb \in 0..(n \div sb)
      BY <3>5, <3>6, <1>t, DivMono
    <3> HIDE DEF sb
    <3>8. QED
      BY <3>3, <3>7, <1>4
  <2>2. CASE ~(a + 1 < count)
    <3>1. a + 2 = count + 1
      BY <2>2, <1>2, <1>6, <1>12
    <3>2. samples[a + 2] = n \div sb
      BY <3>1, <1>11
    <3>3. QED
      BY <3>2, <1>4
  <2>3. QED
    BY <2>1, <2>2
<1>15. QED
  BY <1>2, <1>13, <1>14

\* A support of a sequence is one.
LEMMA SupportSupports ==
  ASSUME NEW v, NEW n \in Nat, NEW b \in BlockSizes
  PROVE  Supports(SupportOf(v, n, b), v, n, b)
<1> DEFINE r == SupportOf(v, n, b)
<1>1. /\ r.b_size = b /\ r.len = n /\ r.data = data_lines(v, n)
      /\ r.select_samples = [s \in Quads |-> SelectSamplesOf(v, n, b, s)]
  BY DEF SupportOf
<1>2. Holds(r.data, v, n)
  BY <1>1, DataHolds
<1>3. CountersHold(r, v, n, b)
  BY SupportCounters DEF CountersHold
<1>4. SamplesEnclose(r, v, n, b)
  <2> SUFFICES ASSUME NEW s \in Quads, NEW p \in 0..(n - 1), v[p] = s
               PROVE  LET a == Count(v, s, p) \div SELECT_NUM_SAMPLES
                          x == p \div superblock_size(b)
                      IN /\ r.select_samples[s][a + 1] \in 0..x
                         /\ r.select_samples[s][a + 2] \in x..(n \div superblock_size(b))
    BY DEF SamplesEnclose
  <2>1. r.select_samples[s] = SelectSamplesOf(v, n, b, s)
    BY <1>1
  <2> HIDE DEF r
  <2>2. QED
    BY <2>1, SampleBounds
<1>5. \A s \in Quads : occs(r, s) = Count(v, s, n)
  BY OccsExact
<1> HIDE DEF r
<1>6. Supports(r, v, n, b)
  BY <1>1, <1>2, <1>3, <1>4, <1>5 DEF Supports
<1>7. QED
  BY <1>6 DEF r

\* The block of an occurrence, found by the block counters of its superblock.
LEMMA BlockPredecessor ==
  ASSUME NEW v, NEW n \in Nat, NEW b \in BlockSizes, NEW r, Supports(r, v, n, b),
         NEW s \in Quads, NEW p \in 0..(n - 1), v[p] = s
  PROVE  LET x == p \div superblock_size(b)
             y == (p \div b) % BLOCKS_IN_SUPERBLOCK
             from == Count(v, s, superblock_size(b) * x)
         IN block_predecessor(r.superblocks[x + 1], s,
                              (Count(v, s, p) + 1) - from)
              = <<y, Count(v, s, BlockStart(b, x, y)) - from>>
<1> DEFINE x == p \div superblock_size(b)
           y == (p \div b) % BLOCKS_IN_SUPERBLOCK
           at(j) == BlockStart(b, x, j)
           start == superblock_size(b) * x
           from == Count(v, s, start)
           c == Count(v, s, p)
           target == (c + 1) - from
           sb == r.superblocks[x + 1]
           reach == {j \in BlockIds : sb.block[j][s] >= target}
<1> SUFFICES block_predecessor(sb, s, target) = <<y, Count(v, s, at(y)) - from>>
  OBVIOUS
<1>t. b \in Nat \ {0} /\ superblock_size(b) \in Nat \ {0} /\ p \in Nat /\ p < n
      /\ BLOCKS_IN_SUPERBLOCK \in Nat \ {0, 1}
  BY SizesType
<1>g. /\ x \in Nat /\ y \in 0..(BLOCKS_IN_SUPERBLOCK - 1) /\ p % b \in 0..(b - 1)
      /\ p = at(y) + (p % b) /\ start \in Nat
  BY <1>t, BlockGrid
<1>x. x \in 0..(n \div superblock_size(b))
  BY <1>t, DivMono
<1>a. ASSUME NEW j \in 0..(BLOCKS_IN_SUPERBLOCK - 1)
      PROVE  at(j) \in Nat /\ at(j) = start + b * j /\ b * j \in Nat
  <2>1. b * j \in Nat
    BY <1>t
  <2>2. QED
    BY <2>1, <1>g, <1>t, BlockStarts DEF BlockStart
<1>c. from \in Nat /\ c \in Nat /\ Count(v, s, at(y)) \in Nat
  BY <1>g, <1>t, <1>a, CountType
<1>b. ASSUME NEW j \in BlockIds
      PROVE  /\ at(j - 1) <= n => sb.block[j][s] = Count(v, s, MinOf(at(j), n)) - from
             /\ j \in 0..(BLOCKS_IN_SUPERBLOCK - 1) /\ j - 1 \in 0..(BLOCKS_IN_SUPERBLOCK - 1)
  <2>1. j \in 0..(BLOCKS_IN_SUPERBLOCK - 1) /\ j - 1 \in 0..(BLOCKS_IN_SUPERBLOCK - 1)
    BY <1>t DEF BlockIds
  <2>2. QED
    BY <2>1, <1>x DEF Supports, CountersHold
\* Blocks up to that of the occurrence do not reach the target.
<1>1. ASSUME NEW j \in BlockIds, j <= y
      PROVE  sb.block[j][s] = Count(v, s, at(j)) - from /\ ~(sb.block[j][s] >= target)
  <2>1. b * j <= b * y /\ b * (j - 1) <= b * y
    BY <1>1, <1>b, <1>t, <1>g, MulMono
  <2>2. at(j) <= p /\ at(j - 1) <= n /\ at(j) \in Nat
    <3>1. at(j) = start + b * j /\ at(j - 1) = start + b * (j - 1) /\ at(y) = start + b * y
          /\ b * j \in Nat /\ b * (j - 1) \in Nat /\ b * y \in Nat
      BY <1>a, <1>b, <1>g
    <3> HIDE DEF at, start
    <3>2. QED
      BY <3>1, <2>1, <1>g, <1>t
  <2>3. MinOf(at(j), n) = at(j)
    <3> HIDE DEF at
    <3> QED
      BY <2>2, <1>t DEF MinOf
  <2>4. Count(v, s, at(j)) <= c /\ Count(v, s, at(j)) \in Nat
    <3> HIDE DEF at
    <3> QED
      BY <2>2, <1>t, CountMono, CountType DEF c
  <2>5. sb.block[j][s] = Count(v, s, at(j)) - from
    BY <2>2, <2>3, <1>b
  <2> HIDE DEF at, from, c, sb
  <2>6. QED
    BY <2>4, <2>5, <1>c
\* The next one does.
<1>2. ASSUME y + 1 \in BlockIds
      PROVE  sb.block[y + 1][s] >= target
  <2>1. (y + 1) - 1 = y /\ y + 1 \in 0..(BLOCKS_IN_SUPERBLOCK - 1)
    BY <1>2, <1>g, <1>t DEF BlockIds
  <2>2. at(y + 1) \in Nat /\ p < at(y + 1) /\ at(y) <= n
    <3>1. b * (y + 1) = b * y + b
      BY <1>g, <1>t
    <3>2. at(y + 1) = start + b * (y + 1) /\ at(y) = start + b * y /\ b * y \in Nat
          /\ at(y + 1) \in Nat
      BY <2>1, <1>a, <1>g
    <3> HIDE DEF at, start, y
    <3>3. QED
      BY <3>1, <3>2, <1>g, <1>t
  <2>3. MinOf(at(y + 1), n) \in Nat /\ p + 1 <= MinOf(at(y + 1), n)
    <3> HIDE DEF at
    <3> QED
      BY <2>2, <1>t DEF MinOf
  <2>4. Count(v, s, MinOf(at(y + 1), n)) >= c + 1 /\ Count(v, s, MinOf(at(y + 1), n)) \in Nat
    <3> DEFINE q == MinOf(at(y + 1), n)
    <3> HIDE DEF q
    <3>1. q \in Nat /\ p + 1 <= q
      BY <2>3 DEF q
    <3>2. Count(v, s, p + 1) = c + 1 /\ Count(v, s, p + 1) <= Count(v, s, q)
          /\ Count(v, s, q) \in Nat
      BY <3>1, <1>t, <1>c, CountStep, CountMono, CountType
    <3>3. QED
      BY <3>2, <1>c DEF q
  <2>5. sb.block[y + 1][s] = Count(v, s, MinOf(at(y + 1), n)) - from
    BY <1>2, <2>1, <2>2, <1>b
  <2> DEFINE most == Count(v, s, MinOf(at(y + 1), n))
  <2> HIDE DEF most, at, from, c, sb, y
  <2>6. QED
    BY <2>4, <2>5, <1>c DEF most
<1>3. block_predecessor(sb, s, target) =
        LET id == IF reach = {} THEN BLOCKS_IN_SUPERBLOCK - 1 ELSE Min(reach) - 1
        IN <<id, IF id = 0 THEN 0 ELSE sb.block[id][s]>>
  BY DEF block_predecessor, BlockIds, get_block_counter
<1>4. (IF reach = {} THEN BLOCKS_IN_SUPERBLOCK - 1 ELSE Min(reach) - 1) = y
  <2>0. reach \in SUBSET Nat /\ reach \in SUBSET BlockIds
    BY <1>t DEF BlockIds
  <2>1. CASE y = BLOCKS_IN_SUPERBLOCK - 1
    <3>1. \A j \in BlockIds : j <= y
      BY <2>1, <1>t DEF BlockIds
    <3>2. reach = {}
      BY <3>1, <1>1
    <3> HIDE DEF reach, y
    <3>3. QED
      BY <2>1, <3>2
  <2>2. CASE y # BLOCKS_IN_SUPERBLOCK - 1
    <3>1. y + 1 \in BlockIds
      BY <2>2, <1>g, <1>t DEF BlockIds
    <3>2. y + 1 \in reach
      BY <3>1, <1>2
    <3>3. \A j \in reach : j > y
      <4>1. \A j \in BlockIds : j \in Int
        BY DEF BlockIds
      <4>2. y \in Int
        BY <1>g
      <4> HIDE DEF y, target
      <4>3. QED
        BY <1>1, <4>1, <4>2
    <3> HIDE DEF reach, y
    <3>4. Min(reach) \in reach /\ \A j \in reach : Min(reach) <= j
      BY <3>2, <2>0, MinNat
    <3>5. Min(reach) = y + 1 /\ reach # {}
      <4> DEFINE m == Min(reach)
      <4>0. y \in Nat
        BY <1>g, <1>t
      <4>1. m \in reach /\ m > y /\ m <= y + 1
        BY <3>2, <3>3, <3>4
      <4> HIDE DEF m
      <4>2. m = y + 1
        BY <4>0, <4>1, <2>0
      <4>3. QED
        BY <3>2, <4>2 DEF m
    <3>6. QED
      BY <3>5, <1>g
  <2>3. QED
    BY <2>1, <2>2
<1>5. y # 0 => sb.block[y][s] = Count(v, s, at(y)) - from
  <2>1. y # 0 => y \in BlockIds /\ y <= y
    BY <1>g, <1>t DEF BlockIds
  <2>2. QED
    BY <2>1, <1>1
<1>6. y = 0 => Count(v, s, at(y)) - from = 0
  <2>1. y = 0 => at(y) = start
    <3>1. y = 0 => b * y = 0
      BY <1>t
    <3>2. at(y) = start + b * y
      BY <1>a, <1>g
    <3> HIDE DEF at, y
    <3>3. QED
      BY <3>1, <3>2, <1>g
  <2> HIDE DEF at, y
  <2>2. QED
    BY <2>1, <1>c
<1> HIDE DEF y, from, at, target, sb, reach
<1>7. QED
  BY <1>3, <1>4, <1>5, <1>6

\* select_block where its search neither underflows nor begins past its end.
LEMMA SelectBlockIs ==
  ASSUME NEW r, NEW s, NEW i, NEW id, id = superblock_predecessor(r, s, i),
         NEW block,
         block = block_predecessor(r.superblocks[id + 1], s, i - superblock_counter(r, s, id)),
         ~(strided(r, s, i) < 0 \/ search_begin(r, s, i) > search_end(r, s, i))
  PROVE  select_block(r, s, i) =
           <<id * superblock_size(r.b_size) + block[1] * r.b_size,
             superblock_counter(r, s, id) + block[2]>>
BY DEF select_block

\* The search for the superblock of an occurrence: the sampled superblocks
\* enclose it, the counters up to it are below the occurrence and those after it
\* are not.
LEMMA SearchBounds ==
  ASSUME NEW v, NEW n \in Nat, NEW b \in BlockSizes, NEW r, Supports(r, v, n, b),
         NEW s \in Quads, NEW p \in 0..(n - 1), v[p] = s
  PROVE  LET size == superblock_size(b)
             x == p \div size
             c == Count(v, s, p)
             first == search_begin(r, s, c + 1)
             last == search_end(r, s, c + 1)
             counter(k) == superblock_counter(r, s, k)
         IN /\ c \in Nat /\ c \div SELECT_NUM_SAMPLES \in Nat
            /\ x \in Nat /\ n \div size \in Nat /\ first \in Nat /\ last \in Nat /\ first < last
            /\ last <= n \div size + 1 /\ first <= x /\ x < last
            /\ \A k \in Nat : k <= x => counter(k) \in Nat /\ counter(k) <= c
            /\ \A k \in Nat : x < k /\ k < last => counter(k) \in Nat /\ counter(k) >= c + 1
            /\ counter(x) = Count(v, s, size * x)
<1> DEFINE size == superblock_size(b)
           x == p \div size
           c == Count(v, s, p)
           a == ((c + 1) - 1) \div SELECT_NUM_SAMPLES
           first == search_begin(r, s, c + 1)
           last == search_end(r, s, c + 1)
           counter(k) == superblock_counter(r, s, k)
<1>t. b \in Nat \ {0} /\ size \in Nat \ {0} /\ p \in Nat /\ p < n
  BY SizesType
<1>c. c \in Nat /\ (c + 1) - 1 = c
  BY <1>t, CountType
<1>2. a \in Nat /\ first \in 0..x /\ last - 1 \in x..(n \div size) /\ last \in Int
  <2>2. a = c \div SELECT_NUM_SAMPLES
    BY <1>c
  <2>3. /\ c \div SELECT_NUM_SAMPLES \in Nat
        /\ r.select_samples[s][c \div SELECT_NUM_SAMPLES + 1] \in 0..x
        /\ r.select_samples[s][c \div SELECT_NUM_SAMPLES + 2] \in x..(n \div size)
    <3>1. c \div SELECT_NUM_SAMPLES \in Nat
      BY <1>c, SizesType, DivMod
    <3>2. QED
      BY <3>1 DEF Supports, SamplesEnclose
  <2>4. a \in Nat /\ r.select_samples[s][a + 1] \in 0..x /\ r.select_samples[s][a + 2] \in x..(n \div size)
    BY <2>2, <2>3, Zenon
  <2>5. x \in Nat /\ n \div size \in Nat
    BY <1>t, DivMod
  <2> DEFINE e == r.select_samples[s][a + 2]
  <2>0. last = 1 + e /\ first = r.select_samples[s][a + 1]
    <3> HIDE DEF c
    <3> QED
      BY DEF search_begin, search_end
  <2>6. last = 1 + e /\ e \in x..(n \div size) /\ first \in 0..x
    BY <2>0, <2>4, Zenon
  <2> HIDE DEF e, last, x, first, a
  <2>7. last - 1 = e /\ last \in Int
    BY <2>5, <2>6
  <2>8. QED
    BY <2>4, <2>6, <2>7
<1>3. /\ x \in Nat /\ n \div size \in Nat /\ first \in Nat /\ last \in Nat /\ first < last
      /\ last <= n \div size + 1 /\ first <= x /\ x < last
  <2>1. x \in Nat /\ n \div size \in Nat
    BY <1>t, DivMod
  <2> HIDE DEF x, first, size
  <2> HIDE DEF last
  <2>2. QED
    BY <1>2, <2>1
<1>5. \A k \in 0..(n \div size) : counter(k) = Count(v, s, size * k)
  BY DEF superblock_counter, Supports, CountersHold
<1>p. /\ x \in Nat /\ p = size * x + (p % size) /\ p % size \in 0..(size - 1) /\ size * x \in Nat
  <2> HIDE DEF size
  <2>1. x \in Nat /\ p = size * x + (p % size) /\ p % size \in 0..(size - 1)
    BY <1>t, DivMod
  <2>2. size * x \in Nat
    BY <2>1, <1>t
  <2>3. QED
    BY <2>1, <2>2
\* Superblocks up to that of the occurrence are before it, the others after it.
<1>6. ASSUME NEW k \in Nat, k <= x
      PROVE  counter(k) \in Nat /\ counter(k) <= c
  <2>1. size * k <= size * x /\ size * k \in Nat
    BY <1>6, <1>3, <1>t, MulMono
  <2>2. size * k <= p
    <3> HIDE DEF size, x
    <3> QED
      BY <2>1, <1>p, <1>t
  <2>3. Count(v, s, size * k) <= c /\ Count(v, s, size * k) \in Nat
    BY <2>1, <2>2, <1>t, CountMono, CountType
  <2>4. k \in 0..(n \div size)
    <3> HIDE DEF x, last
    <3> QED
      BY <1>6, <1>3
  <2> HIDE DEF counter, size
  <2>5. QED
    BY <2>3, <2>4, <1>5
<1>7. ASSUME NEW k \in Nat, x < k, k < last
      PROVE  counter(k) \in Nat /\ counter(k) >= c + 1
  <2>1. x + 1 <= k /\ x + 1 \in Nat
    BY <1>7, <1>3
  <2>2. size * (x + 1) <= size * k /\ size * k \in Nat /\ size * (x + 1) = size * x + size
    <3> HIDE DEF x, size
    <3>1. size * (x + 1) <= size * k
      BY <2>1, <1>3, <1>t, MulMono
    <3>2. size * k \in Nat /\ size * (x + 1) = size * x + size
      BY <1>3, <1>t
    <3>3. QED
      BY <3>1, <3>2
  <2>3. p + 1 <= size * k
    <3> HIDE DEF size, x
    <3> QED
      BY <2>2, <1>p, <1>t
  <2>4. Count(v, s, p + 1) = c + 1 /\ Count(v, s, p + 1) <= Count(v, s, size * k)
        /\ Count(v, s, size * k) \in Nat
    BY <2>2, <2>3, <1>t, <1>c, CountStep, CountMono, CountType
  <2>5. k \in 0..(n \div size)
    <3> HIDE DEF x, last
    <3> QED
      BY <1>7, <1>3
  <2> HIDE DEF counter, size, c
  <2>6. QED
    BY <2>4, <2>5, <1>5, <1>c
<1>8. counter(x) = Count(v, s, size * x)
  <2>1. x \in 0..(n \div size)
    BY <1>t, DivMono
  <2>2. QED
    BY <2>1, <1>5
<1>9. c \div SELECT_NUM_SAMPLES \in Nat
  BY <1>c, <1>2
<1> HIDE DEF size, x, first, last, counter, c
<1>10. QED
  BY <1>c, <1>3, <1>6, <1>7, <1>8, <1>9 DEF size, x, first, last, counter, c

\* The search for the block of an occurrence ends at it: the sampled superblocks
\* enclose that of the occurrence, and the strides neither underflow nor pass it.
LEMMA SelectBlock ==
  ASSUME NEW v, NEW n \in Nat, NEW b \in BlockSizes, NEW r, Supports(r, v, n, b),
         NEW s \in Quads, NEW p \in 0..(n - 1), v[p] = s
  PROVE  LET x == p \div superblock_size(b)
             y == (p \div b) % BLOCKS_IN_SUPERBLOCK
         IN select_block(r, s, Count(v, s, p) + 1)
              = <<BlockStart(b, x, y), Count(v, s, BlockStart(b, x, y))>>
<1> DEFINE size == superblock_size(b)
           x == p \div size
           y == (p \div b) % BLOCKS_IN_SUPERBLOCK
           c == Count(v, s, p)
           first == search_begin(r, s, c + 1)
           last == search_end(r, s, c + 1)
           step == isqrt(last - first) + 1
           counter(k) == superblock_counter(r, s, k)
           T == {k \in Nat : stops(r, s, c + 1, k)}
           A == {k \in 0..last : stops(r, s, c + 1, first + k * step)}
           back == strided(r, s, c + 1)
           B == {k \in back..(back + last) : stops(r, s, c + 1, k)}
           id == superblock_predecessor(r, s, c + 1)
           block == block_predecessor(r.superblocks[id + 1], s, (c + 1) - counter(id))
<1> SUFFICES select_block(r, s, c + 1) = <<BlockStart(b, x, y), Count(v, s, BlockStart(b, x, y))>>
  OBVIOUS
<1>t. b \in Nat \ {0} /\ size \in Nat \ {0} /\ p \in Nat /\ p < n
  BY SizesType
<1>s. \A k : stops(r, s, c + 1, k) <=> (k >= last \/ counter(k) >= c + 1)
  BY DEF stops
<1>0. /\ c \in Nat
      /\ x \in Nat /\ n \div size \in Nat /\ first \in Nat /\ last \in Nat /\ first < last
      /\ last <= n \div size + 1 /\ first <= x /\ x < last
      /\ \A k \in Nat : k <= x => counter(k) \in Nat /\ counter(k) <= c
      /\ \A k \in Nat : x < k /\ k < last => counter(k) \in Nat /\ counter(k) >= c + 1
      /\ counter(x) = Count(v, s, size * x)
  BY SearchBounds
<1>c. c \in Nat
  BY <1>0
<1>3. /\ x \in Nat /\ n \div size \in Nat /\ first \in Nat /\ last \in Nat /\ first < last
      /\ last <= n \div size + 1 /\ first <= x /\ x < last
  BY <1>0
<1>4. step \in Nat \ {0}
  <2>1. last - first \in Nat
    <3> HIDE DEF last, first
    <3> QED
      BY <1>3
  <2>2. isqrt(last - first) \in Nat
    <3> HIDE DEF last, first
    <3> QED
      BY <2>1, IsqrtType
  <2> QED
    BY <2>2
<1>p. /\ x \in Nat /\ p = size * x + (p % size) /\ p % size \in 0..(size - 1) /\ size * x \in Nat
  <2> HIDE DEF size
  <2>1. x \in Nat /\ p = size * x + (p % size) /\ p % size \in 0..(size - 1)
    BY <1>t, DivMod
  <2>2. size * x \in Nat
    BY <2>1, <1>t
  <2>3. QED
    BY <2>1, <2>2
<1>6. \A k \in Nat : k <= x => counter(k) \in Nat /\ counter(k) <= c
  BY <1>0
<1>7. \A k \in Nat : x < k /\ k < last => counter(k) \in Nat /\ counter(k) >= c + 1
  BY <1>0
<1>8. first \notin T
  <2>1. counter(first) <= c /\ counter(first) \in Nat
    BY <1>3, <1>6
  <2> HIDE DEF first, last, counter, c
  <2>2. QED
    BY <2>1, <1>3, <1>c, <1>s
<1>9. \A k \in Nat : k >= last => k \in T
  BY <1>s
<1>10. A = {k \in 0..last : first + k * step \in T}
  <2>1. \A k \in 0..last : first + k * step \in Nat
    <3> HIDE DEF first, step, last
    <3>1. \A k \in 0..last : k * step \in Nat
      BY <1>4, <1>3
    <3>2. QED
      BY <3>1, <1>3
  <2> HIDE DEF first, step, last, counter, c
  <2>2. QED
    BY <2>1
<1>11. /\ back \in Nat
       /\ Min({k \in back..(back + last) : k \in T}) - 1 \in Nat
       /\ Min({k \in back..(back + last) : k \in T}) - 1 \notin T
       /\ (Min({k \in back..(back + last) : k \in T}) - 1) + 1 \in T
  <2> DEFINE A2 == {k \in 0..last : first + k * step \in T}
  <2>1. /\ T \in SUBSET Nat
        /\ back = first + (Min(A2) - 1) * step
    BY <1>10 DEF strided
  <2> HIDE DEF T, first, step, last, back
  <2>2. QED
    BY <2>1, <1>3, <1>4, <1>8, <1>9, StridedSearch
<1>b. back \in Nat
  BY <1>11
<1>12. B = {k \in back..(back + last) : k \in T}
  <2>1. \A k \in back..(back + last) : k \in Nat
    <3> HIDE DEF back, last
    <3> QED
      BY <1>3, <1>b
  <2> HIDE DEF back, last, counter, c
  <2>2. QED
    BY <2>1
<1>13. id \in Nat /\ id \notin T /\ id + 1 \in T
  <2>1. id = Min(B) - 1
    BY DEF superblock_predecessor
  <2> HIDE DEF B, T, back, last, id
  <2>2. QED
    BY <1>11, <1>12, <2>1
<1>14. id = x
  <2> HIDE DEF id, last, counter, c, x
  <2>1. id < last /\ ~(counter(id) >= c + 1) /\ (id + 1 >= last \/ counter(id + 1) >= c + 1)
    BY <1>13, <1>3, <1>s
  <2>2. ~(x < id)
    BY <2>1, <1>7, <1>13
  <2>3. ~(id < x)
    <3> SUFFICES ASSUME id < x PROVE FALSE
      OBVIOUS
    <3>1. id + 1 \in Nat /\ id + 1 <= x /\ ~(id + 1 >= last)
      BY <1>13, <1>3
    <3>2. counter(id + 1) \in Nat /\ counter(id + 1) <= c
      BY <3>1, <1>6
    <3>3. QED
      BY <2>1, <3>1, <3>2, <1>c
  <2>4. QED
    BY <2>2, <2>3, <1>3, <1>13
<1>15. counter(x) = Count(v, s, size * x)
  BY <1>0
<1>16. block = <<y, Count(v, s, BlockStart(b, x, y)) - Count(v, s, size * x)>>
  <2>1. block = block_predecessor(r.superblocks[x + 1], s, (c + 1) - Count(v, s, size * x))
    <3> HIDE DEF id, counter, x
    <3> QED
      BY <1>14, <1>15
  <2>2. QED
    BY <2>1, BlockPredecessor
<1>17. ~(back < 0 \/ first > last)
  <2> HIDE DEF back, first, last
  <2> QED
    BY <1>b, <1>3
<1>18. id * size + block[1] * b = BlockStart(b, x, y)
  <2>1. block[1] = y
    <3> HIDE DEF block
    <3> QED
      BY <1>16
  <2>2. y \in Nat
    <3>1. y \in 0..(BLOCKS_IN_SUPERBLOCK - 1)
      BY <1>t, BlockGrid
    <3>2. QED
      BY <3>1, SupportAssumption
  <2>3. x * size = size * x /\ y * b = b * y
    <3> HIDE DEF x, size, y
    <3> QED
      BY <2>2, <1>3, <1>t
  <2> HIDE DEF id, block, x, y
  <2>4. QED
    BY <2>1, <2>3, <1>14 DEF BlockStart
<1>19. counter(id) + block[2] = Count(v, s, BlockStart(b, x, y))
  <2>1. block[2] = Count(v, s, BlockStart(b, x, y)) - Count(v, s, size * x)
    <3> HIDE DEF block
    <3> QED
      BY <1>16
  <2>2. BlockStart(b, x, y) \in Nat
    <3>1. y \in 0..(BLOCKS_IN_SUPERBLOCK - 1)
      BY <1>t, BlockGrid
    <3>2. QED
      BY <3>1, <1>3, BlockStarts
  <2>3. Count(v, s, BlockStart(b, x, y)) \in Nat /\ Count(v, s, size * x) \in Nat
    BY <2>2, <1>p, CountType
  <2> HIDE DEF id, block, x, y, counter, size
  <2>4. QED
    BY <2>1, <2>3, <1>14, <1>15
<1>20. select_block(r, s, c + 1)
         = <<id * superblock_size(r.b_size) + block[1] * r.b_size, counter(id) + block[2]>>
  <2> HIDE DEF c
  <2> QED
    BY <1>17, SelectBlockIs
<1>21. r.b_size = b
  BY DEF Supports
<1> HIDE DEF id, block, x, y, counter, back, first, last, c
<1>22. QED
  BY <1>18, <1>19, <1>20, <1>21

\* The occurrence in its block: the one word whose popcounts enclose it, and the
\* first place in that word where the count is reached.
LEMMA SelectIntraBlock ==
  ASSUME NEW v, NEW n \in Nat, NEW b \in BlockSizes,
         NEW r, Holds(r.data, v, n), r.b_size = b, NEW s \in Quads,
         NEW p \in 0..(n - 1), v[p] = s, NEW at \in 0..p, at % b = 0, p - at < b
  PROVE  LET i == (Count(v, s, p) - Count(v, s, at)) + 1
             hit == word_hit(r, s, i, at)
         IN hit # {} /\ offset_in_block(r, s, i, at, Min(hit)) = p - at
<1> DEFINE c == Count(v, s, p)
           C(q) == Count(r.data, s, q)
           i == (c - Count(v, s, at)) + 1
           o == p - at
           w == o \div WORD
           before(k) == Ones(r, s, at, k * WORD)
           in(k) == Ones(r, s, at + k * WORD, WORD)
<1> SUFFICES /\ word_hit(r, s, i, at) # {}
             /\ offset_in_block(r, s, i, at, Min(word_hit(r, s, i, at))) = o
  OBVIOUS
<1>t. /\ p \in Nat /\ p < n /\ at \in Nat /\ o \in Nat /\ p = at + o
      /\ WORD \in Nat \ {0} /\ LINE = 2 * WORD /\ LINE \in Nat \ {0}
  BY LineSize
<1>1. w \in Nat /\ o = WORD * w + (o % WORD) /\ o % WORD \in 0..(WORD - 1) /\ WORD * w \in Nat
  <2> HIDE DEF o
  <2>1. w \in Nat /\ o = WORD * w + (o % WORD) /\ o % WORD \in 0..(WORD - 1)
    BY <1>t, DivMod
  <2>2. WORD * w \in Nat
    BY <2>1, <1>t
  <2>3. QED
    BY <2>1, <2>2
\* Blocks begin with a line.
<1>2. (at \div LINE) * LINE = at
  <2>1. at = LINE * (at \div LINE) + (at % LINE) /\ at \div LINE \in Nat
    BY <1>t, DivMod
  <2>2. at % LINE = 0
    <3>1. CASE b = LINE
      BY <3>1
    <3>2. CASE b = 2 * LINE
      <4> DEFINE q == at \div (2 * LINE)
      <4>1. q \in Nat /\ at = (2 * LINE) * q + (at % (2 * LINE))
        <5> DEFINE d == 2 * LINE
        <5>1. d \in Nat \ {0}
          BY <1>t
        <5> HIDE DEF d
        <5>2. at \div d \in Nat /\ at = d * (at \div d) + (at % d)
          BY <5>1, <1>t, DivMod
        <5>3. QED
          BY <5>2 DEF d
      <4>2. (2 * LINE) * q = LINE * (2 * q) /\ 2 * q \in Nat /\ LINE * (2 * q) \in Nat
        <5> HIDE DEF q
        <5> QED
          BY <4>1, <1>t
      <4> HIDE DEF q
      <4>3. at = LINE * (2 * q) + 0 /\ 0 \in 0..(LINE - 1)
        BY <4>1, <4>2, <3>2, <1>t
      <4>4. QED
        BY <4>2, <4>3, <1>t, DivUnique
    <3>3. QED
      BY <3>1, <3>2 DEF BlockSizes
  <2>3. QED
    <3> DEFINE q == at \div LINE
    <3> HIDE DEF q
    <3>1. at = LINE * q + 0 /\ q \in Nat /\ q * LINE = LINE * q /\ LINE * q \in Nat
      BY <2>1, <2>2, <1>t DEF q
    <3>2. QED
      BY <3>1 DEF q
<1>3. \A k \in Nat : word_start(at, k) = at + k * WORD
  BY <1>2, <1>t DEF word_start
<1>4. word_start(at, 0) = at
  <2>1. 0 * WORD = 0
    BY <1>t
  <2>2. QED
    BY <2>1, <1>3, <1>t
\* Popcounts as counts.
<1>5. C(at) = Count(v, s, at) /\ C(p) = c /\ C(p + 1) = c + 1 /\ c \in Nat /\ C(at) \in Nat
  <2>1. at \in 0..n /\ p \in 0..n /\ p + 1 \in 0..n
    BY <1>t
  <2>2. C(at) = Count(v, s, at) /\ C(p) = c /\ C(p + 1) = Count(v, s, p + 1)
    BY <2>1, DataCount
  <2>3. Count(v, s, p + 1) = c + 1 /\ c \in Nat /\ Count(v, s, at) \in Nat
    BY <1>t, CountStep, CountType
  <2>4. QED
    BY <2>2, <2>3
<1>6. \A q \in Nat : C(q) \in Nat /\ (q <= p => C(q) <= c) /\ (p < q => c + 1 <= C(q))
  <2> SUFFICES ASSUME NEW q \in Nat
               PROVE  C(q) \in Nat /\ (q <= p => C(q) <= C(p)) /\ (p < q => C(p + 1) <= C(q))
    BY <1>5
  <2> QED
    BY <1>t, CountType, CountMono
<1>7. ASSUME NEW k \in Nat
      PROVE  /\ k * WORD \in Nat /\ at + k * WORD \in Nat
             /\ before(k) = C(at + k * WORD) - C(at)
             /\ in(k) = C((at + k * WORD) + WORD) - C(at + k * WORD)
  <2>1. k * WORD \in Nat
    BY <1>t
  <2>2. at + k * WORD \in Nat
    BY <2>1, <1>t
  <2>3. QED
    BY <2>1, <2>2, <1>t, OnesIs
\* The word that encloses the occurrence.
<1>8. ASSUME NEW k \in Nat
      PROVE  (before(k) < i /\ i <= before(k) + in(k)) <=> k = w
  <2> DEFINE from == at + k * WORD
  <2>1. from \in Nat /\ from + WORD \in Nat /\ C(from) \in Nat /\ C(from + WORD) \in Nat
    BY <1>7, <1>6, <1>t
  <2>2. (before(k) < i /\ i <= before(k) + in(k)) <=> (C(from) <= c /\ c + 1 <= C(from + WORD))
    <3> DEFINE x == C(from)
               y == C(from + WORD)
               z == C(at)
    <3>1. before(k) = x - z /\ in(k) = y - x /\ i = (c - z) + 1
          /\ x \in Nat /\ y \in Nat /\ z \in Nat /\ c \in Nat
      BY <1>7, <1>5, <2>1
    <3> HIDE DEF x, y, z, before, in, i, c
    <3>2. (before(k) < i /\ i <= before(k) + in(k)) <=> (x <= c /\ c + 1 <= y)
      BY <3>1
    <3>3. QED
      BY <3>2 DEF x, y
  <2>3. (C(from) <= c /\ c + 1 <= C(from + WORD)) <=> (from <= p /\ p < from + WORD)
    <3> HIDE DEF from, C, c
    <3> QED
      BY <2>1, <1>6, <1>5, <1>t
  <2>4. (from <= p /\ p < from + WORD) <=> k = w
    <3>1. k * WORD = WORD * k /\ WORD * k \in Nat
      BY <1>t
    <3>2. (from <= p /\ p < from + WORD) <=> o - (WORD * k) \in 0..(WORD - 1)
      <4> DEFINE z == WORD * k
      <4>1. from = at + z /\ z \in Nat
        BY <3>1
      <4> HIDE DEF z, from, o
      <4>2. (from <= p /\ p < from + WORD) <=> o - z \in 0..(WORD - 1)
        BY <4>1, <1>t
      <4>3. QED
        BY <4>2 DEF z
    <3>3. o - (WORD * k) \in 0..(WORD - 1) => k = w
      <4> DEFINE d == o - (WORD * k)
      <4> SUFFICES ASSUME d \in 0..(WORD - 1) PROVE k = w
        OBVIOUS
      <4>1. o = WORD * k + d
        BY <3>1, <1>t
      <4> HIDE DEF o, d
      <4>2. WORD \in Nat \ {0} /\ o \in Nat /\ k \in Int /\ d \in 0..(WORD - 1)
        BY <1>t
      <4>3. o \div WORD = k /\ o % WORD = d
        BY <4>1, <4>2, DivUnique
      <4>4. QED
        BY <4>3
    <3>4. k = w => o - (WORD * k) \in 0..(WORD - 1)
      <4> HIDE DEF o, w
      <4> QED
        BY <1>1, <1>t
    <3> HIDE DEF from, o, w
    <3>5. QED
      BY <3>2, <3>3, <3>4
  <2>5. QED
    BY <2>2, <2>3, <2>4
<1>9. w \in words_there(r, at)
  <2>1. w \in block_words(b)
    <3> DEFINE words == IF b = LINE THEN 2 ELSE 4
    <3>1. words \in Nat /\ b = WORD * words
      BY <1>t DEF BlockSizes
    <3>2. words <= w => WORD * words <= WORD * w
      BY <3>1, <1>1, <1>t, MulMono
    <3>3. w < words
      <4> HIDE DEF words, w, o
      <4>1. WORD * w <= o /\ o < WORD * words
        BY <1>1, <1>t, <3>1 DEF o
      <4>2. WORD * words \in Nat /\ WORD * w \in Nat
        BY <1>1, <1>t, <3>1
      <4>3. QED
        BY <4>1, <4>2, <3>1, <3>2, <1>1, <1>t
    <3>4. QED
      BY <3>1, <3>3, <1>1 DEF block_words
  <2>2. word_start(at, w) \in DOMAIN r.data
    <3>1. at + w * WORD <= p /\ at + w * WORD \in Nat
      <4>1. w * WORD = WORD * w
        BY <1>1, <1>t
      <4> HIDE DEF w, o
      <4>2. QED
        BY <4>1, <1>1, <1>t
    <3>2. PICK l \in Nat : DOMAIN r.data = 0..(l * LINE - 1) /\ n <= l * LINE
      BY DEF Holds
    <3>5. l * LINE \in Nat
      BY <1>t
    <3>3. word_start(at, w) = at + w * WORD
      BY <1>1, <1>3
    <3> HIDE DEF w, o
    <3>4. QED
      BY <3>1, <3>2, <3>3, <3>5, <1>t
  <2>3. QED
    BY <2>1, <2>2 DEF words_there
<1>10. word_hit(r, s, i, at) = {w}
  <2>1. \A k \in words_there(r, at) : k \in Nat
    BY DEF words_there, block_words
  <2>2. ASSUME NEW k \in words_there(r, at)
        PROVE  /\ ones_before(r, s, at, k) = before(k)
               /\ Ones(r, s, word_start(at, k), WORD) = in(k)
    BY <2>1, <1>3, <1>4 DEF ones_before
  <2>3. \A k \in words_there(r, at) :
          (before(k) < i /\ i <= before(k) + in(k)) <=> k = w
    BY <2>1, <1>8
  <2> HIDE DEF before, in, i, w
  <2>4. QED
    BY <2>2, <2>3, <1>9 DEF word_hit
\* The place in it.
<1> DEFINE rest == o % WORD
           start == at + w * WORD
           J == {j \in 0..(WORD - 1) : Ones(r, s, word_start(at, w), j + 1) = i - ones_before(r, s, at, w)}
<1>11. start \in Nat /\ p = start + rest /\ rest \in 0..(WORD - 1) /\ w * WORD + rest = o
  <2>1. w * WORD = WORD * w
    BY <1>1, <1>t
  <2>2. at + w * WORD \in Nat
    BY <1>1, <1>7
  <2> HIDE DEF w, o
  <2>3. QED
    BY <2>1, <2>2, <1>1, <1>t
<1>12. ASSUME NEW j \in 0..(WORD - 1)
       PROVE  j \in J <=> C(start + (j + 1)) = c + 1
  <2>1. /\ word_start(at, w) = start /\ ones_before(r, s, at, w) = before(w)
        /\ before(w) = C(start) - C(at)
    BY <1>1, <1>3, <1>4, <1>7 DEF ones_before
  <2>2. Ones(r, s, start, j + 1) = C(start + (j + 1)) - C(start)
    BY <1>11, OnesIs
  <2>3. start + (j + 1) \in Nat /\ C(start + (j + 1)) \in Nat /\ C(start) \in Nat
    BY <1>11, <1>6
  <2> DEFINE x == C(start)
             y == C(start + (j + 1))
             z == C(at)
             ones == Ones(r, s, word_start(at, w), j + 1)
             prev == ones_before(r, s, at, w)
  <2>4. j \in J <=> ones = i - prev
    OBVIOUS
  <2>5. ones = y - x /\ prev = x - z /\ i = (c - z) + 1 /\ x \in Nat /\ y \in Nat /\ z \in Nat
        /\ c \in Nat
    BY <2>1, <2>2, <2>3, <1>5
  <2> HIDE DEF x, y, z, ones, prev, i, c, J
  <2>6. j \in J <=> y = c + 1
    BY <2>4, <2>5
  <2>7. QED
    BY <2>6 DEF y
<1>13. Min(J) = rest
  <2>1. rest \in J
    <3>1. start + (rest + 1) = p + 1
      BY <1>11, <1>t
    <3>2. QED
      BY <3>1, <1>5, <1>11, <1>12
  <2>2. \A j \in 0..(WORD - 1) : j \in J => rest <= j
    <3> SUFFICES ASSUME NEW j \in 0..(WORD - 1), j < rest
                 PROVE  j \notin J
      BY <1>11, <1>t
    <3>1. start + (j + 1) \in Nat /\ start + (j + 1) <= p
      <4> HIDE DEF start, rest
      <4> QED
        BY <1>11, <1>t
    <3>2. C(start + (j + 1)) <= c /\ C(start + (j + 1)) \in Nat
      BY <3>1, <1>6
    <3> HIDE DEF J, C, c
    <3>3. QED
      BY <3>2, <1>12, <1>5
  <2>3. J \in SUBSET Nat /\ J \in SUBSET (0..(WORD - 1))
    BY <1>t
  <2> HIDE DEF J, rest
  <2>4. Min(J) \in J /\ \A j \in J : Min(J) <= j
    BY <2>1, <2>3, MinNat
  <2> DEFINE m == Min(J)
  <2> HIDE DEF m
  <2>5. m \in Nat /\ m <= rest /\ rest <= m /\ rest \in Nat
    BY <2>1, <2>2, <2>3, <2>4 DEF m
  <2>6. m = rest
    BY <2>5
  <2>7. QED
    BY <2>6 DEF m
<1>14. offset_in_block(r, s, i, at, w) = o
  <2>1. offset_in_block(r, s, i, at, w) = w * WORD + Min(J)
    BY DEF offset_in_block
  <2> HIDE DEF J, w, o, rest
  <2>2. QED
    BY <2>1, <1>13, <1>11
<1>15. Min({w}) = w
  BY <1>1 DEF Min
<1> HIDE DEF w, i, o
<1>16. QED
  BY <1>10, <1>14, <1>15

\* select finds the occurrence with k before it, and there is none from the count
\* of occurrences on.
LEMMA SelectExact ==
  ASSUME NEW v, NEW n \in Nat, NEW b \in BlockSizes, NEW r, Supports(r, v, n, b),
         NEW s \in Quads, NEW k \in Nat
  PROVE  select(r, s, k) = SelectIn(v, n, s, k)
<1>1. occs(r, s) = Count(v, s, n) /\ Count(v, s, n) \in Nat
  BY CountType DEF Supports
<1>2. CASE Count(v, s, n) <= k
  <2>1. select(r, s, k) = None
    BY <1>1, <1>2 DEF select
  <2>2. ASSUME NEW p \in 0..(n - 1), v[p] = s, Count(v, s, p) = k PROVE FALSE
    <3>1. Count(v, s, p + 1) = k + 1 /\ Count(v, s, p + 1) <= Count(v, s, n)
      BY <2>2, CountStep, CountMono
    <3>2. QED
      BY <3>1, <1>1, <1>2
  <2>3. Selected(v, n, s, k) = {}
    BY <2>2 DEF Selected
  <2>4. QED
    BY <2>1, <2>3 DEF SelectIn
<1>3. CASE k < Count(v, s, n)
  <2>1. PICK p \in 0..(n - 1) : v[p] = s /\ Count(v, s, p) = k
    BY <1>3, SelectedExists
  <2> DEFINE x == p \div superblock_size(b)
             y == (p \div b) % BLOCKS_IN_SUPERBLOCK
             at == BlockStart(b, x, y)
  <2>t. p \in Nat /\ b \in Nat \ {0} /\ p < n
    BY SizesType
  <2>2. select_block(r, s, k + 1) = <<at, Count(v, s, at)>>
    BY <2>1, SelectBlock
  <2>3. at \in 0..p /\ at % b = 0 /\ p - at < b /\ at \in Nat
    <3>1. x \in Nat /\ y \in 0..(BLOCKS_IN_SUPERBLOCK - 1) /\ p % b \in 0..(b - 1) /\ p = at + (p % b)
      BY <2>t, BlockGrid
    <3>2. at \in Nat /\ at % b = 0
      BY <3>1, BlockStarts
    <3> HIDE DEF at
    <3>3. QED
      BY <3>1, <3>2, <2>t
  <2>4. select_intra_block(r, s, (k - Count(v, s, at)) + 1, at) = p - at
    <3>1. Holds(r.data, v, n) /\ r.b_size = b
      BY DEF Supports
    <3> DEFINE i == (k - Count(v, s, at)) + 1
               hit == word_hit(r, s, i, at)
    <3> HIDE DEF at
    <3>2. hit # {} /\ offset_in_block(r, s, i, at, Min(hit)) = p - at
      BY <3>1, <2>1, <2>3, SelectIntraBlock
    <3>3. QED
      BY <3>2 DEF select_intra_block
  <2>5. select(r, s, k) = p
    <3>1. at # None /\ p - at # None /\ at + (p - at) = p
      <4> HIDE DEF at
      <4> QED
        BY <2>3, <2>t DEF None
    <3>2. ~(occs(r, s) <= k)
      BY <1>1, <1>3
    <3> HIDE DEF at
    <3>3. QED
      BY <2>2, <2>4, <3>1, <3>2 DEF select
  <2>6. Selected(v, n, s, k) = {p}
    BY <2>1, <2>t, SelectedUnique DEF Selected
  <2>7. Min({p}) = p
    BY <2>t DEF Min
  <2>8. SelectIn(v, n, s, k) = p
    BY <2>6, <2>7 DEF SelectIn
  <2>9. QED
    BY <2>5, <2>8
<1>4. QED
  BY <1>1, <1>2, <1>3

==============================================================================
