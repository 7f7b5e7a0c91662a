------------------------- MODULE LevelEncoderProofs --------------------------
(***************************************************************************)
(* Proofs about LevelEncoder, for levels of any length, cut into blocks in *)
(* any way, and for any sizes that the assumptions allow: no counter is    *)
(* ever out of range, the files hold the support RSSupportPlain::new       *)
(* builds, and they stay within the share that was set aside.              *)
(***************************************************************************)
EXTENDS LevelEncoder, RSQuadVectorProofs

\* The sizes the encoder works with.
LEMMA EncoderSizes ==
  /\ LINE \in BlockSizes /\ LINE \in Nat \ {0}
  /\ BLOCK_ROWS = LINE
  /\ SUPERBLOCK_ROWS = superblock_size(LINE)
  /\ superblock_size(LINE) = BLOCKS_IN_SUPERBLOCK * LINE
  /\ SUPERBLOCK_ROWS \in Nat \ {0}
  /\ BLOCKS_IN_SUPERBLOCK \in Nat \ {0, 1}
  /\ SELECT_NUM_SAMPLES \in Nat \ {0}
<1>1. LINE \in BlockSizes /\ LINE \in Nat \ {0}
  BY SupportAssumption DEF LINE, BlockSizes
<1>2. QED
  BY <1>1, SizesType DEF SUPERBLOCK_ROWS, BLOCK_ROWS

\* The superblock of a position once that position has been visited.
LEMMA Visited ==
  ASSUME NEW v, NEW b \in BlockSizes, NEW p \in Nat
  PROVE  LET x == p \div superblock_size(b)
             y == (p \div b) % BLOCKS_IN_SUPERBLOCK
             after == SuperblockAfter(v, b, x, p + 1)
             before == SuperblockAfter(v, b, x, p)
         IN /\ p % superblock_size(b) = 0 =>
                 /\ p % b = 0 /\ y = 0
                 /\ after = new_superblock([s \in Quads |-> Count(v, s, p)])
            /\ p % superblock_size(b) # 0 /\ p % b = 0 =>
                 /\ y # 0
                 /\ after = set_block_counters(before, y, InSuperblock(v, b, p))
            /\ p % b # 0 => /\ p % superblock_size(b) # 0
                            /\ after = before
<1> DEFINE sb == superblock_size(b)
           x == p \div sb
           y == (p \div b) % BLOCKS_IN_SUPERBLOCK
<1>t. sb \in Nat \ {0} /\ b \in Nat \ {0}
  BY SizesType
<1>g. /\ x \in Nat /\ y \in 0..(BLOCKS_IN_SUPERBLOCK - 1) /\ p % b \in 0..(b - 1)
      /\ p % sb = b * y + (p % b) /\ p = sb * x + (p % sb) /\ sb * x \in Nat
      /\ p % sb \in 0..(sb - 1)
  BY BlockGrid
<1>m. b * y \in Nat /\ (y # 0 => b * y >= 1) /\ (y = 0 => b * y = 0)
  <2>1. b \in Nat \ {0} /\ y \in Nat
    BY <1>t, <1>g, SupportAssumption
  <2> HIDE DEF y
  <2>2. QED
    BY <2>1
<1>1. ASSUME p % sb = 0
      PROVE  /\ p % b = 0 /\ y = 0
             /\ SuperblockAfter(v, b, x, p + 1) = new_superblock([s \in Quads |-> Count(v, s, p)])
  <2>1. p % b = 0 /\ y = 0
    <3> HIDE DEF y, sb
    <3> QED
      BY <1>1, <1>g, <1>m
  <2>2. p = sb * x
    <3> HIDE DEF x, sb
    <3> QED
      BY <1>1, <1>g
  <2>3. QED
    BY <1>g, <2>1, <2>2, SuperblockOpens
<1>2. ASSUME p % sb # 0, p % b = 0
      PROVE  /\ y # 0
             /\ SuperblockAfter(v, b, x, p + 1)
                  = set_block_counters(SuperblockAfter(v, b, x, p), y, InSuperblock(v, b, p))
  <2>1. y # 0
    <3> HIDE DEF y, sb
    <3> QED
      BY <1>2, <1>g, <1>m
  <2>2. QED
    BY <1>2, <2>1, SuperblockFills
<1>3. ASSUME p % b # 0
      PROVE  /\ p % sb # 0
             /\ SuperblockAfter(v, b, x, p + 1) = SuperblockAfter(v, b, x, p)
  <2>1. p % sb # 0
    <3> HIDE DEF y, sb
    <3> QED
      BY <1>3, <1>g, <1>m
  <2>2. p + 1 \in Nat /\ p <= p + 1 /\ \A z \in p..((p + 1) - 1) : z % b # 0
    BY <1>3
  <2>3. QED
    BY <2>1, <2>2, <1>g, SuperblockRests
<1>4. QED
  BY <1>1, <1>2, <1>3

\* Rounding up to samples.
SamplesFor(n) == (n + SELECT_NUM_SAMPLES - 1) \div SELECT_NUM_SAMPLES

\* The threshold test, with its wrapping subtraction, on f occurrences before a
\* piece and c in it tells whether one of them is due, and only one is.
LEMMA Crosses ==
  ASSUME NEW f \in Nat, f < WRAP, NEW c \in 1..SELECT_NUM_SAMPLES
  PROVE  /\ SamplesFor(f) \in Nat
         /\ SamplesFor(f + c) = SamplesFor(f) + (IF crosses(f, c) THEN 1 ELSE 0)
         /\ crosses(f, c) => /\ f <= SELECT_NUM_SAMPLES * SamplesFor(f)
                             /\ SELECT_NUM_SAMPLES * SamplesFor(f) < f + c
<1> DEFINE S == SELECT_NUM_SAMPLES
<1>s. S \in Nat \ {0} /\ WRAP \in Nat /\ S < WRAP
  BY SupportAssumption, EncoderAssumption
<1>1. CASE f = 0
  <2>1. SamplesFor(0) = 0
    <3>1. 0 + S - 1 \in Nat /\ 0 + S - 1 \in 0..(S - 1) /\ 0 + S - 1 = S * 0 + (0 + S - 1)
      BY <1>s
    <3>2. (0 + S - 1) \div S = 0
      BY <3>1, <1>s, DivUnique
    <3>3. QED
      BY <3>2 DEF SamplesFor
  <2>2. (0 + c - 1) \div S = 0
    <3>1. 0 + c - 1 \in Nat /\ 0 + c - 1 \in 0..(S - 1) /\ 0 + c - 1 = S * 0 + (0 + c - 1)
      BY <1>s
    <3>2. QED
      BY <3>1, <1>s, DivUnique
  <2>3. SamplesFor(0 + c) = 1
    <3>1. c - 1 \in Nat /\ c - 1 \in 0..(S - 1) /\ c - 1 = S * 0 + (c - 1)
      BY <1>s
    <3>2. ((c - 1) + S) \div S = (c - 1) \div S + 1 /\ (c - 1) \div S = 0
      <4>1. (c - 1) \div S = 0
        BY <3>1, <1>s, DivUnique
      <4>2. ((c - 1) + S) \div S = (c - 1) \div S + 1
        BY <3>1, <1>s, CeilDiv
      <4>3. QED
        BY <4>1, <4>2
    <3>3. (0 + c) + S - 1 = (c - 1) + S
      BY <1>s
    <3>4. QED
      BY <3>2, <3>3 DEF SamplesFor
  <2>4. ((0 - 1) % WRAP) \div S # 0
    <3>1. (0 - 1) % WRAP = WRAP - 1
      BY <1>s
    <3>2. WRAP - 1 \in Nat /\ S <= WRAP - 1 /\ S \div S = 1
      BY <1>s, DivUnique
    <3>3. S \div S \in 0..((WRAP - 1) \div S)
      BY <1>s, <3>2, DivMono
    <3>4. (WRAP - 1) \div S \in Nat
      BY <3>2, <1>s, DivMod
    <3> HIDE DEF S
    <3>5. QED
      BY <3>1, <3>2, <3>3, <3>4
  <2>5. crosses(0, c)
    BY <2>2, <2>4 DEF crosses
  <2>6. QED
    BY <1>1, <1>s, <2>1, <2>3, <2>5
<1>2. CASE f # 0
  <2> DEFINE g == f - 1
             q == g \div S
             r == g % S
             up == (f + c - 1) \div S
  <2>1. g \in Nat /\ g < WRAP /\ f = g + 1 /\ g % WRAP = g
    BY <1>2, <1>s, DivUnique
  <2>2. q \in Nat /\ r \in 0..(S - 1) /\ g = S * q + r
    BY <2>1, <1>s, DivMod
  <2>3. SamplesFor(f) = q + 1
    <3>1. (g + S) \div S = q + 1
      BY <2>1, <1>s, CeilDiv
    <3>2. f + S - 1 = g + S
      BY <2>1, <1>s
    <3>3. QED
      BY <3>1, <3>2 DEF SamplesFor
  <2>4. f + c - 1 \in Nat /\ (f + c) + S - 1 = (f + c - 1) + S
    BY <2>1, <1>s
  <2>5. SamplesFor(f + c) = up + 1 /\ up \in Nat
    <3>1. ((f + c - 1) + S) \div S = up + 1 /\ up \in Nat
      BY <2>4, <1>s, CeilDiv
    <3>2. QED
      BY <3>1, <2>4 DEF SamplesFor
  <2>6. crosses(f, c) <=> up # q
    BY <2>1 DEF crosses
  <2>7. S * q \in Nat /\ S * (q + 1) \in Nat /\ S * (q + 1) = S * q + S
    BY <2>2, <1>s
  <2>8. CASE r + c < S
    <3>0. f = g + 1 /\ g = S * q + r /\ r \in 0..(S - 1) /\ S * q \in Nat
      BY <2>1, <2>2, <2>7
    <3>1. r + c \in 0..(S - 1) /\ f + c - 1 = S * q + (r + c)
      <4> DEFINE t == S * q
      <4> HIDE DEF r, q, t, g
      <4> QED
        BY <3>0, <2>8, <1>s DEF t
    <3>2. up = q
      <4> DEFINE m == f + c - 1
                 e == r + c
      <4>1. m \in Nat /\ q \in Int /\ e \in 0..(S - 1) /\ m = S * q + e
        BY <3>1, <2>4, <2>2
      <4> HIDE DEF m, e, q, S
      <4>2. m \div S = q
        BY <4>1, <1>s, DivUnique
      <4>3. QED
        BY <4>2 DEF m, S
    <3> HIDE DEF up, q, r
    <3>3. QED
      BY <3>2, <2>3, <2>5, <2>6, <2>2
  <2>9. CASE ~(r + c < S)
    <3>0. f = g + 1 /\ g = S * q + r /\ r \in 0..(S - 1) /\ S * q \in Nat
          /\ S * (q + 1) = S * q + S
      BY <2>1, <2>2, <2>7
    <3>1. r + c - S \in 0..(S - 1) /\ f + c - 1 = S * (q + 1) + (r + c - S)
      <4> DEFINE t == S * q
                 u == S * (q + 1)
      <4>1. f = g + 1 /\ g = t + r /\ r \in 0..(S - 1) /\ t \in Nat /\ u = t + S
        BY <3>0
      <4>2. c \in 1..S
        OBVIOUS
      <4> HIDE DEF r, q, t, g, u, S
      <4>3. r + c - S \in 0..(S - 1) /\ f + c - 1 = u + (r + c - S)
        BY <4>1, <4>2, <2>9, <1>s
      <4>4. QED
        BY <4>3 DEF u, S
    <3>2. up = q + 1
      <4> DEFINE m == f + c - 1
                 e == r + c - S
      <4>1. m \in Nat /\ q + 1 \in Int /\ e \in 0..(S - 1) /\ m = S * (q + 1) + e
        BY <3>1, <2>4, <2>2
      <4> HIDE DEF m, e, q, S
      <4>2. m \div S = q + 1
        BY <4>1, <1>s, DivUnique
      <4>3. QED
        BY <4>2 DEF m, S
    <3> HIDE DEF up, q, r
    <3>3. f <= S * (q + 1) /\ S * (q + 1) < f + c
      BY <2>1, <2>2, <2>7, <2>9, <1>s
    <3>4. QED
      BY <3>2, <3>3, <2>3, <2>5, <2>6, <2>2
  <2>10. QED
    BY <2>8, <2>9
<1>3. QED
  BY <1>1, <1>2

\* The superblock being filled once m rows have been pushed: a full one stays in
\* memory until the next row is pushed.
Current(m) == IF m = 0 THEN 0 ELSE (m - 1) \div SUPERBLOCK_ROWS

\* The superblock the encoder is in: a superblock that is exactly full has not been
\* followed by a new one yet.
LEMMA CurrentIs ==
  ASSUME NEW m \in Nat
  PROVE  /\ Current(m) \in Nat
         /\ m \div SUPERBLOCK_ROWS \in Nat
         /\ SUPERBLOCK_ROWS * (m \div SUPERBLOCK_ROWS) \in 0..m
         /\ (m > 0 /\ m % SUPERBLOCK_ROWS = 0) =>
              /\ Current(m) + 1 = m \div SUPERBLOCK_ROWS
              /\ SUPERBLOCK_ROWS * (m \div SUPERBLOCK_ROWS) = m
         /\ ~(m > 0 /\ m % SUPERBLOCK_ROWS = 0) => Current(m) = m \div SUPERBLOCK_ROWS
<1> DEFINE B == SUPERBLOCK_ROWS
           q == m \div B
           r == m % B
<1>s. B \in Nat \ {0}
  BY EncoderSizes
<1>1. q \in Nat /\ r \in 0..(B - 1) /\ m = B * q + r
  BY <1>s, DivMod
<1>2. B * q \in Nat /\ (q = 0 => B * q = 0) /\ (q # 0 => B * (q - 1) = B * q - B)
  <2> HIDE DEF q, B
  <2> QED
    BY <1>1, <1>s
<1>3. B * q \in 0..m
  <2> HIDE DEF q, B, r
  <2> QED
    BY <1>1, <1>2
<1>4. CASE m = 0
  <2>1. q = 0
    <3>1. 0 \in 0..(B - 1) /\ 0 = B * 0 + 0 /\ 0 \in Int
      BY <1>s
    <3>2. 0 \div B = 0
      BY <3>1, <1>s, DivUnique
    <3>3. QED
      BY <3>2, <1>4
  <2>2. QED
    BY <1>3, <1>4, <2>1 DEF Current
<1>5. CASE m # 0 /\ r = 0
  <2>1. q # 0 /\ m = B * q
    <3> HIDE DEF q, B, r
    <3> QED
      BY <1>1, <1>2, <1>5
  <2>2. m - 1 \in Nat /\ q - 1 \in Int /\ q - 1 \in Nat /\ B - 1 \in 0..(B - 1)
        /\ m - 1 = B * (q - 1) + (B - 1)
    <3> DEFINE t == B * q
               u == B * (q - 1)
    <3>1. t \in Nat /\ m = t /\ u = t - B
      BY <1>2, <2>1
    <3>2. m - 1 = u + (B - 1)
      <4> HIDE DEF t, u, B
      <4> QED
        BY <3>1, <1>s
    <3>3. m - 1 \in Nat
      BY <1>5
    <3> HIDE DEF q, B
    <3>4. QED
      BY <3>2, <3>3, <1>1, <2>1, <1>s
  <2>3. (m - 1) \div B = q - 1
    <3> HIDE DEF q, B
    <3> QED
      BY <2>2, <1>s, DivUnique
  <2>4. Current(m) = q - 1
    BY <1>5, <2>3 DEF Current
  <2>5. m > 0
    BY <1>5
  <2> HIDE DEF q, B, r
  <2>6. Current(m) + 1 = q /\ Current(m) \in Nat
    BY <2>2, <2>4, <1>1
  <2>7. QED
    BY <2>1, <2>5, <2>6, <1>1, <1>3, <1>5 DEF q, B, r
<1>6. CASE m # 0 /\ r # 0
  <2>1. m - 1 \in Nat /\ q \in Int /\ r - 1 \in 0..(B - 1) /\ m - 1 = B * q + (r - 1)
    <3> DEFINE t == B * q
    <3>1. t \in Nat /\ m = t + r /\ r \in 0..(B - 1) /\ q \in Int
      BY <1>1, <1>2
    <3> HIDE DEF q, B, r, t
    <3>2. m - 1 \in Nat /\ r - 1 \in 0..(B - 1) /\ m - 1 = t + (r - 1)
      BY <3>1, <1>6, <1>s
    <3>3. QED
      BY <3>1, <3>2 DEF t
  <2>2. (m - 1) \div B = q
    <3> HIDE DEF q, B, r
    <3> QED
      BY <2>1, <1>s, DivUnique
  <2>3. Current(m) = q
    BY <1>6, <2>2 DEF Current
  <2> HIDE DEF q, B, r
  <2>4. QED
    BY <2>3, <1>1, <1>3, <1>6 DEF q, B, r
<1>7. QED
  BY <1>4, <1>5, <1>6

\* Entries of the select file of a symbol with c occurrences: its samples, or one
\* if there is none, and the sentinel.
SelectLen(c) == IF c = 0 THEN 2 ELSE SamplesFor(c) + 1

\* The inductive invariant.  Rows and blocks are in range and no error has been
\* reported; while rows are pushed, the counters are exact, the superblocks and
\* samples are those of the rows pushed so far, and the digits are in the lines;
\* in the end the files are the support, and have the sizes that follow.
TypeInv ==
  /\ rows \in 1..MaxRows
  /\ digits \in [0..(rows - 1) -> Quads]
  /\ pc \in {"push", "done"}
  /\ row \in 0..rows
  /\ rest \in 0..(rows - row)
  /\ global = [s \in Quads |-> Count(digits, s, row)]
  /\ select_files = [s \in Quads |-> select_files[s]]
CountersInv ==
  block = [s \in Quads |-> Count(digits, s, row)
                             - Count(digits, s, SUPERBLOCK_ROWS * Current(row))]
SuperblocksInv ==
  /\ superblocks \in Seq(Superblock) /\ Len(superblocks) = Current(row)
  /\ \A x \in 1..Current(row) : superblocks[x] = SuperblockAfter(digits, LINE, x - 1, row)
  /\ superblock_words = SuperblockAfter(digits, LINE, Current(row), row)
  /\ n_superblocks = Current(row) + 1
SamplesInv == \A s \in Quads : SamplesAfter(select_files[s], digits, LINE, s, row)
LinesAfter(line, lines, m) ==
  /\ line \in Seq(Quads) /\ Len(line) = m % LINE
  /\ \A k \in 1..Len(line) : line[k] = digits[LINE * (m \div LINE) + (k - 1)]
  /\ lines \in Seq([1..LINE -> Quads]) /\ Len(lines) = m \div LINE
  /\ \A l \in 1..Len(lines), k \in 1..LINE : lines[l][k] = digits[LINE * (l - 1) + (k - 1)]
LinesInv == LinesAfter(words, data, row)
SizesInv ==
  /\ Len(data) = n_lines(rows)
  /\ Len(superblocks) = (rows \div SUPERBLOCK_ROWS) + 1
  /\ \A s \in Quads : Len(select_files[s]) = SelectLen(Count(digits, s, rows))
Inv ==
  /\ TypeInv
  /\ pc = "push" => CountersInv /\ SuperblocksInv /\ SamplesInv /\ LinesInv
  /\ pc = "done" => level = SupportOf(digits, rows, BLOCK_ROWS) /\ SizesInv

\* A piece is not empty, takes no more than is left of the block, and lies in one
\* line and one superblock.
LEMMA PieceIs ==
  ASSUME TypeInv, rest > 0
  PROVE  /\ rows \in Nat /\ row \in Nat /\ piece_len \in Nat /\ row + piece_len \in Nat
         /\ 1 <= piece_len /\ piece_len <= rest /\ piece_len <= SELECT_NUM_SAMPLES
         /\ row + piece_len <= rows /\ rest <= rows - row /\ row < WRAP
         /\ (row % LINE) + piece_len <= LINE
         /\ (row % SUPERBLOCK_ROWS) + piece_len <= SUPERBLOCK_ROWS
<1> DEFINE n == piece_len
           P == PIECE_ROWS
           w == WORD \div P
<1>1. /\ P \in Nat \ {0} /\ P <= SELECT_NUM_SAMPLES /\ SELECT_NUM_SAMPLES \in Nat
      /\ rows \in Nat /\ row \in Nat /\ rest \in Nat /\ row + rest <= rows
      /\ row < WRAP
  BY EncoderAssumption, SupportAssumption DEF TypeInv
<1>2. row % P \in 0..(P - 1)
  BY <1>1, DivMod
<1>3. n \in Nat /\ 1 <= n /\ n <= rest /\ (row % P) + n <= P
  <2> DEFINE t == row % P
  <2>1. n = MinOf(rest, P - t)
    BY DEF piece_len
  <2> HIDE DEF n, t, P
  <2>2. QED
    BY <2>1, <1>1, <1>2 DEF MinOf, t
<1>4. WORD = w * P /\ w \in Nat \ {0}
  <2>1. WORD \in Nat \ {0} /\ WORD % P = 0
    BY SupportAssumption, EncoderAssumption
  <2>2. w \in Nat /\ WORD = P * w + (WORD % P)
    BY <1>1, <2>1, DivMod
  <2> HIDE DEF w, P
  <2>3. P * w = w * P /\ P * w \in Nat
    BY <2>2, <1>1
  <2>4. w # 0
    BY <2>1, <2>2, <1>1
  <2>5. QED
    BY <2>1, <2>2, <2>3, <2>4
<1> HIDE DEF w, P
<1>5. LINE = (2 * w) * P /\ 2 * w \in Nat \ {0}
  BY <1>4, <1>1 DEF LINE
<1>6. SUPERBLOCK_ROWS = (BLOCKS_IN_SUPERBLOCK * (2 * w)) * P
      /\ BLOCKS_IN_SUPERBLOCK * (2 * w) \in Nat \ {0}
  <2>1. SUPERBLOCK_ROWS = BLOCKS_IN_SUPERBLOCK * LINE /\ BLOCKS_IN_SUPERBLOCK \in Nat \ {0}
    BY EncoderSizes
  <2> DEFINE u == 2 * w
  <2>2. u \in Nat \ {0} /\ LINE = u * P
    BY <1>5
  <2> HIDE DEF u
  <2>3. SUPERBLOCK_ROWS = (BLOCKS_IN_SUPERBLOCK * u) * P
        /\ BLOCKS_IN_SUPERBLOCK * u \in Nat \ {0}
    BY <2>1, <2>2, <1>1
  <2>4. QED
    BY <2>3 DEF u
<1>7. (row % LINE) + n <= LINE
  <2> HIDE DEF n
  <2> QED
    BY <1>1, <1>3, <1>5, PieceFits
<1>8. (row % SUPERBLOCK_ROWS) + n <= SUPERBLOCK_ROWS
  <2> HIDE DEF n
  <2> QED
    BY <1>1, <1>3, <1>6, PieceFits
<1>9. n <= SELECT_NUM_SAMPLES /\ row + n \in Nat /\ row + n <= rows /\ rest <= rows - row
  <2> DEFINE t == row % P
  <2> HIDE DEF n, t
  <2> QED
    BY <1>1, <1>2, <1>3 DEF t
<1>10. QED
  BY <1>1, <1>3, <1>7, <1>8, <1>9

\* What the piece at row is about to add.
Boundary == row > 0 /\ row % SUPERBLOCK_ROWS = 0
PieceCount == [s \in Quads |->
                 Cardinality({k \in row..(row + piece_len - 1) : digits[k] = s})]

\* Where the piece lies.
LEMMA PiecePlace ==
  ASSUME TypeInv, rest > 0
  PROVE  /\ Current(row + piece_len) = row \div SUPERBLOCK_ROWS
         /\ \A z \in row..(row + piece_len - 1) : z \div SUPERBLOCK_ROWS = row \div SUPERBLOCK_ROWS
         /\ \A z \in (row + 1)..((row + piece_len) - 1) : z % LINE # 0
<1> DEFINE n == piece_len
<1>1. /\ row \in Nat /\ n \in Nat /\ 1 <= n
      /\ (row % LINE) + n <= LINE
      /\ (row % SUPERBLOCK_ROWS) + n <= SUPERBLOCK_ROWS
  BY PieceIs
<1>2. SUPERBLOCK_ROWS \in Nat \ {0} /\ LINE \in Nat \ {0}
  BY EncoderSizes
<1> HIDE DEF n
<1>3. \A z \in row..(row + n - 1) : z \div SUPERBLOCK_ROWS = row \div SUPERBLOCK_ROWS
  BY <1>1, <1>2, SameStretch
<1>4. ASSUME NEW z \in (row + 1)..((row + n) - 1) PROVE z % LINE # 0
  <2>1. z \in row..(row + n - 1)
    BY <1>1
  <2>2. z % LINE = (row % LINE) + (z - row)
    BY <1>1, <1>2, <2>1, SameStretch
  <2>3. row % LINE \in Nat
    BY <1>1, <1>2, DivMod
  <2>4. QED
    BY <2>2, <2>3, <1>1
<1>5. Current(row + n) = row \div SUPERBLOCK_ROWS
  <2>1. (row + n) - 1 \in row..(row + n - 1) /\ row + n # 0
    BY <1>1
  <2>2. QED
    BY <1>3, <2>1 DEF Current
<1>6. QED
  BY <1>3, <1>4, <1>5 DEF n

\* The counters written at a row count from the beginning of its superblock.
LEMMA CountersFrom ==
  ASSUME TypeInv, CountersInv
  PROVE  counters_from(Boundary) = InSuperblock(digits, LINE, row)
<1>1. row \in Nat
  BY EncoderAssumption DEF TypeInv
<1>2. LINE \in BlockSizes /\ SUPERBLOCK_ROWS = superblock_size(LINE)
  BY EncoderSizes
<1>3. CASE Boundary
  BY <1>1, <1>2, <1>3, InSuperblockIs DEF counters_from, Zero, Boundary
<1>4. CASE ~Boundary
  <2>1. Current(row) = row \div SUPERBLOCK_ROWS
    BY <1>1, <1>4, CurrentIs DEF Boundary
  <2>2. QED
    BY <1>2, <1>4, <2>1 DEF counters_from, CountersInv, InSuperblock
<1>5. QED
  BY <1>3, <1>4

\* The counters of a piece: what set_block_counters is given counts from the
\* beginning of the superblock and fits its field; what is added is exact.
LEMMA PieceCounters ==
  ASSUME TypeInv, CountersInv, rest > 0
  PROVE  /\ counters_from(Boundary) = InSuperblock(digits, LINE, row)
         /\ [s \in Quads |-> global[s] + PieceCount[s]]
              = [s \in Quads |-> Count(digits, s, row + piece_len)]
         /\ [s \in Quads |-> counters_from(Boundary)[s] + PieceCount[s]]
              = [s \in Quads |-> Count(digits, s, row + piece_len)
                   - Count(digits, s, SUPERBLOCK_ROWS * Current(row + piece_len))]
         /\ \A s \in Quads : PieceCount[s] \in 0..piece_len
<1> DEFINE n == piece_len
           from == SUPERBLOCK_ROWS * (row \div SUPERBLOCK_ROWS)
<1>1. row \in Nat /\ n \in Nat /\ row + n \in Nat
  BY PieceIs
<1>2. LINE \in BlockSizes /\ SUPERBLOCK_ROWS = superblock_size(LINE)
  BY EncoderSizes
<1>3. InSuperblock(digits, LINE, row)
        = [s \in Quads |-> Count(digits, s, row) - Count(digits, s, from)]
  BY <1>2 DEF InSuperblock
<1>4. counters_from(Boundary) = InSuperblock(digits, LINE, row)
  BY CountersFrom
<1>5. from \in Nat
  <2>1. from \in 0..row
    BY <1>1, CurrentIs
  <2> HIDE DEF from
  <2>2. QED
    BY <2>1, <1>1
<1>6. ASSUME NEW s \in Quads
      PROVE  /\ PieceCount[s] \in 0..n
             /\ Count(digits, s, row + n) = Count(digits, s, row) + PieceCount[s]
             /\ Count(digits, s, row) \in Nat /\ Count(digits, s, from) \in Nat
  <2>1. row <= row + n /\ (row + n) - row = n
    BY <1>1
  <2>2. {k \in row..(row + n - 1) : digits[k] = s} = Occurrences(digits, s, row, row + n)
    <3>1. row + n - 1 = (row + n) - 1
      BY <1>1
    <3>2. QED
      BY <3>1 DEF Occurrences
  <2>3. PieceCount[s] = Cardinality(Occurrences(digits, s, row, row + n))
    BY <2>2 DEF PieceCount
  <2>4. QED
    BY <1>1, <1>5, <2>1, <2>3, CountSplit, CountType
<1>7. Current(row + n) = row \div SUPERBLOCK_ROWS
  BY PiecePlace
<1>8. [s \in Quads |-> global[s] + PieceCount[s]]
        = [s \in Quads |-> Count(digits, s, row + n)]
  BY <1>6 DEF TypeInv
<1>9. [s \in Quads |-> counters_from(Boundary)[s] + PieceCount[s]]
        = [s \in Quads |-> Count(digits, s, row + n) - Count(digits, s, from)]
  <2>1. \A s \in Quads : counters_from(Boundary)[s] = Count(digits, s, row) - Count(digits, s, from)
    BY <1>3, <1>4
  <2>2. \A s \in Quads : counters_from(Boundary)[s] + PieceCount[s]
                           = Count(digits, s, row + n) - Count(digits, s, from)
    <3> HIDE DEF n, from
    <3> QED
      BY <1>1, <1>6, <2>1
  <2> HIDE DEF n, from
  <2>3. QED
    BY <2>2
<1>10. QED
  BY <1>4, <1>6, <1>7, <1>8, <1>9

\* No counter is rejected.
LEMMA CountersFit ==
  ASSUME NEW v, NEW p \in Nat
  PROVE  fits(InSuperblock(v, LINE, p))
<1>1. LINE \in BlockSizes /\ superblock_size(LINE) \in Nat
      /\ superblock_size(LINE) <= 2 ^ COUNTER_BITS
  BY EncoderSizes, EncoderAssumption
<1>2. 2 ^ COUNTER_BITS \in Int
  BY SupportAssumption
<1>3. /\ InSuperblock(v, LINE, p) \in [Quads -> Nat]
      /\ \A s \in Quads : InSuperblock(v, LINE, p)[s] < superblock_size(LINE)
  BY <1>1, InSuperblockIs
<1>4. QED
  BY <1>1, <1>2, <1>3 DEF fits

\* The superblock in memory before the piece's own counters are written, and the
\* file.
Opening == IF Boundary THEN new_superblock(global) ELSE superblock_words
Flushed == IF Boundary THEN Append(superblocks, superblock_words) ELSE superblocks
StartsBlock == row % BLOCK_ROWS = 0
BlockId == (row \div BLOCK_ROWS) % BLOCKS_IN_SUPERBLOCK
Written == IF StartsBlock
             THEN set_block_counters(Opening, BlockId, InSuperblock(digits, LINE, row))
             ELSE Opening

\* The superblock in memory after row has been visited.
LEMMA WrittenIs ==
  ASSUME TypeInv, SuperblocksInv
  PROVE  Written = SuperblockAfter(digits, LINE, row \div SUPERBLOCK_ROWS, row + 1)
<1> DEFINE x == row \div SUPERBLOCK_ROWS
<1>1. row \in Nat
  BY EncoderAssumption DEF TypeInv
<1>2. LINE \in BlockSizes /\ SUPERBLOCK_ROWS = superblock_size(LINE) /\ BLOCK_ROWS = LINE
  BY EncoderSizes
<1>3. global = [s \in Quads |-> Count(digits, s, row)]
  BY DEF TypeInv
<1>4. /\ row % SUPERBLOCK_ROWS = 0 =>
           /\ row % LINE = 0 /\ BlockId = 0
           /\ SuperblockAfter(digits, LINE, x, row + 1)
                = new_superblock([s \in Quads |-> Count(digits, s, row)])
      /\ row % SUPERBLOCK_ROWS # 0 /\ row % LINE = 0 =>
           /\ BlockId # 0
           /\ SuperblockAfter(digits, LINE, x, row + 1)
                = set_block_counters(SuperblockAfter(digits, LINE, x, row), BlockId,
                                     InSuperblock(digits, LINE, row))
      /\ row % LINE # 0 =>
           /\ row % SUPERBLOCK_ROWS # 0
           /\ SuperblockAfter(digits, LINE, x, row + 1) = SuperblockAfter(digits, LINE, x, row)
  BY <1>1, <1>2, Visited DEF BlockId
<1>5. ~Boundary => superblock_words = SuperblockAfter(digits, LINE, x, row)
  BY <1>1, CurrentIs DEF Boundary, SuperblocksInv
<1>6. \A sb : set_block_counters(sb, 0, InSuperblock(digits, LINE, row)) = sb
  BY DEF set_block_counters
<1>7. CASE Boundary
  BY <1>2, <1>3, <1>4, <1>6, <1>7 DEF Boundary, Written, Opening, StartsBlock
<1>8. CASE ~Boundary /\ row = 0
  <2>1. row % SUPERBLOCK_ROWS = 0 /\ x = 0
    BY <1>8, EncoderSizes
  <2>2. SuperblockAfter(digits, LINE, x, row) = SuperblockAfter(digits, LINE, x, row + 1)
    <3>1. ASSUME NEW j \in 1..(BLOCKS_IN_SUPERBLOCK - 1)
          PROVE  BlockStart(LINE, x, j) >= 1 /\ BlockStart(LINE, x, j) \in Nat
      <4>1. BlockStart(LINE, 0, j) \in Nat /\ superblock_size(LINE) * 0 = 0
        BY <1>2, BlockStarts, EncoderSizes
      <4>2. LINE * j >= 1
        BY EncoderSizes
      <4>3. BlockStart(LINE, 0, j) = LINE * j
        BY <4>1, EncoderSizes DEF BlockStart
      <4>4. QED
        BY <4>1, <4>2, <4>3, <2>1
    <3>2. \A j \in 1..(BLOCKS_IN_SUPERBLOCK - 1) :
            (BlockStart(LINE, x, j) < row) <=> (BlockStart(LINE, x, j) < row + 1)
      BY <3>1, <1>8
    <3>3. QED
      BY <3>2, SameBlocks
  <2>3. QED
    BY <1>2, <1>4, <1>5, <1>6, <1>8, <2>1, <2>2 DEF Written, Opening, StartsBlock
<1>9. CASE ~Boundary /\ row # 0
  <2>1. row % SUPERBLOCK_ROWS # 0
    BY <1>1, <1>9 DEF Boundary
  <2>2. QED
    BY <1>2, <1>4, <1>5, <1>9, <2>1 DEF Written, Opening, StartsBlock
<1>10. QED
  BY <1>7, <1>8, <1>9

\* The superblocks after a boundary has been passed, seen from m rows, at or
\* after row.
LEMMA FlushedIs ==
  ASSUME TypeInv, SuperblocksInv, NEW m \in Nat, row <= m
  PROVE  LET x == row \div SUPERBLOCK_ROWS
         IN /\ x \in Nat
            /\ Flushed \in Seq(Superblock) /\ Len(Flushed) = x
            /\ \A y \in 1..x : Flushed[y] = SuperblockAfter(digits, LINE, y - 1, m)
            /\ (IF Boundary THEN n_superblocks + 1 ELSE n_superblocks) = x + 1
<1> DEFINE x == row \div SUPERBLOCK_ROWS
           c == Current(row)
           B == SUPERBLOCK_ROWS
<1>1. row \in Nat
  BY EncoderAssumption DEF TypeInv
<1>2. LINE \in BlockSizes /\ B = superblock_size(LINE) /\ B \in Nat \ {0}
  BY EncoderSizes
<1>3. /\ c \in Nat /\ x \in Nat /\ B * x \in 0..row
      /\ Boundary => c + 1 = x
      /\ ~Boundary => c = x
  BY <1>1, CurrentIs DEF Boundary
<1>4. /\ superblocks \in Seq(Superblock) /\ Len(superblocks) = c
      /\ \A y \in 1..c : superblocks[y] = SuperblockAfter(digits, LINE, y - 1, row)
      /\ superblock_words = SuperblockAfter(digits, LINE, c, row)
      /\ n_superblocks = c + 1
  BY DEF SuperblocksInv
<1>5. ASSUME NEW y \in 1..x
      PROVE  SuperblockAfter(digits, LINE, y - 1, row) = SuperblockAfter(digits, LINE, y - 1, m)
  <2> HIDE DEF x
  <2>1. y - 1 \in Nat /\ (y - 1) + 1 = y /\ y \in Nat /\ y <= x
    BY <1>3
  <2>2. B * y <= B * x /\ B * y \in Nat
    <3> HIDE DEF B
    <3> QED
      BY <1>2, <1>3, <2>1, MulMono
  <2>3. B * y <= row /\ B * y <= m
    <3> DEFINE t == B * y
               u == B * x
    <3>1. t <= u /\ t \in Nat /\ u \in 0..row
      BY <2>2, <1>3
    <3> HIDE DEF t, u
    <3>2. t <= row /\ t <= m
      BY <3>1, <1>1
    <3>3. QED
      BY <3>2 DEF t
  <2>4. QED
    BY <1>1, <1>2, <2>1, <2>3, SuperblockClosed
<1> HIDE DEF x, c, B
<1>6. CASE Boundary
  <2>1. SuperblockAfter(digits, LINE, c, row) \in Superblock
    <3>1. superblocks \in Seq(Superblock) /\ c \in Nat /\ row # 0
      BY <1>3, <1>4, <1>6 DEF Boundary
    <3>2. /\ SuperblocksAfter(digits, LINE, row) \in Seq(Superblock)
          /\ Len(SuperblocksAfter(digits, LINE, row)) = OpenedBefore(LINE, row)
          /\ \A y \in 1..OpenedBefore(LINE, row) :
               SuperblocksAfter(digits, LINE, row)[y] = SuperblockAfter(digits, LINE, y - 1, row)
      BY <1>1, <1>2, SuperblocksSeq
    <3>3. OpenedBefore(LINE, row) = x
      BY <1>1, <1>2, <1>6, OpenedIs DEF Boundary, x, B
    <3>4. c + 1 \in 1..x /\ (c + 1) - 1 = c
      BY <1>3, <1>6
    <3>5. SuperblocksAfter(digits, LINE, row)[c + 1] = SuperblockAfter(digits, LINE, c, row)
      BY <3>2, <3>3, <3>4
    <3>6. QED
      BY <3>2, <3>3, <3>4, <3>5
  <2>2. Flushed = Append(superblocks, superblock_words)
    BY <1>6 DEF Flushed
  <2>3. /\ Flushed \in Seq(Superblock) /\ Len(Flushed) = c + 1
        /\ \A y \in 1..c : Flushed[y] = superblocks[y]
        /\ Flushed[c + 1] = superblock_words
    BY <2>1, <2>2, <1>3, <1>4
  <2>4. ASSUME NEW y \in 1..x
        PROVE  Flushed[y] = SuperblockAfter(digits, LINE, y - 1, m)
    <3>1. y \in 1..c \/ (y = c + 1 /\ y - 1 = c)
      BY <1>3, <1>6
    <3>2. Flushed[y] = SuperblockAfter(digits, LINE, y - 1, row)
      BY <3>1, <2>3, <1>4
    <3>3. QED
      BY <3>2, <1>5
  <2>5. QED
    BY <2>3, <2>4, <1>3, <1>4, <1>6 DEF x
<1>7. CASE ~Boundary
  BY <1>3, <1>4, <1>5, <1>7 DEF Flushed, x
<1>8. QED
  BY <1>6, <1>7

\* The samples after a piece.
LEMMA PieceSamples ==
  ASSUME TypeInv, CountersInv, SamplesInv, rest > 0, NEW s \in Quads
  PROVE  SamplesAfter(IF PieceCount[s] > 0 /\ crosses(global[s], PieceCount[s])
                        THEN Append(select_files[s], row \div SUPERBLOCK_ROWS)
                        ELSE select_files[s],
                      digits, LINE, s, row + piece_len)
<1> DEFINE n == piece_len
           f == Count(digits, s, row)
           c == PieceCount[s]
           S == SELECT_NUM_SAMPLES
<1>1. /\ row \in Nat /\ n \in Nat /\ row + n \in Nat /\ n <= S /\ row < WRAP
      /\ row <= row + n
  BY PieceIs
<1>2. LINE \in BlockSizes /\ SUPERBLOCK_ROWS = superblock_size(LINE) /\ S \in Nat
  BY EncoderSizes
<1>3. c \in 0..n /\ global[s] = f /\ f \in Nat /\ f <= row
      /\ Count(digits, s, row + n) = f + c
  <2>1. c \in 0..n /\ global[s] = f
    BY PieceCounters DEF TypeInv
  <2>2. global[s] + c = Count(digits, s, row + n)
    <3>1. [t \in Quads |-> global[t] + PieceCount[t]]
            = [t \in Quads |-> Count(digits, t, row + n)]
      BY PieceCounters
    <3>2. [t \in Quads |-> global[t] + PieceCount[t]][s]
            = [t \in Quads |-> Count(digits, t, row + n)][s]
      BY <3>1
    <3>3. QED
      BY <3>2
  <2>3. QED
    BY <2>1, <2>2, <1>1, CountType
<1>4. SamplesAfter(select_files[s], digits, LINE, s, row)
  BY DEF SamplesInv
<1>5. /\ SampleCount(digits, s, row) = SamplesFor(f)
      /\ SampleCount(digits, s, row + n) = SamplesFor(f + c)
  BY <1>3 DEF SampleCount, SamplesFor
<1>6. CASE c = 0
  <2>1. SampleCount(digits, s, row + n) = SampleCount(digits, s, row)
    BY <1>3, <1>5, <1>6
  <2>2. SamplesAfter(select_files[s], digits, LINE, s, row + n)
    BY <1>1, <1>4, <2>1, SamplesKept
  <2>3. QED
    BY <1>6, <2>2
<1>7. CASE c # 0
  <2>1. c \in 1..S /\ c > 0 /\ f < WRAP
    <3> HIDE DEF c, S, f, n
    <3> QED
      BY <1>1, <1>2, <1>3, <1>7, EncoderAssumption
  <2>2. /\ SamplesFor(f) \in Nat
        /\ SamplesFor(f + c) = SamplesFor(f) + (IF crosses(f, c) THEN 1 ELSE 0)
        /\ crosses(f, c) => f <= S * SamplesFor(f) /\ S * SamplesFor(f) < f + c
    BY <1>3, <2>1, Crosses
  <2>3. CASE crosses(f, c)
    <3>1. \A z \in row..(row + n - 1) : z \div superblock_size(LINE) = row \div SUPERBLOCK_ROWS
      BY <1>2, PiecePlace
    <3>2. /\ SampleCount(digits, s, row + n) = SampleCount(digits, s, row) + 1
          /\ SampleCount(digits, s, row) \in Nat
          /\ Count(digits, s, row) <= SELECT_NUM_SAMPLES * SampleCount(digits, s, row)
          /\ SELECT_NUM_SAMPLES * SampleCount(digits, s, row) < Count(digits, s, row + n)
      BY <1>3, <1>5, <2>2, <2>3
    <3> HIDE DEF n
    <3>3. SamplesAfter(Append(select_files[s], row \div SUPERBLOCK_ROWS),
                       digits, LINE, s, row + n)
      BY <1>1, <1>2, <1>4, <3>1, <3>2, SamplesPiece
    <3>4. QED
      BY <3>3, <2>1, <2>3, <1>3 DEF n
  <2>4. CASE ~crosses(f, c)
    <3>1. SampleCount(digits, s, row + n) = SampleCount(digits, s, row)
      BY <1>5, <2>2, <2>4
    <3>2. SamplesAfter(select_files[s], digits, LINE, s, row + n)
      BY <1>1, <1>4, <3>1, SamplesKept
    <3>3. QED
      BY <3>2, <2>4, <1>3
  <2>5. QED
    BY <2>3, <2>4
<1>8. QED
  BY <1>6, <1>7

\* A sequence of digits followed by n more.
LEMMA Concat ==
  ASSUME NEW A \in Seq(Quads), NEW n \in Nat, NEW F \in [1..n -> Quads]
  PROVE  /\ A \o F \in Seq(Quads) /\ Len(A \o F) = Len(A) + n
         /\ \A k \in 1..Len(A) : (A \o F)[k] = A[k]
         /\ \A k \in 1..n : (A \o F)[Len(A) + k] = F[k]
<1>1. F \in Seq(Quads) /\ Len(F) = n
  OBVIOUS
<1>2. QED
  BY <1>1

\* The data file after a line has been flushed, padded with zeros.
LEMMA Flush ==
  ASSUME NEW line \in Seq(Quads), Len(line) <= LINE, data \in Seq([1..LINE -> Quads])
  PROVE  /\ flush_line(line) \in Seq([1..LINE -> Quads])
         /\ Len(flush_line(line)) = Len(data) + 1
         /\ \A l \in 1..Len(data) : flush_line(line)[l] = data[l]
         /\ \A k \in 1..LINE : flush_line(line)[Len(data) + 1][k]
                                 = IF k <= Len(line) THEN line[k] ELSE 0
<1> DEFINE n == LINE - Len(line)
           pad == [k \in 1..n |-> 0]
           full == line \o pad
<1>1. LINE \in Nat \ {0} /\ Len(line) \in Nat /\ n \in Nat /\ 0 \in Quads
  BY EncoderSizes DEF Quads
<1>2. pad \in [1..n -> Quads]
  BY <1>1
<1>3. flush_line(line) = Append(data, full)
  BY DEF flush_line
<1> HIDE DEF n
<1>4. /\ full \in Seq(Quads) /\ Len(full) = Len(line) + n
      /\ \A k \in 1..Len(line) : full[k] = line[k]
      /\ \A k \in 1..n : full[Len(line) + k] = pad[k]
  <2>1. n \in Nat
    BY <1>1
  <2> HIDE DEF pad
  <2>2. QED
    BY <2>1, <1>2, Concat
<1>5. \A k \in 1..n : pad[k] = 0
  OBVIOUS
<1> HIDE DEF pad, full
<1>6. Len(line) + n = LINE
  BY <1>1 DEF n
<1>7. full \in [1..LINE -> Quads]
  BY <1>4, <1>6
<1>8. ASSUME NEW k \in 1..LINE PROVE full[k] = IF k <= Len(line) THEN line[k] ELSE 0
  <2>1. CASE k <= Len(line)
    BY <2>1, <1>1, <1>4
  <2>2. CASE ~(k <= Len(line))
    <3>1. k - Len(line) \in 1..n /\ Len(line) + (k - Len(line)) = k
      BY <2>2, <1>1, <1>6
    <3>2. full[Len(line) + (k - Len(line))] = pad[k - Len(line)] /\ pad[k - Len(line)] = 0
      BY <3>1, <1>4, <1>5
    <3>3. QED
      BY <2>2, <3>1, <3>2
  <2>3. QED
    BY <2>1, <2>2
<1>9. QED
  BY <1>3, <1>7, <1>8

\* The line in memory and the data file after a piece.
PieceLine == words \o [k \in 1..piece_len |-> digits[row + k - 1]]
\* One piece of a push: the lines written, and the line being filled.
LEMMA PieceLines ==
  ASSUME TypeInv, LinesInv, rest > 0
  PROVE  LinesAfter(IF Len(PieceLine) = BLOCK_ROWS THEN <<>> ELSE PieceLine,
                    IF Len(PieceLine) = BLOCK_ROWS THEN flush_line(PieceLine) ELSE data,
                    row + piece_len)
<1> DEFINE n == piece_len
           q == row \div LINE
           r == row % LINE
           F == [k \in 1..n |-> digits[row + k - 1]]
           line == words \o F
<1>1. /\ row \in Nat /\ n \in Nat /\ 1 <= n /\ row + n \in Nat /\ row + n <= rows /\ r + n <= LINE
      /\ rows \in Nat
  BY PieceIs
<1>2. LINE \in Nat \ {0} /\ BLOCK_ROWS = LINE
  BY EncoderSizes
<1>3. q \in Nat /\ r \in 0..(LINE - 1) /\ row = LINE * q + r /\ LINE * q \in Nat
  <2>1. q \in Nat /\ r \in 0..(LINE - 1) /\ row = LINE * q + r
    BY <1>1, <1>2, DivMod
  <2> HIDE DEF q, r
  <2>2. QED
    BY <2>1, <1>2
<1>4. /\ words \in Seq(Quads) /\ Len(words) = r
      /\ \A k \in 1..r : words[k] = digits[LINE * q + (k - 1)]
      /\ data \in Seq([1..LINE -> Quads]) /\ Len(data) = q
      /\ \A l \in 1..q, k \in 1..LINE : data[l][k] = digits[LINE * (l - 1) + (k - 1)]
  BY DEF LinesInv, LinesAfter
<1> HIDE DEF n, q, r
<1>5. F \in [1..n -> Quads] /\ \A k \in 1..n : F[k] = digits[row + k - 1]
  <2>1. \A k \in 1..n : row + k - 1 \in 0..(rows - 1)
    BY <1>1
  <2>2. QED
    BY <2>1 DEF TypeInv
<1> HIDE DEF F
<1>6. /\ line \in Seq(Quads) /\ Len(line) = r + n
      /\ \A k \in 1..r : line[k] = words[k]
      /\ \A k \in 1..n : line[r + k] = F[k]
  <2>1. n \in Nat /\ words \in Seq(Quads) /\ F \in [1..n -> Quads]
    BY <1>1, <1>4, <1>5
  <2>2. /\ line \in Seq(Quads) /\ Len(line) = Len(words) + n
        /\ \A k \in 1..Len(words) : line[k] = words[k]
        /\ \A k \in 1..n : line[Len(words) + k] = F[k]
    BY <2>1, Concat
  <2> HIDE DEF line
  <2>3. QED
    BY <2>2, <1>4
<1> HIDE DEF line
<1>7. ASSUME NEW k \in 1..Len(line) PROVE line[k] = digits[LINE * q + (k - 1)]
  <2>1. CASE k <= r
    BY <2>1, <1>3, <1>4, <1>6
  <2>2. CASE ~(k <= r)
    <3> DEFINE t == LINE * q
    <3>1. row = t + r /\ t \in Nat /\ r \in Nat
      BY <1>3
    <3> HIDE DEF t
    <3>2. k - r \in 1..n /\ r + (k - r) = k /\ row + (k - r) - 1 = t + (k - 1)
      BY <2>2, <3>1, <1>1, <1>6
    <3>3. line[r + (k - r)] = F[k - r] /\ F[k - r] = digits[row + (k - r) - 1]
      BY <3>2, <1>5, <1>6
    <3>4. QED
      BY <3>2, <3>3 DEF t
  <2>3. QED
    BY <2>1, <2>2
<1>8. PieceLine = line
  BY DEF PieceLine, line, F, n
<1>9. CASE r + n = LINE
  <2>1. row + n = LINE * (q + 1) + 0 /\ q + 1 \in Int /\ 0 \in 0..(LINE - 1)
    <3>1. LINE * (q + 1) = LINE * q + LINE
      BY <1>2, <1>3
    <3> DEFINE t == LINE * q
    <3>2. row = t + r /\ t \in Nat /\ r \in Nat
      BY <1>3
    <3> HIDE DEF t
    <3>3. row + n = t + LINE
      BY <3>2, <1>1, <1>9
    <3>4. QED
      BY <3>1, <3>3, <1>2, <1>3 DEF t
  <2>2. (row + n) \div LINE = q + 1 /\ (row + n) % LINE = 0
    BY <2>1, <1>1, <1>2, DivUnique
  <2>3. Len(line) <= LINE /\ Len(line) = BLOCK_ROWS
    BY <1>2, <1>6, <1>9
  <2>4. /\ flush_line(line) \in Seq([1..LINE -> Quads])
        /\ Len(flush_line(line)) = q + 1
        /\ \A l \in 1..q : flush_line(line)[l] = data[l]
        /\ \A k \in 1..LINE : flush_line(line)[q + 1][k] = IF k <= Len(line) THEN line[k] ELSE 0
    BY <1>4, <1>6, <2>3, Flush
  <2>5. ASSUME NEW l \in 1..(q + 1), NEW k \in 1..LINE
        PROVE  flush_line(line)[l][k] = digits[LINE * (l - 1) + (k - 1)]
    <3>1. CASE l \in 1..q
      BY <3>1, <2>4, <1>4
    <3>2. CASE l = q + 1
      <4>1. l - 1 = q /\ k \in 1..Len(line) /\ k <= Len(line)
        BY <3>2, <1>2, <1>3, <2>3
      <4>2. flush_line(line)[l][k] = line[k]
        BY <3>2, <4>1, <2>4
      <4>3. QED
        BY <4>1, <4>2, <1>7
    <3>3. QED
      BY <3>1, <3>2, <1>3
  <2>6. LinesAfter(<<>>, flush_line(line), row + n)
    <3>1. /\ <<>> \in Seq(Quads) /\ Len(<<>>) = 0
      OBVIOUS
    <3>2. QED
      BY <2>2, <2>4, <2>5, <3>1 DEF LinesAfter
  <2>7. QED
    BY <2>3, <2>6, <1>8 DEF n
<1>10. CASE r + n # LINE
  <2>1. row + n = LINE * q + (r + n) /\ q \in Int /\ r + n \in 0..(LINE - 1)
    <3> DEFINE t == LINE * q
    <3>1. row = t + r /\ t \in Nat /\ r \in Nat
      BY <1>3
    <3> HIDE DEF t
    <3>2. row + n = t + (r + n) /\ r + n \in 0..(LINE - 1)
      BY <3>1, <1>1, <1>2, <1>10
    <3>3. QED
      BY <3>2, <1>3 DEF t
  <2>2. (row + n) \div LINE = q /\ (row + n) % LINE = r + n
    BY <2>1, <1>1, <1>2, DivUnique
  <2>3. Len(line) # BLOCK_ROWS
    BY <1>2, <1>6, <1>10
  <2>4. LinesAfter(line, data, row + n)
    BY <2>2, <1>4, <1>6, <1>7 DEF LinesAfter
  <2>5. QED
    BY <2>3, <2>4, <1>8 DEF n
<1>11. QED
  BY <1>9, <1>10

\* What a piece does, as no counter is rejected.
LEMMA PieceDoes ==
  ASSUME Inv, PushPiece
  PROVE  /\ TypeInv /\ CountersInv /\ SuperblocksInv /\ SamplesInv /\ LinesInv /\ rest > 0
         /\ superblocks' = Flushed
         /\ n_superblocks' = IF Boundary THEN n_superblocks + 1 ELSE n_superblocks
         /\ superblock_words' = Written
         /\ select_files' =
              [s \in Quads |->
                IF PieceCount[s] > 0 /\ crosses(global[s], PieceCount[s])
                  THEN Append(select_files[s], row \div SUPERBLOCK_ROWS)
                  ELSE select_files[s]]
         /\ global' = [s \in Quads |-> global[s] + PieceCount[s]]
         /\ block' = [s \in Quads |-> counters_from(Boundary)[s] + PieceCount[s]]
         /\ words' = IF Len(PieceLine) = BLOCK_ROWS THEN <<>> ELSE PieceLine
         /\ data' = IF Len(PieceLine) = BLOCK_ROWS THEN flush_line(PieceLine) ELSE data
         /\ row' = row + piece_len /\ rest' = rest - piece_len
         /\ pc' = pc /\ pc = "push" /\ digits' = digits /\ rows' = rows
<1>1. TypeInv /\ CountersInv /\ SuperblocksInv /\ SamplesInv /\ LinesInv /\ rest > 0 /\ pc = "push"
  BY DEF Inv, PushPiece
<1>2. counters_from(Boundary) = InSuperblock(digits, LINE, row) /\ row \in Nat
  BY <1>1, PieceCounters, PieceIs
<1>3. ~rejects(BlockId, counters_from(Boundary))
  BY <1>2, CountersFit DEF rejects
<1>4. Written = IF StartsBlock THEN set_block_counters(Opening, BlockId, counters_from(Boundary))
                               ELSE Opening
  BY <1>2 DEF Written
<1>5. /\ superblocks' = Flushed
      /\ n_superblocks' = IF Boundary THEN n_superblocks + 1 ELSE n_superblocks
      /\ digits' = digits /\ rows' = rows
  BY DEF PushPiece, Flushed, Boundary
<1>6. /\ superblock_words' = (IF StartsBlock
                                THEN set_block_counters(Opening, BlockId, counters_from(Boundary))
                                ELSE Opening)
      /\ select_files' =
           [s \in Quads |->
             IF PieceCount[s] > 0 /\ crosses(global[s], PieceCount[s])
               THEN Append(select_files[s], row \div SUPERBLOCK_ROWS)
               ELSE select_files[s]]
      /\ global' = [s \in Quads |-> global[s] + PieceCount[s]]
      /\ block' = [s \in Quads |-> counters_from(Boundary)[s] + PieceCount[s]]
      /\ (IF Len(PieceLine) = BLOCK_ROWS
            THEN words' = <<>> /\ data' = flush_line(PieceLine)
            ELSE words' = PieceLine /\ data' = data)
      /\ row' = row + piece_len
      /\ rest' = rest - piece_len
      /\ UNCHANGED pc
  <2>1. \/ StartsBlock /\ rejects(BlockId, counters_from(Boundary))
        \/ /\ superblock_words' = (IF StartsBlock
                                THEN set_block_counters(Opening, BlockId, counters_from(Boundary))
                                ELSE Opening)
           /\ select_files' =
                [s \in Quads |->
                  IF PieceCount[s] > 0 /\ crosses(global[s], PieceCount[s])
                    THEN Append(select_files[s], row \div SUPERBLOCK_ROWS)
                    ELSE select_files[s]]
           /\ global' = [s \in Quads |-> global[s] + PieceCount[s]]
           /\ block' = [s \in Quads |-> counters_from(Boundary)[s] + PieceCount[s]]
           /\ (IF Len(PieceLine) = BLOCK_ROWS
                 THEN words' = <<>> /\ data' = flush_line(PieceLine)
                 ELSE words' = PieceLine /\ data' = data)
           /\ row' = row + piece_len
           /\ rest' = rest - piece_len
           /\ UNCHANGED pc
    BY Zenon DEF PushPiece, Boundary, Opening, StartsBlock, BlockId, PieceCount, PieceLine
  <2>2. QED
    BY <2>1, <1>3
<1>7. QED
  BY <1>1, <1>4, <1>5, <1>6

\* A piece keeps the invariant.
LEMMA PieceStep ==
  ASSUME Inv, PushPiece
  PROVE  Inv'
<1> DEFINE n == piece_len
           m == row + n
           x == row \div SUPERBLOCK_ROWS
<1>1. TypeInv /\ CountersInv /\ SuperblocksInv /\ SamplesInv /\ LinesInv /\ rest > 0
  BY PieceDoes
<1>2. /\ rows \in Nat /\ row \in Nat /\ n \in Nat /\ m \in Nat /\ 1 <= n /\ n <= rest
      /\ m <= rows /\ rest <= rows - row
  BY <1>1, PieceIs
<1>3. row' = m /\ rest' = rest - n /\ pc' = "push" /\ digits' = digits /\ rows' = rows
  BY PieceDoes
<1>4. Current(m) = x
  BY <1>1, PiecePlace
<1>5. TypeInv'
  <2>1. global' = [s \in Quads |-> Count(digits, s, m)]
    BY <1>1, PieceCounters, PieceDoes
  <2>2. select_files' = [s \in Quads |-> select_files'[s]]
    BY PieceDoes
  <2>3. row' \in 0..rows' /\ rest' \in 0..(rows' - row')
    <3>1. rest \in 0..(rows - row)
      BY <1>1 DEF TypeInv
    <3> HIDE DEF n
    <3>2. QED
      BY <1>2, <1>3, <3>1 DEF m
  <2> HIDE DEF m
  <2>4. QED
    BY <1>1, <1>3, <2>1, <2>2, <2>3 DEF TypeInv
<1>6. CountersInv'
  <2>1. block' = [s \in Quads |-> Count(digits, s, m)
                                    - Count(digits, s, SUPERBLOCK_ROWS * Current(m))]
    BY <1>1, PieceCounters, PieceDoes
  <2>2. QED
    BY <1>3, <2>1 DEF CountersInv
<1>7. SuperblocksInv'
  <2>1. /\ x \in Nat
        /\ superblocks' \in Seq(Superblock) /\ Len(superblocks') = x
        /\ \A y \in 1..x : superblocks'[y] = SuperblockAfter(digits, LINE, y - 1, m)
        /\ n_superblocks' = x + 1
    BY <1>1, <1>2, FlushedIs, PieceDoes
  <2>2. superblock_words' = SuperblockAfter(digits, LINE, x, row + 1)
    BY <1>1, WrittenIs, PieceDoes
  <2>3. SuperblockAfter(digits, LINE, x, row + 1) = SuperblockAfter(digits, LINE, x, m)
    <3>1. \A z \in (row + 1)..(m - 1) : z % LINE # 0
      BY <1>1, PiecePlace
    <3>2. row + 1 \in Nat /\ row + 1 <= m
      BY <1>2
    <3>3. LINE \in BlockSizes
      BY EncoderSizes
    <3> HIDE DEF m, x
    <3>4. QED
      BY <1>2, <2>1, <3>1, <3>2, <3>3, SuperblockRests
  <2> HIDE DEF m, x
  <2>4. QED
    BY <1>3, <1>4, <2>1, <2>2, <2>3 DEF SuperblocksInv
<1>8. SamplesInv'
  <2>1. ASSUME NEW s \in Quads
        PROVE  SamplesAfter(select_files'[s], digits, LINE, s, m)
    <3>1. SamplesAfter(IF PieceCount[s] > 0 /\ crosses(global[s], PieceCount[s])
                         THEN Append(select_files[s], row \div SUPERBLOCK_ROWS)
                         ELSE select_files[s],
                       digits, LINE, s, row + piece_len)
      BY <1>1, PieceSamples
    <3>2. select_files'[s] = IF PieceCount[s] > 0 /\ crosses(global[s], PieceCount[s])
                         THEN Append(select_files[s], row \div SUPERBLOCK_ROWS)
                         ELSE select_files[s]
      BY PieceDoes
    <3>3. QED
      BY <3>1, <3>2
  <2>2. QED
    BY <1>3, <2>1 DEF SamplesInv
<1>9. LinesInv'
  <2>1. LinesAfter(words', data', m)
    BY <1>1, PieceLines, PieceDoes
  <2>2. QED
    BY <1>3, <2>1 DEF LinesInv, LinesAfter
<1>10. QED
  BY <1>3, <1>5, <1>6, <1>7, <1>8, <1>9 DEF Inv

\* A block that begins changes nothing else.
LEMMA BlockStep ==
  ASSUME Inv, PushBlock
  PROVE  Inv'
<1>1. /\ rest' \in 1..(rows - row) /\ pc = "push"
      /\ UNCHANGED <<digits, rows, pc, row, words, data, global, block,
                     superblock_words, superblocks, n_superblocks, select_files>>
  BY DEF PushBlock, block_lens
<1>2. TypeInv'
  <2>1. rows \in Nat /\ row \in Nat
    BY EncoderAssumption DEF Inv, TypeInv
  <2>2. rest' \in 0..(rows - row)
    BY <1>1, <2>1
  <2>3. QED
    BY <1>1, <2>2 DEF Inv, TypeInv
<1>3. QED
  BY <1>1, <1>2 DEF Inv, CountersInv, SuperblocksInv, SamplesInv, LinesInv, LinesAfter

\* Before the first block nothing has been pushed.
LEMMA EncoderInit ==
  ASSUME Init
  PROVE  Inv
<1>0. MaxRows \in Nat /\ rows \in 1..MaxRows /\ Symbols \subseteq Quads
  BY EncoderAssumption DEF Init
<1>1. \A s \in Quads : Count(digits, s, 0) = 0
  BY CountZero
<1>2. TypeInv
  <2>1. digits \in [0..(rows - 1) -> Quads]
    BY <1>0 DEF Init
  <2>2. row \in 0..rows /\ rest \in 0..(rows - row)
    BY <1>0 DEF Init
  <2>3. global = [s \in Quads |-> Count(digits, s, row)]
    BY <1>1 DEF Init, Zero
  <2>4. QED
    BY <2>1, <2>2, <2>3 DEF Init, TypeInv
<1>3. Current(0) = 0 /\ SUPERBLOCK_ROWS * 0 = 0
  BY EncoderSizes DEF Current
<1>4. CountersInv
  BY <1>1, <1>3 DEF Init, CountersInv, Zero
<1>5. superblock_words = SuperblockAfter(digits, LINE, 0, 0)
  <2>1. LINE \in BlockSizes /\ superblock_size(LINE) * 0 = 0 /\ LINE \in Nat \ {0}
    BY EncoderSizes
  <2>2. SuperblockAfter(digits, LINE, 0, superblock_size(LINE) * 0 + 1)
          = new_superblock([s \in Quads |-> Count(digits, s, superblock_size(LINE) * 0)])
    BY <2>1, SuperblockOpens
  <2>3. SuperblockAfter(digits, LINE, 0, 1) = new_superblock(Zero)
    <3>1. [s \in Quads |-> Count(digits, s, 0)] = Zero
      BY <1>1 DEF Zero
    <3>2. superblock_size(LINE) * 0 + 1 = 1
      BY <2>1
    <3>3. QED
      BY <2>1, <2>2, <3>1, <3>2
  <2>4. \A j \in 1..(BLOCKS_IN_SUPERBLOCK - 1) :
          (BlockStart(LINE, 0, j) < 0) <=> (BlockStart(LINE, 0, j) < 1)
    <3>1. ASSUME NEW j \in 1..(BLOCKS_IN_SUPERBLOCK - 1)
          PROVE  BlockStart(LINE, 0, j) \in Nat /\ BlockStart(LINE, 0, j) >= 1
      <4>1. LINE * j >= 1 /\ LINE * j \in Nat
        BY <2>1, EncoderSizes
      <4>2. BlockStart(LINE, 0, j) = LINE * j
        BY <4>1, <2>1 DEF BlockStart
      <4>3. QED
        BY <4>1, <4>2
    <3>2. QED
      BY <3>1
  <2>5. SuperblockAfter(digits, LINE, 0, 0) = SuperblockAfter(digits, LINE, 0, 1)
    BY <2>4, SameBlocks
  <2>6. QED
    BY <2>3, <2>5 DEF Init
<1>6. SuperblocksInv
  BY <1>3, <1>5 DEF Init, SuperblocksInv
<1>7. SamplesInv
  <2>1. ASSUME NEW s \in Quads PROVE SampleCount(digits, s, 0) = 0
    <3>1. SELECT_NUM_SAMPLES \in Nat \ {0} /\ 0 + SELECT_NUM_SAMPLES - 1 \in 0..(SELECT_NUM_SAMPLES - 1)
      BY SupportAssumption
    <3>2. (0 + SELECT_NUM_SAMPLES - 1) \div SELECT_NUM_SAMPLES = 0
      BY <3>1, DivUnique
    <3>3. QED
      BY <3>2, <1>1 DEF SampleCount
  <2>2. QED
    BY <2>1 DEF Init, SamplesInv, SamplesAfter
<1>8. LinesInv
  <2>1. 0 % LINE = 0 /\ 0 \div LINE = 0
    BY EncoderSizes
  <2>2. QED
    BY <2>1 DEF Init, LinesInv, LinesAfter
<1>9. QED
  BY <1>2, <1>4, <1>6, <1>7, <1>8 DEF Init, Inv

\* What finish leaves in memory and in the files.
LastLines == IF words # <<>> THEN flush_line(words) ELSE data
NextBlock == BlockId + 1
Sealed == IF NextBlock < BLOCKS_IN_SUPERBLOCK
            THEN set_block_counters(Written, NextBlock, InSuperblock(digits, LINE, row))
            ELSE Written

\* What finish writes, and the invariant it starts from.
LEMMA FinishDoes ==
  ASSUME Inv, Finish
  PROVE  /\ TypeInv /\ CountersInv /\ SuperblocksInv /\ SamplesInv /\ LinesInv /\ row = rows
         /\ data' = LastLines
         /\ superblocks' = Flushed \o <<Sealed>>
         /\ select_files' = [s \in Quads |->
              (IF select_files[s] = <<>> THEN <<0>> ELSE select_files[s])
                \o <<row \div SUPERBLOCK_ROWS>>]
         /\ pc' = "done" /\ UNCHANGED <<digits, rows, row, rest, global>>
<1> DEFINE x == row \div SUPERBLOCK_ROWS
           c == InSuperblock(digits, LINE, row)
<1>1. TypeInv /\ CountersInv /\ SuperblocksInv /\ SamplesInv /\ LinesInv /\ row = rows
  BY DEF Inv, Finish
<1>2. row \in Nat /\ row > 0
  BY <1>1, EncoderAssumption DEF TypeInv
<1>3. terminal_superblock <=> Boundary
  BY <1>1, <1>2 DEF terminal_superblock, Boundary
<1>4. (IF terminal_superblock THEN Zero ELSE block) = c
  BY <1>1, <1>3, CountersFrom DEF counters_from
<1>5. (IF terminal_superblock THEN new_superblock(global) ELSE superblock_words) = Opening
  BY <1>3 DEF Opening
<1>6. (rows \div BLOCK_ROWS) % BLOCKS_IN_SUPERBLOCK = BlockId
  BY <1>1 DEF BlockId
<1>7. (IF ~terminal_superblock /\ rows % BLOCK_ROWS = 0
         THEN set_block_counters(Opening, BlockId, c) ELSE Opening) = Written
  <2>1. LINE \in BlockSizes /\ SUPERBLOCK_ROWS = superblock_size(LINE) /\ BLOCK_ROWS = LINE
    BY EncoderSizes
  <2>2. Boundary => StartsBlock /\ BlockId = 0
    BY <1>2, <2>1, Visited DEF Boundary, StartsBlock, BlockId
  <2>3. Boundary => set_block_counters(Opening, BlockId, c) = Opening
    BY <2>2 DEF set_block_counters
  <2>4. StartsBlock <=> rows % BLOCK_ROWS = 0
    BY <1>1 DEF StartsBlock
  <2> HIDE DEF c
  <2>5. QED
    BY <1>3, <2>2, <2>3, <2>4 DEF Written, c
<1>8. fits(c)
  BY <1>2, CountersFit
<1>9. (IF terminal_superblock THEN n_superblocks + 1 ELSE n_superblocks) = x + 1 /\ x \in Nat
  BY <1>1, <1>2, <1>3, FlushedIs
<1> HIDE DEF c, x
<1>10. \A id : ~rejects(id, c)
  BY <1>8 DEF rejects
<1>11. /\ data' = LastLines
       /\ UNCHANGED <<digits, rows, row, rest, global>>
  BY DEF Finish, LastLines
<1> DEFINE opened == terminal_superblock
           counters == IF opened THEN Zero ELSE block
           fresh == IF opened THEN new_superblock(global) ELSE superblock_words
           here == (rows \div BLOCK_ROWS) % BLOCKS_IN_SUPERBLOCK
           starts == ~opened /\ rows % BLOCK_ROWS = 0
           sb == IF starts THEN set_block_counters(fresh, here, counters) ELSE fresh
           total == IF opened THEN n_superblocks + 1 ELSE n_superblocks
<1>12. \/ starts /\ rejects(here, counters)
       \/ here + 1 < BLOCKS_IN_SUPERBLOCK /\ rejects(here + 1, counters)
       \/ /\ superblock_words' =
               IF here + 1 < BLOCKS_IN_SUPERBLOCK
                 THEN set_block_counters(sb, here + 1, counters) ELSE sb
          /\ superblocks' =
               (IF opened THEN Append(superblocks, superblock_words)
                          ELSE superblocks) \o <<superblock_words'>>
          /\ select_files' = [s \in Quads |->
               (IF select_files[s] = <<>> THEN <<0>> ELSE select_files[s])
                 \o <<sentinel(total - 1)>>]
          /\ pc' = "done"
  BY Zenon DEF Finish
<1>13. /\ counters = c /\ here = BlockId /\ sb = Written /\ total = x + 1
       /\ (IF opened THEN Append(superblocks, superblock_words) ELSE superblocks) = Flushed
  BY <1>3, <1>4, <1>5, <1>6, <1>7, <1>9 DEF Flushed
<1> HIDE DEF opened, counters, fresh, here, starts, sb, total
<1>14. /\ superblock_words' =
            IF here + 1 < BLOCKS_IN_SUPERBLOCK
              THEN set_block_counters(sb, here + 1, counters) ELSE sb
       /\ superblocks' =
            (IF opened THEN Append(superblocks, superblock_words)
                       ELSE superblocks) \o <<superblock_words'>>
       /\ select_files' = [s \in Quads |->
            (IF select_files[s] = <<>> THEN <<0>> ELSE select_files[s])
              \o <<sentinel(total - 1)>>]
       /\ pc' = "done"
  BY <1>10, <1>12, <1>13
<1>15. superblock_words' = Sealed
  BY <1>13, <1>14 DEF Sealed, NextBlock, c
<1>16. superblocks' = Flushed \o <<Sealed>>
  BY <1>13, <1>14, <1>15
<1>17. sentinel(total - 1) = x
  BY <1>9, <1>13 DEF sentinel
<1>18. QED
  BY <1>1, <1>11, <1>14, <1>16, <1>17 DEF x

\* The data file in the end: whole lines, zeros after the last digit.
LEMMA FinishLines ==
  ASSUME TypeInv, LinesInv, row = rows
  PROVE  /\ Len(LastLines) = n_lines(rows)
         /\ [p \in 0..(Len(LastLines) * LINE - 1) |-> LastLines[(p \div LINE) + 1][(p % LINE) + 1]]
              = data_lines(digits, rows)
<1> DEFINE q == rows \div LINE
           r == rows % LINE
           N == n_lines(rows)
<1>1. rows \in Nat /\ LINE \in Nat \ {0}
  BY EncoderAssumption, EncoderSizes DEF TypeInv
<1>2. q \in Nat /\ r \in 0..(LINE - 1) /\ rows = LINE * q + r /\ LINE * q \in Nat
  <2>1. q \in Nat /\ r \in 0..(LINE - 1) /\ rows = LINE * q + r
    BY <1>1, DivMod
  <2> HIDE DEF q, r
  <2>2. QED
    BY <2>1, <1>1
<1>3. /\ words \in Seq(Quads) /\ Len(words) = r
      /\ \A k \in 1..r : words[k] = digits[LINE * q + (k - 1)]
      /\ data \in Seq([1..LINE -> Quads]) /\ Len(data) = q
      /\ \A l \in 1..q, k \in 1..LINE : data[l][k] = digits[LINE * (l - 1) + (k - 1)]
  BY DEF LinesInv, LinesAfter
<1>4. N = IF r = 0 THEN q ELSE q + 1
  BY <1>1, CeilDiv DEF n_lines
<1>5. words # <<>> <=> r # 0
  <2> HIDE DEF r
  <2> QED
    BY <1>2, <1>3
<1> HIDE DEF q, r, N
<1>6. Len(LastLines) = N
  <2>1. CASE r = 0
    BY <2>1, <1>3, <1>4, <1>5 DEF LastLines
  <2>2. CASE r # 0
    <3>1. Len(words) <= LINE
      BY <1>1, <1>2, <1>3
    <3>2. Len(flush_line(words)) = Len(data) + 1
      BY <3>1, <1>3, Flush
    <3>3. QED
      BY <2>2, <3>2, <1>3, <1>4, <1>5 DEF LastLines
  <2>3. QED
    BY <2>1, <2>2
<1>7. ASSUME NEW l \in 1..N, NEW k \in 1..LINE
      PROVE  LastLines[l][k] = IF LINE * (l - 1) + (k - 1) < rows
                                 THEN digits[LINE * (l - 1) + (k - 1)] ELSE 0
  <2>1. CASE l \in 1..q
    <3>1. LastLines[l] = data[l]
      <4>1. CASE r = 0
        BY <4>1, <1>5 DEF LastLines
      <4>2. CASE r # 0
        <5>1. Len(words) <= LINE
          BY <1>1, <1>2, <1>3
        <5>2. flush_line(words)[l] = data[l]
          BY <2>1, <5>1, <1>3, Flush
        <5>3. QED
          BY <4>2, <5>2, <1>5 DEF LastLines
      <4>3. QED
        BY <4>1, <4>2
    <3>2. LINE * (l - 1) + (k - 1) < rows
      <4>1. l - 1 \in Nat /\ l \in Nat /\ l <= q /\ LINE * l = LINE * (l - 1) + LINE
        BY <1>1, <1>2, <2>1
      <4>2. LINE * l <= LINE * q /\ LINE * (l - 1) \in Nat
        BY <1>1, <1>2, <4>1, MulMono
      <4> DEFINE t == LINE * q
                 u == LINE * (l - 1)
                 w == LINE * l
      <4>3. rows = t + r /\ t \in Nat /\ r \in Nat /\ u \in Nat /\ w = u + LINE /\ w <= t
        BY <1>2, <4>1, <4>2
      <4> HIDE DEF t, u, w
      <4>4. u + (k - 1) < rows
        BY <4>3, <1>1
      <4>5. QED
        BY <4>4 DEF u
    <3>3. QED
      BY <2>1, <3>1, <3>2, <1>3
  <2>2. CASE ~(l \in 1..q)
    <3>1. l = q + 1 /\ r # 0 /\ l - 1 = q
      BY <2>2, <1>2, <1>4
    <3>2. Len(words) <= LINE
      BY <1>1, <1>2, <1>3
    <3>3. LastLines[l][k] = IF k <= r THEN words[k] ELSE 0
      <4>1. flush_line(words)[Len(data) + 1][k] = IF k <= Len(words) THEN words[k] ELSE 0
        BY <3>2, <1>3, Flush
      <4>2. QED
        BY <3>1, <4>1, <1>3, <1>5 DEF LastLines
    <3>4. (LINE * q + (k - 1) < rows) <=> k <= r
      <4> DEFINE t == LINE * q
      <4>1. rows = t + r /\ t \in Nat /\ r \in Nat
        BY <1>2
      <4> HIDE DEF t
      <4>2. (t + (k - 1) < rows) <=> k <= r
        BY <4>1, <1>1
      <4>3. QED
        BY <4>2 DEF t
    <3>5. k <= r => words[k] = digits[LINE * q + (k - 1)]
      BY <1>2, <1>3
    <3>6. QED
      BY <3>1, <3>3, <3>4, <3>5
  <2>3. QED
    BY <2>1, <2>2
<1>8. N \in Nat /\ N * LINE \in Nat /\ N * LINE = LINE * N
  BY <1>1, <1>2, <1>4
<1>9. ASSUME NEW p \in 0..(N * LINE - 1)
      PROVE  LastLines[(p \div LINE) + 1][(p % LINE) + 1] = IF p < rows THEN digits[p] ELSE 0
  <2> DEFINE a == p \div LINE
             e == p % LINE
  <2>1. p \in Nat
    BY <1>8
  <2>2. a \in Nat /\ e \in 0..(LINE - 1) /\ p = LINE * a + e
    BY <2>1, <1>1, DivMod
  <2> HIDE DEF a, e
  <2>3. a < N
    <3>1. ~(a < N) => LINE * N <= LINE * a
      BY <1>1, <1>8, <2>2, MulMono
    <3> DEFINE t == LINE * a
               u == LINE * N
    <3>2. t \in Nat /\ p = t + e /\ p \in 0..(u - 1) /\ u \in Nat /\ (~(a < N) => u <= t)
      BY <3>1, <1>1, <1>8, <2>2
    <3> HIDE DEF t, u
    <3>3. QED
      BY <3>2, <2>2
  <2>4. a + 1 \in 1..N /\ (a + 1) - 1 = a /\ e + 1 \in 1..LINE /\ (e + 1) - 1 = e
    BY <1>1, <1>8, <2>2, <2>3
  <2>5. LastLines[a + 1][e + 1]
          = IF LINE * ((a + 1) - 1) + ((e + 1) - 1) < rows
              THEN digits[LINE * ((a + 1) - 1) + ((e + 1) - 1)] ELSE 0
    BY <2>4, <1>7
  <2>6. LINE * ((a + 1) - 1) + ((e + 1) - 1) = p
    BY <2>2, <2>4
  <2>7. QED
    BY <2>5, <2>6 DEF a, e
<1>10. [p \in 0..(N * LINE - 1) |-> LastLines[(p \div LINE) + 1][(p % LINE) + 1]]
         = data_lines(digits, rows)
  BY <1>9 DEF data_lines, N
<1>11. QED
  BY <1>6, <1>10 DEF N

\* One more element of a sequence.
LEMMA ConcatOne ==
  ASSUME NEW T, NEW A \in Seq(T), NEW e
  PROVE  /\ Len(A \o <<e>>) = Len(A) + 1
         /\ A \o <<e>> = [k \in 1..(Len(A) + 1) |-> IF k <= Len(A) THEN A[k] ELSE e]
<1>1. A \in Seq(T \cup {e}) /\ <<e>> \in Seq(T \cup {e}) /\ Len(<<e>>) = 1
  OBVIOUS
<1>2. QED
  BY <1>1

\* The superblocks in the end.
LEMMA FinishSuperblocks ==
  ASSUME TypeInv, SuperblocksInv, row = rows
  PROVE  /\ Len(Flushed \o <<Sealed>>) = (rows \div SUPERBLOCK_ROWS) + 1
         /\ Flushed \o <<Sealed>> = SuperblocksOf(digits, rows, LINE)
<1> DEFINE x == rows \div SUPERBLOCK_ROWS
           final == SuperblocksOf(digits, rows, LINE)
<1>1. rows \in Nat /\ rows + 1 \in Nat
  BY EncoderAssumption DEF TypeInv
<1>2. LINE \in BlockSizes /\ SUPERBLOCK_ROWS = superblock_size(LINE) /\ BLOCK_ROWS = LINE
  BY EncoderSizes
<1>3. /\ x \in Nat /\ Flushed \in Seq(Superblock) /\ Len(Flushed) = x
      /\ \A y \in 1..x : Flushed[y] = SuperblockAfter(digits, LINE, y - 1, rows + 1)
  <2>1. row <= rows + 1
    BY <1>1
  <2>2. QED
    BY <1>1, <2>1, FlushedIs
<1>4. Written = SuperblockAfter(digits, LINE, x, rows + 1)
  BY WrittenIs
<1>5. ASSUME NEW y \in 0..x
      PROVE  /\ (y = x /\ NextBlock < BLOCKS_IN_SUPERBLOCK) =>
                  final[y + 1] = set_block_counters(SuperblockAfter(digits, LINE, y, rows + 1),
                                   NextBlock, InSuperblock(digits, LINE, rows))
             /\ ~(y = x /\ NextBlock < BLOCKS_IN_SUPERBLOCK) =>
                  final[y + 1] = SuperblockAfter(digits, LINE, y, rows + 1)
  BY <1>1, <1>2, SuperblocksFinal DEF NextBlock, BlockId
<1>6. final[x + 1] = Sealed
  BY <1>3, <1>4, <1>5 DEF Sealed
<1>7. \A y \in 1..x : final[y] = Flushed[y]
  <2> SUFFICES ASSUME NEW y \in 1..x PROVE final[y] = Flushed[y]
    OBVIOUS
  <2> HIDE DEF x, final
  <2>1. y - 1 \in 0..x /\ y - 1 # x /\ (y - 1) + 1 = y
    BY <1>3
  <2>2. final[(y - 1) + 1] = SuperblockAfter(digits, LINE, y - 1, rows + 1)
    BY <2>1, <1>5
  <2>3. QED
    BY <2>1, <2>2, <1>3
<1>8. final = [y \in 1..(x + 1) |-> final[y]]
  <2>1. (rows + superblock_size(LINE)) \div superblock_size(LINE) = x + 1
    BY <1>1, <1>2, OpenedIs
  <2>2. QED
    BY <2>1 DEF SuperblocksOf
<1>9. /\ Len(Flushed \o <<Sealed>>) = x + 1
      /\ Flushed \o <<Sealed>>
           = [k \in 1..(x + 1) |-> IF k <= x THEN Flushed[k] ELSE Sealed]
  <2> HIDE DEF x
  <2> QED
    BY <1>3, ConcatOne
<1> HIDE DEF x, final
<1>10. \A k \in 1..(x + 1) : final[k] = IF k <= x THEN Flushed[k] ELSE Sealed
  <2> SUFFICES ASSUME NEW k \in 1..(x + 1)
               PROVE  final[k] = IF k <= x THEN Flushed[k] ELSE Sealed
    OBVIOUS
  <2>1. CASE k <= x
    <3>1. k \in 1..x
      BY <2>1, <1>3
    <3>2. QED
      BY <2>1, <3>1, <1>7
  <2>2. CASE ~(k <= x)
    <3>1. k = x + 1
      BY <2>2, <1>3
    <3>2. QED
      BY <2>2, <3>1, <1>6
  <2>3. QED
    BY <2>1, <2>2
<1>11. QED
  BY <1>8, <1>9, <1>10 DEF x, final

\* The select files in the end.
LEMMA SamplesForZero ==
  ASSUME NEW c \in Nat
  PROVE  SamplesFor(c) \in Nat /\ (SamplesFor(c) = 0 <=> c = 0)
<1> DEFINE S == SELECT_NUM_SAMPLES
<1>1. S \in Nat \ {0}
  BY SupportAssumption
<1>2. c \div S \in Nat /\ SamplesFor(c) = IF c % S = 0 THEN c \div S ELSE c \div S + 1
  BY <1>1, CeilDiv DEF SamplesFor
<1>3. c % S \in 0..(S - 1) /\ c = S * (c \div S) + (c % S)
  BY <1>1, DivMod
<1>4. c = 0 => c \div S = 0 /\ c % S = 0
  <2>1. 0 \in Nat /\ 0 \in Int /\ 0 \in 0..(S - 1) /\ 0 = S * 0 + 0
    BY <1>1
  <2>2. 0 \div S = 0 /\ 0 % S = 0
    BY <1>1, <2>1, DivUnique
  <2>3. QED
    BY <2>2
<1>5. c \div S = 0 => S * (c \div S) = 0
  BY <1>1
<1> HIDE DEF S
<1>6. QED
  BY <1>1, <1>2, <1>3, <1>4, <1>5

\* The select file of a symbol, sentinel included, and its length.
LEMMA FinishSamples ==
  ASSUME TypeInv, SamplesInv, row = rows, NEW s \in Quads
  PROVE  LET file == (IF select_files[s] = <<>> THEN <<0>> ELSE select_files[s])
                       \o <<row \div SUPERBLOCK_ROWS>>
         IN /\ file = SelectSamplesOf(digits, rows, LINE, s)
            /\ Len(file) = SelectLen(Count(digits, s, rows))
<1> DEFINE c == Count(digits, s, rows)
           samples == select_files[s]
           kept == IF samples = <<>> THEN <<0>> ELSE samples
           x == row \div SUPERBLOCK_ROWS
<1>1. rows \in Nat
  BY EncoderAssumption DEF TypeInv
<1>2. LINE \in BlockSizes /\ SUPERBLOCK_ROWS = superblock_size(LINE)
  BY EncoderSizes
<1>3. SamplesAfter(samples, digits, LINE, s, rows)
  BY DEF SamplesInv
<1>4. kept \o <<x>> = SelectSamplesOf(digits, rows, LINE, s)
  BY <1>1, <1>2, <1>3, SamplesFinal
<1>5. samples \in Seq(Nat) /\ Len(samples) = SamplesFor(c)
  BY <1>3 DEF SamplesAfter, SampleCount, SamplesFor
<1>6. c \in Nat /\ SamplesFor(c) \in Nat /\ (SamplesFor(c) = 0 <=> c = 0)
  BY <1>1, CountType, SamplesForZero
<1> HIDE DEF c, samples, x
<1>7. samples = <<>> <=> c = 0
  BY <1>5, <1>6
<1>8. kept \in Seq(Nat) /\ Len(kept) = IF c = 0 THEN 1 ELSE SamplesFor(c)
  BY <1>5, <1>7
<1> HIDE DEF kept
<1>9. Len(kept \o <<x>>) = Len(kept) + 1
  BY <1>8, ConcatOne
<1>10. Len(kept \o <<x>>) = SelectLen(c)
  BY <1>6, <1>8, <1>9 DEF SelectLen
<1>11. QED
  BY <1>4, <1>10 DEF c, samples, x, kept

\* The child offsets.
LEMMA CumulativeIs ==
  ASSUME TypeInv, row = rows
  PROVE  cumulative = n_occs_smaller(digits, rows)
<1> DEFINE C(t) == Count(digits, t, rows)
           sum == n_occs_smaller(digits, rows)
<1>1. rows \in Nat
  BY EncoderAssumption DEF TypeInv
<1>2. \A t \in Quads : global[t] = C(t) /\ C(t) \in Nat
  BY <1>1, CountType DEF TypeInv
<1>3. /\ sum = [c \in 0..4 |-> sum[c]]
      /\ sum[0] = 0 /\ sum[1] = C(0) /\ sum[2] = C(0) + C(1) /\ sum[3] = C(0) + C(1) + C(2)
      /\ sum[4] = C(0) + C(1) + C(2) + C(3)
  BY <1>1, OccsSmallerIs
<1>4. cumulative = [c \in 0..4 |-> QuadSum(global, 0..(c - 1))]
  BY DEF cumulative, QuadSum
<1> HIDE DEF C, sum
<1>5. ASSUME NEW c \in 0..4 PROVE QuadSum(global, 0..(c - 1)) = sum[c]
  <2>1. \A t \in Quads : global[t] \in Nat
    BY <1>2
  <2>2. 0..(c - 1) \in SUBSET Quads
    BY DEF Quads
  <2>3. QuadSum(global, 0..(c - 1))
          = Part(global, 0..(c - 1), 0) + Part(global, 0..(c - 1), 1)
              + Part(global, 0..(c - 1), 2) + Part(global, 0..(c - 1), 3)
    BY <2>1, <2>2, QuadSumIs
  <2>4. /\ global[0] = C(0) /\ global[1] = C(1) /\ global[2] = C(2) /\ global[3] = C(3)
        /\ C(0) \in Nat /\ C(1) \in Nat /\ C(2) \in Nat /\ C(3) \in Nat
    BY <1>2 DEF Quads
  <2>5. QED
    BY <2>3, <2>4, <1>3 DEF Part
<1>6. QED
  BY <1>3, <1>4, <1>5 DEF sum

\* The child offsets depend on the global counters only.
LEMMA CumulativeKept ==
  ASSUME global' = global
  PROVE  cumulative' = cumulative
<1>1. cumulative = [c \in 0..4 |-> QuadSum(global, 0..(c - 1))]
  BY DEF cumulative, QuadSum
<1>2. (cumulative = [c \in 0..4 |-> QuadSum(global, 0..(c - 1))])'
  BY DEF cumulative, QuadSum
<1>3. QED
  BY <1>1, <1>2

\* finish leaves the support of the digits.
LEMMA FinishStep ==
  ASSUME Inv, Finish
  PROVE  Inv'
<1>1. TypeInv /\ CountersInv /\ SuperblocksInv /\ SamplesInv /\ LinesInv /\ row = rows
  BY FinishDoes
<1>2. /\ data' = LastLines
      /\ superblocks' = Flushed \o <<Sealed>>
      /\ select_files' = [s \in Quads |->
           (IF select_files[s] = <<>> THEN <<0>> ELSE select_files[s])
             \o <<row \div SUPERBLOCK_ROWS>>]
      /\ pc' = "done" /\ UNCHANGED <<digits, rows, row, rest, global>>
  BY FinishDoes
<1>3. TypeInv'
  BY <1>1, <1>2 DEF TypeInv
<1>4. \A s \in Quads : /\ select_files'[s] = SelectSamplesOf(digits, rows, LINE, s)
                       /\ Len(select_files'[s]) = SelectLen(Count(digits, s, rows))
  BY <1>1, <1>2, FinishSamples
<1>5. select_files' = [s \in Quads |-> SelectSamplesOf(digits, rows, LINE, s)]
  BY <1>2, <1>4
<1>6. superblocks' = SuperblocksOf(digits, rows, LINE)
      /\ Len(superblocks') = (rows \div SUPERBLOCK_ROWS) + 1
  BY <1>1, <1>2, FinishSuperblocks
<1>7. /\ Len(data') = n_lines(rows)
      /\ [p \in 0..(Len(data') * LINE - 1) |-> data'[(p \div LINE) + 1][(p % LINE) + 1]]
           = data_lines(digits, rows)
  BY <1>1, <1>2, FinishLines
<1>8. cumulative' = n_occs_smaller(digits, rows)
  <2>1. cumulative' = cumulative
    BY <1>2, CumulativeKept
  <2>2. QED
    BY <1>1, <2>1, CumulativeIs
<1>9. SizesInv'
  BY <1>2, <1>4, <1>6, <1>7 DEF SizesInv
<1>10. level' = SupportOf(digits, rows, BLOCK_ROWS)
  BY <1>2, <1>5, <1>6, <1>7, <1>8 DEF level, SupportOf, BLOCK_ROWS
<1>11. QED
  BY <1>2, <1>3, <1>9, <1>10 DEF Inv

\* The invariant is one.
LEMMA EncoderInv == Spec => []Inv
<1>1. Init => Inv
  BY EncoderInit
<1>2. Inv /\ [Next]_vars => Inv'
  <2> SUFFICES ASSUME Inv, [Next]_vars PROVE Inv'
    OBVIOUS
  <2>1. CASE PushBlock
    BY <2>1, BlockStep
  <2>2. CASE PushPiece
    BY <2>2, PieceStep
  <2>3. CASE Finish
    BY <2>3, FinishStep
  <2>4. CASE UNCHANGED vars
    <3>1. TypeInv'
      BY <2>4 DEF vars, Inv, TypeInv
    <3>2. level' = level /\ (SizesInv => SizesInv')
      BY <2>4, CumulativeKept DEF vars, level, SizesInv
    <3>3. QED
      BY <2>4, <3>1, <3>2 DEF vars, Inv, CountersInv, SuperblocksInv, SamplesInv, LinesInv,
                              LinesAfter
  <2>5. QED
    BY <2>1, <2>2, <2>3, <2>4 DEF Next
<1>3. QED
  BY <1>1, <1>2, PTL DEF Spec

\* LevelEncoder never reports "rank-support block counter is out of range",
\* however long the level is and however it is cut into blocks: a superblock is
\* no longer than a counter can count.
THEOREM CountersNeverOverflow == Spec => []NoCounterError
<1>1. Inv => NoCounterError
  BY DEF Inv, TypeInv, NoCounterError
<1>2. QED
  BY <1>1, EncoderInv, PTL

\* The files of a finished level are, field by field, the support that
\* RSSupportPlain::new builds in memory for the same digits, and the line in
\* memory stays in step with the row counter, wherever blocks begin and end.
THEOREM FilesAreTheSupport == Spec => []FilesMatchSupport
<1>1. Inv => FilesMatchSupport
  BY EncoderSizes DEF Inv, LinesInv, LinesAfter, FilesMatchSupport
<1>2. QED
  BY <1>1, EncoderInv, PTL

\* A select file has two entries and one more for every SELECT_NUM_SAMPLES of
\* its occurrences.
LEMMA SelectLenIs ==
  ASSUME NEW c \in Nat
  PROVE  \E f \in Nat : SelectLen(c) = f + 2 /\ SELECT_NUM_SAMPLES * f <= c
                          /\ SELECT_NUM_SAMPLES * f \in Nat
<1> DEFINE S == SELECT_NUM_SAMPLES
<1>1. S \in Nat \ {0}
  BY SupportAssumption
<1>2. CASE c = 0
  <2>1. SelectLen(c) = 0 + 2 /\ S * 0 = 0
    BY <1>1, <1>2 DEF SelectLen
  <2>2. QED
    BY <2>1, <1>2
<1>3. CASE c # 0
  <2> DEFINE g == c - 1
             f == g \div S
  <2>1. g \in Nat /\ g < c /\ c + S - 1 = g + S
    BY <1>1, <1>3
  <2>2. (g + S) \div S = f + 1 /\ f \in Nat
    BY <1>1, <2>1, CeilDiv
  <2>3. g % S \in 0..(S - 1) /\ g = S * f + (g % S)
    BY <1>1, <2>1, DivMod
  <2>4. SelectLen(c) = f + 2
    <3>1. SamplesFor(c) = f + 1
      BY <2>1, <2>2 DEF SamplesFor
    <3> HIDE DEF f
    <3>2. QED
      BY <3>1, <1>3, <2>2 DEF SelectLen
  <2>5. S * f \in Nat
    <3> HIDE DEF f
    <3> QED
      BY <1>1, <2>2
  <2> DEFINE t == S * f
             r == g % S
  <2>6. t \in Nat /\ r \in 0..(S - 1) /\ g = t + r
    BY <2>3, <2>5
  <2> HIDE DEF f, t, r, g
  <2>7. t <= c
    BY <2>1, <2>6, <1>1
  <2>8. QED
    BY <2>2, <2>4, <2>5, <2>7 DEF t
<1>4. QED
  BY <1>2, <1>3

\* So the four of them have no more than eight entries beside the samples of all
\* rows.
LEMMA SelectLens ==
  ASSUME NEW a \in Nat, NEW b \in Nat, NEW c \in Nat, NEW d \in Nat
  PROVE  SelectLen(a) + SelectLen(b) + SelectLen(c) + SelectLen(d)
           <= SamplesFor(a + b + c + d) + 8
<1> DEFINE S == SELECT_NUM_SAMPLES
           n == a + b + c + d
           N == SamplesFor(n)
<1>1. S \in Nat \ {0} /\ n \in Nat
  BY SupportAssumption
<1>2. PICK e \in Nat : SelectLen(a) = e + 2 /\ S * e <= a /\ S * e \in Nat
  BY SelectLenIs
<1>3. PICK f \in Nat : SelectLen(b) = f + 2 /\ S * f <= b /\ S * f \in Nat
  BY SelectLenIs
<1>4. PICK g \in Nat : SelectLen(c) = g + 2 /\ S * g <= c /\ S * g \in Nat
  BY SelectLenIs
<1>5. PICK h \in Nat : SelectLen(d) = h + 2 /\ S * h <= d /\ S * h \in Nat
  BY SelectLenIs
<1>6. N \in Nat /\ n <= S * N /\ S * N \in Nat
  <2> DEFINE q == n \div S
             r == n % S
  <2>1. q \in Nat /\ N = IF r = 0 THEN q ELSE q + 1
    BY <1>1, CeilDiv DEF SamplesFor
  <2>2. r \in 0..(S - 1) /\ n = S * q + r
    BY <1>1, DivMod
  <2> HIDE DEF q, r, N
  <2>3. S * q \in Nat /\ S * (q + 1) = S * q + S
    BY <1>1, <2>1
  <2> DEFINE t == S * q
             u == S * (q + 1)
  <2>4. t \in Nat /\ u = t + S /\ n = t + r /\ S * N = (IF r = 0 THEN t ELSE u)
    BY <2>1, <2>2, <2>3
  <2> HIDE DEF t, u, n
  <2>5. N \in Nat
    BY <2>1
  <2>6. n <= S * N /\ S * N \in Nat
    BY <2>2, <2>4, <1>1
  <2>7. QED
    BY <2>5, <2>6
<1> HIDE DEF N
<1>7. e + f + g + h \in Nat /\ S * (e + f + g + h) = S * e + S * f + S * g + S * h
  BY <1>1
<1>8. S * (e + f + g + h) <= S * N
  <2> DEFINE t == S * e
             u == S * f
             v == S * g
             w == S * h
             z == S * N
             y == S * (e + f + g + h)
  <2>1. /\ t \in Nat /\ u \in Nat /\ v \in Nat /\ w \in Nat /\ z \in Nat
        /\ t <= a /\ u <= b /\ v <= c /\ w <= d /\ a + b + c + d <= z /\ y = t + u + v + w
    BY <1>2, <1>3, <1>4, <1>5, <1>6, <1>7
  <2> HIDE DEF t, u, v, w, z, y
  <2>2. y <= z
    BY <2>1
  <2>3. QED
    BY <2>2 DEF y, z
<1>9. e + f + g + h <= N
  <2> DEFINE y == e + f + g + h
  <2>1. ~(y <= N) => S * (N + 1) <= S * y
    <3> HIDE DEF y
    <3> QED
      BY <1>1, <1>6, <1>7, MulMono DEF y
  <2>2. S * (N + 1) = S * N + S
    BY <1>1, <1>6
  <2> DEFINE t == S * y
             u == S * N
             w == S * (N + 1)
  <2>3. t <= u /\ u \in Nat /\ w = u + S /\ (~(y <= N) => w <= t) /\ t \in Nat
    <3>1. t \in Nat
      <4> HIDE DEF y
      <4> QED
        BY <1>1, <1>7 DEF y
    <3>2. QED
      BY <1>6, <1>8, <2>1, <2>2, <3>1
  <2> HIDE DEF t, u, w, y
  <2>4. y <= N
    BY <2>3, <1>1
  <2>5. QED
    BY <2>4 DEF y
<1>10. QED
  <2>1. SelectLen(a) + SelectLen(b) + SelectLen(c) + SelectLen(d) <= N + 8
    BY <1>2, <1>3, <1>4, <1>5, <1>6, <1>9
  <2>2. QED
    BY <2>1 DEF N

\* The data, superblock and select files of a level take no more than the share
\* scratch_upper_bound sets aside for them, whatever the digits are: four select
\* files with a first sample and a sentinel each are inside its eight entries.
THEOREM AuxIsBounded == Spec => []AuxWithinBound
<1>1. Inv => AuxWithinBound
  <2> SUFFICES ASSUME Inv, pc = "done" PROVE aux_bytes <= aux_upper_bound
    BY DEF AuxWithinBound
  <2> DEFINE C(s) == Count(digits, s, rows)
             entries == [s \in Quads |-> Len(select_files[s])]
             total == MapThenSumSet(LAMBDA s : entries[s], Quads)
  <2>1. rows \in Nat /\ \A p \in 0..(rows - 1) : digits[p] \in Quads
    BY EncoderAssumption DEF Inv, TypeInv
  <2>2. /\ Len(data) = n_lines(rows) /\ Len(superblocks) = (rows \div SUPERBLOCK_ROWS) + 1
        /\ \A s \in Quads : entries[s] = SelectLen(C(s))
    BY DEF Inv, SizesInv
  <2>3. \A s \in Quads : C(s) \in Nat /\ SelectLen(C(s)) \in Nat
    <3>1. \A c \in Nat : SelectLen(c) \in Nat
      BY SamplesForZero DEF SelectLen
    <3>2. QED
      BY <2>1, <3>1, CountType
  <2>4. C(0) + C(1) + C(2) + C(3) = rows
    BY <2>1, CountAll
  <2>5. total = QuadSum(entries, Quads)
    BY DEF QuadSum
  <2> HIDE DEF entries, C, total
  <2>6. QuadSum(entries, Quads) = Part(entries, Quads, 0) + Part(entries, Quads, 1)
                                    + Part(entries, Quads, 2) + Part(entries, Quads, 3)
    <3>1. \A s \in Quads : entries[s] \in Nat
      BY <2>2, <2>3
    <3>2. QED
      BY <3>1, QuadSumIs
  <2>7. /\ C(0) \in Nat /\ C(1) \in Nat /\ C(2) \in Nat /\ C(3) \in Nat
        /\ SelectLen(C(0)) \in Nat /\ SelectLen(C(1)) \in Nat
        /\ SelectLen(C(2)) \in Nat /\ SelectLen(C(3)) \in Nat
    BY <2>3 DEF Quads
  <2>8. total = SelectLen(C(0)) + SelectLen(C(1)) + SelectLen(C(2)) + SelectLen(C(3))
    BY <2>2, <2>5, <2>6 DEF Part, Quads
  <2>9. SelectLen(C(0)) + SelectLen(C(1)) + SelectLen(C(2)) + SelectLen(C(3))
          <= SamplesFor(rows) + 8
    BY <2>4, <2>7, SelectLens
  <2>10. /\ n_lines(rows) \in Nat /\ rows \div SUPERBLOCK_ROWS \in Nat
         /\ (rows + SUPERBLOCK_ROWS) \div SUPERBLOCK_ROWS = rows \div SUPERBLOCK_ROWS + 1
         /\ SamplesFor(rows) \in Nat
    <3>1. SUPERBLOCK_ROWS \in Nat \ {0} /\ LINE \in Nat \ {0}
      BY EncoderSizes
    <3>2. n_lines(rows) \in Nat
      BY <2>1, DataLines
    <3>3. QED
      BY <2>1, <3>1, <3>2, CeilDiv, SamplesForZero
  <2> DEFINE lines == n_lines(rows)
             full == rows \div SUPERBLOCK_ROWS
             samples == SamplesFor(rows)
  <2>11. aux_bytes = 64 * lines + 64 * (full + 1) + 4 * total
    BY <2>2 DEF aux_bytes, entries, total
  <2>12. aux_upper_bound = 64 * lines + 64 * (full + 1) + 4 * (samples + 8)
    BY <2>10 DEF aux_upper_bound, SamplesFor, n_lines
  <2>13. lines \in Nat /\ full \in Nat /\ samples \in Nat /\ total \in Nat /\ total <= samples + 8
    <3> HIDE DEF lines, full, samples
    <3>1. total \in Nat
      BY <2>7, <2>8
    <3>2. total <= samples + 8
      BY <2>8, <2>9 DEF samples
    <3>3. QED
      BY <3>1, <3>2, <2>10 DEF lines, full, samples
  <2> HIDE DEF lines, full, samples
  <2>14. QED
    BY <2>11, <2>12, <2>13
<1>2. QED
  BY <1>1, EncoderInv, PTL

==============================================================================
