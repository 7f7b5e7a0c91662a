# qwt in TLA+

A verification project for `qwt`, a Rust library of quad wavelet trees: compressed
indexes over sequences of integers that answer `get`, `rank` and `select`, an on-disk
format for them, and builders that write that format from a file without holding the
input in memory. The modules here are translated from the source; paths below are
relative to the repository (`src/bytes/direct.rs` is `src/src/bytes/direct.rs` in
`PROJECT.json`).

1. [The system](#1-the-system)
2. [Plan](#2-plan)
3. [Modules and the code they model](#3-modules-and-the-code-they-model)
4. [Runs](#4-runs)
5. [Proofs](#5-proofs)
6. [Where the code and its documentation disagree](#6-where-the-code-and-its-documentation-disagree)
7. [What is not modelled](#7-what-is-not-modelled)

To repeat: `tlc -config <cfg> <module>` for a run, `tlapm <module>Proofs.tla` for
proofs.

## 1. The system

| Component | State | Operations | What makes it correct |
|---|---|---|---|
| File-backed builders (`bytes/direct.rs`, `bytes/direct_huff.rs`) | workspace directory, tmp file, output file, process-wide `DIRECT_BUILD_ID`, `OutputGuard.keep` | `write_qwt256_u32_direct`, `write_hqwt256_u32_direct`, guards' `drop` | the output name is absent or whole at every moment; nothing is left behind; the scratch bound holds; calls return |
| Streaming level encoder (`LevelEncoder` in `bytes/direct.rs`) | row counter, current line, current superblock, occurrence counters, six files | `push_block`, `push_piece`, `flush_line`, `flush_superblock`, `finish` | writes the tables the in-memory builder would, however its input is cut |
| Rank/select support (`qvector/rs_qvector/rs_support_plain.rs`) | superblocks with 12-bit block counters, select samples | `new`, `rank_block`, `select_block` | tables exact, no counter overflow, queries answer as counting would |
| Quad vector (`qvector/mod.rs`, `rs_qvector.rs`) | data lines, child offsets | `get`, `rank`, `select`, `occs`, `occs_smaller` | as above |
| Quad wavelet tree (`quadwt/mod.rs`) | one quad vector per two bits, `n`, `n_levels`, `sigma` | `from_owned`, `from_parts`, `get`, `rank`, `select`, `get_and_rank`, `extract_range`, `extract_range_distinct` | levels are the wavelet matrix of the sequence; queries exact; saved trees load |
| Range iterators (`quadwt/mod.rs`), `WTIterator` (`lib.rs`) | a stack of frames, growing or of 128 entries; two positions | `next` of `OccsRangeIter` and `RangeDistinctIter`, `range_next_value`, `next` and `next_back` | every symbol of the range once, in order; every row once, from either end; no stack overrun |
| DArray (`darray/mod.rs`) | block, subblock and overflow inventories | `Inventories::new`, `select0`, `select1` | select exact for every mix of dense and sparse blocks |
| Bit vectors (`bitvector/`) | lines of words, length, count of ones; block counters and select hints of RSNarrow and RSWide | append, extend, set, freeze, thaw, deserialize; get, rank, select; position iterators | queries exact, incremental edits keep counters right |
| Huffman quad wavelet tree (`quadwt/huffqwt.rs`) | code table, levels of shrinking length | `from_owned`, `from_parts`, queries | prefix-free codes of at most the allowed length; queries exact |
| Binary wavelet tree (`binwt/`) | one bit vector per bit or Huffman level, two code tables | `new`, `validate_deserialized`, `get`, `rank`, `select`, `occs_range` | as the quad trees, for every order a `HashMap` gives |
| Zero-copy views (`bytes/level.rs`, `bytes/view.rs`) | borrowed slices; per level an input and a position of a cursor | `from_dir`, `from_bytes`, queries, `select_after`, `QwtSelectCursor::next` | what validation accepts cannot make a query go wrong, what was written is accepted, and both readers agree |
| Byte layout (`bytes/qwtb.rs`, `hqwb.rs`, `util.rs`) | header, directory, aligned regions | `to_bytes`, `from_bytes` | regions do not overlap, a parsed header describes the bytes that follow |
| Prefetch support, popcount kernel, space usage, test utilities | derived data | - | do not change an answer |

**How they interact.** The trees are built on quad vectors and use nothing of them but
`get`, `rank`, `select`, `occs` and `occs_smaller`; the quad vector asks its support for
the block and the data lines for the rest. The direct builders never build a tree in
memory: for each level they stream the digits of the source through a `LevelEncoder`,
partition the rows into four bucket files for the next level, and append the level files
to a container that a tree or a view later loads through `from_parts` or `from_dir`. The
encoder and `RSSupportPlain::new` are two implementations of one table format, so they
have to agree in every field.

**What is hard.** All shared mutable state is on the file system: threads and processes
build side by side, any step of a build can fail, processes are killed, machines lose
power, and the source file belongs to somebody else. There the order of steps is
everything (guard, `create_new`, sync, rename). The rest of the library is sequential,
and its difficulty is boundaries: a sequence that ends on a line, block or superblock
boundary, counters of 12 and 16 bits that hold exactly as much as is needed, sentinels,
samples, wrap-around, partitions done in place, and a stack of fixed size. The hazards
are listed one by one, at their lines, in `PROJECT.json`.

## 2. Plan

In order of importance.

| | Module | Composes | Abstract specification | Status |
|---|---|---|---|---|
| 1 | `DirectBuild` | - | `AtomicInstall` (refinement) | modelled, checked, proved |
| 2 | `RSQuadVector`, `RSSupportPlain` | `QuadLevel` | `QuadLevel`, `SupportOf` | modelled, checked, proved |
| 3 | `LevelEncoder` | `RSQuadVector` | `SupportOf` | modelled, checked, proved |
| 4 | `QWaveletTree` | `QuadLevel` | the indexed sequence | modelled, checked, proved |
| 5 | `RangeIter` | `QWaveletTree` | the multiset of the range | modelled, checked, proved |
| 6 | `DArray` | `RSBin`, `BitVector` | the set of positions | modelled, checked, proved |
| 7 | `HuffQWaveletTree` | `QuadLevel`, `PrefixCodes` | the indexed sequence; Kraft sum at most one | modelled, checked; codes proved |
| 8 | `RSQVectorView`, `LevelView` | `RSSupportPlain` | the digits of the level | modelled, checked, proved |
| 9 | `ByteLayout`, `QwtContainer` | `RangeIter`, `QWaveletTree` | the tree that was saved | modelled, checked |
| 10 | `BitVector`, `RSBin` | - | counts of bits | modelled, checked, proved |
| 11 | `BinWaveletTree` | `QuadLevel`, `PrefixCodes` | the indexed sequence | modelled, checked |
| 12 | `HqwtView` and the HQWT container | `HuffQWaveletTree`, `ByteLayout` | the tree that was saved | left |

Where a proof needs it, the modules use recursive functions and never a `RECURSIVE`
operator. Section 5 says what is not proved, and why.

## 3. Modules and the code they model

`PROJECT.json` maps every definition to its lines. Operators keep the names of the
functions they model; a definition whose name ends in `_mutant` is a deliberately wrong
version of its neighbour, used to test that a property notices.

### DirectBuild, AtomicInstall

State: `dirs`, `files`, `tmps` and `outs` are what exists on the file system; `inode` is
what a container file holds (levels appended, rows they encode, header written, synced
since the last write); `next_id` is `DIRECT_BUILD_ID` of each process. The rest are the
locals of a call, one copy per thread; `pc` says which step comes next. A container
file is named by the serial number of the build that created it, so that "the file under
this name" and "the file this build has open" can be told apart.

| Action | Code |
|---|---|
| `Begin` | the checks of `write_*_direct` before the workspace exists |
| `FrequencyPass` | first read of the source (Huffman builder only) |
| `FetchBuildId`, `CreateDir` | loop of `DirectWorkspace::create` |
| `OpenTmp` | `OutputGuard`, `create_new`, `set_len`, code tables |
| `EncoderNew`, `Partition`, `AppendLevel`, `RemoveLevel` | one iteration of the level loop |
| `WriteHeaderAndDirectory`, `SyncAll`, `Rename` | the end of the call |
| `DropGuard`, `DropWorkspace` | the two destructors, in the order Rust runs them |
| `FailEarly`, `FailLate` | `?` at any fallible step, before and after the guards exist |
| `Kill`, `PowerLoss`, `SourceRewritten` | the environment |

Abstractions. The source is its number of rows, so a rewrite with equally many rows is
invisible. A level's six files are one, and so are a level's four buckets. Removals
succeed (the code ignores their errors). After a power loss an unsynced file may be empty; names
survive, because the code does not sync directories and promises nothing about them. A
killed process may come back with the same pid and its counter at zero.

`AtomicInstall` is what a caller may rely on: an output name is absent or holds a whole
container, and the only thing that happens to it is that a whole container takes its
place. `DirectBuild` instantiates it `WITH` the refinement mapping `installed`, which
reads the output name through the inode; `AtomicSpec` is its specification.

### QuadLevel, RSQuadVector, RSSupportPlain

`QuadLevel` has the answers of the quad traits (`lib.rs`) as functions of the digits.
`RSQuadVector` is a finished support, with the queries that read it: words, lines,
blocks and superblocks are kept, bit planes and packed fields are abstracted to the
digits and numbers in them, except that a counter field is or-ed and not assigned, as in
the code. `SupportOf` says, field by field, what the tables of a sequence are.
`select_block` is split as the code goes: `search_begin` and `search_end` are the two
samples, `strided` the search in strides and the stride back, `superblock_predecessor` the
single steps; `stops` is the condition both loops share.
`RSSupportPlain` is `RSSupportPlain::new`: `Scan` is one iteration of its loop (the
iteration after the last symbol included), `Sentinel` what follows it, for both block sizes.

### RSQVectorView, LevelView

`RSQVectorView` is the zero-copy level of `bytes/level.rs`: `from_dir` as the conjunction of
its checks in their order (entry, child offsets, superblock count, the recount of superblock
and block ranks, the sentinel counter, samples, bounds), its queries with the `None` they
give where a table leads nowhere (`view_stride`, `view_strided` and `view_ahead` are the two
searches of its `select_block`), and `select_after`, which goes on line by line
(`matches_passed`) to the first line that reaches the occurrence. `LevelView` composes it with
`RSSupportPlain`: `Store` writes a finished level as `to_bytes_generic` does, `Alter` changes
one entry, digit, pair of digits, counter or sample of it or drops superblocks or samples,
`FromDir` opens or refuses it.

### LevelEncoder

`PushBlock` chooses how much the caller hands over, `PushPiece` is `push_piece` with the
flushes it triggers, `Finish` is `finish`. `data`, `superblocks` and `select_files`
are the files. `crosses` keeps the `wrapping_sub` of the select threshold.

### QWaveletTree, RangeIter

`Start` and `Level` are `from_owned` up to and inside its loop, with the two buffers
swapped at each level; `FromParts` is `from_parts`, whose input is any header and any
levels. Queries are operators over the levels, which answer as `QuadLevel` says; they and
the walks are asked of trees in use, built or accepted.
Positions and symbols have the width of `usize` where the code adds or converts them, and
wrap (a release build). Symbols fit `usize`.

`RangeIter` builds a tree, opens one of the three walks (`Open`, with the early returns
of the constructors), and then takes one popped frame at a time (`Pop`), following chains
of single children without stacking them where the code does. The fourth walk is
`WTIterator`: `TakeFront` and `TakeBack` take a row off either end. `Exhausted` is the last
`None`.

### ByteLayout, QwtContainer

`ByteLayout` has the arithmetic of a container: alignment, the regions of a level and their
sizes, the plan the writer makes of them, and the checks a reader makes of a directory entry.
`QwtContainer` extends the tree and its walks by a file: `Save` is `to_bytes_generic` for
either block size, `Foreign` a container somebody else has written from parts `from_parts`
may or may not accept, `Alter` a change of header, length, alignment, directory entry, tables
or digits. `FromBytes` is `from_bytes_generic`, which copies the digits and calls
`from_parts`; `ViewFromBytes` is `QwtView::from_bytes`, which reads in place and checks the
largest symbol along one path. `OpenCursor` and `NextPosition` are `select_cursor` and
`QwtSelectCursor::next`, whose `?` leaves the levels below already moved.

Abstractions. A file is a record of its header, entries, data lines by offset, and for each
level whether its tables are what `from_dir` recounts: `LevelView` is about those tables and
about the answers of a level opened with them, so `QwtContainer` takes a level's answers from
`QuadLevel`. The trees of a file are `QWaveletTree` instantiated with the fields of the file.

### PrefixCodes, HuffQWaveletTree

`PrefixCodes` has what the two Huffman trees share: codes, and the decode table made of them.

Construction, in the order of `from_owned`: `CodeLengths` takes the lengths of the Huffman
coder; `LimitCodeLengths` and `Lengthen` are `limit_code_lengths`, whose loop takes one step
at a time; `Expand` and `Assign` are the two halves of `craft_wm_codes`' loop (all open
nodes of the code tree get their children; a symbol gets a node); `DecodeTable` and `Level`
are the rest of `from_owned`, a level and its partition in five at a time. `Store` puts the
parts into a file and back, unaltered or with one thing changed; `FromParts` is `from_parts`,
with each of its checks an operator (`levels_agree`, `encode_agrees`, `decode_agrees`,
`rank_path_valid`, `access_paths_valid`). Queries are operators over the parts, `get`,
`rank`, `select` and `occs_range` to its end.

Abstractions. The coder is the `minimum_redundancy` crate: its lengths are those of any
quaternary prefix code of least cost, shrinking with frequency. The limit of 32 bits is a
constant, so that it can be reached with few symbols. A code is a number and a length; a
level is its digits. Prefetching is left out.

### BitVector, RSBin, DArray

`BitVector` is `BitVectorMut` and `BitVector`: `AppendBits`, `ExtendWithZeros`, `Set`,
`SetBits` and `ExtendOnes` are its mutations, `Freeze` and `Thaw` the conversions,
`Deserialize` a reload with the length or one bit changed. A vector is its bits in whole
lines, padding included. `RSBin` has RSNarrow and RSWide as functions of the vector (they are
built in one pass and never change) with the queries that read them. `DArray` extends
both: `New` freezes a vector, `LoadWord` and `TakePosition` are the position iterator over its
words and the loop of `Inventories::new`; a full block is flushed in the same step. `Finish`
flushes the last one. `select` reads the inventories; an index past the end of one is
`Panic`.

### BinWaveletTree

`New` takes the coder's lengths and an order of the symbols: any optimal code and any
order a `HashMap` may give, which `craft_wm_codes` keeps among codes of one length. `Expand`
and `Assign` are the two halves of its loop (a write past the code vector is a panic),
`DecodeTable` and `Level` the rest of `new`. `Store` serializes the tree, unaltered or with
one field changed; `Deserialize` is `validate_deserialized`. Levels answer as `QuadLevel`
says with digits 0 and 1, which `RSBin` shows of the bit vectors.

## 4. Runs

| Run | Instance | Checks |
|---|---|---|
| `direct_build` | two threads of one process, one output, two scratch parents, three kinds of call (two levels, no levels, one level Huffman), two builds, one kill or power loss, one rewrite of the source | `TypeOK`, `OutputComplete`, `TmpIsMine`, `NoLeftovers`, `WorkspaceWithinBudget`, `EveryCallReturns`, `AtomicSpec` |
| `level_view` | words of 1, lines of 2, blocks of 2 and 4, superblocks of two blocks, a sample every 3 occurrences, 3-bit counters, all sequences of two symbols up to 12; those up to 8 stored with any one alteration | `TablesExact`, `QueriesExact`, `StoredIsAccepted`, `AcceptedIsExact`, `SelectAfterIsSelect` |
| `level_encoder` | words of 2, pieces of 2, blocks of 4, superblocks of 8, all levels up to 12 rows and all ways to cut them | `NoCounterError`, `FilesMatchSupport`, `AuxWithinBound` |
| `quad_tree` | all sequences up to 5 of six symbols of up to three levels; all pairs of levels of length 0 or 3 handed to `from_parts` with several headers; all ranges, walks and five targets for those up to 4; containers of those up to 2 and of the parts, with any one alteration, read as four types; a cursor for every symbol | `LevelsExact`, `PointQueriesExact`, `SelectExact`, `ExtractIsSort`, `StackBounded`, `YieldsInOrder`, `NoRowLost`, `NextValueExact`, `SavedCanBeRead`, `ReadersAgree`, `ViewExact`, `CursorExact` |
| `huff_tree` | all sequences up to 5 of five symbols and three longer ones with 8 and 11 symbols, codes of at most 4 and at most 8 bits; three trees stored with any one alteration | `NoPanic`, `CodesPrefixFree`, `CommonCodesShorter`, `RoundTrip`, `PointQueriesExact`, `OccsRangeExact` |
| `bits` | words of 3 bits, lines of 2 words, superblocks of 2 lines, hints every 4 and every 7 bits, blocks of 4, subblocks of 2, spans of 6, all vectors up to 14 bits | `VectorExact`, `QueriesExact`, `BlocksExact`, `SelectExactUnmixed` |
| `bin_tree` | all sequences up to 5 of the symbols 0, 1, 2 and 5, plain and compressed; those up to 4 stored with any one alteration | `BuiltIsAccepted`, `PointQueriesExact`, `OccsRangeExact` |
| `same_pid`, `range_next_wide`, `darray_mixed`, `set_bits`, `bin_constant` | see section 6 | one property each, violated |

**What they show.** `direct_build`: whatever two racing builds, failures and one crash
do, an output name never shows anything but a whole, synced container of the declared
length; the tmp name leads to the build's own file from `create_new` to `rename`;
directories and tmp files that no running call owns were left by a process that died; the
bound checked at the start covers the workspace; and every call returns.
`level_view` and `level_encoder`: both builders of rank tables produce the tables
`SupportOf` defines, and therefore the same ones, and queries on these tables are exact;
`from_dir` accepts them all, and a level it accepts after an alteration answers as its digits
say, through `select_after` too.
`quad_tree`: construction yields the wavelet matrix defined without partitioning, queries
read the sequence back, and `from_parts` accepts nothing whose header lies. The walks yield
in order and complete, and between two calls no row is lost, also when rows are taken from
both ends. A container's regions do not overlap, both readers open what was written and
nothing that has been cut short, of altered and foreign
containers the view opens exactly those that the copying reader opens and whose tables and
alignment are right, the view answers as counting would, and a cursor visits the positions
of its symbol in order. `huff_tree`: the codes are prefix-free,
within the limit and never longer for a commoner symbol, the rows whose code has ended are
last at every level (otherwise `from_parts` would refuse the tree and `get` misread it), and
what `from_parts` accepts after an alteration answers every query consistently with its own
`get`. `bits`: any sequence of mutations that does not overwrite ones with `set_bits` keeps
the count of ones and clear padding, both rank supports answer as counting would, block
entries of a DArray are always right, and its select is right unless a dense block follows a
sparse one. `bin_tree`: what `new` builds is accepted again and answers exactly for
every optimal code and every order of equal lengths, and an accepted tree with prefix-free
codes answers consistently with its own `get`.

**Why the bounds are enough.** In `direct_build` two builds are enough for a race and for
a crash followed by a restart that meets its own left-overs; `MaxId = 3` is more ids than
two builds can use up, so the bound never stops the search for a name. Two levels
are the fewest with a partition, buckets and their removal. In the table runs the
constants are scaled down with their relations kept: a line is two words, a piece
divides a word, a full superblock is exactly one symbol more than a counter holds
(`level_view` with the larger block size: 8 symbols and 3 bits, as 4096 and 12 bits), and 12
symbols cover more than one superblock and several samples, with every length modulo all of
them; stored levels of 8 symbols have a full superblock of either size and the empty one
after it. Two symbols that are not neighbours leave one absent between them and one above. In
the trees, three levels are the fewest with a middle one, and a stack of 10 is
`3 * 3 + 1`, the tight case of the 97 frames that 32 levels can need. Containers of two rows
have up to three levels of every digit pair; lines, blocks and samples of one symbol make
every row a region boundary. In `bits` 14 bits are three blocks of four, three lines and two
superblocks. In `huff_tree` codes of up to four digits occur, which the limit
of 4 bits caps: eight symbols then need codes lengthened, eleven most of the 16 slots; stored
trees have none, one and two levels and a symbol that does not occur. In `bin_tree` four
symbols have codes of one, two and three bits, and of two bits each.
`CHECK_DEADLOCK FALSE` is set because all of these stop: calls return, constructors
finish, iterators end.

**Fairness.** Only `direct_build` has a liveness property. It assumes weak fairness of
`Build(b)` for each thread: a thread inside the call keeps being scheduled, as an operating
system guarantees for a runnable thread whose system calls return. Nobody has to call,
fail, crash or rewrite anything. In particular a call is not assumed to find its first
name free: it must get past left-overs by itself.

**Mutants.** For each property of each passing run `PROJECT.json` names a mutation of
a modelled definition (a dropped guard, a line not masked, a missing sync, the same
name tried again) under which TLC finds the property violated.

## 5. Proofs

Every theorem is about the specification that a run checks, and holds for every value of
the constants that the named assumptions allow.

| Module | Theorem | Statement |
|---|---|---|
| `DirectBuildProofs` | `TypeCorrect` | `Spec => []TypeOK` |
| | `OutputsComplete` | `PidsDistinct` implies `Spec => []OutputComplete` |
| | `TmpStaysMine` | `PidsDistinct` implies `Spec => []TmpIsMine` |
| | `Refinement` | `PidsDistinct` implies `Spec => AtomicSpec` |
| | `NothingLeftOver` | `PidsDistinct` implies `Spec => []NoLeftovers` |
| | `BudgetHolds` | `PidsDistinct` implies `Spec => []WorkspaceWithinBudget` |
| `LevelViewProofs` | `TablesAreExact` | `Spec => []TablesExact` |
| | `QueriesAreExact` | `Spec => []QueriesExact` |
| | `BuiltLevelsOpen` | `SpecView => []StoredIsAccepted` |
| | `OpenViewsAreExact` | `SpecView => []AcceptedIsExact` |
| | `CursorsMayUseEither` | `SpecView => []SelectAfterIsSelect` |
| `LevelEncoderProofs` | `CountersNeverOverflow` | `Spec => []NoCounterError` |
| | `FilesAreTheSupport` | `Spec => []FilesMatchSupport` |
| | `AuxIsBounded` | `Spec => []AuxWithinBound` |
| `DArrayProofs` | `VectorIsExact` | `Overwriting = FALSE` implies `Spec => []VectorExact` |
| | `BitQueriesAreExact` | `Overwriting = FALSE` implies `Spec => []QueriesExact` |
| | `BlocksAreExact` | `Spec => []BlocksExact` |
| | `SelectIsExactUnmixed` | `Spec => []SelectExactUnmixed` |
| `QWaveletTreeProofs` | `PointQueriesAreExact` | `Spec => []PointQueriesExact` |
| | `SelectsAreExact` | `Spec => []SelectExact` |
| | `LevelsAreExact` | `Spec => []LevelsExact` |
| | `ExtractsAreSorts` | `Spec => []ExtractIsSort` |
| | `StacksAreBounded` | `SpecIter => []StackBounded` |
| | `StacksFit` | `SpecIter => [](Len(stack) <= STACK_SIZE)` |
| | `WalksYieldInOrder` | `SpecIter => []YieldsInOrder` |
| | `RowsAreNeverLost` | `SpecIter => []NoRowLost` |
| | `NextValuesAreExact` | `T_BITS < USIZE_BITS` implies `SpecIter => []NextValueExact` |
| | `TreesStayExact` | `SpecFile => [](LevelsExact /\ PointQueriesExact /\ SelectExact /\ ExtractIsSort /\ StackBounded /\ YieldsInOrder /\ NoRowLost)` |
| `HuffQWaveletTreeProofs` | `CommonCodesAreShorter` | `Spec => []CommonCodesShorter` |
| | `CodesArePrefixFree` | `Spec => []CodesPrefixFree` |

`QuadLevelProofs` and `RSQuadVectorProofs` hold the lemmas that the three modules on
levels share; those of `QuadLevelProofs` also carry the tree. `Spec` of the tree and
`SpecIter` of its iterators are what the run `quad_tree` takes to make trees and walk
them; it adds containers and views on variables of their own, and `TreesStayExact` says that
the properties hold in `SpecFile`, the whole of what the run checks.

**Assumptions.** `ConstantsAssumption` of `DirectBuild`: types of the constants; a call
has levels exactly if it has rows. `PidsDistinct`: processes that share the file system
have different pids; the run `same_pid` shows that it cannot be left out.
`SupportAssumption`, `InputAssumption` and `EncoderAssumption`: sizes are positive, a
superblock has at least two blocks and no more symbols than a block counter counts (in the
code 8 * 512 = 2^12, with equality), a piece divides a word and is no longer than
the distance of samples, and rows and that distance are below the word in which the
encoder subtracts with wrap-around (2^64). `BitVectorAssumption`: positive sizes.
`RSAssumption`: a superblock has lines, and
the distance of samples exceeds a sub-block (1024 > 64, 8192 > 512). `DArrayAssumption`: positive sizes, and a block is a whole number of subblocks (32 * 32 = 1024).
`Overwriting = FALSE`: `set_bits` is not called over ones; the run `set_bits` shows what
happens otherwise. `TreeAssumption`: symbols have an even number of bits and fit `usize`,
and a sequence has fewer than 2^(USIZE_BITS - 1) of them, as a `Vec` holds at most
`isize::MAX` elements. `IterAssumption`: a stack has three places for every level of the
widest tree and one more (128 for 97). `HuffAssumption`: symbols are numbers, sequences are
finite, and a code has a positive, even number of bits. `T_BITS < USIZE_BITS` for `range_next_value`; the
run `range_next_wide` shows that it cannot be left out.

**The builders.** `OutputComplete` is not inductive: that a file is whole when it is
renamed follows from what the build did before, and that it stays so from nobody else
having it open. `IInv` is

- `TypeOK` and `InLoop`: the level is zero before the loop, below the number of levels in it;
- `Progress`: what the tmp file holds is what the call's position says, and the tmp name
  leads to it;
- `Distinct`: running calls have different inodes, and calls of one process that hold an
  id have different ids, below the process's counter;
- `Frozen`: an installed inode is whole and synced, and no call that may still write owns it.

`TypeOK /\ InLoop` is inductive by itself and gives `TypeCorrect`. With `PidsDistinct`,
`Distinct` makes tmp names of different running calls different
(`TmpNamesDistinct`). So a step of one thread leaves the tmp file of another alone
(`Undisturbed`), which carries `Progress`; at `Rename`, `Progress` gives `Frozen`.
A left-over of a killed process with the same name as a new call's is met by
`create_new`, which fails: `Progress` speaks of a tmp name only after that. `IInvHolds`
combines these; `OutputsComplete` and `TmpStaysMine` are consequences. For the refinement,
`StepEffect` lists what a step can do to `outs` and to installed inodes, and
`CompleteIsContainer` shows that a whole file is a container.

**What a build leaves and occupies.** `NoLeftovers` is not inductive either: at
`DropWorkspace` nothing may be left but the directory. `CleanInv` adds to `IInv` that a
call has its directory from `CreateDir` to `DropWorkspace` and which files are in it at
each of its positions, that it has not given up its guard before `Rename`, and that its
tmp name is free once the guard has been dropped (`Holds`, `NotKept`). `WorkspacesDistinct`
keeps the files of one call out of reach of the others. The files `Holds` allows are at
most the buckets of two levels and one level file, which gives the budget.

**Levels in memory.** What the tables hold after the positions before `m` have been
visited is written down in closed form (`SuperblocksAfter`, `SamplesAfter`), so that
`Inv` of `LevelViewProofs` is: counters exact, tables those of the positions before
`i`. `BlockGrid` places a position in its block and superblock, `StartBlock` and
`SamplesStep` show what one iteration adds, `CountersExact` that each counter
is below the size of a superblock and so fits its field. For the queries, `Supports` is
what they rely on: exact counters, child offsets, and samples that enclose the
superblock of each occurrence. `SupportSupports` shows it of the finished tables;
`RankExact` and `SelectExact` follow from `Supports` alone: the strides of
`select_block` stop past the occurrence's superblock, the stride back does not go below the
first sample, single steps find the superblock, `block_predecessor` the block, and the
scan of its words the position.

**The view.** `AcceptedSupports` is the heart of `LevelViewProofs`: whatever a stored level
of the right shape contains, if the checks of `from_dir` pass then `ViewSupports` holds of
it, that is `Supports` and that every superblock a query can reach is there. The recount
is shown to be `Count` (`TotalsAre`), the sample checks to enclose each occurrence
(`AcceptedSamples`). So the view's queries never take a branch to `None` that the owned
ones do not have, and agree with them (`ViewRank`, `ViewSelect`). `SelectAfter` does not
use the tables: the matches passed line by line add up to a difference of counts.
Conversely `BuiltIsAccepted` goes through every check for the tables as built. `ViewInv`
ties these to the steps: a level is stored only when finished, an alteration keeps its
shape (`StoredLevels`), an unaltered one is the built one, and the view says what
`from_dir` says.

**The encoder.** `Inv` of `LevelEncoderProofs` is the same closed form at the row reached,
with two differences the code makes: a superblock that is exactly full is flushed only
with the next row (`Current`), and the last line is still in memory (`LinesAfter`).
`PieceIs` shows that a piece lies in one line and one superblock, so at most one counter
and at most one sample per symbol is due in it; `crosses` is then the code's
`wrapping_sub` comparison without wrap-around. At `Finish` the files are `SupportOf` the
digits, the tables `TablesAreExact` speaks of, and their lengths give the bound.

**The quad wavelet tree.** `TreeInv` does not speak of the queries, and not of the order of
a level either. It says where each symbol stands: `IsTrack` is a function that takes a
position of the sequence to its row at every level, the next row being the one that the
digit and its count lead to, and every level's digit at that row is the symbol's. One
iteration of `from_owned` extends the track by one level, since the stable partition
puts a row where the counts say; a tree that `from_parts` accepts has one because the
levels determine it. `get` follows the track of a position. `rank` follows two
boundaries, and as long as digits agree with the symbol asked for the rows between
them are those of positions before the one asked for that agree so far; when all have been
compared, these are its occurrences. `select` goes down once and back up: on the way up the
occurrence's row is the one the track had, and an occurrence that does not exist runs out
of its node at some level. For `LevelsExact` the rows of a level are compared with
`MatrixKey`, the sort key of the wavelet matrix: a child's rows keep the order of the
parent's (`ChildOrder`), so by induction over the levels the track is monotone in the key,
and a monotone injection of `n` positions into `n` rows puts each on its slot. Shifts,
masks and casts are turned into digits of a number by lemmas on powers of two.

**Extraction.** `RangeOf` says what the recursion makes of a range from what it makes of those
below (`Recurses`); that a function like it exists is shown level by level from the last
(`RecursesExists`). The rows below a range are its rows with that digit (`RowsBelow`), those of
a smaller digit have smaller symbols (`DigitsOrder`), and sorted lists of which each is
below the next make a sorted list (`SortedConcat`), so by induction from the last level
every range of rows that share their prefix gives what its rows hold, sorted (`RangeSorted`).
A range of one row is left early, and following that row's track gives the same symbol
(`SingletonIs`).

**The walks.** `IterInv` keeps `TreeInv` and `Walking`, what a walk on a tree looks like. A
frame is good (`FrameOk`) if its rows are exactly those of the range's positions whose
symbols begin with the frame's prefix; `children` of a good frame are good, because the
track is a bijection at each level, and together they have its rows. Frames nearer the top
have smaller symbols and are not nearer the root (`Under`), at most three wait at each
level but the root's (`Bounded`), and what is yielded is what is below the stack
(`Yielded`, `Sought` and `Taken` for the three kinds of walk). So the symbol at the top is
the least that is left, which gives order and completeness; and `Bounded` summed over the
levels gives `StacksFit`. `NoRowLost` is a sum: disjoint sets of rows add up
(`SumOfSizes`). For `range_next_value`, a child that is skipped ends below the target
(`TooSmall`), and this is where `T_BITS < USIZE_BITS` is used: the end of the last child is
2^T_BITS, which does not wrap.

**Bit vectors.** `GoodInv` counts the ones of all lines, padding included, and says that none
is past the length; `VectorExact` alone would not tell what `ExtendWithZeros` uncovers.

**Rank and select on bits.** The queries are proved from `GoodInv` alone: a support built on
a vector with clear padding. `IsSupport` says what `RSNarrow` and `RSWide` have in common:
each counter is a count of ones up to a multiple of its size (`SubBlockRank`, `BlockRank`),
and the samples satisfy `Sampled`. That is shown by least counterexample over the recursive
function that pushes them (`PushStep`, `SamplesAre`): the h-th sample is the block in which
another `hint` bits of the value are full, which needs a sub-block to hold no more
than `hint` bits. So the block of an occurrence is between two neighbouring samples
(`SamplesAround`), the search between them finds its sub-block (`SubblockFinds`), and the
scan inside finds the position (`InsideFinds`). Zeros are counted as what is left of the
positions (`Reckoned`), which past the last line differs from the zeros there are; the
limits on the index keep `select0` before the padding (`LimitsAre`). `get_bits` is the value
of a run of bits; `ValueSplit` cuts it at a word's end, where the code puts two shifted words
together.

**The inventories of a DArray.** `DArrayInv` needs nothing of the vector but its shape
(`ShapeInv`), so its theorems hold for vectors with ones in the padding and with a wrong
`count_ones` too: the iterator stops at `n_bits` by itself. `IteratorInv` says that what was
yielded (`Taken`) are the positions in the words loaded, less those left in the current one,
which all come later; hence the next one yielded is the position whose rank is `n_sets`
(`TakeStep`), and at the end none is missing (`ScanEnds`). `Tables` says what the entries
lead to, and of the distances only this: as long as every block up to `b` is dense, those
of `b` are where `select` looks (`Aligned`: there are no gaps before them). One sparse block
ends that for good, which is why `SelectExact` itself is violated (run `darray_mixed`) and
`SelectExactUnmixed` holds. `FlushDense` uses that the span of a dense block is below 2^16,
so `as u16` drops nothing; `FlushSparse` that the entry is minus one minus the place in
`overflow_positions`. `SplitIndex` takes an index apart as `select` does, and `ScanFinds`
shows that scanning words from the subblock's first position ends at the right one.

**Induction over data** is done by least counterexample (`LeastNat`) where a recursive
function or a sum over a range is met: its closed form holds at every argument, because
it cannot fail first at any. That a recursive function exists at all is shown where it is
used (`Recursion` in `QuadLevelProofs`).

**Code lengths.** `Ordered` picks the element with so many before it; `Enumerated` shows by
counting that for a strict order on a finite set this lists every element once, in order.
`LengthsInv` has two parts. `Infos`, from the coder to `craft_wm_codes`: distinct symbols, each
with a whole number of digits, and a commoner one never longer than a rarer one.
The coder's lengths shrink along `values`, capping keeps that, sorting only permutes. In the
loop it needs `Lengthening` to survive: lengths are within the limit, the candidates stand
from rare to common, and every symbol that is not among them is at the limit, so the one
lengthened has no rarer symbol shorter than it. `Lengthening` also has the count of
occupied slots: a sum in which one term changes changes by that term (`SumsAgree`,
`KraftSumStep`), and a digit more leaves a quarter of a code's slots (`QuarterSlots`), which is
a whole number as long as there is a digit left to add.

**Codes.** That no code begins with another is Kraft's inequality carried through three
stages, and `CodesInv` adds to `LengthsInv` what each hands on. The coder's lengths satisfy
it: `CodeLengths` counts codes by their depth, so their Kraft sum is a sum over blocks of equal
lengths (`Blocks`, `BlockSum`, `GivenKraft`), and is rescaled from the deepest code to the limit
(`GivenFits`). `limit_code_lengths` is left with a sum that fits the code space, or panics; and
sorting adds the same terms in another order (`SumRearranged`, `SortedNeeds`). In
`craft_wm_codes` the invariant `Nodes` holds: the open nodes of a level are distinct, they are
enough for the codes still to come (those need `Needed` slots of the limit's level, at most as many as
are below the open nodes), and none lies below a node that was given away. A node is a
number whose low digits tell the way to it, so "below" is a remainder. `reversed_code` turns
the digits around: the low digits become the leading ones (`ReversedStep`, `ReversedPrefix`),
and different nodes have different codes (`ReversedInjective`), so a code that begins
another would have given away a node twice.

**Only model-checked.** `EveryCallReturns`, because liveness under fairness is out of the
prover's reach. `QwtContainer`: its
properties compare what two readers make of altered bytes, field by field.
Of `HuffQWaveletTree` everything but `CommonCodesShorter` and `CodesPrefixFree`: `NoPanic`
is not true of every value of the constants (an alphabet that does not fit the code space
is meant to panic), and the others need where the rows of each code lie in levels that
shrink. `BinWaveletTree`: its codes come from an optimal code in any order.

## 6. Where the code and its documentation disagree

| Run | What it shows |
|---|---|
| `same_pid` | `OutputGuard` is armed before `create_new` has succeeded (`bytes/direct.rs:614`). Two processes with equal pids (pid namespaces) that share an output directory but not a scratch parent get the same tmp name. The second's `create_new` fails, its guard removes the first's file, a third build creates the name again, and the first renames that partial file to the output, although "the output is installed only after it is synced completely". |
| `range_next_wide` | With symbols as wide as `usize` and a full set of levels the end of the last child interval wraps to zero (`quadwt/mod.rs:533`) and `range_next_value` skips the child. |
| `darray_mixed` | A sparse block adds one subblock entry per position, a dense one per subblock (`darray/mod.rs:177`), but `select` indexes the inventory by subblock; a dense block after a sparse one is answered wrongly. The DArray tests use vectors whose blocks are practically all of one kind. |
| `set_bits` | `set_bits` adds the ones it writes to `count_ones` and does not subtract those it overwrites (`bitvector/mod.rs:1242`), as `set` does; afterwards `count_ones` is no longer "the number of ones (bits set to 1) in the bit vector", and the zeros computed from it are too few. |
| `bin_constant` | A compressed binary tree of a sequence with one distinct symbol: the code vector of `craft_wm_codes` has one entry, and the first doubling writes its second (`binwt/mod.rs:94`). Documented is a panic for sequences that are too long. |

## 7. What is not modelled

- `HqwtView` and the HQWT container (`bytes/hqwb.rs`, the second half of `bytes/view.rs`):
  the layout of the QWT container with code tables added. Its checks of codes and levels are
  those of `from_parts` of the Huffman tree, which is modelled.
- The bulk variants of rank and get in the views (several positions at once, with prefetch):
  the same counts.
- The iterators of a bit vector that start at a position, its owning iterator (whose `len`
  underflows after the `None` that ends it, `bitvector/mod.rs:792`), and its conversions.
- Little-endian fields of the header: a field is its number.
- Prefetch support: approximate ranks that choose cache lines to prefetch, never an answer.
- Popcount kernel: picks one of two implementations of the same function.
- Space usage, test and benchmark utilities, examples: measurement.
- Symbols wider than `usize` (`u128`): `TreeAssumption` excludes them; the partition step
  truncates such symbols.
- A source rewritten with the same number of rows while the Huffman builder reads it for
  the second time: rows are not told apart in `DirectBuild`.
- Whether the caller's source counts towards `scratch_bytes` ("source, partition, and
  per-level support files", `bytes/direct.rs:36`). From level 1 on it exists beside two
  generations of buckets, while the bound has room for one source and one partition;
  `WorkspaceWithinBudget` is about the workspace only.
- Positions so large that a sum of two wraps in `select`: checked up to the largest
  argument for which none does.
- `select` on the owned empty tree: it computes `2 * (n_levels - 1)` with no levels
  (`quadwt/mod.rs:1678`), which panics in a debug build and answers `Some(i)` for symbol 0 in
  a release build, where the documentation has `None`. `SelectExact` is about trees with
  levels; the view has the guard. The empty view answers `rank` with `Some(0)`, the owned
  empty tree with `None`.
- Decode entries of length zero in a stored Huffman tree: `from_parts` accepts one for a
  symbol without a code (`quadwt/huffqwt.rs:533`), and `occs_range` would then report it.
- Binary trees accepted with codes that are not prefix-free: `validate_deserialized` does not
  look, and `rank` and `get` of such a tree can disagree. The queries are checked on accepted
  trees whose codes are prefix-free.
- Symbols of 2^32 and more in the binary tree, which `get` truncates (`binwt/mod.rs:475`).
