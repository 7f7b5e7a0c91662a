---------------------------- MODULE QwtContainer -----------------------------
(***************************************************************************)
(* A QWaveletTree saved as bytes and read back (bytes/qwtb.rs,             *)
(* bytes/view.rs): to_bytes_generic writes the file; from_bytes_generic    *)
(* copies the digits out of it, builds their tables anew and hands them to *)
(* from_parts; QwtView::from_bytes reads digits and tables in place.  A    *)
(* QwtSelectCursor walks the positions of one symbol in an open view.      *)
(*                                                                         *)
(* A file is a record: the header's fields, a directory entry per level,   *)
(* the data lines by their offset, and per level whether its stored tables *)
(* are what from_dir recounts from those lines (LevelView is about that,   *)
(* and about the answers of a level that from_dir has opened).             *)
(***************************************************************************)
EXTENDS RangeIter, ByteLayout

CONSTANTS
  Widths,       \* bits of the symbol types a file is read as
  MaxSaved,     \* bound: longest sequence that is saved
  MaxWalked,    \* bound: longest sequence that a RangeIter walks
  MaxAltered    \* bound: alterations of a file

ASSUME ContainerAssumption ==
  /\ T_BITS \in Widths /\ \A w \in Widths : w \in 1..T_BITS /\ w % 2 = 0
  /\ MaxSaved \in Nat /\ MaxWalked \in Nat /\ MaxAltered \in Nat

VARIABLES
  file,      \* the file, or Nothing
  written,   \* what was written, of which file may be an altered copy
  altered,   \* how often file was altered
  owned,     \* result of from_bytes_generic: [as, ok], or Nothing
  view,      \* result of QwtView::from_bytes: [as, ok] and the view's fields, or Nothing
  cursor,    \* an open QwtSelectCursor, or Nothing
  positions  \* what its next() has returned

fileVars == <<file, written, altered, owned, view, cursor, positions>>

Nothing == [none |-> TRUE]

InitFile ==
  /\ InitIter
  /\ file = Nothing /\ written = Nothing /\ altered = 0
  /\ owned = Nothing /\ view = Nothing /\ cursor = Nothing /\ positions = <<>>

------------------------------------------------------------------------------
(* Writing.                                                                *)

\* The digits of a level in whole data lines; those after the last are zero.
lines(level) ==
  [p \in 0..(lines_for(level.len) * LINE - 1) |-> IF p < level.len THEN level.qv[p] ELSE 0]

to_bytes_generic(b512) ==
  LET first == align_up(HEADER_SIZE + n_levels * LEVEL_DIR_SIZE, ALIGNMENT)
      levels == SubSeq(qvs, 1, n_levels)
      dirs == plan(levels, first, b512)
  IN [magic |-> TRUE, version |-> TRUE, prefetch |-> FALSE, b512 |-> b512,
      t_width |-> T_BITS, n |-> n, sigma |-> usize(sigma), n_levels |-> n_levels,
      dirs |-> dirs, size |-> size_for(dirs, first),
      lines |-> [off \in {dirs[l].off_data : l \in 1..n_levels} |->
                   lines(levels[CHOOSE l \in 1..n_levels : dirs[l].off_data = off])],
      tables |-> [l \in 1..n_levels |-> TRUE], base_aligned |-> TRUE]

\* A finished tree of either block size is saved.
Save ==
  /\ InUse("built") /\ n <= MaxSaved
  /\ \E b512 \in BOOLEAN : file' = to_bytes_generic(b512)
  /\ written' = file'
  /\ UNCHANGED <<altered, owned, view, cursor, positions, iterVars>>

\* Some other program has written a header and levels, with the tables that
\* belong to them.
Foreign ==
  /\ InUse("parts") /\ Len(qvs) = n_levels
  /\ file' = to_bytes_generic(FALSE)
  /\ UNCHANGED <<written, altered, owned, view, cursor, positions, iterVars>>

\* A file that differs from f in the header, in its length or place in memory,
\* or in a level: its digits with or without the tables, tables, or entry.
Cuts(f) ==
  {x \in {0, HEADER_SIZE - 1, HEADER_SIZE, HEADER_SIZE + f.n_levels * LEVEL_DIR_SIZE - 1}
           \cup UNION {UNION {{r[1], r[2], r[2] - 1} : r \in Range(regions(f.dirs[l]))} :
                         l \in DOMAIN f.dirs} :
    x < f.size}
Near(x) == {y \in {x - 2, x - 1, x + 1, x + 2} : y >= 0}
AlteredHeader(f) ==
  {[f EXCEPT !.magic = FALSE], [f EXCEPT !.version = FALSE], [f EXCEPT !.prefetch = TRUE],
   [f EXCEPT !.b512 = ~ @], [f EXCEPT !.base_aligned = FALSE],
   [f EXCEPT !.n_levels = T_BITS \div 2 + 1]}
    \cup {[f EXCEPT !.t_width = w] : w \in Widths}
    \cup {[f EXCEPT !.n = x] : x \in Near(f.n)}
    \cup {[f EXCEPT !.sigma = x] : x \in Near(f.sigma) \cup {2 ^ T_BITS}}
    \cup {[f EXCEPT !.n_levels = x] : x \in 0..(f.n_levels - 1)}
    \cup {[f EXCEPT !.size = x] : x \in Cuts(f)}
AlteredLevel(f, l) ==
  LET off == f.dirs[l].off_data IN
  {[f EXCEPT !.tables[l] = FALSE], [f EXCEPT !.dirs[l].off_superblocks = @ + 4],
   [f EXCEPT !.dirs[l].off_data = @ + 4]}
    \cup {[f EXCEPT !.lines[off][p] = d, !.tables[l] = t] :
            p \in DOMAIN f.lines[off], d \in Quads, t \in BOOLEAN}
    \cup {[f EXCEPT !.dirs[l].off_data = o, !.tables[l] = t] :
            o \in DOMAIN f.lines \cup {f.size}, t \in BOOLEAN}
    \cup {[f EXCEPT !.dirs[l].position_bits = x, !.tables[l] = FALSE] :
            x \in Near(f.dirs[l].position_bits)}
    \cup {[f EXCEPT !.dirs[l].off_sel[s] = @ + x, !.tables[l] = FALSE] :
            s \in Quads, x \in {1, SAMPLE_BYTES}}
Alter ==
  /\ file # Nothing /\ written # Nothing /\ altered < MaxAltered
  /\ owned = Nothing /\ view = Nothing
  /\ file' \in (AlteredHeader(file) \cup UNION {AlteredLevel(file, l) : l \in DOMAIN file.dirs})
                 \ {file}
  /\ altered' = altered + 1
  /\ UNCHANGED <<written, owned, view, cursor, positions, vars, iterVars>>

------------------------------------------------------------------------------
(* Reading.  w is the type asked for: [b512, width].                       *)

Types == [b512: BOOLEAN, width: Widths]

\* The levels that the first n_levels entries of a directory describe.
levels_of(f) ==
  [l \in 1..f.n_levels |->
     LET len == f.dirs[l].position_bits \div 2
     IN [len |-> len, qv |-> [p \in 0..(len - 1) |-> f.lines[f.dirs[l].off_data][p]]]]

\* What a reader makes of a file: a QwtView's fields, or the arguments of from_parts.
parsed(f) == [n |-> f.n, n_levels |-> f.n_levels, sigma |-> f.sigma, levels |-> levels_of(f)]

\* The tree of those: from_parts of it, and the walks that are a view's queries.
\* (The bound from_parts has on n_levels repeats the one on the header.)
Tree(t) ==
  INSTANCE QWaveletTree WITH
    origin <- "parts", pc <- "built", data <- <<>>, n <- t.n, n_levels <- t.n_levels,
    sigma <- t.sigma, qvs <- t.levels, sequence <- <<>>, partition <- <<>>, shift <- 0

\* What both readers ask of the header.
same_type(f, w) == f.b512 = w.b512 /\ f.t_width = w.width
header_fits(f, w) ==
  /\ f.size >= HEADER_SIZE
  /\ f.magic /\ f.version /\ ~f.prefetch
  /\ same_type(f, w)
  /\ f.sigma < 2 ^ w.width
  /\ f.n_levels <= w.width \div 2
  /\ f.n > 0 => f.n_levels > 0
  /\ HEADER_SIZE + f.n_levels * LEVEL_DIR_SIZE <= f.size

from_bytes_generic(f, w) ==
  /\ header_fits(f, w)
  /\ \A l \in 1..f.n_levels : entry_fits(f.dirs[l], f.size)
  /\ \E t \in {parsed(f)} : Tree(t)!accepts

\* The view does not decode every position: it follows the largest digit that the
\* interval has at every level.  Mutant: the smallest.
largest_digit_mutant(digits) == Min(digits)
largest_digit(digits) == Max(digits)

maximum_path(t) ==
  LET at[l \in 0..t.n_levels] ==
        IF l = 0 THEN [start |-> 0, end |-> t.n, sigma |-> 0]
        ELSE IF at[l - 1] = Nothing THEN Nothing
        ELSE LET a == at[l - 1]
                 digits == {d \in Quads : Tree(t)!rank_in(l - 1, d, a.end)
                                            > Tree(t)!rank_in(l - 1, d, a.start)}
                 d == largest_digit(digits)
             IN IF digits = {} THEN Nothing
                ELSE [start |-> Tree(t)!child(l - 1, d, a.start),
                      end |-> Tree(t)!child(l - 1, d, a.end),
                      sigma |-> a.sigma * 4 + d]
  IN at[t.n_levels]

view_from_bytes(f, w) ==
  /\ header_fits(f, w)
  /\ f.n = 0 => f.n_levels = 0 /\ f.sigma = 0
  /\ \A l \in 1..f.n_levels :
       /\ entry_fits(f.dirs[l], f.size)
       /\ castable(f.dirs[l], f.base_aligned)
       /\ f.tables[l]
  /\ f.n > 0 =>
       \E t \in {parsed(f)} :
         /\ Tree(t)!level_lens_agree
         /\ t.n_levels = Tree(t)!levels_for(t.sigma)
         /\ maximum_path(t) # Nothing /\ maximum_path(t).sigma = t.sigma

FromBytes ==
  /\ file # Nothing /\ owned = Nothing
  /\ \E w \in Types :
       /\ view # Nothing => view.as = w
       /\ owned' = [as |-> w, ok |-> from_bytes_generic(file, w)]
  /\ UNCHANGED <<file, written, altered, view, cursor, positions, vars, iterVars>>

ViewFromBytes ==
  /\ file # Nothing /\ view = Nothing
  /\ \E w \in Types :
       /\ owned # Nothing => owned.as = w
       /\ view' = IF view_from_bytes(file, w) THEN [as |-> w, ok |-> TRUE] @@ parsed(file)
                  ELSE [as |-> w, ok |-> FALSE]
  /\ UNCHANGED <<file, written, altered, owned, cursor, positions, vars, iterVars>>

------------------------------------------------------------------------------
(* Queries of an open view: the walks of QWaveletTree behind guards of     *)
(* their own.                                                              *)

view_get(v, i) ==
  IF i >= v.n \/ v.n_levels = 0 THEN None ELSE Tree(v)!spelled(Tree(v)!path(i))

view_rank(v, symbol, i) ==
  IF v.n_levels = 0 THEN IF i <= v.n THEN 0 ELSE None
  ELSE IF i > v.n \/ symbol > v.sigma THEN None
  ELSE Tree(v)!rank_between(symbol, Tree(v)!walk(symbol, 0)[v.n_levels - 1],
                               Tree(v)!walk(symbol, i)[v.n_levels - 1])

\* Mutant: as in the owned tree, without the guard for a tree of no levels.
view_select_mutant(v, symbol, i) == Tree(v)!select(symbol, i)
view_select(v, symbol, i) ==
  IF v.n_levels = 0 \/ symbol > v.sigma THEN None ELSE Tree(v)!select(symbol, i)

view_get_and_rank(v, i) == Tree(v)!get_and_rank(i)
view_extract_range(v, start, end) == Tree(v)!extract_range(start, end)
view_extract_range_distinct(v, start, end) == Tree(v)!extract_range_distinct(start, end)

------------------------------------------------------------------------------
(* The select cursor.                                                      *)

\* select_cursor: where the symbol's interval begins at every level, and how many
\* occurrences it has at the last.
select_cursor(v, symbol) ==
  LET begin == Tree(v)!walk(symbol, 0)
      end == Tree(v)!walk(symbol, v.n)
      last == v.n_levels - 1
      levels == 0..last
  IN [symbol |-> symbol, path_offsets |-> begin,
      rank_path_offsets |->
        [l \in levels |-> Tree(v)!rank_in(l, Tree(v)!digit(symbol, l), begin[l])],
      level_positions |-> [l \in levels |-> 0], level_inputs |-> [l \in levels |-> 0],
      next_occurrence |-> 0, initialized |-> FALSE,
      occurrences |-> Tree(v)!rank_between(symbol, begin[last], end[last])]

OpenCursor ==
  /\ view # Nothing /\ view.ok /\ owned = Nothing /\ cursor = Nothing
  /\ view.n_levels > 0
  /\ \E symbol \in Probes :
       /\ symbol <= view.sigma
       /\ cursor' = select_cursor(view, symbol)
  /\ UNCHANGED <<file, written, altered, owned, view, positions, vars, iterVars>>

\* RSQVectorView::select_after: the advance-th occurrence of d after position.
select_after(level, d, position, advance) ==
  IF position >= level.len \/ advance = 0 THEN None
  ELSE SelectIn(level.qv, level.len, d, Count(level.qv, d, position + 1) + advance - 1)

\* The position at level l for the result of the level below: by select the first
\* time, later from where the cursor was.  Mutant: from where it was when its last
\* result was.
advance_of_mutant(c, l, result) == result
advance_of(c, l, result) == result - c.level_inputs[l]
level_position(c, l, result) ==
  LET d == Tree(view)!digit(c.symbol, l)
      level == view.levels[l + 1]
      advance == advance_of(c, l, result)
  IN IF ~c.initialized
       THEN SelectIn(level.qv, level.len, d, c.rank_path_offsets[l] + result)
     ELSE IF advance < 0 THEN None
     ELSE select_after(level, d, c.level_positions[l], advance)

\* next(): from the last level up; `?` on a level's None or on a position before
\* the symbol's interval, with the levels below already moved.
climb(c) ==
  LET up[l \in 0..view.n_levels] ==
        IF l = view.n_levels THEN [result |-> c.next_occurrence]
        ELSE LET below == up[l + 1].result
                 position == level_position(c, l, below)
             IN IF below = None \/ position = None THEN [position |-> None, result |-> None]
                ELSE [position |-> position, input |-> below,
                      result |-> IF position < c.path_offsets[l] THEN None
                                 ELSE position - c.path_offsets[l]]
  IN up

NextPosition ==
  /\ cursor # Nothing /\ cursor.next_occurrence < cursor.occurrences
  /\ None \notin Range(positions)
  /\ \E up \in {climb(cursor)} :
       LET levels == 0..(view.n_levels - 1)
           found == up[0].result # None
       IN /\ positions' = Append(positions, up[0].result)
          /\ cursor' = [cursor EXCEPT
               !.level_positions = [l \in levels |->
                  IF up[l].position = None THEN @[l] ELSE up[l].position],
               !.level_inputs = [l \in levels |->
                  IF up[l].position = None THEN @[l] ELSE up[l].input],
               !.initialized = @ \/ found,
               !.next_occurrence = IF found THEN @ + 1 ELSE @]
  /\ UNCHANGED <<file, written, altered, owned, view, vars, iterVars>>

\* size_hint().
remaining(c) == IF c.next_occurrence < c.occurrences THEN c.occurrences - c.next_occurrence ELSE 0

------------------------------------------------------------------------------

NextFile ==
  \/ Start /\ UNCHANGED <<iterVars, fileVars>>
  \/ Level /\ UNCHANGED <<iterVars, fileVars>>
  \/ FromParts /\ UNCHANGED <<iterVars, fileVars>>
  \/ Open /\ n <= MaxWalked /\ UNCHANGED fileVars
  \/ Pop /\ UNCHANGED fileVars
  \/ TakeFront /\ UNCHANGED fileVars
  \/ TakeBack /\ UNCHANGED fileVars
  \/ Exhausted /\ UNCHANGED fileVars
  \/ Save
  \/ Foreign
  \/ Alter
  \/ FromBytes
  \/ ViewFromBytes
  \/ OpenCursor
  \/ NextPosition

SpecFile == InitFile /\ [][NextFile]_<<vars, iterVars, fileVars>>

------------------------------------------------------------------------------
(* Properties.                                                             *)

\* A saved tree's regions do not overlap, and both readers open the file if asked
\* for the type it was saved from, with the levels that were saved, and for no
\* other type.  No reader opens a file that has been cut short, except the empty
\* tree's, whose header is followed by padding.
SavedCanBeRead ==
  written # Nothing =>
    /\ RegionsInOrder(written.dirs,
                      HEADER_SIZE + written.n_levels * LEVEL_DIR_SIZE, written.size)
    /\ levels_of(written) = SubSeq(qvs, 1, n_levels)
    /\ \A reader \in {owned, view} \ {Nothing} :
         /\ altered = 0 => reader.ok = (reader.as.width = T_BITS /\ reader.as.b512 = file.b512)
         /\ file.size < written.size /\ n > 0 => ~reader.ok

\* What the view opens, from_bytes_generic opens as well; and what that opens the
\* view opens if the stored tables are right and the buffer is aligned, although
\* it looks at one path through the tree and from_parts at every position.
ReadersAgree ==
  owned # Nothing /\ view # Nothing =>
    /\ view.ok => owned.ok
    /\ owned.ok /\ (\A l \in 1..file.n_levels :
                     file.tables[l] /\ castable(file.dirs[l], file.base_aligned)) => view.ok

Opened == Tree(view)!indexed
OccsIn(seq, symbol, a, b) == Cardinality({p \in a..(b - 1) : seq[p] = symbol})

\* An open view answers as the sequence it decodes to, wherever the file came
\* from: an empty tree has rank 0 and no select for any symbol.
ViewExact ==
  view # Nothing /\ view.ok /\ owned = Nothing /\ cursor = Nothing =>
    \A v \in {view}, seq \in {Opened} :
      /\ v.n > 0 => v.sigma = Max(Range(seq))
      /\ \A i \in 0..(v.n - 1) :
           /\ view_get(v, i) = seq[i]
           /\ view_get_and_rank(v, i) = <<seq[i], OccsIn(seq, seq[i], 0, i + 1)>>
      /\ view_get(v, v.n) = None
      /\ \A symbol \in Probes, i \in 0..(v.n + 1) :
           /\ view_rank(v, symbol, i) =
                IF i > v.n \/ (v.n > 0 /\ symbol > v.sigma) THEN None
                ELSE OccsIn(seq, symbol, 0, i)
           /\ view_select(v, symbol, i) = SelectIn(seq, v.n, symbol, i)
      /\ \A a, b \in 0..(v.n + 1) :
           LET there == IF b <= v.n THEN {seq[p] : p \in a..(b - 1)} ELSE {}
           IN /\ view_extract_range_distinct(v, a, b) = SetToSortSeq(there, <)
              /\ Len(view_extract_range(v, a, b)) = IF there = {} THEN 0 ELSE b - a

\* The cursor returns the positions of its symbol in ascending order, each once,
\* and size_hint() says how many are still to come.
CursorExact ==
  cursor # Nothing =>
    \A seq \in {Opened} :
      /\ \A k \in 1..Len(positions) : positions[k] = SelectIn(seq, view.n, cursor.symbol, k - 1)
      /\ Len(positions) + remaining(cursor) = OccsIn(seq, cursor.symbol, 0, view.n)
==============================================================================
