----------------------------- MODULE RangeIter -------------------------------
(***************************************************************************)
(* Walks over a QWaveletTree (quadwt/mod.rs), three of them depth-first    *)
(* over a row range and one over the rows:                                 *)
(*   "occs"      OccsRangeIter, a growing stack;                           *)
(*   "distinct"  RangeDistinctIter, a stack of STACK_SIZE frames, which    *)
(*               follows a chain of single children without stacking them; *)
(*   "next"      range_next_value, the smallest symbol not below a target, *)
(*               on a stack of STACK_SIZE frames;                          *)
(*   "values"    WTIterator (lib.rs), row by row and from both ends; its i *)
(*               and end are kept as the one frame on the stack.           *)
(* A tree is built first; then one walk is opened.  One action per popped  *)
(* frame: an iterator's next() is as many of them as it takes to yield, so *)
(* a caller may stop after any.                                            *)
(***************************************************************************)
EXTENDS QWaveletTree, SequencesExt

CONSTANTS
  STACK_SIZE,   \* 128
  Targets       \* targets of range_next_value

ASSUME IterAssumption ==
  /\ STACK_SIZE \in Nat
  /\ 3 * (T_BITS \div 2) + 1 <= STACK_SIZE
  /\ Targets \subseteq Ts

VARIABLES
  walk_of,   \* the open walk: [kind, start, end, target]
  stack,     \* frames, top last
  yielded,   \* <<symbol, count>> pairs returned so far
  state      \* "closed", "open", "refused" (None instead of an iterator) or "done"

iterVars == <<walk_of, stack, yielded, state>>

Kinds == {"occs", "distinct", "next", "values"}
Frames == [start: 0..n, end: 0..n, level: 0..n_levels, bit_path: Nat]

InitIter ==
  /\ Init
  /\ walk_of = [kind |-> "occs", start |-> 0, end |-> 0, target |-> 0]
  /\ stack = <<>>
  /\ yielded = <<>>
  /\ state = "closed"

\* occs_range refuses a range that is not in_bounds; the other two, and
\* occs_range with an empty range, open a walk with nothing on the stack unless
\* the range is live.
in_bounds(start, end) == start <= end /\ end <= n
live(start, end) == start < end /\ end <= n /\ n_levels > 0

\* iter() and into_iter(): a WTIterator over all rows, of which there may be none.
all_rows(start, end) == start = 0 /\ end = n

Open ==
  /\ InUse("built")
  /\ \E kind \in Kinds, start \in 0..n, end \in 0..(n + 1) :
       \E target \in IF kind = "next" THEN Targets ELSE {0} :
         /\ kind = "values" => all_rows(start, end)
         /\ walk_of' = [kind |-> kind, start |-> start, end |-> end, target |-> target]
         /\ stack' = IF live(start, end) \/ kind = "values"
                       THEN <<[start |-> start, end |-> end, level |-> 0, bit_path |-> 0]>>
                       ELSE <<>>
         /\ state' = IF kind = "occs" /\ ~in_bounds(start, end) THEN "refused" ELSE "open"
  /\ UNCHANGED yielded

\* child_sym_hi <= target: no symbol below child d can be large enough.  Mutant:
\* the interval's lower end is compared.
sym_lo(f, d) == usize((f.bit_path * 4 + d) * 2 ^ (2 * (n_levels - f.level - 1)))
sym_hi(f, d) == usize(sym_lo(f, d) + 2 ^ (2 * (n_levels - f.level - 1)))
too_small_mutant(f, d) == walk_of.kind = "next" /\ sym_lo(f, d) < walk_of.target
too_small(f, d) == walk_of.kind = "next" /\ sym_hi(f, d) <= walk_of.target

\* The children of a frame that have rows, in digit order.
child_frame(f, d) ==
  [start |-> child(f.level, d, f.start), end |-> child(f.level, d, f.end),
   level |-> f.level + 1, bit_path |-> f.bit_path * 4 + d]
nonempty(f, d) == rank_in(f.level, d, f.end) > rank_in(f.level, d, f.start)
kept(f, d) == IF ~too_small(f, d) /\ nonempty(f, d) THEN <<child_frame(f, d)>> ELSE <<>>
children(f) == kept(f, 0) \o kept(f, 1) \o kept(f, 2) \o kept(f, 3)

\* RangeDistinctIter: descend in place while there is one child.  Mutant: take
\* the first of several.
unary_mutant(frames) == Len(frames) >= 1
unary(frames) == Len(frames) = 1

collapse(f) ==
  LET down[g \in Frames] ==
        LET below == IF g.level < n_levels THEN children(g) ELSE <<>>
        IN IF unary(below) THEN down[below[1]] ELSE g
  IN IF walk_of.kind = "distinct" THEN down[f] ELSE f

\* Children are pushed in reverse, so that the smallest is on top.  Mutant: in
\* digit order.
pushed_mutant(frames) == frames
pushed(frames) == Reverse(frames)

\* The stack below its top.  Mutant: the frame stays.
popped_mutant == stack
popped == Front(stack)

Pop ==
  /\ state = "open" /\ stack # <<>> /\ walk_of.kind # "values"
  /\ \E f \in {collapse(Last(stack))} :
       LET leaf == f.level = n_levels
           hit == walk_of.kind # "next" \/ f.bit_path >= walk_of.target
       IN /\ stack' = IF leaf THEN popped ELSE popped \o pushed(children(f))
          /\ yielded' = IF leaf /\ hit
                          THEN Append(yielded, <<f.bit_path, f.end - f.start>>)
                          ELSE yielded
          /\ state' = IF leaf /\ hit /\ walk_of.kind = "next" THEN "done" ELSE "open"
  /\ UNCHANGED <<walk_of, vars>>

\* WTIterator's next and next_back, as long as i < end: the row comes off its end
\* of the frame and get_unchecked reads it.
TakeFront ==
  /\ state = "open" /\ walk_of.kind = "values" /\ Last(stack).start < Last(stack).end
  /\ stack' = [stack EXCEPT ![1].start = @ + 1]
  /\ yielded' = Append(yielded, <<get(Last(stack').start - 1), 1>>)
  /\ UNCHANGED <<walk_of, state, vars>>

TakeBack ==
  /\ state = "open" /\ walk_of.kind = "values" /\ Last(stack).start < Last(stack).end
  /\ stack' = [stack EXCEPT ![1].end = @ - 1]
  /\ yielded' = Append(yielded, <<get(Last(stack').end), 1>>)
  /\ UNCHANGED <<walk_of, state, vars>>

\* The stack is empty, or the two ends of a WTIterator have met: None.
Exhausted ==
  /\ state = "open"
  /\ \A k \in 1..Len(stack) : stack[k].start = stack[k].end
  /\ state' = "done"
  /\ UNCHANGED <<walk_of, stack, yielded, vars>>

NextIter ==
  \/ Start /\ UNCHANGED iterVars
  \/ Level /\ UNCHANGED iterVars
  \/ FromParts /\ UNCHANGED iterVars
  \/ Open
  \/ Pop
  \/ TakeFront
  \/ TakeBack
  \/ Exhausted

SpecIter == InitIter /\ [][NextIter]_<<vars, iterVars>>

------------------------------------------------------------------------------
(* Properties.                                                             *)

\* A fixed stack is never overrun: below the top at most three siblings wait at
\* each level, and not the root, however the digits are spread, which makes
\* 3 * n_levels + 1 frames.
StackBounded ==
  \A l \in 0..n_levels :
    Cardinality({k \in 1..(Len(stack) - 1) : stack[k].level = l}) <= IF l = 0 THEN 0 ELSE 3

InRange == {indexed[p] : p \in walk_of.start..(MinOf(walk_of.end, n) - 1)}

\* "Guaranteed to iterate in lexicographic symbol order": what has been yielded
\* is the smallest symbols of the range, in order, each once and with the number
\* of rows it has there; all of them when the walk is over.
YieldsInOrder ==
  walk_of.kind \in {"occs", "distinct"} =>
    LET symbols == {yielded[k][1] : k \in 1..Len(yielded)} IN
    /\ \A k \in 1..(Len(yielded) - 1) : yielded[k][1] < yielded[k + 1][1]
    /\ \A k \in 1..Len(yielded) :
         yielded[k][2] = Occs(yielded[k][1], walk_of.start, walk_of.end)
    /\ symbols \subseteq InRange
    /\ state = "done" /\ walk_of.end <= n => symbols = InRange
    /\ \A x \in InRange \ symbols, y \in symbols : y < x

RowsIn(seq, rows(_)) == MapThenSumSet(LAMBDA k : rows(seq[k]), DOMAIN seq)

\* The stack holds exactly the rows that have not been yielded: no row is lost
\* or visited twice between two calls of next() or next_back(), so the symbols
\* that are there all come out; and what WTIterator has yielded from its two ends
\* is the symbols of the rows outside [i, end), however the calls alternate.
NoRowLost ==
  walk_of.kind # "next" /\ state \in {"open", "done"} /\ walk_of.start <= walk_of.end
    /\ walk_of.end <= n =>
      LET waiting == RowsIn(stack, LAMBDA f : f.end - f.start)
          out(s) == Cardinality({k \in 1..Len(yielded) : yielded[k][1] = s})
      IN /\ waiting + RowsIn(yielded, LAMBDA y : y[2]) = walk_of.end - walk_of.start
         /\ walk_of.kind = "values" => \A s \in Symbols :
              out(s) + Occs(s, Last(stack).start, Last(stack).end) = Occs(s, 0, n)

\* range_next_value returns the smallest symbol of the range that is >= target,
\* or None.
NextValueExact ==
  walk_of.kind = "next" /\ state = "done" =>
    LET above == {x \in InRange : x >= walk_of.target} IN
    IF walk_of.start < walk_of.end /\ walk_of.end <= n /\ above # {}
      THEN Len(yielded) = 1 /\ yielded[1][1] = Min(above)
      ELSE yielded = <<>>
==============================================================================
