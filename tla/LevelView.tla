------------------------------ MODULE LevelView ------------------------------
(***************************************************************************)
(* A level from construction to a zero-copy view: RSSupportPlain builds    *)
(* its tables, the level part of to_bytes_generic (bytes/qwtb.rs) stores   *)
(* directory entry and payloads, the stored level may be altered one field *)
(* or digit at a time, and RSQVectorView opens it or refuses.              *)
(***************************************************************************)
EXTENDS RSSupportPlain, RSQVectorView, SequencesExt

CONSTANTS
  MaxStored,   \* bound: longest level that is stored
  MaxAltered   \* bound: alterations of a stored level

ASSUME StoredAssumption == MaxStored \in Nat /\ MaxAltered \in Nat

VARIABLES
  file,     \* the stored level, or Nothing
  altered,  \* how often it was altered
  view      \* "none", "open" or "refused"

levelVars == <<file, altered, view>>

Nothing == [none |-> TRUE]

InitView == Init /\ file = Nothing /\ altered = 0 /\ view = "none"

------------------------------------------------------------------------------
(* The stored level.                                                       *)

\* The level part of to_bytes_generic: directory entry and payloads.
stored_level ==
  [aligned |-> TRUE, in_bounds |-> TRUE, position_bits |-> 2 * len,
   data |-> support.data, superblocks |-> support.superblocks,
   select_samples |-> support.select_samples,
   n_occs_smaller |-> support.n_occs_smaller]

Store ==
  /\ pc = "done" /\ file = Nothing /\ len <= MaxStored
  /\ file' = stored_level
  /\ UNCHANGED <<altered, view, vars>>

\* A neighbour of a number that can be stored.
Near(x) == {y \in {x - 1, x + 1} : y >= 0}

\* g differs from f in the directory entry, in a digit or a pair of digits, in a
\* rank counter or the number of superblocks, or in the select samples.
AlteredEntry(f, g) ==
  \/ g = [f EXCEPT !.aligned = FALSE]
  \/ g = [f EXCEPT !.in_bounds = FALSE]
  \/ \E y \in (f.position_bits - 2)..(f.position_bits + 2) :
       y >= 0 /\ g = [f EXCEPT !.position_bits = y]
  \/ \E c \in 0..4 : \E y \in Near(f.n_occs_smaller[c]) :
       g = [f EXCEPT !.n_occs_smaller[c] = y]
AlteredDigits(f, g) ==
  \E p \in DOMAIN f.data :
    \/ \E d \in Symbols : g = [f EXCEPT !.data[p] = d]
    \/ \E q \in DOMAIN f.data :
         g = [f EXCEPT !.data[p] = f.data[q], !.data[q] = f.data[p]]
AlteredRanks(f, g) ==
  \/ \E k \in DOMAIN f.superblocks, s \in Quads :
       \/ \E y \in Near(f.superblocks[k].counter[s]) :
            g = [f EXCEPT !.superblocks[k].counter[s] = y]
       \/ \E j \in 1..(BLOCKS_IN_SUPERBLOCK - 1) :
            \E y \in Near(f.superblocks[k].block[j][s]) :
              g = [f EXCEPT !.superblocks[k].block[j][s] = y]
  \/ \E k \in 0..(Len(f.superblocks) - 1) :
       g = [f EXCEPT !.superblocks = SubSeq(f.superblocks, 1, k)]
AlteredSamples(f, g) ==
  \E s \in Quads :
    \/ \E k \in DOMAIN f.select_samples[s] : \E y \in Near(f.select_samples[s][k]) :
         g = [f EXCEPT !.select_samples[s][k] = y]
    \/ /\ f.select_samples[s] # <<>>
       /\ \/ g = [f EXCEPT !.select_samples[s] = Tail(f.select_samples[s])]
          \/ g = [f EXCEPT !.select_samples[s] = Append(@, Last(@))]

\* Something happens to the stored level.
Alter ==
  /\ file # Nothing /\ view = "none" /\ altered < MaxAltered
  /\ \/ AlteredEntry(file, file') \/ AlteredDigits(file, file')
     \/ AlteredRanks(file, file') \/ AlteredSamples(file, file')
  /\ file' # file
  /\ altered' = altered + 1
  /\ UNCHANGED <<view, vars>>

------------------------------------------------------------------------------
(* Opening it, for the block size it was built with.                       *)

FromDir ==
  /\ file # Nothing /\ view = "none"
  /\ view' = IF from_dir(file, b_size) THEN "open" ELSE "refused"
  /\ UNCHANGED <<file, altered, vars>>

NextView ==
  \/ Next /\ UNCHANGED levelVars
  \/ Store
  \/ Alter
  \/ FromDir

SpecView == InitView /\ [][NextView]_<<vars, levelVars>>

------------------------------------------------------------------------------
(* Properties.                                                             *)

Opened == read_level(file, b_size)

\* from_dir accepts every level as RSSupportPlain builds it, of either block size
\* and any length: with no symbols of a kind, on a boundary, and with the counters
\* after its end untouched.
StoredIsAccepted == altered = 0 => view # "refused"

\* An open view answers get, rank, rank_all and select as its digits determine,
\* whatever has happened to the stored level: what from_dir does not look at
\* (digits and counters past the end) cannot lead a query astray.
AcceptedIsExact ==
  view = "open" =>
    LET r == Opened
        v == [p \in 0..(r.len - 1) |-> file.data[p]]
    IN /\ \A x \in 0..r.len :
            /\ view_get(r, x) = IF x < r.len THEN v[x] ELSE None
            /\ \A s \in Quads : view_rank(r, s, x) = Count(v, s, x)
            /\ view_rank_all(r, x) = [s \in Quads |-> Count(v, s, x)]
       /\ \A s \in Quads, k \in 0..r.len : view_select(r, s, k) = SelectIn(v, r.len, s, k)

\* select_after(symbol, position, a) from the (k+1)-th occurrence is the one that
\* select finds at k + a, or None: a cursor may use either.
SelectAfterIsSelect ==
  view = "open" =>
    LET r == Opened
        v == [p \in 0..(r.len - 1) |-> file.data[p]]
    IN \A p \in 0..(r.len - 1), a \in 1..r.len :
         select_after(r, v[p], p, a) = SelectIn(v, r.len, v[p], Count(v, v[p], p) + a)
==============================================================================
