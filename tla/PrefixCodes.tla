----------------------------- MODULE PrefixCodes -----------------------------
(***************************************************************************)
(* PrefixCode and the two tables that both compressed trees keep (fields   *)
(* codes_encode and codes_decode of quadwt/huffqwt.rs and binwt/mod.rs).   *)
(* codes_encode is a function from symbols to codes [content, len], len =  *)
(* 0 for a symbol without one; codes_decode a function from code lengths   *)
(* to sequences of <<content, symbol>> sorted by content.                  *)
(***************************************************************************)
EXTENDS Integers, Sequences, SequencesExt

NoCode == [content |-> 0, len |-> 0]

\* The elements of S in the order `before`.
Ordered(S, before(_, _)) ==
  [i \in 1..Cardinality(S) |->
     CHOOSE x \in S : Cardinality({y \in S : before(y, x)}) = i - 1]

by_content(a, b) == a[1] < b[1] \/ (a[1] = b[1] /\ a[2] < b[2])

\* The codes of every length, by content.
decode_table(codes, max_len) ==
  [len \in 0..max_len |->
    Ordered({<<codes[s].content, s>> : s \in {x \in DOMAIN codes :
                                                codes[x].len = len /\ len # 0}},
            by_content)]

\* binary_search_by_key in the bucket of a code length: none or one.
decoded(t, len, content) ==
  {e[2] : e \in {x \in Range(t.codes_decode[len]) : x[1] = content}}
has_decode(t, len, content) == len \in DOMAIN t.codes_decode /\ decoded(t, len, content) # {}

has_code(t, symbol) == symbol \in DOMAIN t.codes_encode /\ t.codes_encode[symbol].len # 0

\* A bucket is strictly sorted.
strictly_sorted(entries) ==
  \A x \in 1..(Len(entries) - 1) : entries[x][1] < entries[x + 1][1]

\* The entries of a bucket are the codes of their symbols.
entries_agree(t, len) ==
  \A e \in Range(t.codes_decode[len]) :
    e[2] \in DOMAIN t.codes_encode
      /\ t.codes_encode[e[2]] = [content |-> e[1], len |-> len]
==============================================================================
