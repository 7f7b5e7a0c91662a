-------------------------- MODULE MCHuffQWaveletTree -------------------------
(* Instances of HuffQWaveletTree for TLC.                                   *)
EXTENDS HuffQWaveletTree

\* A sequence as the function on 0..n-1 the module uses.
FromZero(seq) == [p \in 0..(Len(seq) - 1) |-> seq[p + 1]]

\* Eight symbols with codes of up to three digits, with and without ties, and
\* eleven with codes of up to four.
MCSkewed == {FromZero(seq) : seq \in {
  <<5, 0, 6, 1, 7, 2, 5, 3, 6, 4, 7>>,
  <<0, 1, 7, 0, 2, 6, 1, 3, 7, 0, 4, 1, 7, 5, 0>>,
  <<0, 1, 2, 3, 0, 4, 1, 5, 2, 6, 0, 7, 1, 8, 2, 9, 0, 10, 1, 2, 3, 4, 0, 1, 2, 5>>}}

\* Trees that are stored: none, one and two levels, and a symbol that is absent.
MCStored == {FromZero(seq) : seq \in {<<>>, <<1, 0, 1>>, <<4, 0, 2, 1, 6>>}}
==============================================================================
