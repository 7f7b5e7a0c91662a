------------------------------ MODULE QuadLevel ------------------------------
(***************************************************************************)
(* What a level of a wavelet tree promises: the answers of AccessQuad,     *)
(* RankQuad, SelectQuad and WTSupport (lib.rs) as functions of the digits  *)
(* alone.  A level is a function v on 0..n-1 with values in Quads.  The    *)
(* indexed levels are held to these answers, and the trees are built on    *)
(* them.                                                                   *)
(***************************************************************************)
EXTENDS Integers, FiniteSets, FiniteSetsExt

Quads == 0..3
None == -1     \* Option::None, and a failed bounds check

MinOf(a, b) == IF a < b THEN a ELSE b

\* rank(s, i): occurrences of s in the first i digits of v.
Count(v, s, i) == Cardinality({j \in 0..(i - 1) : v[j] = s})

\* The positions of s in v[0..n-1] before which s occurs k times: none or one.
Selected(v, n, s, k) == {p \in 0..(n - 1) : v[p] = s /\ Count(v, s, p) = k}

\* select(s, k).
SelectIn(v, n, s, k) ==
  LET at == Selected(v, n, s, k) IN IF at = {} THEN None ELSE Min(at)

\* occs_smaller(s): digits smaller than s in the whole level.
Smaller(v, n, s) == Cardinality({j \in 0..(n - 1) : v[j] < s})
==============================================================================
