----------------------------- MODULE MCRangeIter -----------------------------
(* RangeIter for TLC: symbols as wide as usize, MCRangeIterWide.cfg.         *)
EXTENDS RangeIter
==============================================================================
