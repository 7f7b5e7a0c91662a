----------------------------- MODULE MCLevelView -----------------------------
(* LevelView for TLC: see MCLevelView.cfg.                                   *)
EXTENDS LevelView
==============================================================================
