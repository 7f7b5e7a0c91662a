--------------------------- MODULE MCLevelEncoder ----------------------------
(* LevelEncoder for TLC: see MCLevelEncoder.cfg.                             *)
EXTENDS LevelEncoder
==============================================================================
