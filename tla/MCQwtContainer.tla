--------------------------- MODULE MCQwtContainer ----------------------------
(* QwtContainer for TLC: see MCQwtContainer.cfg.                             *)
EXTENDS QwtContainer
==============================================================================
