------------------------------ MODULE MCDArray -------------------------------
(* DArray for TLC: see MCDArray.cfg, MCDArrayMixed.cfg, MCDArraySetBits.cfg. *)
EXTENDS DArray
==============================================================================
