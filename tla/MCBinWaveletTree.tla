--------------------------- MODULE MCBinWaveletTree --------------------------
(* BinWaveletTree for TLC: MCBinWaveletTree.cfg, and for the panic on a     *)
(* constant sequence MCBinWaveletTreeConstant.cfg.                          *)
EXTENDS BinWaveletTree
==============================================================================
