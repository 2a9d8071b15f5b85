---------------------------- MODULE MCMiningQueue ----------------------------
(* MiningQueue for TLC: rows and workers are interchangeable.              *)
EXTENDS MiningQueue, TLC

CONSTANTS r1, r2, w1, w2

Symmetry == Permutations(Rows) \cup Permutations(Workers)
=============================================================================
