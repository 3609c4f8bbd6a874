----------------------------- MODULE MCMkWorker -----------------------------
(* MkWorker on a few connections, for TLC.                                 *)
EXTENDS MkWorker, TLC

ConnSymmetry == Permutations(Conns)
=============================================================================
