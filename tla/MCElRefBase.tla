----------------------------- MODULE MCElRefBase -----------------------------
(* ElRefBase with a few references, for TLC.                               *)
EXTENDS ElRefBase, TLC

RefSymmetry == Permutations(Refs)
=============================================================================
