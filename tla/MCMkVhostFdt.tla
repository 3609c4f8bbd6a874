---------------------------- MODULE MCMkVhostFdt ----------------------------
(* MkVhostFdt on four files for TLC: three fall into one hash table of two *)
(* slots, and the fourth has the hash of the first under another host.     *)
EXTENDS MkVhostFdt, TLC

CONSTANTS f1, f2, f3, f4, h1, h2

MCHost == (f1 :> h1) @@ (f2 :> h1) @@ (f3 :> h1) @@ (f4 :> h2)
MCHash == (f1 :> 1) @@ (f2 :> 3) @@ (f3 :> 5) @@ (f4 :> 1)

ReqSymmetry == Permutations(Reqs)
=============================================================================
