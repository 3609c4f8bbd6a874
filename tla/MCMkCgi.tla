------------------------------ MODULE MCMkCgi ------------------------------
(* MkCgi for TLC: a program with a status line and one with too many       *)
(* headers for in_buf.                                                     *)
EXTENDS MkCgi

MCScript == <<<<"S", "n", "H", "B", "D">>,
              [k \in 1..7 |-> IF k < 7 THEN "H" ELSE "B"]>>

WorkerSymmetry == Permutations(Workers)
=============================================================================
