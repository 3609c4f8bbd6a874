----------------------------- MODULE MCMkServer -----------------------------
(* Two workers of capacity two, both modes, five connections.              *)
EXTENDS MkServer
=============================================================================
