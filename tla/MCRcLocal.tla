----------------------------- MODULE MCRcLocal ------------------------------
(* Instance of RcLocal for TLC: three calls of startup() on a file of two lines. *)
EXTENDS RcLocal, TLC

Symmetry == Permutations(Calls)
=============================================================================
