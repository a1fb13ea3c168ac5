----------------------------- MODULE MCJsonHeap -----------------------------
(* Instances of JsonHeap for TLC. *)
EXTENDS JsonHeap, TLC

Symmetry == Permutations(Values) \cup Permutations(Names)
=============================================================================
