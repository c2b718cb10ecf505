----------------------------- MODULE MCLiballoc -----------------------------
(* Instances of Liballoc for TLC. *)
EXTENDS Liballoc, TLC

CoreSymmetry == Permutations(Cores)
=============================================================================
