------------------------------- MODULE MCVma -------------------------------
(* Vma for TLC: an instance is all constants, and there is nothing to add. *)
EXTENDS Vma
=============================================================================
