------------------------------- MODULE MCPmm -------------------------------
(* Instances of Pmm for TLC: the sets of cores are model values.           *)
EXTENDS Pmm, TLC

CoreSymmetry == Permutations(Cores)
=============================================================================
