------------------------------- MODULE MCVmm -------------------------------
(* Instances of Vmm for TLC: virtual pages that share some of their tables. *)
EXTENDS Vmm, TLC

CoreSymmetry == Permutations(Cores)

Page1     == <<0, 0, 0, 0>>
Kernel1   == <<1, 0, 0, 0>>
Neighbour == <<1, 0, 0, 1>>     \* in the same table as Kernel1

NoPages == {}
CachedPage == {Kernel1}
KernelPages == {Kernel1, Neighbour}
BothHalves == {Page1, Kernel1}
=============================================================================
