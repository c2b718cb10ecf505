----------------------------- MODULE MCPmmBoot -----------------------------
(* Instances of VmmBoot, and with it of PmmBoot, for TLC: every sorted and *)
(* disjoint map of at most MaxEntries entries within MaxPages pages, with  *)
(* the entry of the kernel put in at one of a few places.  As the boot     *)
(* loader does, page 0 is never reported as usable.                        *)
EXTENDS VmmBoot

CONSTANTS MaxPages, MaxEntries, Places

Entries == {e \in [base : 0 .. MaxPages - 1, length : 1 .. MaxPages,
                   usable : BOOLEAN] :
              /\ e.base + e.length <= MaxPages
              /\ e.usable => e.base # 0}

Follows(e, f) == e.base + e.length <= f.base

OtherEntries == UNION {{m \in [1 .. n -> Entries] :
                          \A k \in 1 .. n - 1 : Follows(m[k], m[k + 1])} :
                       n \in 0 .. MaxEntries}

\* m with the kernel at page p and what is behind it moved up.
KernelEntry(p) == [base |-> p, length |-> ImageLength + Stack, usable |-> FALSE]
WithKernelAt(m, p) ==
  SelectSeq(m, LAMBDA e : e.base < p)
  \o << KernelEntry(p) >>
  \o LET after == SelectSeq(m, LAMBDA e : e.base >= p)
     IN  [k \in DOMAIN after |-> [after[k] EXCEPT !.base = @ + ImageLength + Stack]]

MCMaps == UNION {{WithKernelAt(m, p) :
                    m \in {m \in OtherEntries :
                             \A k \in DOMAIN m : m[k].base >= p \/ m[k].base + m[k].length <= p}} :
                 p \in Places}
=============================================================================
