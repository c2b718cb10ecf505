--------------------------- MODULE AddressSpaces ---------------------------
(***************************************************************************)
(* What the virtual memory manager promises: an address space is a map     *)
(* from pages to physical pages, and all spaces have the kernel's half in  *)
(* common.  There are no tables here.                                      *)
(***************************************************************************)
EXTENDS Functions

CONSTANTS
  KernelSpace,    \* the space that exists from the start
  KernelVirt,     \* pages of the half that all spaces share
  UserVirt,       \* pages of the half that is a space's own
  Names,          \* names of spaces
  Targets,        \* what a page may map to
  Unmapped        \* what an unmapped page maps to

VARIABLE mapping  \* space -> page -> target

Virtual == KernelVirt \cup UserVirt
Spaces == DOMAIN mapping

Init == mapping = [s \in {KernelSpace} |-> [v \in Virtual |-> Unmapped]]

\* A page of the kernel's half changes in every space.
Set(s, v, target) ==
  /\ s \in Spaces
  /\ mapping' = [t \in Spaces |->
                   IF t = s \/ v \in KernelVirt
                     THEN [mapping[t] EXCEPT ![v] = target]
                     ELSE mapping[t]]

Create(s) ==
  /\ s \notin Spaces
  /\ mapping' = [t \in Spaces \cup {s} |->
                   IF t \in Spaces
                     THEN mapping[t]
                     ELSE [v \in Virtual |-> IF v \in KernelVirt
                                               THEN mapping[KernelSpace][v]
                                               ELSE Unmapped]]

Destroy(s) ==
  /\ s \in Spaces \ {KernelSpace}
  /\ mapping' = Restrict(mapping, Spaces \ {s})

Next ==
  \/ \E s \in Spaces, v \in Virtual, target \in Targets \cup {Unmapped} :
       Set(s, v, target)
  \/ \E s \in Names : Create(s) \/ Destroy(s)

Spec == Init /\ [][Next]_mapping

=============================================================================
