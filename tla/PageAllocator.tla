--------------------------- MODULE PageAllocator ---------------------------
(***************************************************************************)
(* What the physical memory manager promises its callers, with no bitmap,  *)
(* cache, counter or lock: every usable page is free, held by a caller, or *)
(* on its way back, never two of these, and a page reaches a caller only   *)
(* from the free pages.                                                    *)
(***************************************************************************)
CONSTANT Usable        \* the pages the allocator manages

VARIABLES free,        \* pages no caller owns
          held,        \* pages some caller owns
          returning    \* pages a caller has given up and that are not free yet

vars == <<free, held, returning>>

Init ==
  /\ free = Usable
  /\ held = {}
  /\ returning = {}

\* A request hands over pages that were free.
Grab(S) ==
  /\ S \subseteq free
  /\ free' = free \ S
  /\ held' = held \cup S
  /\ UNCHANGED returning

\* A caller gives up pages it holds; from here on it may not touch them.
GiveBack(S) ==
  /\ S \subseteq held
  /\ held' = held \ S
  /\ returning' = returning \cup S
  /\ UNCHANGED free

\* The allocator takes given-up pages back, and may hand them out again.
Reclaim(S) ==
  /\ S \subseteq returning
  /\ returning' = returning \ S
  /\ free' = free \cup S
  /\ UNCHANGED held

Next == \E S \in SUBSET Usable : Grab(S) \/ GiveBack(S) \/ Reclaim(S)

Spec == Init /\ [][Next]_vars

=============================================================================
