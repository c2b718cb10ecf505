-------------------------------- MODULE Heap --------------------------------
(***************************************************************************)
(* The heap over the regions of virtual memory it takes its pages from:    *)
(* liballoc_alloc and liballoc_free of liballoc_genoa.c call vma_alloc and *)
(* vma_free, and this module joins the steps of Liballoc and Vma.          *)
(***************************************************************************)
EXTENDS Liballoc

CONSTANTS
  FrameCount,     \* pages the physical memory manager has
  MaxPage         \* bound: virtual pages are 0 .. MaxPage

VARIABLES pool, region, context, context_page, root, mapping,
          regions         \* what vma_alloc has given to the heap

vma == <<pool, region, context, context_page, root, mapping, regions>>

Regions == INSTANCE Vma WITH
  owned <- regions,
  Sizes <- {PageCount},
  Order <- "any",
  Shortage <- "none"

HeapInit == Init /\ Regions!Init

\* The address the next region gets.
NextRegion ==
  Regions!EndOf(Regions!FirstIn({r \in Regions!Listed : Regions!HasRoom(r)}))

\* What the step of the heap asks of the regions.
liballoc_alloc(a) == Regions!vma_alloc(major'[a].pages)
liballoc_free(a) ==
  \E k \in DOMAIN regions : regions[k].ptr = a /\ Regions!vma_free(k)

Follows ==
  LET taken == DOMAIN major' \ DOMAIN major
      given == DOMAIN major \ DOMAIN major'
  IN  /\ \A a \in taken : liballoc_alloc(a)
      /\ \A a \in given : liballoc_free(a)
      /\ taken \cup given = {} => UNCHANGED vma

\* vma_create_context comes before the first use of the heap.
CreateContext == Regions!Create /\ UNCHANGED vars

HeapStep ==
  /\ context = "live"
  /\ \E c \in Cores : \E new \in {NULL, NextRegion} : Step(c, new)
  /\ Follows

HeapNext == CreateContext \/ HeapStep

HeapSpec == HeapInit /\ [][HeapNext]_<<vars, vma>>

\* "Resource allocated %x of %i pages": the pages of a run are the run's own.
RunsApart ==
  \A a, b \in DOMAIN major :
    a # b => a + major[a].size <= b \/ b + major[b].size <= a
=============================================================================
