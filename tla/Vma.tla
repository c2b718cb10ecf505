-------------------------------- MODULE Vma --------------------------------
(***************************************************************************)
(* The regions of virtual memory of src/mm/vma.c: a doubly linked list of  *)
(* regions, each in a page of its own, and the pages mapped for them.      *)
(*                                                                         *)
(* All pages come from the physical memory manager, which returns single   *)
(* pages last in, first out (Pmm), and are mapped in the one page map that *)
(* the kernel has (Vmm).  A call is one step: nothing runs concurrently    *)
(* with it, and nothing in it can be seen half done.                       *)
(***************************************************************************)
EXTENDS Integers, Sequences, FiniteSets, SequencesExt

CONSTANTS
  FrameCount,     \* pages the allocator has, numbered from 1
  PageSize,       \* PAGE_SIZE
  Sizes,          \* numbers of pages that callers ask for
  MaxPage,        \* bound: virtual pages are 0 .. MaxPage
  Order,          \* "lifo" if callers free the latest allocation first
  Shortage        \* which requests for pages may fail: "none", those for
                  \* what is to be mapped ("data"), or those for regions, too

ASSUME VmaAssumption ==
  /\ FrameCount \in Nat /\ MaxPage \in Nat
  /\ PageSize \in Nat \ {0}
  /\ Sizes \subseteq Nat \ {0}
  /\ Order \in {"lifo", "any"}
  /\ Shortage \in {"none", "data", "any"}

VARIABLES
  pool,           \* pages of the allocator, the next one last
  region,         \* page -> the region it holds, or held
  context,        \* where the context is in its life
  context_page,
  root,           \* ctx->root
  mapping,        \* virtual page -> page, 0 if not mapped
  owned           \* what callers have: pointers with sizes, the latest last

vars == <<pool, region, context, context_page, root, mapping, owned>>

\* A region is named by its page.  Pointers to regions are higher-half
\* addresses, so a region in page 0, where a failed request ends up, is not
\* NULL.
NULL == -1
NoPage == 0
Frames == 1 .. FrameCount
VMA_MIN_ADDRESS == PageSize

Blank == [start |-> 0, pages |-> 0, next |-> NULL, prev |-> NULL]

PageOf(address) == address \div PageSize

\* The memory of a machine that has just been switched on is zero.  (The root
\* region relies on it: its links are never written.)
Init ==
  /\ pool = [k \in 1 .. FrameCount |-> FrameCount - k + 1]
  /\ region = [f \in Frames \cup {NoPage} |-> Blank]
  /\ context = "none" /\ context_page = NoPage
  /\ root = NULL
  /\ mapping = [p \in 0 .. MaxPage |-> NoPage]
  /\ owned = <<>>

\* The members of pages that are in S, in the same order.
Kept(pages, S) ==
  LET kept[i \in 0 .. Len(pages)] ==
        IF i = 0 THEN <<>>
        ELSE IF pages[i] \in S THEN Append(kept[i - 1], pages[i]) ELSE kept[i - 1]
  IN  kept[Len(pages)]

\* pmm_request_page
TopOf(stack) == IF stack = <<>> THEN NoPage ELSE Last(stack)
Pop(stack) == IF stack = <<>> THEN stack ELSE Front(stack)

\* The list: its k-th region, NULL beyond its end.  A list that has no end
\* repeats itself within as many steps as there are pages.
Nth[k \in 0 .. FrameCount + 2] ==
  IF k = 0 THEN root
  ELSE IF Nth[k - 1] = NULL THEN NULL ELSE region[Nth[k - 1]].next

Listed == {Nth[k] : k \in DOMAIN Nth} \ {NULL}
Ends == \E k \in DOMAIN Nth : Nth[k] = NULL

\* The first region of the list in S, at least one of which is listed.
FirstIn(S) ==
  Nth[CHOOSE k \in DOMAIN Nth : /\ Nth[k] \in S
                                /\ \A j \in 0 .. k - 1 : Nth[j] \notin S]

-----------------------------------------------------------------------------

\* vma_create_context
Create ==
  /\ context = "none" /\ Len(pool) >= 2
  /\ context_page' = Last(pool)
  /\ root' = Last(Front(pool))
  /\ pool' = Front(Front(pool))
  /\ region' = [region EXCEPT ![root'].start = VMA_MIN_ADDRESS,
                              ![root'].pages = 0]
  /\ context' = "live"
  /\ UNCHANGED <<mapping, owned>>

\* The regions in the order of the list, then the context.
ReleasedByDestroy ==
  [k \in 1 .. Cardinality(Listed) |-> Nth[k - 1]] \o <<context_page>>

\* vma_destroy_context: the pages that are mapped are neither unmapped nor
\* released.
Destroy ==
  /\ context = "live" /\ Ends
  /\ pool' = pool \o Kept(ReleasedByDestroy, Frames)
  /\ context' = "destroyed"
  /\ root' = NULL
  /\ owned' = <<>>
  /\ UNCHANGED <<region, context_page, mapping>>

-----------------------------------------------------------------------------
(* vma_alloc *)

EndOf(r) == region[r].start + region[r].pages

HasRoom(r) ==
  region[r].next = NULL \/ EndOf(r) < region[region[r].next].start

\* Mutant: the new region does not know what is in front of it.
LinkedForwardOnly(after, r, pages) ==
  [region EXCEPT ![r] = [start |-> EndOf(after), pages |-> pages,
                         next |-> region[after].next, prev |-> NULL],
                 ![after].next = r]

\* Mutant: the list is not told about the new region.
LinkedBackwardOnly(after, r, pages) ==
  [region EXCEPT ![r] = [start |-> EndOf(after), pages |-> pages,
                         next |-> region[after].next, prev |-> after]]

\* The new region r, in its cleared page, behind a region of the list.
Linked(after, r, pages) ==
  LET cleared == [region EXCEPT ![r] = [Blank EXCEPT !.pages = pages]] IN
  [[cleared EXCEPT
      ![r].start = cleared[after].start + cleared[after].pages,
      ![r].next = cleared[after].next,
      ![r].prev = after]
    EXCEPT ![after].next = r]

\* The least number of pages that a call may find.
LeastPool(pages) == CASE Shortage = "none" -> pages + 1
                      [] Shortage = "data" -> 1
                      [] Shortage = "any"  -> 0

\* Pages are requested and mapped one by one; without a page the call returns
\* NULL, and the region stays with the pages it has got.
vma_alloc(pages) ==
  LET r      == TopOf(pool)
      left   == Pop(pool)
      count  == IF Len(left) < pages THEN Len(left) ELSE pages
      after  == FirstIn({q \in Listed : HasRoom(q)})
      new    == Linked(after, r, pages)
      PageAt(i) == PageOf(new[r].start + i * PageSize)
  IN
  /\ context = "live"
  /\ Len(pool) >= LeastPool(pages)
  /\ {q \in Listed : HasRoom(q)} # {}
  /\ PageOf(EndOf(after) + pages * PageSize) <= MaxPage
  /\ region' = new
  /\ mapping' = [p \in DOMAIN mapping |->
                   IF \E i \in 0 .. count - 1 : p = PageAt(i)
                     THEN left[Len(left) - (p - PageAt(0))]
                     ELSE mapping[p]]
  /\ pool' = SubSeq(left, 1, Len(left) - count)
  /\ owned' = IF count = pages
                THEN Append(owned, [ptr |-> new[r].start, pages |-> pages])
                ELSE owned
  /\ UNCHANGED <<context, context_page, root>>

-----------------------------------------------------------------------------
(* vma_free *)

Backing(r) ==
  LET pages == [i \in 1 .. region[r].pages |->
                  PageOf(region[r].start + (i - 1) * PageSize)]
  IN  Kept(pages, {p \in DOMAIN mapping : mapping[p] # NoPage})

Unlinked(r) ==
  LET prev == region[r].prev
      next == region[r].next
      forward == IF prev = NULL THEN region
                                ELSE [region EXCEPT ![prev].next = next]
  IN  IF next = NULL THEN forward ELSE [forward EXCEPT ![next].prev = prev]

\* Mutant: the pages are released, and stay mapped.
UnmapNothing(pages) == mapping

Unmap(pages) == [p \in DOMAIN mapping |-> IF p \in ToSet(pages)
                                            THEN NoPage ELSE mapping[p]]

Free(r) ==
  LET pages == Backing(r) IN
  /\ region' = Unlinked(r)
  /\ root' = IF r = root THEN region[r].next ELSE root
  /\ mapping' = Unmap(pages)
  /\ pool' = pool \o [i \in DOMAIN pages |-> mapping[pages[i]]]
                  \o (IF r = NoPage THEN <<>> ELSE <<r>>)

\* A caller frees something it owns; the region that the list has first under
\* that address goes.
vma_free(k) ==
  LET Matches == {r \in Listed : region[r].start = owned[k].ptr} IN
  /\ context = "live" /\ Ends
  /\ Order = "lifo" => k = Len(owned)
  /\ owned' = RemoveAt(owned, k)
  /\ IF Matches = {} THEN UNCHANGED <<region, root, mapping, pool>>
                     ELSE Free(FirstIn(Matches))
  /\ UNCHANGED <<context, context_page>>

Next ==
  \/ Create \/ Destroy
  \/ \E pages \in Sizes : vma_alloc(pages)
  \/ \E k \in 1 .. Len(owned) : vma_free(k)

Spec == Init /\ [][Next]_vars

-----------------------------------------------------------------------------
(* Properties *)

\* Pages are in the pool at most once, regions link to regions, and pointers
\* are addresses.
TypeOK ==
  /\ pool \in Seq(Frames) /\ IsInjective(pool)
  /\ region \in [Frames \cup {NoPage} ->
                  [start : Nat, pages : Nat,
                   next : Frames \cup {NoPage, NULL},
                   prev : Frames \cup {NoPage, NULL}]]
  /\ context \in {"none", "live", "destroyed"}
  /\ root \in Frames \cup {NULL}
  /\ mapping \in [0 .. MaxPage -> Frames \cup {NoPage}]
  /\ owned \in Seq([ptr : Nat, pages : Nat])

Mapped == {mapping[p] : p \in DOMAIN mapping} \ {NoPage}

\* A physical page has one use: it is free, it holds a region of the list, or
\* it is mapped, and then at one virtual page.
PagesHaveOneUse ==
  /\ TypeOK
  /\ ToSet(pool) \cap (Listed \cup Mapped) = {}
  /\ Listed \cap Mapped = {}
  /\ \A p, q \in DOMAIN mapping :
       mapping[p] = mapping[q] /\ mapping[p] # NoPage => p = q

\* Wherever a caller owns the region, freeing it unlinks it from both
\* neighbours: its prev leads to the region in front of it.  (What a failed
\* call has left behind need not have that link.)
OwnedIsLinked ==
  /\ Ends
  /\ \A r \in Listed :
       LET next == region[r].next IN
       next # NULL /\ (\E k \in DOMAIN owned : region[next].start = owned[k].ptr)
         => region[next].prev = r

\* vma_free takes away what is freed, also among regions that overlap and that
\* failed calls have left: its first page is mapped no more.  Only the first
\* allocation is not: it has the address of the empty root region, which is
\* freed in its place (main.c allocates a page and frees it, just that case).
FreedIsUnmapped ==
  [][\A k \in 1 .. Len(owned) :
       /\ context' = "live" /\ owned' = RemoveAt(owned, k)
       /\ \A r \in Listed : r = root => region[r].start # owned[k].ptr
       => mapping'[PageOf(owned[k].ptr)] = NoPage]_vars
=============================================================================
