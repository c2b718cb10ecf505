-------------------------------- MODULE Vmm --------------------------------
(***************************************************************************)
(* The virtual memory manager of src/mm/vmm.c after vmm_init: page tables  *)
(* of four levels in pages of the physical memory manager, and what the    *)
(* processors have cached of them.                                         *)
(*                                                                         *)
(* A virtual page is the tuple of its four indices (page_index), top level *)
(* first.  vmm_map takes a step per level, since it asks for a page at     *)
(* each of them and nothing locks the tables; the other operations take    *)
(* one.  Callers do not work on the same tables at the same time, as the   *)
(* code demands without saying so (Conflict).                              *)
(***************************************************************************)
EXTENDS Integers, FiniteSets, SequencesExt

CONSTANTS
  Cores,
  Frames,         \* pages that pmm_request_page may return
  Data,           \* physical pages that callers map
  Index,          \* indices of a table
  KernelIndex,    \* indices of a top table that vmm_new_pagemap copies
  KernelTop,      \* those of them that vmm_init has filled in
  Virt,           \* virtual pages that callers map
  Accessed,       \* virtual pages whose translation a core may cache
  Modes,          \* whether callers map pages writable (VMM_WRITE)
  MaxMaps,        \* bound: page maps ever created
  LowestFirst     \* TRUE if the allocator returns the lowest free page

NULL == 0
kernel_pagemap == 1

ASSUME VmmAssumption ==
  /\ Frames \subseteq Nat \ {NULL}
  /\ KernelTop \subseteq KernelIndex /\ KernelIndex \subseteq Index
  /\ Virt \subseteq Index \X Index \X Index \X Index
  /\ Accessed \subseteq Virt
  \* after vmm_init nothing maps a page below a missing kernel entry
  /\ \A v \in Virt : v[1] \in KernelIndex => v[1] \in KernelTop
  /\ LowestFirst \in BOOLEAN /\ Modes \subseteq BOOLEAN
  /\ MaxMaps \in Nat \ {0}
  \* the tables that vmm_init has made
  /\ IsFiniteSet(KernelTop) /\ 1 .. 1 + Cardinality(KernelTop) \subseteq Frames

VARIABLES
  mem,            \* frame -> the table it holds
  free,           \* frames the allocator has
  maps,           \* page maps in use
  created,        \* number of page maps created
  walk,           \* core -> the vmm_map it is executing
  cr3,            \* core -> its page map
  tlb,            \* core -> translations it has cached
  behind          \* history: core -> virtual pages whose entry was written over,
                  \* or taken away by another core, since it dropped them itself

vars == <<mem, free, maps, created, walk, cr3, tlb, behind>>

-----------------------------------------------------------------------------
(* Tables *)

Absent == [present |-> FALSE, to |-> NULL, writable |-> FALSE]
Entry(to, writable) == [present |-> TRUE, to |-> to, writable |-> writable]
EmptyTable == [i \in Index |-> Absent]

Pml4e(pm, v) == mem[pm][v[1]]
Pml3e(pm, v) == mem[Pml4e(pm, v).to][v[2]]
Pml2e(pm, v) == mem[Pml3e(pm, v).to][v[3]]
Pml1e(pm, v) == mem[Pml2e(pm, v).to][v[4]]

HasTables(pm, v) ==
  Pml4e(pm, v).present /\ Pml3e(pm, v).present /\ Pml2e(pm, v).present
IsMapped(pm, v) == HasTables(pm, v) /\ Pml1e(pm, v).present

\* The walk of the processor: every level may forbid writing.
Writable(pm, v) == /\ Pml4e(pm, v).writable /\ Pml3e(pm, v).writable
                   /\ Pml2e(pm, v).writable /\ Pml1e(pm, v).writable

virt_to_phys(pm, v) == IF IsMapped(pm, v) THEN Pml1e(pm, v).to ELSE NULL

KernelVirt == {v \in Virt : v[1] \in KernelIndex}

\* The table of level 3 that vmm_init made for a top entry of the kernel.
InitialTables == 2 .. 1 + Cardinality(KernelTop)

NoWalk == [level |-> 0]
Walks == {NoWalk} \cup
  [level : 1 .. 4, pm : Frames \cup {NULL}, table : Frames \cup {NULL},
   virt : Virt, phys : Data, writable : BOOLEAN]

Init ==
  /\ \E subtable \in Bijection(KernelTop, InitialTables) :
       mem = [f \in Frames \cup {NULL} |->
                IF f = kernel_pagemap
                  THEN [i \in Index |-> IF i \in KernelTop
                                          THEN Entry(subtable[i], TRUE)
                                          ELSE Absent]
                  ELSE EmptyTable]
  /\ free = Frames \ ({kernel_pagemap} \cup InitialTables)
  /\ maps = {kernel_pagemap}
  /\ created = 1
  /\ walk = [c \in Cores |-> NoWalk]
  /\ cr3 = [c \in Cores |-> kernel_pagemap]
  /\ tlb = [c \in Cores |-> {}]
  /\ behind = [c \in Cores |-> {}]

Idle(c) == walk[c] = NoWalk

Walking(c, pm) == ~Idle(c) /\ walk[c].pm = pm

\* Another core is in the middle of a vmm_map on tables that pm and v use.
Conflict(c, pm, v) ==
  \E d \in Cores \ {c} :
    \/ Walking(d, pm)
    \/ v \in KernelVirt /\ ~Idle(d) /\ walk[d].virt \in KernelVirt

\* pmm_request_page, and the NULL that HIGHER_HALF hides from the caller.
Request(f) ==
  /\ IF free = {} THEN f = NULL ELSE f \in free
  /\ LowestFirst => \A g \in free : f <= g
  /\ free' = free \ {f}

\* A core may have cached the entry of v in pm.
MayCache(c, pm, v) == /\ v \in Accessed /\ IsMapped(pm, v)
                      /\ cr3[c] = pm \/ v \in KernelVirt

\* The entry of v goes; the cores in own drop what they have cached of it.
Outdate(pm, v, own) ==
  behind' = [c \in Cores |->
               IF c \in own THEN behind[c] \ {v}
               ELSE behind[c] \cup {u \in {v} : MayCache(c, pm, u)}]

-----------------------------------------------------------------------------
(* vmm_map *)

MapStart(c, pm, v, phys, writable) ==
  /\ Idle(c) /\ pm \in maps /\ ~Conflict(c, pm, v)
  /\ walk' = [walk EXCEPT ![c] =
                [level |-> 1, pm |-> pm, table |-> pm, virt |-> v,
                 phys |-> phys, writable |-> writable]]
  /\ UNCHANGED <<mem, free, maps, created, cr3, tlb, behind>>

Down(c, table) == walk' = [walk EXCEPT ![c].level = @ + 1, ![c].table = table]

\* Mutant: the flags replace those of the entry.
SetFlags(e, writable) == [e EXCEPT !.writable = writable]

AddFlags(e, writable) == [e EXCEPT !.writable = @ \/ writable]

\* get_or_alloc_table, when the table exists: its entry gets the flags added.
Descend(c) ==
  LET w == walk[c] IN
  /\ w.level \in 1 .. 3
  /\ LET i == w.virt[w.level] IN
     /\ mem[w.table][i].present
     /\ mem' = [mem EXCEPT ![w.table][i] = AddFlags(@, w.writable)]
     /\ Down(c, mem[w.table][i].to)
  /\ UNCHANGED <<free, maps, created, cr3, tlb, behind>>

TableEntry(f, writable) == Entry(f, TRUE)       \* 0b111 | flags

\* Mutant: the page is used as it comes.
ClearedNot(f) == mem

Cleared(f) == [mem EXCEPT ![f] = EmptyTable]

\* get_or_alloc_table, when there is none.
Extend(c) ==
  LET w == walk[c] IN
  /\ w.level \in 1 .. 3
  /\ LET i == w.virt[w.level] IN
     /\ ~mem[w.table][i].present
     /\ \E f \in Frames \cup {NULL} :
          /\ Request(f)
          /\ mem' = [Cleared(f) EXCEPT
                       ![w.table][i] = TableEntry(f, w.writable)]
          /\ Down(c, f)
  /\ UNCHANGED <<maps, created, cr3, tlb, behind>>

WriteEntry(c) ==
  LET w == walk[c] IN
  /\ w.level = 4
  /\ mem' = [mem EXCEPT ![w.table][w.virt[4]] = Entry(w.phys, w.writable)]
  /\ walk' = [walk EXCEPT ![c] = NoWalk]
  /\ Outdate(w.pm, w.virt, {})
  /\ UNCHANGED <<free, maps, created, cr3, tlb>>

-----------------------------------------------------------------------------
(* The other operations *)

Of(v) == [virt : {v}, phys : Data, writable : BOOLEAN]

\* Mutant: no invlpg.
InvalidateNothing(c, v) == UNCHANGED tlb

Invalidate(c, v) == tlb' = [tlb EXCEPT ![c] = @ \ Of(v)]

vmm_unmap(c, pm, v) ==
  /\ Idle(c) /\ pm \in maps /\ ~Conflict(c, pm, v)
  /\ HasTables(pm, v)
  /\ mem' = [mem EXCEPT ![Pml2e(pm, v).to][v[4]] = Absent]
  /\ Invalidate(c, v)
  /\ Outdate(pm, v, {c})
  /\ UNCHANGED <<free, maps, created, walk, cr3>>

\* Mutant: the lower half is inherited.
InheritsLower(i) == i \notin KernelIndex

Inherits(i) == i \in KernelIndex

vmm_new_pagemap(c) ==
  /\ Idle(c) /\ created < MaxMaps
  /\ \E f \in Frames \cup {NULL} :
       /\ Request(f)
       /\ mem' = [mem EXCEPT ![f] =
                    [i \in Index |-> IF Inherits(i) THEN mem[kernel_pagemap][i]
                                                    ELSE Absent]]
       /\ maps' = maps \cup {f}
  /\ created' = created + 1
  /\ UNCHANGED <<walk, cr3, tlb, behind>>

\* Mutant: the tables below the top one are freed, too.
FreedSubtables(pm) ==
  {pm} \cup {mem[pm][i].to : i \in {i \in Index : mem[pm][i].present}}

Freed(pm) == {pm} \ {NULL}      \* releasing NULL does nothing

\* A page map may go when no core runs on it or changes it.  The tables below
\* it stay allocated.
vmm_destroy_pagemap(c, pm) ==
  /\ Idle(c)
  /\ pm \in maps \ {kernel_pagemap}
  /\ \A d \in Cores : cr3[d] # pm /\ ~Walking(d, pm)
  /\ maps' = maps \ {pm}
  /\ free' = free \cup Freed(pm)
  /\ UNCHANGED <<mem, created, walk, cr3, tlb, behind>>

\* Writing cr3 drops what is cached; no entry is global.
vmm_switch_pagemap(c, pm) ==
  /\ Idle(c) /\ pm \in maps
  /\ cr3' = [cr3 EXCEPT ![c] = pm]
  /\ tlb' = [tlb EXCEPT ![c] = {}]
  /\ behind' = [behind EXCEPT ![c] = {}]
  /\ UNCHANGED <<mem, free, maps, created, walk>>

\* The processor caches a translation, at any time.
Access(c, v) ==
  /\ IsMapped(cr3[c], v)
  /\ tlb' = [tlb EXCEPT ![c] = @ \cup
               {[virt |-> v, phys |-> virt_to_phys(cr3[c], v),
                 writable |-> Writable(cr3[c], v)]}]
  /\ UNCHANGED <<mem, free, maps, created, walk, cr3, behind>>

Map(c) == Descend(c) \/ Extend(c) \/ WriteEntry(c)

Next == \E c \in Cores :
  \/ \E pm \in maps, v \in Virt, p \in Data, w \in Modes :
       MapStart(c, pm, v, p, w)
  \/ Map(c)
  \/ \E pm \in maps, v \in Virt : vmm_unmap(c, pm, v)
  \/ vmm_new_pagemap(c)
  \/ \E pm \in maps : vmm_destroy_pagemap(c, pm) \/ vmm_switch_pagemap(c, pm)
  \/ \E v \in Accessed : Access(c, v)

Spec == Init /\ [][Next]_vars

-----------------------------------------------------------------------------
(* Properties *)

\* Every variable has its type: tables hold entries, walks are between two
\* levels, and frames are free or not.
TypeOK ==
  /\ mem \in [Frames \cup {NULL} -> [Index ->
               [present : BOOLEAN, to : Frames \cup Data \cup {NULL},
                writable : BOOLEAN]]]
  /\ free \subseteq Frames
  /\ maps \subseteq Frames \cup {NULL}
  /\ created \in 1 .. MaxMaps
  /\ walk \in [Cores -> Walks]
  /\ cr3 \in [Cores -> maps]
  /\ tlb \in [Cores -> SUBSET [virt : Virt, phys : Data, writable : BOOLEAN]]
  /\ behind \in [Cores -> SUBSET Virt]

\* The present entries of the tables in S, and the tables below them.
EntriesOf(S) == {e \in S \X Index : mem[e[1]][e[2]].present}
Target(e) == mem[e[1]][e[2]].to
Below(S) == {Target(e) : e \in EntriesOf(S)}

Levels == LET pml3 == Below(maps)
              pml2 == Below(pml3)
          IN  << maps, pml3, pml2, Below(pml2) >>

\* No page that is part of a page map is free: neither vmm_destroy_pagemap nor
\* a half-done vmm_map leaves a table the allocator could hand out again.
TablesNotFree == TypeOK /\ (UNION ToSet(Levels)) \cap free = {}

\* The tables of all page maps form a forest: a table has one level and hangs
\* in one entry, except for those that top entries of the kernel's half share.
TablesFormAForest ==
  LET levels == Levels IN
  /\ \A k, l \in 1 .. 4 : k < l => levels[k] \cap levels[l] = {}
  /\ \A k \in 1 .. 3 :
       LET entries == EntriesOf(levels[k]) IN
       \A e, f \in entries :
         Target(e) = Target(f) =>
           e = f \/ (k = 1 /\ e[2] = f[2] /\ e[2] \in KernelIndex)

\* What the processor allows is what the caller of vmm_map asked for: no table
\* above a page forbids what its own entry allows, whatever was mapped there
\* before.
PermissionsAsMapped ==
  \A pm \in maps, v \in Virt :
    IsMapped(pm, v) => Writable(pm, v) = Pml1e(pm, v).writable

\* A core's own vmm_unmap and switches drop what it has cached, and nothing else
\* needs to: what is cached is what the tables say, except for the pages whose
\* entry vmm_map wrote over, or another core took away, which neither of them
\* invalidates.  Tables that vmm_map adds or gives more flags, and page maps that
\* come and go, leave every cached translation as it is.
CachedTranslationsCurrent ==
  \A c \in Cores : \A t \in tlb[c] :
    \/ t.virt \in behind[c]
    \/ /\ IsMapped(cr3[c], t.virt)
       /\ virt_to_phys(cr3[c], t.virt) = t.phys
       /\ Writable(cr3[c], t.virt) = t.writable

\* The tables behave as one map per address space, with the kernel's half in
\* common: the steps of vmm_map in the tables of the upper levels change
\* nothing, and writing an entry changes one page.
AddressSpace == INSTANCE AddressSpaces WITH
  KernelSpace <- kernel_pagemap,
  UserVirt <- Virt \ KernelVirt,
  Names <- Frames,
  Targets <- Data,
  Unmapped <- NULL,
  mapping <- [pm \in maps |-> [v \in Virt |-> virt_to_phys(pm, v)]]
ImplementsAddressSpaces == AddressSpace!Spec

=============================================================================
