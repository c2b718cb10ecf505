------------------------------ MODULE VmmBoot ------------------------------
(***************************************************************************)
(* vmm_init of src/mm/vmm.c, after pmm_init: the kernel builds its own     *)
(* page tables under those of the boot loader, in pages the allocator has, *)
(* from the memory map that pmm_init has changed, and switches to them.    *)
(* From then on it reaches memory only through what it has mapped.         *)
(*                                                                         *)
(* Addresses are counted in pages.  A step of vmm_init is one vmm_map.     *)
(***************************************************************************)
EXTENDS PmmBoot

CONSTANTS
  Levels, Radix,  \* 4 and 512
  hhdm_offset,    \* first page of the map of all memory
  virtual_base,   \* first page of the kernel's image
  Requests, Text, Rodata, Data,  \* lengths of its sections
  Stack,          \* 16 KiB, below kernel_stack_top
  FourGiB

ASSUME VmmBootAssumption ==
  /\ {Levels, Radix} \subseteq Nat \ {0, 1}
  /\ {hhdm_offset, virtual_base, Requests, Text, Rodata, Data, Stack, FourGiB}
       \subseteq Nat

ImageLength == Requests + Text + Rodata + Data

VARIABLES
  physical_base,  \* where the boot loader has put the image
  vmm,            \* "waits", "maps", "returned", "halted" or "exhausted"
  kernel_pagemap,
  mem,            \* page -> the table it holds
  free,           \* pages the allocator has
  loop, page      \* the loop of vmm_init and the page it has come to

bootvars == << vars, physical_base, vmm, kernel_pagemap, mem, free, loop, page >>

\* The boot loader reports the image and, behind it, its stack as an entry.
HoldsKernel(e) == ~e.usable /\ e.length = ImageLength + Stack

BootInit ==
  /\ Init
  /\ \E k \in DOMAIN memmap :
       HoldsKernel(memmap[k]) /\ physical_base = memmap[k].base
  /\ vmm = "waits"
  /\ kernel_pagemap = NULL
  /\ mem = << >>
  /\ free = {}
  /\ loop = 1 /\ page = 0

-----------------------------------------------------------------------------
(* Tables *)

Absent == [present |-> FALSE, to |-> NULL, writable |-> FALSE, nx |-> FALSE]
Entry(to, writable, nx) ==
  [present |-> TRUE, to |-> to, writable |-> writable, nx |-> nx]
EmptyTable == [j \in 0 .. Radix - 1 |-> Absent]

\* virt without its last digits: what is left for the tables above a level.
Shifted(virt) ==
  LET above[n \in 0 .. Levels] == IF n = 0 THEN virt ELSE above[n - 1] \div Radix
  IN above
page_index(virt, level) == Shifted(virt)[Levels - level] % Radix

\* The addresses of the boot protocol, without their sign extension: all memory
\* of a map, and the first 4 GiB, is mapped below the image of the kernel, and
\* the tables reach to the end of the image.
ASSUME VmmBootLayout ==
  /\ \A m \in Maps : \A k \in DOMAIN m :
       hhdm_offset + (m[k].base + m[k].length) <= virtual_base
  /\ hhdm_offset + FourGiB <= virtual_base
  /\ \A v \in 0 .. virtual_base + ImageLength - 1 : Shifted(v)[Levels] = 0

\* Mutant: flags & 0xFF is left out, and VMM_NX goes into the upper tables.
TableEntryAllFlags(f, nx) == Entry(f, TRUE, nx)

\* 0b111 | flags & 0xFF: VMM_WRITE is there already, VMM_NX is not.
TableEntry(f, nx) == Entry(f, TRUE, FALSE)

Lowest(S) == CHOOSE p \in S : \A q \in S : p <= q

\* s.table is the table reached so far, NULL when a request has failed.
get_or_alloc_table(s, j, nx) ==
  IF s.table = NULL THEN s
  ELSE IF s.mem[s.table][j].present THEN [s EXCEPT !.table = s.mem[s.table][j].to]
  ELSE IF s.free = {} THEN [s EXCEPT !.table = NULL]
  ELSE LET f == Lowest(s.free)
           linked == [s.mem EXCEPT ![s.table][j] = TableEntry(f, nx)]
       IN  [table |-> f, free |-> s.free \ {f},
            mem |-> [g \in DOMAIN linked \cup {f} |->
                       IF g = f THEN EmptyTable ELSE linked[g]]]

\* The tables after vmm_map, and the last one with its entry written.
vmm_map(virt, phys, writable, nx) ==
  LET walked[level \in 0 .. Levels - 1] ==
        IF level = 0 THEN [table |-> kernel_pagemap, mem |-> mem, free |-> free]
        ELSE get_or_alloc_table(walked[level - 1], page_index(virt, level), nx)
      last == walked[Levels - 1]
  IN  IF last.table = NULL THEN last
      ELSE [last EXCEPT !.mem[last.table][page_index(virt, Levels)] =
              Entry(phys, writable, nx)]

-----------------------------------------------------------------------------
(* The loops of vmm_init *)

MapLoop(virt, phys, length, writable, nx) ==
  [virt |-> virt, phys |-> phys, length |-> length, writable |-> writable, nx |-> nx]

HigherHalf(first, length, nx) == MapLoop(hhdm_offset + first, first, length, TRUE, nx)
Section(offset, length, writable, nx) ==
  MapLoop(virtual_base + offset, physical_base + offset, length, writable, nx)

\* Mutant: the last loop, which repeats most of what is mapped, is left out.
MapsNothingLow == << >>

\* The first 4 GiB once more, without VMM_NX.
MapsLow == << HigherHalf(0, FourGiB, FALSE) >>

Loops ==
  << HigherHalf(physical_base + ImageLength, Stack, TRUE),
     Section(0, Requests, TRUE, FALSE),
     Section(Requests, Text, FALSE, FALSE),
     Section(Requests + Text, Rodata, FALSE, TRUE),
     Section(Requests + Text + Rodata, Data, TRUE, TRUE) >>
  \o [k \in DOMAIN memmap |-> HigherHalf(memmap[k].base, memmap[k].length, TRUE)]
  \o MapsLow

\* Another file's step.
PmmInit == /\ Next
           /\ UNCHANGED << physical_base, vmm, kernel_pagemap, mem, free, loop, page >>

\* The page map takes the first page, or the kernel halts.  The allocator
\* starts with the clear bits; main.c has taken the lowest and given it back.
NewPagemap ==
  /\ pc = "done" /\ bitmap # NULL /\ vmm = "waits"
  /\ IF ClearBits = {}
       THEN vmm' = "halted" /\ UNCHANGED << kernel_pagemap, mem, free >>
       ELSE /\ vmm' = "maps"
            /\ kernel_pagemap' = Lowest(ClearBits)
            /\ mem' = [f \in {Lowest(ClearBits)} |-> EmptyTable]
            /\ free' = ClearBits \ {Lowest(ClearBits)}
  /\ UNCHANGED << vars, physical_base, loop, page >>

\* A request for a table that fails is not noticed and page 0 becomes the
\* table.  What vmm_init does from there on is not followed.
MapPage ==
  /\ vmm = "maps" /\ loop <= Len(Loops) /\ page < Loops[loop].length
  /\ LET r == Loops[loop]
         s == vmm_map(r.virt + page, r.phys + page, r.writable, r.nx)
     IN  /\ mem' = s.mem
         /\ free' = s.free
         /\ vmm' = IF s.table = NULL THEN "exhausted" ELSE "maps"
  /\ page' = page + 1
  /\ UNCHANGED << vars, physical_base, kernel_pagemap, loop >>

NextLoop ==
  /\ vmm = "maps" /\ loop <= Len(Loops) /\ page = Loops[loop].length
  /\ loop' = loop + 1
  /\ page' = 0
  /\ UNCHANGED << vars, physical_base, vmm, kernel_pagemap, mem, free >>

SwitchPagemap ==
  /\ vmm = "maps" /\ loop > Len(Loops)
  /\ vmm' = "returned"
  /\ UNCHANGED << vars, physical_base, kernel_pagemap, mem, free, loop, page >>

BootNext == PmmInit \/ NewPagemap \/ MapPage \/ NextLoop \/ SwitchPagemap

BootSpec == BootInit /\ [][BootNext]_bootvars

-----------------------------------------------------------------------------
(* Properties *)

\* The walk of the processor: every level must be present and may forbid.
Through(e, j) ==
  IF e.present /\ mem[e.to][j].present
    THEN LET d == mem[e.to][j]
         IN  Entry(d.to, e.writable /\ d.writable, e.nx \/ d.nx)
    ELSE Absent
Walk(virt) ==
  LET entry[level \in 0 .. Levels] ==
        IF level = 0 THEN Entry(kernel_pagemap, TRUE, FALSE)
        ELSE Through(entry[level - 1], page_index(virt, level))
  IN  entry[Levels]

MapPages == UNION {PagesOf(memmap[k]) : k \in DOMAIN memmap}
BitmapPages == bitmap .. bitmap + bitmap_size \div PageBytes - 1

\* When the page tables are switched, everything the kernel goes on to use is
\* where it was: its image, and through hhdm_offset the stack, all memory of
\* the map, every page the allocator may hand out, the tables themselves, and
\* the bitmap.  pmm_init has cut the bitmap out of the map vmm_init reads, so
\* that only the last loop maps it, and a bitmap above 4 GiB is lost.
SwitchLosesNothing ==
  vmm = "returned" /\ Covered =>
    /\ \A q \in 0 .. ImageLength - 1 : Walk(virtual_base + q).to = physical_base + q
    /\ \A p \in MapPages \cup free \cup DOMAIN mem
                \cup {p \in BitmapPages : p < FourGiB} :
         LET e == Walk(hhdm_offset + p) IN e.present /\ e.to = p /\ e.writable
    /\ DOMAIN mem \cap (free \cup BitmapPages) = {}

\* Each section has the protection it was mapped with, whatever shares its
\* tables: only the requests can be both written and executed.  Through
\* hhdm_offset everything can be written, and what lies above 4 GiB cannot be
\* executed; below, the last loop has taken VMM_NX away again.
ProtectionAsMeant ==
  vmm = "returned" /\ Covered =>
    /\ \A q \in 0 .. ImageLength - 1 :
         LET e == Walk(virtual_base + q) IN
         /\ e.writable <=> q < Requests \/ q >= Requests + Text + Rodata
         /\ e.nx <=> q >= Requests + Text
    /\ \A p \in MapPages : Walk(hhdm_offset + p).nx <=> p >= FourGiB
=============================================================================
