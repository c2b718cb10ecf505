# Genoa, specified

Genoa is a small x86-64 kernel: it boots through Limine, sets up segments,
interrupts, physical pages, page tables, regions of virtual memory and a heap,
and then lets a timer tick and prints. This directory holds TLA+ specifications
of the parts that carry its logic, the TLC configurations that check them, and
proofs of the most important results for every value of the constants.

    tlc  -config Pmm_kernel.cfg MCPmm.tla      # one of the runs below
    tlapm PmmProofs.tla                        # one of the modules of proofs

Paths below are relative to the repository's `kernel/` directory.

## The system

| Component | Source | State | Operations | Interacts with |
|---|---|---|---|---|
| Spin lock | `include/sys/spinlock.h` | one flag | acquire, release | used by the page allocator and the heap |
| Physical memory manager (PMM) | `src/mm/pmm.c`, `include/lib/bitmap.h` | bitmap, cache of single pages, counter, lock | init, request, release, count | reads and edits Limine's memory map; called by everything below |
| Virtual memory manager (VMM) | `src/mm/vmm.c` | four-level tables in pages of the PMM, the processor's cached translations | init, map, unmap, translate, new/destroy/switch page map | reads the map the PMM has edited; takes table pages from it |
| Virtual memory areas (VMA) | `src/mm/vma.c` | a list of regions per context | create, destroy, alloc, free | list nodes and backing pages from the PMM, mappings in the VMM |
| Heap | `src/mm/liballoc/` | majors (runs of pages) that hold lists of minors (blocks) | kmalloc, kfree, kcalloc, krealloc | pages from the VMA, under its own lock |
| Interrupts | `src/sys/idt.c`, `src/sys/idt-stub.S` | descriptor table, handler per vector, frames on the stack | init, load, register, dispatch, panic | handlers of the timer |
| Interrupt controllers | `src/sys/pic.c` | mask, in two chips and in memory | init, eoi, mask, unmask | two 8259A chips |
| Timer | `src/dev/timer/pit.c` | callback | init, handler | controllers, `tick` of `src/main.c` |
| Boot order | `src/main.c` | where `genoa_entry` is | the calls above, in order | all of the above |
| Printing | `src/lib/kprintf.c`, `include/lib/nanoprintf.h` | a buffer per call | kprintf, vsnprintf | the terminal |
| Strings | `src/lib/string.c` | none | memcpy, memmove, memset, memcmp | used by everything |
| Terminal (flanterm) | `src/lib/flanterm/`, `src/lib/put.c` | parser of escape sequences, colours, cursor, scroll region; grid, queue and map of a double buffer; a static pool | init, write a byte, flush | the framebuffer; called by printing and by panics |
| Segments | `src/sys/gdt.c` | constants | init | |
| Boot loader requests | `src/boot/limine.c` | static structures | | filled in by Limine |

What is hard about it:

- *Concurrency.* The PMM has a lock and is meant for several cores
  (`docs/design/PMM.md`); one of its checks reads shared state without it. The
  VMM and the VMA have no lock at all, and the heap gives its own up in the
  middle of `krealloc`. Interrupts interleave with everything from the `sti`
  on, and the terminal is not reentrant.
- *Redundant state.* Bitmap, cache and counter say the same thing three times;
  `g_curmask` repeats what the chips hold; the processor caches translations; a
  run of the heap keeps a usage beside its list of blocks; `l_bestBet` is a
  second pointer into a list; a cell of the terminal is in the grid and may be
  in the queue, and the map says where.
- *Limits.* Words and the end of the bitmap, the last byte of it, a full or an
  empty cache, unsigned counters, no memory left (which most callers do not
  notice, because `HIGHER_HALF` is added before the comparison with `NULL`);
  the last column and line, the margins of a scroll region, more parameters
  than a sequence may have, the last byte of a buffer.
- *Order.* The boot path is correct only in the order it has, and the VMA only
  if allocations are freed in the reverse order. The terminal keeps the state of
  its parser from one message to the next, and a panic may come between any
  two bytes.

What makes each component correct:

- PMM: a page has one owner, none is lost, the counter is exact, a request
  fails only if it has to, and the lock never stays taken; `pmm_init` leaves
  the bitmap, the counter and the memory map in agreement.
- VMM: when the tables are switched everything in use stays where it was,
  protected as it was mapped; the tables behave as one map per address space
  with the kernel's half in common; no table is free memory; permissions are
  those of the last mapping, and cached translations too, but where an entry was
  written over or another core took it away.
- VMA: a physical page has one use; what a caller owns is mapped, found and
  taken away when it is freed.
- Heap: blocks are disjoint, in their run, and keep their contents; the books
  are exact; no run is lost or kept for nothing.
- Interrupts: nothing arrives where there is no handler; a handler sees the
  registers of what it interrupted, which goes on without noticing; every
  interrupt is ended; the timer ticks for ever; a panic is final.
- Printing: what C prescribes is printed, cut to the buffer, and nothing is
  written beside it. The string functions cope with every length and overlap.
- Terminal: its three copies of the text act as one screen; sequences do what
  `console_codes(4)` says of them; whatever was half written, a panic shows.

## Modules

| Module | Models | State and actions |
|---|---|---|
| `Spinlock` | `spinlock.h` | one flag; spinning is stuttering |
| `PageAllocator` | nothing: what the PMM promises | pages are free, held or returning |
| `Pmm` | `pmm.c` after init | per core a program counter, the call's arguments, the locals of its loops and its result; the bitmap, cache, counter, lock; the scan takes a step per bit, the release one per page |
| `PmmBoot` | `pmm_init` | the memory map, the counters and the bitmap; one action per loop iteration |
| `VmmBoot` | `vmm_init`, after `PmmBoot` | the tables the kernel builds, the pages left, the loop it is in; one action per `vmm_map` |
| `AddressSpaces` | nothing: what the VMM promises | a map per space, one half in common |
| `Vmm` | `vmm.c` after `vmm_init` | tables in frames, free frames, page maps, per core a `vmm_map` in progress, `cr3` and cached translations, and which of them the code leaves behind; `vmm_map` takes a step per level |
| `Vma` | `vma.c` | the pool of pages, the linked regions with all their fields, the mappings, what callers own; one action per call |
| `Liballoc` | `liballoc.c` | headers of runs and blocks by address, `l_memRoot`, `l_bestBet`, what callers own and have written, per core a `krealloc` or `kcalloc` in progress |
| `Heap` | `liballoc_genoa.c` | `Liballoc` and `Vma` joined: a step of the heap that takes or gives back pages is a step of the regions |
| `Pic8259` | the chips (external hardware) and `pic.c` | registers of two chips; the driver's functions as sequences of port writes |
| `Interrupts` | boot order, `idt.c`, timer, panic | a stack of frames that execute instructions; interrupts push frames |
| `IsrStub` | `idt-stub.S`, `struct register_ctx`, the processor's frame (external hardware) | no state: a machine of registers and stack, and operators from one to the next |
| `IsoPrintf` | nothing: what ISO C says a format prints | a format as a sequence of texts and directives, its characters, its arguments and its text |
| `Printf` | nanoprintf as `kprintf.c` builds it, `kprintf`, `vsnprintf` | the place in the format and in the arguments, the field being written, the buffer; one action per character or directive |
| `Strings` | `string.c` | memory and one call; one action per loop iteration |
| `Screen` | nothing: what a terminal promises | text that is changed in a few ways, and what of it is shown |
| `Glyphs` | characters, cells and colours | |
| `DoubleBuffer` | grid, queue and map of `fb.c` | operators on a context; the specification `BufferSpec` queues cells, moves the cursor and flushes in any order |
| `Framebuffer` | the functions `fb.c` gives to `flanterm.c` | operators on the same context |
| `Flanterm` | `flanterm.c`, `put.c`, `kpanic`'s report | the context, what can be seen, the bytes and the lines of the report to come; an action per kind of byte |
| `FbInit` | `flanterm_fb_init`, `bump_alloc` | the mode, the pool and what it has given; an action per request |
| `...Proofs` | theorems about the module of that name; `BootProofs` about `PmmBoot`, `VmmBoot` and `FbInit`, `TerminalProofs` about `Flanterm` and `DoubleBuffer`, `PrintingProofs` about `Printf` and `Strings` | |

How they compose. `Pmm` instantiates `Spinlock` and, as its abstract
specification, `PageAllocator`; `Vmm` instantiates `AddressSpaces`;
`Interrupts` extends `Pic8259`; `Heap` extends `Liballoc` and instantiates
`Vma`; `VmmBoot` extends `PmmBoot` and goes on where it ends; `Printf` extends
`IsoPrintf`; `Flanterm` extends `Framebuffer`, which extends `DoubleBuffer`,
which instantiates `Screen`. `PmmBoot` ends where `Pmm` begins:
`PmmStartsSound` is the initial state of `Pmm`. The modules `MC...` only give
constants values.

Each module names the functions as the source does. Where a function is one
action, nothing can be seen between its lines: it runs under a lock (`malloc`,
`free`), or nothing else touches its state (`vma_alloc`). Where others can see
it half done, it is several: the paths of the PMM around its lock, the levels of
`vmm_map`, the three critical sections of `krealloc`, the port writes of the
drivers, the bytes of a message, between which a panic may come.

The state of each module is the state of its C file under the C names
(`bitmap`, `free_pages`, `g_curmask`, `real_handlers`, `l_memRoot`,
`esc_values_i`, ...), plus what callers own, which no C variable records:
`held` in `Pmm`, `owned` in `Vma` and `Liballoc`. The actions have the names of
the functions, or, where a function is several steps, of what the step does;
`PROJECT.json` maps every definition to its lines.

`FbInit`, `Strings` and `IsrStub` have theorems in place of runs: they are
sequential, and what could be wrong with them lies in sizes no small instance
has (fifteen thousand cells, a copy of any length) or in every register at once.

## Runs

| Run | Module | Instance | What it shows |
|---|---|---|---|
| `pmm_kernel` | `MCPmm` | 2 cores, 6 pages in 2 words (4 and 2 bits), 4 usable, 2 cache slots, requests of 0 and 1 page, a pointer out of bounds | The callers the kernel has. No page has two owners, none is lost, the counter and the cache are exact, all of it is one set of free pages (`PageAllocator`), and a waiting core does not wait while nobody is served. |
| `pmm_runs` | `MCPmm` | 1 core, 7 pages in words of 4 and 3 bits, all but page 0 usable, runs of 2 and 3 pages, releases of pages that are free already | A request fails only if no word, the short last one included, has the run (`FailsOnlyWithoutARun`); the test of the bit keeps the counter exact. |
| `pmm_stale_cache` | `MCPmm` | 1 core, 4 pages, requests of 1 and 2 | Finding 1. |
| `pmm_boot_maps` | `MCPmmBoot` | every map of up to 2 entries in 11 pages, the kernel's entry in one of 3 places; a page of bitmap tracks 4 pages, tables of 2 levels and 8 entries | `pmm_init` leaves clear bits, counter and map in agreement, with a bitmap that is too short in one case only; then `vmm_init` maps all that is in use where it was, with the protection it asked for. |
| `interrupts` | `MCInterrupts` | boot, then two drivers; devices on lines 1 and 8; page faults in three functions | No interrupt meets a missing table or handler (`EveryInterruptHasItsHandler`) or a terminal in use, each is ended on the controllers it passed and the mask in memory is that of the chips (`ControllersAsBelieved`), a panic is final, the timer ticks for ever. |
| `vmm_cores` | `MCVmm` | 2 cores, 13 frames, a page in each half, 2 page maps | `vmm_map` level by level, on two cores: the tables are a forest of allocated pages and behave as one map per space (`AddressSpaces`). |
| `vmm_tlb` | `MCVmm` | 3 cores, 2 neighbouring pages of the kernel's half, one of which is cached, with and without write permission, mapped again without being unmapped | Permissions are those of the last mapping; a stale translation is of an entry that was written over, or that another core took away. |
| `vma` | `MCVma` | 8 physical and 9 virtual pages, sizes 1 to 3, `PAGE_SIZE` 4, callers that free the latest first, calls that run out of pages half way | Although regions overlap, no physical page has two uses, what is owned is linked, and what is freed is unmapped, but for the very first allocation. |
| `heap` | `MCLiballoc` | 2 cores, requests of 1 and 3 bytes, 2 runs of 24 bytes, 3 blocks | Over a correct source of pages: blocks apart, usage exact, runs listed, contents kept. |
| `heap_over_vma` | `Heap` | 1 core, 12 frames, blocks of which a run holds one | Finding 2. |
| `printf` | `MCPrintf` | every directive with up to two flags, a width, a precision, a type and a conversion; pairs of directives between texts; buffers of 0, 1 and 4 bytes and `kprintf`'s own | What is printed, counted and taken from the arguments is what C says, cut to the buffer (`PrintsAsISO`, `StaysInBuffer`). |
| `console` | `MCConsole` | 4 columns, 3 lines, 3 parameters; any three of some fifty messages, of which the first two may be cut short by a panic | The queue is sound, grid and framebuffer agree, the double buffer acts as a screen; sequences edit as documented, keep to their region and choose the colours the attributes stand for; the last line of a panic's report stands on the screen. |

Why the bounds are enough:

- *PMM.* Two words with the last one partial give both kinds of word; the cache
  fills (more usable pages than slots), empties and is passed by; `WordSize` and
  `PAGE_CACHE_SIZE` occur in the code only as limits of loops. `Wrap`, the range
  of the counter and of addresses, is just large enough for every legal value,
  so an unsigned underflow shows. A third core adds no new kind of
  interference: outside the lock there is one read. In `pmm_runs` the runs of 2
  and 3 pages start anywhere in a word, end with it, lie over its end (where
  the scan misses them) and in the short last word. The theorems need none of
  these bounds.
- *Boot.* Two entries, a hole and the kernel's own entry give every relation of
  an entry to the bitmap: too small, exactly as large, split; and the pages
  there are need one to three pages of bitmap. Two levels of tables, of eight
  entries, stand for four of 512: a table is found, or missing, at a level that
  is not the last, and a section begins in a table another section made. `FourGiB`
  lies inside the map, so that pages, the bitmap among them, lie on both sides
  of it. `MaxPages`, `MaxEntries` and `Places` bound the maps; a step is one
  `vmm_map`, since nothing else runs.
- *Interrupts.* One line per controller beside the timer (and 8, which has to
  pass the cascade). The stack is not bounded by the model: gates clear the
  flag, so it cannot grow without end, and the run terminates.
- *VMM.* Two indices per table are enough for neighbours, for the two halves
  and for an entry that another core has just filled. `MaxMaps` is 2, the
  kernel's and one more in the whole run, so that `vmm_cores` uses at most 11
  of its 13 frames, those leaked by `vmm_destroy_pagemap` included, and `vmm_tlb`
  fewer: the failed allocation is in the model (`Request`), but neither run
  reaches it. A translation is stale on one core because of a second one, and
  a third one runs into both. Which of the two neighbours is cached makes no
  difference, so one is enough (`Accessed`).
  In `vmm_cores` the allocator returns the lowest free page, and the cores are
  symmetric: frames are interchangeable but for the order of release, which no
  property depends on.
- *VMA.* Pages of 4 bytes make `start + pages` and page boundaries meet within
  a few regions, as 4096 does within thousands. `MaxPage` bounds addresses
  (a guard of `vma_alloc`).
- *Heap.* A run holds up to three small blocks, so all six cases of `malloc`
  occur: an empty list, in front, between and behind, a full run, no run.
  Headers of 2 bytes keep the relation of header to alignment. `MaxBlocks`
  bounds the blocks that are owned or in the making.
- *Printf.* `char`, `short`, `int` and `long` have 4, 5, 6 and 8 bits for 8,
  16, 32 and 64: different widths, and arguments that each of them cuts or
  takes for a negative number. Directives have widths and precisions that are
  absent, zero, larger than the number, of two digits, given by a star, and
  negative by a star.
  `MessageMax` is 12 for 1024: some texts fit `kprintf`'s buffer and some do
  not.
- *Console.* Four columns and three lines are the least in which a region has
  two lines and leaves one out, and a tab, a line that is full and one that is
  not exist. `MaxWrites` is 3: one message to prepare (a region, an unfinished
  sequence, an attribute), one to act and one to show. Parameters are cut at
  three for sixteen; one message has four. A message is a whole sequence, half
  of one, a character or a few, so that any three of them meet; `MaxPanic` is 2:
  a panic comes before, between or in the first two. `PanicTexts` has two lines
  for ten: the first has to end what it falls into, the second has to be shown;
  they begin and end as the real ones do. `ValueWrap`, 64 for the 2^32 of
  `esc_values`, is passed by the parameter 66.

Every property is checked against at least one mutant, a plausible bug in a
definition it depends on, kept beside that definition (`\* Mutant:`) and listed
in `PROJECT.json`.

### Deadlock

The runs over `Pmm` and `Vmm` check for it. Elsewhere the system may stop:
`pmm_init`, `vmm_init` and a call of `kprintf` end, a panicked kernel is halted,
the terminal has written its `MaxWrites` messages, a heap or a list of regions
whose bound is used up and whose cores have panicked takes no step.

## Fairness

- `Pmm`, `FairSpec`: weak fairness of each core's steps inside a call. A core
  that holds the lock is not stopped for ever: the code neither blocks nor waits
  for anything but the lock there, and callers are not preempted by a
  scheduler. Nothing forces a core to begin a call. Under weak fairness a given
  core may lose the race for a test-and-set lock for ever, so only
  `SomeCoreGetsIn` is stated.
- `Interrupts`: weak fairness of the processor, of taking interrupts and of the
  timer. The timer chip is programmed to tick periodically; the processor does
  not skip instructions; a pending interrupt that may be taken is taken. No
  fairness is assumed of devices or exceptions, and `TicksKeepComing` allows for
  the kernel that has panicked.
- All others: safety only, no fairness.

## Proofs

Everything below is proved with TLAPS for every value of the constants, from
the assumptions of the module (`...Assumption`).

### The page allocator (`PmmProofs`)

For any number of cores, pages, words and cache slots and any placement of the
usable pages, from `PmmAssumption` alone (sizes are in range, page 0 is not
usable, addresses and `start + pages` fit their type):

| Theorem | States | Callers |
|---|---|---|
| `TypeCorrect` | `Spec => []TypeOK`; the cache stays inside its array | any |
| `OneCoreInside` | `Spec => []MutualExclusion` | any |
| `NoRunOfAWordMissed` | `Spec => FailsOnlyWithoutARun` | any |
| `NobodySharesAPage` | `Spec => []NoDoubleAllocation` | simple |
| `EveryPageAccountedFor` | `Spec => []NoPageLost` | simple |
| `CacheAlwaysSound` | `Spec => []CacheSound` | simple |
| `CounterExact` | `Spec => []FreePagesExact` | simple |
| `PmmImplementsPageAllocator` | `Spec => ImplementsPageAllocator` | simple, no double frees |

*Simple* callers (`SimpleCallers`) use either single pages or longer runs but not
both, and release what is free already only if there is no second core, to which
it may have gone meanwhile. The kernel's callers are simple: each call of `src/`
requests and releases one page (`main.c`, `vmm.c`, `vma.c`). The hypothesis is
needed: `pmm_stale_cache` violates `NoDoubleAllocation` without it. A second
release of a free page is no step of `PageAllocator`, so the refinement leaves
it out.

`NoDoubleAllocation` is not inductive: it says nothing of a page that a core is
about to release, nor of the cache. `AllocInv` adds

- `CallsSane`: the arguments of a call in progress passed the checks that
  guard them;
- `PendingSound`: a page on its way back is used, is nobody's, and comes back
  from one core only. That is why a core may test and clear its bit;
- `CacheSound`: the cache lists distinct free pages, so popping takes a free
  page and a page is pushed only when it was used;
- `CacheOfSingles`: with callers of longer runs the cache is empty, so the scan
  cannot take a page from under it.

`NoRunOfAWordMissed` needs no hypothesis about callers. `ScanInv` says of a scan
that the bits it has counted are clear and fewer than are asked for, and that no
run that lies within a word starts in front of them; the lock keeps all others
from the bitmap. Page 0 is never handed out (`NullUsed`), so that `NULL`
is a failure.

Each step of a core is one lemma step; what is common to handing out pages by
cache and by scan is `OwnersHandOut`, and `OwnersFreePage` is the step that moves
a page from `Returning` to `Free`. The counter follows from the same steps by
the cardinality theorems of the library. The refinement maps `free` to the
clear bits, `held` to what callers own and `returning` to the pages of releases
in progress: entering a release is the abstract *give back*, each cleared bit
the abstract *return*, everything else a stutter.

### The initialisation of both (`BootProofs`)

`pmm_init`, for every sorted memory map whose usable entries do not overlap, every
size of a page and of a byte: `BootHandsOver` (`[]PmmStartsSound`) and `BitmapCovers`
(`[]CoversUnlessJustPast`). The invariant follows the three loops. After the
first the counter is the number of usable pages and the highest address is
known; placing the bitmap takes as many from the counter as it cuts from an
entry; and the third has cleared just the pages of the entries it is past, a
number the cardinality theorems give entry by entry. The division and the two
roundings of the size of the bitmap are the arithmetic of `BitmapCovers`.

`vmm_init`, for tables of any depth and width and sections of any length besides:

| Theorem | States | Invariant |
|---|---|---|
| `SwitchIsSafe` | `BootSpec => []SwitchLosesNothing` | `MachineInv` |
| `ProtectionHolds` | `BootSpec => []ProtectionAsMeant` | `MachineInv` |

They need of the addresses what `VmmBootLayout` assumes: through `hhdm_offset`
(0xffff800000000000) the memory of a map ends below the image
(0xffffffff80000000), and the image ends where the tables do (2^48, without the
sign extension). If they overlapped, a loop would overwrite what another has
mapped.

Both properties speak of the walk of the processor at the end, and that says
nothing of the tables half way. `MachineInv` says that

- the tables are a tree (`Tree`): there is an assignment of a level and a number
  to each, such that entry `j` of table number `a` leads one level down, to table
  number `a * Radix + j`, and an entry above the last level takes no right away.
  The number is what an address on the way there starts with (`PrefixFacts`), so
  that one last entry belongs to one address, and writing it changes what is
  mapped at no other (`LeafMaps`);
- no table is in a page that the allocator still has (`Apart`);
- every round that the loops are past is mapped as is expected of it
  (`PassedMapped`): the image as its section asks, a page through `hhdm_offset`
  without `VMM_NX` as soon as the last loop has come to it. A round changes what
  is expected of its own address only.

`vmm_map` is a recursive function over the levels. That each level keeps the tree
and lengthens the way to the address (`OneLevelDown`) is lifted over the levels by
counting (`CountUp`, which rests on `LeastNumber`), as is that the walk of the
processor finds the entry at the end of a way (`WalkMapped`).

### The page tables (`VmmProofs`)

For any number of cores, each with a `vmm_map` half done, any pages, indices and
page maps, `Spec /\ [](free # {})` implies

| Theorem | States | Invariant |
|---|---|---|
| `TablesStayAllocated` | `[]TablesNotFree` | `VmmInv` |
| `TablesStayAForest` | `[]TablesFormAForest` | `VmmInv` |
| `PermissionsStayAsMapped` | `[]PermissionsAsMapped` | `VmmInv` |
| `TablesImplementAddressSpaces` | `ImplementsAddressSpaces` | `WayInv` |
| `CachedTranslationsStayCurrent` | `[]CachedTranslationsCurrent` | `CacheInv` |

The first two are statements about what can be reached from the page maps in
three steps, which is no invariant to induct on. `VmmInv` says instead that there is
an assignment of levels 1 to 4 to all pages that are not free, whether a page
map reaches them or not (destroyed page maps leave tables behind), such that
page maps have level 1, an entry leads one level down, a core is at the level
it believes, and two entries that lead to one table are the same entry, or the
same entry of the kernel's half in two page maps. A new table extends the
assignment by one page. An entry above the last level is writable, so that only
the last one decides.

For the refinement of `AddressSpaces` `WayInv` adds that the kernel's tables
hang in all page maps (`KernelShared`) and that the table a `vmm_map` is at is
the one its page map reaches for its address (`WalksReach`). The heart of it is
that one entry is on the way of one address of one space only: a step that adds
a table or follows one changes no `Mapping` and is a stutter, the entry of the
last level changes that of one address (in all spaces, if it is the kernel's),
and a page map that is created starts with what the kernel has. `CacheInv` says
that a core caches what the page map in its `cr3` has for the address, or of the
kernel's half, which is the same in all of them, and that what it has cached and
is not behind with is the `Mapping` there.

`vmm_map` invalidates nothing, though `vma_alloc` maps pages of overlapping
regions again, and `invlpg` reaches only the core that executes it (`vmm.c:107`).
So stale translations are part of the code. The history variable `behind` records
where: the pages whose entry was written over, or taken away by another core,
while a core might have it cached, until that core drops the page itself.
`CachedTranslationsCurrent` says that there are no others.

The hypothesis on `free` is that a request always finds a page. It is where the result
ends in the code, too: `HIGHER_HALF` is added before the comparison with `NULL`,
and page 0 becomes a table, at every level where one is needed.

### The regions (`VmaProofs`)

For any number and size of pages and any sizes of regions, `Order = "lifo"` and
`Shortage # "any"` imply

| Theorem | States | Invariant |
|---|---|---|
| `PagesAlwaysHaveOneUse` | `[]PagesHaveOneUse` | `VmaInv` |
| `OwnedAlwaysLinked` | `[]OwnedIsLinked` | `VmaInv` |
| `FreedAlwaysUnmapped` | `FreedIsUnmapped` | `VmaInv` |

`vma_alloc` sets `next` of the region in front of a new one and `prev` of the new
one, but not `prev` of the region behind it, so the list is not doubly linked in
general, and `OwnedIsLinked` is not inductive. `VmaInv` has the list as a
sequence `L` without repetition along `next` (`Path`), with starts that grow
along it, where only the first region may be empty and share its start with the
next (`Addresses`), and for what callers own increasing places in `L` at which
`prev` is right and in front of which there is no room (`OwnedAt`). So a
new region goes behind all that is owned, or into a gap that a call which failed
has left behind it. A page is counted three ways: in the pool, in `L` (or the
context), mapped (`OnePage`, `OwnPages`).

The list and the pages of a region are recursive functions (`Nth`, `Kept`).
Induction over numbers is not available with an operator as parameter; `Induction`
states it for a set, and gets it from the well-foundedness of finite sets.

Both hypotheses are needed, and both are where the code's guarantees end: a
caller that frees an earlier allocation leaves a gap, in which the next region's
right neighbour keeps a wrong `prev`, and `HIGHER_HALF(pmm_request_page())` is
never `NULL` (`vma.c:72`, `vma.c:104`), so without a page for the region page 0
becomes one.

### The heap (`LiballocProofs`)

For any number of cores and blocks, requests of any size, any sizes of headers,
pages and alignment, and a source of pages that grants any run whose pages are
not in use (`OutOfUse`), or refuses:

| Theorem | States |
|---|---|
| `AllocTypeCorrect` | `Spec => []TypeOK` |
| `BlocksAlwaysApart` | `Spec => []BlocksApart` |
| `UsageAlwaysExact` | `Spec => []UsageExact` |
| `RunsAlwaysListed` | `Spec => []RunsListed` |
| `ContentsAlwaysKept` | `Spec => []ContentsKept` |

All follow from `AllocInv`, which is `HeapInv` and `CallersInv`. `HeapInv` has
the lists as sequences without repetition (`Path`), one for the runs (`RunsAre`)
and one for the blocks of each run (`BlocksOf`), which the walks of the code
then compute (`WalkOfPath`). Beyond what the properties say it adds that runs are
disjoint, and of every header, of the dead ones too, that it lies in its run,
overlaps no other and has the room its pointer may need (`Headers`). That is what
makes a pointer lead back to one header (`PointersDiffer`: a header is not
shorter than the alignment), so that `free` finds the block it was given, and
what is left of a freed one is recognised until something is written over it.
`CallersInv` says that the pointers a core owns, and those that a `krealloc` or
`kcalloc` has got and not yet handed out, lead to live blocks and are in nobody
else's hands.

`malloc` finds a gap that lies between two neighbours of one list (`FoundPlace`,
`GapBetween`), so that what it overwrites are dead headers only
(`NobodyThere`); a block put there is one more in that list
(`OwnAfterInsert`) and no change to the others (`OthersAfterInsert`); in a new
run it is the first (`FirstBlock`, `RunAppended`). `free` takes a member out of a
list of blocks or of the list of runs, which is one lemma (`ShorterPath`).
`usage` is a sum over a list; a sum with one number more or less is
`TotalOfInserted`. The callers' steps then only need that a live block stays
what it is (`LiveKept`, `LiveBut`).

`OutOfUse` is where the result ends: the regions that the kernel really gives
the heap break it (Finding 2).

### The terminal (`TerminalProofs`)

For a screen of every size, an array of at least two parameters and every
sequence of messages and panics, from `ScreenAssumption`,
`FlantermAssumption` and, for the last of them, `PanicAssumption`, with one
hypothesis besides:

| Theorem | States |
|---|---|
| `ContextAlwaysSound` | `Spec => []ContextSound` |
| `TerminalQueueSound` | `Spec => []QueueSound` |
| `TerminalShowsGrid` | `Spec => []FramebufferShowsGrid` |
| `ColoursAlwaysFollow` | `Spec => ColoursFollowVideo` |
| `RegionKept` | `Spec => KeepsToRegion` |
| `EditsDocumented` | `Spec => EditsAsDocumented`, if `rows <= cols` |
| `PanicAlwaysShown` | `Spec => []PanicShown` |
| `QueueAlwaysSound`, `FramebufferAlwaysShowsGrid` | the last two for `BufferSpec` |
| `BufferActsAsScreen` | `BufferSpec => ActsAsScreen`, a refinement of `Screen` |

`BufferSpec` is the double buffer on its own: cells are queued, the cursor is
moved and drawn and the queue is flushed in any order. Its invariant is that map
and queue name each other (`Linked`); that the queue fits its array, which
`push_to_queue` does not check, then follows by counting, since different items
are for different cells.

The rest is about `Spec`, every byte `flanterm_putchar` may get. `ContextSound` is
not inductive: it says nothing of what `ESC 8` and the end of a command bring
back. `TermInv` adds that the saved cursor and colours may be restored
(`Saved`, `Painted`), that one more digit or separator has its place in the array
(`Parsing`), and `Linked`, since every glyph goes through the queue. It is kept
because a byte can do three kinds of thing only, each with a set of contexts that
is closed under it:

- Write cells and move the cursor: `Edited` contexts have the other fields of the
  one before, `Rewritten` ones the cursor too, and in `Placed` ones it is on the
  screen. Every loop of `fb.c` and `flanterm.c` (scrolling, blanking, `n` glyphs, the
  cells that `@` and `P` move) is a `Loop` over positions, whose body does not leave
  the set; `LoopExists` and `LoopStays` are the induction, from the least number
  that a set of numbers has. What decides whether the cursor stays on the screen
  is whether text may scroll (`PutcharDraws`) and whether the region ends there.
- Select colours: `Recoloured`, one lemma per attribute, and a loop over the
  parameters. The same loop (`SgrStays`: what no parameter leaves, all of them do
  not leave) gives `ColoursAlwaysFollow`, from the set of contexts whose colours
  are those their attributes stand for; an SGR without parameters makes
  everything plain.
- Parse: `Alike` contexts have the same fields that draw.

Each action of `flanterm_putchar` then has a lemma `...Follows`, and `ByteFollows`
puts them together. A flush moves only what it shows (`FlushedAlike`), and
nothing but a flush shows anything.

`RegionKept` and `EditsDocumented` say what the cells hold afterwards. The `...Rounds` lemmas
name the contexts between the rounds of a loop, and `CountUp`, the least number
again, shows of each round what the lemmas on cells state:

- `BlankText`, `CopiedBack` and `CopiedForth`: after blanking a list of cells, or
  copying cells down or up the list. `ScrollText` and `RevscrollText` are both
  for a region.
- `PutcharText`, and `RunText` for `n` glyphs in a row: each goes to the next cell,
  over the ends of lines.
- `MovedBack` and `MovedForth`: along a line, with what `P` and `@` write in
  between, `DeletedText` and `InsertedText`.

For `RegionKept` it is enough that what scrolls has no cell outside of the region
and that each move up or down is cut at its margins. `EditsDocumented` has a
lemma for each of `J`, `K`, `X`, `@` and `P`, and needs `rows <= cols`, which holds
unless a screen is nearly twice as high as it is wide (a glyph is 9 by 16 pixels):
`fb.c:939` compares `cursor_y` with `cols`, and on a screen of 2 columns and 3
lines blanks for the last line go to the one above it, as TLC shows.

`PanicAlwaysShown` is about all of `kpanic`'s report: ten lines, each a write of its
own that begins with `ESC[31m` and ends with `ESC[0m` and LF (`log.h:20`).
`PanicInv` follows the bytes of a line. Whatever a panic falls into, the last
character of the first line's text, `=`, ends it (`OrdinaryEnds`: a parameter list,
a command, an `OSC`, a character set, a broken character); from then on every byte
is where the line says it is (`LineByte`). A line feed takes the cursor to the start
of a line of the screen, wherever it was (`LineFed`; the cursor below the screen
too), so that the text of each later line is printed there from its first
character on (`TextPrinted`), and the end of the last one moves it up a line at
most. `PanicAssumption` says what is needed of the report: it has two lines or
more of characters that are printed, its first text ends with a character that
is no digit, bracket, `;` or `?`, and its last text fits on a line (the kernel's
has 66 characters); and the screen has two lines.

### The initialisation of the terminal (`BootProofs`)

For every mode of the framebuffer: `PixelsInFramebuffer` and `FontBitsInFont`
(each pixel of each cell lies in the framebuffer, each bit of each glyph in the
font, though `plot_char` checks the cell only), `InitNeverFails` (the static pool
suffices) and `BlocksAlwaysSound` (what it gives is aligned, in the pool, and
shares no byte). The limit of 1920 by 1200 pixels bounds a terminal to 213 by
75 cells, 15975, whatever the scale; with the sizes an x86-64 compiler gives the
structures (800 bytes for the context, 12 for a character, 32 for an item of
the queue) at most 872495 of the pool's 873000 bytes are used.

### Printing and strings (`PrintingProofs`)

`BufferNeverLeft` (`[]StaysInBuffer`): for every format, all arguments and every
size nothing is written outside the buffer, but the byte in front of one of size
zero. Nothing is assumed of what a directive writes.

`PrintsAsC` (`[]PrintsAsISO`): what nanoprintf counts, takes from the arguments
and leaves in the buffer, and what `kprintf` shows, is what the C standard says
the format prints. It holds for every width of the C types, every alphabet that
has the characters of a directive, and every format that `PrintfAssumption`
allows: any sequence of directives, each with any flags in any order and number,
width and precision absent, literal (any `int`) or by a star (any `int` whose
negation is one), any length modifier of the four, any of the ten conversions
and any value; and of texts, in which a `%` starts no directive. What C leaves
undefined and the two forms in which nanoprintf differs (`Agreed`, see the
findings) are excepted, as in the property. The argument has four steps:

1. *Numbers.* `npf_utoa_rev` takes digits from the end, C's numeral is stated by
   the weights of its places. Dividing twice is dividing by the product, so
   `DigitsAreNumeral` goes by the least number for which the two differ;
   `DigitsAsISO` adds the zeros of a precision. `NumberIs` is the way back: the
   numeral of a width is read as the width.
2. *The parser* sees characters only. A format is the text of its items one
   after the other (`AllLaid`); within a directive, flags, width, precision,
   modifier and conversion stand behind one another, and each ends where a
   character comes that it does not take (`SkipIs`), because the first character
   of what follows is none of its own: a width does not start with `0`, and no
   conversion is a modifier. So a directive is read as what it was made from
   (`DirectiveRead`, and with its stars `MeansIs`), and a `%` in a text as none
   (`NoDirective`).
3. *The conversion.* For each conversion the sign, the prefix, the zeros and the
   text that nanoprintf keeps apart are the parts of C's field, and the padding
   goes where C puts it (`FieldIsItem`).
4. *The loop.* `PrintsInv` adds to the invariant of the buffer how far the call
   has come: the items before it are in the buffer as far as they fit, the count
   is their length, the next argument is theirs (`Progress`); each step keeps it, and
   `Return` ends the text where C says (`ReturnPrints`).

`CopiesAlwaysRight`, `FillsAlwaysRight` and `ComparesAlwaysRight`: for arguments
of every length, and for `memmove` every overlap. The invariant says what each
loop has done after `i` iterations, and that what it has still to read is
intact, which is where the direction of `memmove` matters.

### Interrupts (`InterruptsProofs`)

For every set of devices on the lines of the two controllers, faults in any set of functions
and every body of `main` that `DriverAssumption` allows (calls of `pic_mask`,
`pic_unmask` and `idt_register_handler` in any number and order, a handler before
its line is unmasked, each change of the mask written to its chip, as `pic_mask`
and `pic_unmask` do):

| Theorem | States |
|---|---|
| `HandlersAlwaysThere` | `Spec => EveryInterruptHasItsHandler` |
| `ControllersBelieved` | `Spec => []ControllersAsBelieved` |
| `TerminalNotReentered` | `Spec => []PrintNotReentered` |
| `PanicStops` | `Spec => PanicIsFinal` |

What makes them true is the order of the calls in `genoa_entry`, so the invariant
`Inv` is indexed by it: `place` is the instruction of `genoa_entry` that is next,
whatever runs on top of it.

- `StackShape`: a handler has interrupted `genoa_entry` or `kpanic` and no other
  handler, and not before `sti`; only those two run with interrupts on; a
  `kpanic` that has halted is on top, with interrupts off.
- `Tables`: from which place on the table is loaded, the default handler is at
  each exception and the timer's is at its vector; a handler a driver has
  registered stays.
- `Words`: what each chip expects after each of the eleven port writes of
  `pic_init`, and from where on its vectors are moved.
- `Masks`: a line that is clear in `g_curmask` or in its chip has a handler, and
  a chip differs from `g_curmask` only between the assignment and the `outb`.
- `NoCascadeRequest`: no device is on line 2.
- `Service`: outside handlers nothing is in service; in one, at most a line of
  each chip, and none once its chip has been told.

Each operation of `genoa_entry` keeps each of the parts (`BootStep`), what runs
above it keeps them because it changes none of the words or tables (`AboveStep`),
and an interrupt because of `Masks` and `Service` (`InterruptStep`).

The order of the pushes in `idt-stub.S`, of the members of `struct register_ctx`
and of the processor's frame are written down in three places. For every vector
but 21 and 29: `HandlerSeesTheInterrupted` (that vector's handler is called, each
member holds the register it is named after, the stack is aligned for C code)
and `InterruptNotNoticed` (a handler that returns leaves registers, flags, stack
and place as they were). `ContextShiftedAtTwoVectors`: those two are missing from
the stub's list of vectors with an error code, and their context is off by a
word.

### Only model-checked

Liveness (`SomeCoreGetsIn`, `TicksKeepComing`), which is beyond the prover;
and that the whole terminal, not its buffer alone, refines `Screen`
(`ActsAsScreen` of `Spec`): the theorems have what scrolling, blanking, printing and
moving leave in the cells, and what is missing is printing while text scrolls, in
insert mode and of wide glyphs.

## Findings

Two runs exhibit a disagreement of the code with what is said of it.

1. `pmm_stale_cache`: a page released singly stays in the cache when the scan
   hands it out as part of a longer run; a later request for one page hands it
   out again (`pmm.c:100`). The kernel has no caller of longer runs yet.
2. `heap_over_vma`: a region's end is computed as address plus *number* of pages
   (`vma.c:82`, `:86`), so the heap's second run lies inside the first.

Two more are exceptions that properties of passing runs make, so that those
say exactly how far the code goes:

- `CoversUnlessJustPast`: `bitmap_pages / 8` drops up to seven pages
  (`pmm.c:57`), where `docs/design/PMM.md` says the bitmap covers all pages.
  Rounding up to whole pages makes up for it in all cases but one.
- `FreedIsUnmapped`: the first region has the address of the empty root, which
  `vma_free` finds instead (`vma.c:146`). The test of itself in `main.c` frees
  just that one.

Noticed on the way, in the code but with no run of their own. Memory:

- `pmm.c:116`: the scan restarts its count in each word, so a run that crosses a
  64-page boundary is never found, where `docs/design/PMM.md:24` speaks of
  enough free pages in a row. `FailsOnlyWithoutARun` says that it misses no
  others.
- `pmm.c:165`: testing the bit stops a double free only if nobody has been given
  the page in between (`DoubleFrees` with a second core), where
  `docs/design/PMM.md:40` says it prevents them. On one core it does: the
  theorems about simple callers include it.
- `pmm.c:157`: `start + pages` may wrap. `pmm.c:66`: with no entry large enough
  for the bitmap, it stays without a place.
- The lock is held with interrupts on: a handler that allocates on the core
  that holds it waits for ever. No handler allocates today.
- `vmm_init`: `pmm_init` has cut the bitmap out of the map `vmm_init` reads, so
  that only its last loop, over the first 4 GiB, maps it: a bitmap above is lost
  at the switch of `cr3`. The same loop maps without `VMM_NX` what was mapped
  with it, the stack included. `SwitchLosesNothing` and `ProtectionAsMeant` say
  so.
- `vmm.c:112`, `vma.c:72`: `HIGHER_HALF` is applied before the result is compared
  with `NULL`, so a failed allocation is not noticed; page 0 becomes a table or
  a region. Neither is part of a run: `vmm_*` do not run out of frames, `vma` has
  `Shortage = "data"`, pages that fail half way through a region, and the
  theorems have a page for every table and region.
- `vmm.c:107`: `invlpg` affects the core that executes it; another core on the
  same page map keeps its translation. `vmm.c:84`: an entry that is written over
  is not invalidated on any core, and `vma_alloc` does write over entries of
  overlapping regions.
- `vma.c:83`: the region behind a new one does not learn its new `prev`, so
  freeing in another order than last in, first out loses regions. `vma.c:30`:
  the page of the root region is not cleared.
- `vma.c:165`: `vma_free` translates through `kernel_pagemap` whatever the
  context's page map is.
- `vmm_destroy_pagemap` releases the top table only.
- `liballoc.c:572`, `:644`: `krealloc` and `kcalloc` do not look at what
  `malloc` returned. `liballoc.c:152`: sizes are `unsigned int`.

Interrupts:

- `pic.c`: a spurious interrupt on line 7 or 15 is not distinguished.
- `idt.c:75`: `capture_regs` writes `r8` and then `r9` to the place of `r9`. The stub's list of
  vectors with an error code lacks 21 and 29 (`ContextShiftedAtTwoVectors`).
- `idt_register_handler` refuses every vector that has the default handler, so
  that no exception can ever get another.

Printing (`ZeroWithNegativeStar` and `Defined` of `IsoPrintf` leave them out):

- a negative width by a star together with the flag `0` pads on the right, with
  zeros: another number. A negative precision by a star cancels the flag.
- `%.-5d`, and a precision with `%c`, `%p` and `%%`, pad with zeros; what is not
  supported is printed literally.
- `kprintf` shows nothing of a message of 1024 characters or more;
  `vsnprintf` with size 0 clears the byte in front of the buffer.

Terminal (where a property makes an exception, this is why):

- `fb.c:939`: `cursor_y` is compared with `cols`, where `rows` is meant: under a
  region that ends above the screen, text that fills the last line goes on below
  it and is lost.
- `full_refresh` clears the map without emptying the queue; the kernel only
  calls it while the queue is empty.
- Editing: `J`, `K` and `X` with the cursor after the end of a line erase on the
  next one; `J` stops at the region's bottom margin; `X` goes on to the next
  lines; `P` past the end of the line erases left of the cursor; `K 1` spares
  the cursor's cell; `@` with 0 erases the rest of the line; `M` takes out the
  line at the top margin and not the cursor's.
- Moving: `B` from the line below the region goes up; `ESC M` goes to column 0;
  `d` and `G` with 0 go to the last line and column.
- Colours: 1, 5, 22 and 25 in reverse video paint the wrong side's default (7,
  then 22 is invisible); 38 and 48 ignore reverse video; `ESC 8` without `ESC 7`
  gives black on black; `ESC c` keeps the colours of the text.
- Parsing: an `OSC` ends at its first byte; a lead byte of UTF-8 inside a sequence is
  swallowed; `CAN` does not forget the `?` of a private sequence.

## What is assumed and what is not modelled

- Page 0 is never reported as usable by the boot loader (Limine keeps it), and
  the memory map is sorted, page aligned and does not overlap, as its protocol
  says. The kernel and its stack are in an entry of their own.
- Memory is sequentially consistent, and the atomic built-ins of the lock are
  atomic.
- `VmmBoot`: tables come from the allocator's pages, lowest first, and do not
  run out: a step that finds none ends the behaviour ("exhausted").
- `Vmm`: callers do not work on the same tables at the same time, as `vmm.c`
  demands by having no lock (`Conflict`), and destroy a page map only when no
  core runs on it. The kernel's top entries that are used later are there from
  `vmm_init` on: a page map copies them once.
- `Vma`: the pages that `vmm_map` takes for tables are not drawn from the pool,
  and memory is zero at boot (the links of the root region are never written).
  Without that, freeing reads garbage.
- `Liballoc`: requests are far below 4 GiB, pages granted are aligned and not in
  use (`OutOfUse`; over the kernel's own regions that is false, Finding 2), callers
  do not write outside their blocks. Magic numbers are tested, their corruption
  is not modelled.
- `Interrupts`: one processor, as no code starts another. Log lines are one
  stretch each, and the memory managers' initialisation stands where they print.
- `Printf`: formats are those that `IsoPrintf` can write down: the modifiers `j`,
  `z`, `t` and a single `l`, which stand for the same 64 bits as `ll`, are in the
  model of the parser but not in these formats, and a precision of zero is
  written `.`. `IsFormat` has them in TLA+: numbers fit `int`, and the last
  text alone may end within a directive. A text argument ends with NUL. The
  count of characters is not cut to an `int`.
- `Flanterm`: the kernel sets no callback, no canvas and no output flags, so
  sequences that only call back do nothing. The pixels of a glyph are not
  modelled beyond what `FbInit` says of where they are.
- Not modelled: `gdt.c` (constants, once), `boot/limine.c` (static requests),
  the registers that `capture_regs` and `kpanic` print (text only), the options
  of nanoprintf that `kprintf.c` switches off (floats, binary, writeback) and
  `snprintf` (`vsnprintf` with its arguments), the part of `fb.c` for a canvas,
  the build.

## Plan

1. `Heap` over a corrected `Vma`: with ends of regions counted in bytes, that the
   composition keeps the properties `Liballoc` has over a correct source.
2. `VmmBoot` into `Vmm`: its final state is what `Vmm` starts from
   (`VmmAssumption` says of the kernel's top entries what `SwitchLosesNothing`
   gives); a run over both, or a theorem.
3. More than one context of `Vma`, with the page map that `vma_free` ignores.
4. Proofs: `ActsAsScreen` of the whole terminal.
