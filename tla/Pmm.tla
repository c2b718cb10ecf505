-------------------------------- MODULE Pmm --------------------------------
(***************************************************************************)
(* The physical memory manager of src/mm/pmm.c after pmm_init: a bitmap of *)
(* pages, a stack of recently released single pages, a counter of free     *)
(* pages and one spin lock, called by several cores.                       *)
(*                                                                         *)
(* Addresses are counted in pages (every pointer the kernel passes is page *)
(* aligned, the other ones return at once), so a pointer is a page number, *)
(* or a page number plus HhdmOffset for the higher-half alias.             *)
(*                                                                         *)
(* A step is what a core does between two points where another core can    *)
(* see or disturb it: the unlocked check of free_pages, the test-and-set,  *)
(* the body under the lock (one step per bit in the scan and per page in   *)
(* the release loop, while others read free_pages without the lock), and   *)
(* the release of the lock.                                                *)
(***************************************************************************)
EXTENDS Integers, Sequences, FiniteSets

CONSTANTS
  Cores,          \* callers that can be inside the allocator at once
  BitmapPages,    \* bitmap_pages: pages the bitmap tracks
  WordSize,       \* BITMAP_WORD_SIZE
  CacheSize,      \* cache_size = PAGE_CACHE_SIZE
  Usable,         \* pages whose bit pmm_init has cleared
  HhdmOffset,     \* hhdm_offset, in pages
  Wrap,           \* 2^64: free_pages is an unsigned 64-bit counter
  Sizes,          \* page counts that callers ask for and release
  StrayPointers,  \* pointers outside the bitmap that a caller may release
  DoubleFrees     \* TRUE if callers may release a range that is free already

NULL == 0
Pages == 0 .. BitmapPages - 1

ASSUME PmmAssumption ==
  /\ BitmapPages \in Nat
  /\ WordSize \in Nat \ {0}
  /\ CacheSize \in Nat
  /\ Usable \subseteq Pages \ {NULL}  \* Limine never reports page 0 as usable
  /\ HhdmOffset \in Nat /\ HhdmOffset >= BitmapPages
  /\ Wrap \in Nat /\ Wrap > BitmapPages
  /\ Sizes \subseteq Nat
  /\ StrayPointers \subseteq Nat
  \* start + pages of pmm_release_pages does not overflow
  /\ \A n \in Sizes, a \in StrayPointers \cup Pages : a + n < Wrap
  /\ DoubleFrees \in BOOLEAN

VARIABLES
  bitmap,         \* page -> TRUE if used (bit set)
  free_pages,
  page_cache,     \* page_cache[0 .. cache_index - 1], so cache_index is Len
  pmm_lock,
  pc,             \* core -> where it is in its call
  call,           \* core -> the arguments of that call and its loops' locals
  ret,            \* core -> what its call is about to return
  held            \* page -> outstanding hand-outs of that page to callers

vars == <<bitmap, free_pages, page_cache, pmm_lock, pc, call, ret, held>>

Lock == INSTANCE Spinlock WITH lock <- pmm_lock

-----------------------------------------------------------------------------
(* Pages, pointers and runs *)

PageOf(ptr) == IF ptr >= HhdmOffset THEN ptr - HhdmOffset ELSE ptr
PointerTo(p, higher_half) == IF higher_half THEN p + HhdmOffset ELSE p
Run(s, n) == s .. s + n - 1

Pointers == {PointerTo(p, hh) : p \in Pages \ {NULL}, hh \in BOOLEAN}
            \cup StrayPointers

Free == {p \in Pages : ~bitmap[p]}

\* word, bit and consecutive are i, j and consecutive of the scan, done is i
\* of the release loop.
Idle == [op |-> "none", pages |-> 0, ptr |-> NULL, higher_half |-> FALSE,
         word |-> 0, bit |-> 0, consecutive |-> 0, done |-> 0]

Calls == [op : {"none", "request", "release", "count"}, pages : Nat,
          ptr : Nat, higher_half : BOOLEAN,
          word : Nat, bit : Nat, consecutive : Nat, done : Nat]

Critical == {"locked", "scanning", "freeing", "unlock"}

\* The unsigned counter wraps around at both ends.
Plus(a, b) == IF a + b < Wrap THEN a + b ELSE a + b - Wrap
Minus(a, b) == IF a >= b THEN a - b ELSE a - b + Wrap

Init ==
  /\ bitmap = [p \in Pages |-> p \notin Usable]
  /\ free_pages = Cardinality(Usable)
  /\ page_cache = <<>>
  /\ Lock!spinlock_init
  /\ pc = [c \in Cores |-> "idle"]
  /\ call = [c \in Cores |-> Idle]
  /\ ret = [c \in Cores |-> NULL]
  /\ held = [p \in Pages |-> 0]

Goto(c, where) == pc' = [pc EXCEPT ![c] = where]

\* A core starts a call: it has its arguments and goes for the lock.
Enter(c, args) ==
  /\ pc[c] = "idle"
  /\ call' = [call EXCEPT ![c] = args]
  /\ Goto(c, "acquire")
  /\ UNCHANGED <<bitmap, free_pages, page_cache, pmm_lock, ret>>

-----------------------------------------------------------------------------
(* pmm_request_pages *)

\* The check of the arguments reads free_pages before the lock is taken.
RequestEnter(c, n, hh) ==
  /\ n # 0 /\ n <= free_pages
  /\ Enter(c, [Idle EXCEPT !.op = "request", !.pages = n, !.higher_half = hh])
  /\ UNCHANGED held

RequestReject(c, n) ==
  /\ pc[c] = "idle"
  /\ n = 0 \/ n > free_pages
  /\ UNCHANGED vars      \* NULL is returned, nothing else happens

Acquire(c) ==
  /\ pc[c] = "acquire"
  /\ Lock!spinlock_acquire
  /\ Goto(c, "locked")
  /\ UNCHANGED <<bitmap, free_pages, page_cache, call, ret, held>>

Locked(c, op) == pc[c] = "locked" /\ call[c].op = op

SetBits(s, n) == bitmap' = [p \in Pages |-> bitmap[p] \/ p \in Run(s, n)]

\* Mutant: single pages are not counted out.
CountOutRuns(n) == free_pages' = IF n = 1 THEN free_pages
                                          ELSE Minus(free_pages, n)

CountOut(n) == free_pages' = Minus(free_pages, n)

\* Mark the run used, count it out and return its address; the caller owns
\* the pages that the returned pointer names.
HandOut(c, s) ==
  LET n   == call[c].pages
      ptr == PointerTo(s, call[c].higher_half)
  IN  /\ SetBits(s, n)
      /\ CountOut(n)
      /\ ret' = [ret EXCEPT ![c] = ptr]
      /\ held' = [p \in Pages |->
                    held[p] + (IF p \in Run(PageOf(ptr), n) THEN 1 ELSE 0)]
      /\ Goto(c, "unlock")
      /\ UNCHANGED <<pmm_lock, call>>

\* Mutant: the cache counts as empty when one entry is left.
UsesCacheOffByOne(c) == call[c].pages = 1 /\ Len(page_cache) > 1

UsesCache(c) == call[c].pages = 1 /\ page_cache # <<>>

\* Mutant: the entry is read at the bottom of the stack and popped at the top.
BottomOfCache == page_cache[1]

TopOfCache == page_cache[Len(page_cache)]

TakeCached(c) ==
  /\ Locked(c, "request")
  /\ UsesCache(c)
  /\ HandOut(c, TopOfCache)
  /\ page_cache' = SubSeq(page_cache, 1, Len(page_cache) - 1)

-----------------------------------------------------------------------------
(* The scan of pmm_request_pages *)

\* Mutant: a last word with fewer pages is not counted.
FullWordCount == BitmapPages \div WordSize

WordCount == (BitmapPages + WordSize - 1) \div WordSize

PageAt(a) == a.word * WordSize + a.bit

FullWord(w) == \A p \in Pages : p \div WordSize = w => bitmap[p]

\* A word without a clear bit is skipped; the other ones end after their bits
\* or with the bitmap.
WordOver(a) ==
  \/ a.bit = 0 /\ FullWord(a.word)
  \/ a.bit = WordSize
  \/ PageAt(a) >= BitmapPages

\* The clear bits in a row up to and with the current one.
Consecutive(a) == IF bitmap[PageAt(a)] THEN 0 ELSE a.consecutive + 1

StartScan(c) ==
  /\ Locked(c, "request")
  /\ ~UsesCache(c)
  /\ Goto(c, "scanning")
  /\ UNCHANGED <<bitmap, free_pages, page_cache, pmm_lock, call, ret, held>>

Scanning(c) == pc[c] = "scanning" /\ call[c].word < WordCount

\* The scan goes on with these locals.
ScanOn(c, word, bit, consecutive) ==
  /\ call' = [call EXCEPT ![c].word = word, ![c].bit = bit,
                          ![c].consecutive = consecutive]
  /\ UNCHANGED <<bitmap, free_pages, page_cache, pmm_lock, pc, ret, held>>

\* Mutant: a word without a clear bit is looked at for ever.
NextWordStuck(c) ==
  /\ Scanning(c)
  /\ WordOver(call[c])
  /\ ScanOn(c, IF call[c].bit = 0 THEN call[c].word ELSE call[c].word + 1, 0, 0)

\* The count of clear bits restarts with every word.
NextWord(c) ==
  /\ Scanning(c)
  /\ WordOver(call[c])
  /\ ScanOn(c, call[c].word + 1, 0, 0)

NextBit(c) ==
  LET a == call[c] IN
  /\ Scanning(c)
  /\ ~WordOver(a)
  /\ Consecutive(a) # a.pages
  /\ ScanOn(c, a.word, a.bit + 1, Consecutive(a))

\* The current bit completes a run.
TakeRun(c) ==
  LET a == call[c] IN
  /\ Scanning(c)
  /\ ~WordOver(a)
  /\ Consecutive(a) = a.pages
  /\ HandOut(c, PageAt(a) + 1 - a.pages)
  /\ UNCHANGED page_cache

ScannedAll(c) == pc[c] = "scanning" /\ call[c].word = WordCount

RequestFail(c) ==
  /\ ScannedAll(c)
  /\ ret' = [ret EXCEPT ![c] = NULL]
  /\ Goto(c, "unlock")
  /\ UNCHANGED <<bitmap, free_pages, page_cache, pmm_lock, call, held>>

-----------------------------------------------------------------------------
(* pmm_release_pages *)

InBitmap(ptr, n) == PageOf(ptr) + n <= BitmapPages

\* A caller gives up pages it holds, releases something outside the bitmap,
\* or (DoubleFrees) releases once more what is free already.
ReleaseEnter(c, n, ptr) ==
  LET R == Run(PageOf(ptr), n) IN
  /\ ptr # NULL
  /\ \/ /\ InBitmap(ptr, n)
        /\ \A p \in R : held[p] > 0
        /\ held' = [p \in Pages |-> held[p] - (IF p \in R THEN 1 ELSE 0)]
     \/ /\ ~InBitmap(ptr, n)
        /\ UNCHANGED held
     \/ /\ DoubleFrees /\ n # 0
        /\ R \subseteq Free
        /\ UNCHANGED held
  /\ Enter(c, [Idle EXCEPT !.op = "release", !.pages = n, !.ptr = ptr])

\* Mutant: a range that ends with the bitmap is out of bounds, too.
EntersLoopOffByOne(a) == PageOf(a.ptr) + a.pages < BitmapPages /\ a.pages > 0

EntersLoop(a) == InBitmap(a.ptr, a.pages) /\ a.pages > 0

ReleaseCheck(c) ==
  /\ Locked(c, "release")
  /\ IF EntersLoop(call[c])
       THEN Goto(c, "freeing")
       ELSE Goto(c, "unlock")
  /\ UNCHANGED <<bitmap, free_pages, page_cache, pmm_lock, call, ret, held>>

\* The pages of a release that its loop has not reached yet.
Pending(c) ==
  LET a == call[c] IN
  IF /\ a.op = "release"
     /\ pc[c] \in {"acquire", "locked", "freeing"}
     /\ InBitmap(a.ptr, a.pages)
    THEN PageOf(a.ptr) + a.done .. PageOf(a.ptr) + a.pages - 1
    ELSE {}

\* Mutant: the bit is not tested.
MustFreeAlways(p) == TRUE

MustFree(p) == bitmap[p]

\* Mutant: the capacity of the cache is not checked.
CachesUnbounded(n) == n = 1

CachesPage(n) == n = 1 /\ Len(page_cache) < CacheSize

\* One iteration of the loop, for page start + i.
FreePage(c) ==
  LET a == call[c]
      p == PageOf(a.ptr) + a.done
  IN  /\ pc[c] = "freeing"
      /\ \/ /\ MustFree(p)
            /\ bitmap' = [bitmap EXCEPT ![p] = FALSE]
            /\ free_pages' = Plus(free_pages, 1)
            /\ IF CachesPage(a.pages)
                 THEN page_cache' = Append(page_cache, PageOf(a.ptr))
                 ELSE UNCHANGED page_cache
         \/ /\ ~MustFree(p)
            /\ UNCHANGED <<bitmap, free_pages, page_cache>>
      /\ call' = [call EXCEPT ![c].done = @ + 1]
      /\ IF a.done + 1 = a.pages
           THEN Goto(c, "unlock")
           ELSE UNCHANGED pc
      /\ UNCHANGED <<pmm_lock, ret, held>>

-----------------------------------------------------------------------------
(* pmm_get_free_pages *)

CountEnter(c) ==
  /\ Enter(c, [Idle EXCEPT !.op = "count"])
  /\ UNCHANGED held

Count(c) ==
  /\ Locked(c, "count")
  /\ ret' = [ret EXCEPT ![c] = free_pages]
  /\ Goto(c, "unlock")
  /\ UNCHANGED <<bitmap, free_pages, page_cache, pmm_lock, call, held>>

-----------------------------------------------------------------------------

\* Every path through the three functions ends by releasing the lock.
Unlock(c) ==
  /\ pc[c] = "unlock"
  /\ Lock!spinlock_release
  /\ Goto(c, "idle")
  /\ call' = [call EXCEPT ![c] = Idle]
  /\ ret' = [ret EXCEPT ![c] = NULL]
  /\ UNCHANGED <<bitmap, free_pages, page_cache, held>>

\* A core inside a call goes on by itself; starting one is up to the caller.
Step(c) ==
  \/ Acquire(c)
  \/ TakeCached(c) \/ StartScan(c) \/ NextWord(c) \/ NextBit(c)
  \/ TakeRun(c) \/ RequestFail(c)
  \/ ReleaseCheck(c) \/ FreePage(c)
  \/ Count(c)
  \/ Unlock(c)

Start(c) ==
  \/ \E n \in Sizes, hh \in BOOLEAN : RequestEnter(c, n, hh)
  \/ \E n \in Sizes : RequestReject(c, n)
  \/ \E n \in Sizes, ptr \in Pointers : ReleaseEnter(c, n, ptr)
  \/ CountEnter(c)

Next == \E c \in Cores : Start(c) \/ Step(c)

Spec == Init /\ [][Next]_vars

\* A core that runs is not stopped for ever inside the allocator.
FairSpec == Spec /\ \A c \in Cores : WF_vars(Step(c))

-----------------------------------------------------------------------------
(* Properties *)

\* Every variable has its C type; the stack of cached pages stays within the
\* array page_cache[PAGE_CACHE_SIZE].
TypeOK ==
  /\ bitmap \in [Pages -> BOOLEAN]
  /\ free_pages \in 0 .. Wrap - 1
  /\ page_cache \in Seq(Pages) /\ Len(page_cache) <= CacheSize
  /\ pmm_lock \in BOOLEAN
  /\ pc \in [Cores -> {"idle", "acquire"} \cup Critical]
  /\ call \in [Cores -> Calls]
  /\ ret \in [Cores -> Nat]
  /\ held \in [Pages -> Nat]

\* pmm_lock: the flag is set exactly while some core is between acquire and
\* release, and there is never a second one.
MutualExclusion ==
  /\ pmm_lock <=> \E c \in Cores : pc[c] \in Critical
  /\ \A c, d \in Cores :
       pc[c] \in Critical /\ pc[d] \in Critical => c = d

Held == {p \in Pages : held[p] > 0}
Returning == UNION {Pending(c) : c \in Cores}

\* No page belongs to two callers, and one that belongs to a caller is marked
\* used: neither the cache nor the scan hands out what somebody owns.
NoDoubleAllocation ==
  /\ \A p \in Pages : held[p] <= 1
  /\ Held \cap Free = {}

\* A used page of usable memory is held by a caller or is on its way back: no
\* path of pmm_request_pages or pmm_release_pages forgets a page.
NoPageLost == Usable = Free \cup Held \cup Returning

\* free_pages is the number of clear bits of the bitmap, so the check before
\* the lock never refuses what the bitmap could give, and never wraps.
FreePagesExact == free_pages = Cardinality(Free)

\* The cache lists distinct pages that are free: popping one and setting its
\* bit takes a page that nobody has.
CacheSound ==
  /\ \A i \in 1 .. Len(page_cache) : page_cache[i] \in Free
  /\ \A i, j \in 1 .. Len(page_cache) :
       page_cache[i] = page_cache[j] => i = j

\* Runs of n free pages that lie within one word of the bitmap.
FreeRuns(n) ==
  {s \in Pages : /\ Run(s, n) \subseteq Free
                 /\ s \div WordSize = (s + n - 1) \div WordSize}

\* A request that took the lock comes back with NULL.
ReturnsNull(c) ==
  /\ call[c].op = "request" /\ pc[c] \in {"locked", "scanning"}
  /\ pc'[c] = "unlock" /\ ret'[c] = NULL

\* That happens only if no word of the bitmap, the last and shorter one among
\* them, has so many clear bits in a row: restarting the count loses the runs
\* over word boundaries, no others.
FailsOnlyWithoutARun ==
  [][\A c \in Cores : ReturnsNull(c) => FreeRuns(call[c].pages) = {}]_vars

\* The bitmap, the cache and the counter together behave as one set of free
\* pages from which callers take and to which they give back.
Allocator == INSTANCE PageAllocator
               WITH free <- Free, held <- Held, returning <- Returning
ImplementsPageAllocator == Allocator!Spec

\* While cores wait for pmm_lock, some core always gets it.  (Which one is
\* not promised: a test-and-set lock may starve a core.)
SomeCoreGetsIn ==
  (\E c \in Cores : pc[c] = "acquire") ~> (\E c \in Cores : pc[c] = "locked")

=============================================================================
