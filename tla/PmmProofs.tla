----------------------------- MODULE PmmProofs -----------------------------
(***************************************************************************)
(* Theorems about the physical memory manager for every number of cores,   *)
(* pages, cache slots and every placement of the usable memory.            *)
(*                                                                         *)
(* Type correctness, mutual exclusion and the completeness of the scan     *)
(* hold whatever callers ask for.  What the allocator owes its callers is  *)
(* proved for callers that never mix single pages with longer runs         *)
(* (SimpleCallers): that is what the kernel does, and the run              *)
(* pmm_stale_cache shows why.                                              *)
(***************************************************************************)
EXTENDS Pmm, FiniteSetTheorems, SequenceTheorems, TLAPS

-----------------------------------------------------------------------------
(* The inductive invariant *)

\* The locals of both loops before their first iteration.
Fresh(a) == a.word = 0 /\ a.bit = 0 /\ a.consecutive = 0 /\ a.done = 0

\* The arguments and locals of a call, as far as the body of the functions
\* relies on them.
CallsSane ==
  \A c \in Cores :
    /\ pc[c] \in {"acquire", "locked"} => Fresh(call[c])
    /\ pc[c] = "scanning" => /\ call[c].op = "request"
                             /\ call[c].consecutive <= call[c].bit
    /\ pc[c] = "freeing" => /\ call[c].op = "release"
                            /\ InBitmap(call[c].ptr, call[c].pages)
                            /\ call[c].done < call[c].pages
    /\ call[c].op \in {"request", "release"} => call[c].pages \in Sizes
    /\ call[c].op = "request" => call[c].pages # 0

TypeInv == TypeOK /\ CallsSane

\* Pages on their way back belong to nobody, are used unless callers release
\* what is free, and are given back by one core only.
PendingSound ==
  /\ \A c \in Cores : Pending(c) \subseteq Pages \ Held
  /\ ~DoubleFrees => \A c \in Cores : Pending(c) \cap Free = {}
  /\ \A c, d \in Cores : c # d => Pending(c) \cap Pending(d) = {}

\* The cache is in use only if there are callers that release single pages.
CacheOfSingles == page_cache # <<>> => 1 \in Sizes

\* Callers use either single pages or runs.  Only the caller of a single core
\* may release what is free: with more, another one may have got it meanwhile.
SimpleCallers ==
  /\ DoubleFrees => \A c, d \in Cores : c = d
  /\ Sizes \subseteq {0, 1} \/ 1 \notin Sizes

OwnersInv ==
  /\ NoDoubleAllocation
  /\ NoPageLost
  /\ PendingSound
  /\ CacheSound
  /\ CacheOfSingles

AllocInv == TypeInv /\ OwnersInv /\ FreePagesExact

-----------------------------------------------------------------------------
(* Pages, pointers and runs *)

\* A pointer that was made from a page names that page again.
LEMMA PointerRoundTrip ==
  ASSUME NEW p \in Pages, NEW hh \in BOOLEAN
  PROVE  /\ PointerTo(p, hh) \in Nat
         /\ PageOf(PointerTo(p, hh)) = p
         /\ p # NULL => PointerTo(p, hh) # NULL
BY PmmAssumption DEF PointerTo, PageOf, Pages, NULL

\* Every pointer a caller may pass stands for a natural page number.
LEMMA PointersType ==
  /\ Pointers \subseteq Nat
  /\ \A ptr \in Nat : PageOf(ptr) \in Nat
<1>1. \A p \in Pages, hh \in BOOLEAN : PointerTo(p, hh) \in Nat
  BY PointerRoundTrip
<1>2. Pointers \subseteq Nat
  <2>1. StrayPointers \subseteq Nat
    BY PmmAssumption
  <2>2. ASSUME NEW ptr \in Pointers, ptr \notin StrayPointers
        PROVE  ptr \in Nat
    <3>1. ptr \in {PointerTo(p, hh) : p \in Pages \ {NULL}, hh \in BOOLEAN}
      BY <2>2 DEF Pointers
    <3>2. PICK p \in Pages \ {NULL}, hh \in BOOLEAN : ptr = PointerTo(p, hh)
      BY <3>1
    <3>3. QED
      BY <1>1, <3>2
  <2>3. QED
    BY <2>1, <2>2
<1>3. \A ptr \in Nat : PageOf(ptr) \in Nat
  BY PmmAssumption DEF PageOf
<1>4. QED
  BY <1>2, <1>3

\* What the scan reads and counts has its type.
LEMMA ScanTypes ==
  ASSUME NEW a \in Calls
  PROVE  /\ PageAt(a) \in Nat /\ PageAt(a) >= a.bit
         /\ a.word * WordSize \in Nat
         /\ PageAt(a) = a.word * WordSize + a.bit
         /\ Consecutive(a) \in Nat
         /\ a.consecutive <= a.bit => Consecutive(a) <= a.bit + 1
         /\ WordCount \in Nat
<1>1. a.word \in Nat /\ a.bit \in Nat /\ a.consecutive \in Nat
  BY DEF Calls
<1>2. WordSize \in Nat \ {0} /\ BitmapPages \in Nat
  BY PmmAssumption
<1>3. a.word * WordSize \in Nat
  BY <1>1, <1>2
<1>4. WordCount \in Nat
  BY <1>2 DEF WordCount
<1>5. QED
  BY <1>1, <1>3, <1>4 DEF PageAt, Consecutive

\* A run that ends with the current bit lies in the bitmap, so it is no longer
\* than it.
LEMMA RunsInBitmap ==
  ASSUME NEW a \in Calls, ~WordOver(a), Consecutive(a) = a.pages,
         a.consecutive <= a.bit, a.pages # 0
  PROVE  PageAt(a) + 1 - a.pages \in Pages /\ a.pages <= BitmapPages
<1>1. PageAt(a) < BitmapPages /\ a.pages <= PageAt(a) + 1
  BY ScanTypes, PmmAssumption DEF WordOver, Calls
<1>2. a.pages \in Nat /\ PageAt(a) \in Nat /\ BitmapPages \in Nat
  BY ScanTypes, PmmAssumption DEF Calls
<1>3. QED
  BY <1>1, <1>2, PmmAssumption DEF Pages

\* The pages of the bitmap can be counted.
LEMMA PagesFinite == IsFiniteSet(Pages) /\ Cardinality(Pages) = BitmapPages
<1>1. CASE BitmapPages = 0
  BY <1>1, FS_Interval, PmmAssumption DEF Pages
<1>2. CASE BitmapPages # 0
  BY <1>2, FS_Interval, PmmAssumption DEF Pages
<1>3. QED
  BY <1>1, <1>2

\* A run of n pages has n pages.
LEMMA RunLength ==
  ASSUME NEW s \in Pages, NEW n \in Nat
  PROVE  IsFiniteSet(Run(s, n)) /\ Cardinality(Run(s, n)) = n
BY FS_Interval, PmmAssumption DEF Run, Pages

-----------------------------------------------------------------------------
(* Type correctness *)

\* Initially every variable has its type and no core is inside a call.
LEMMA TypeInit == Init => TypeInv
<1> SUFFICES ASSUME Init PROVE TypeInv
  OBVIOUS
<1> USE DEF Init
<1>1. IsFiniteSet(Pages) /\ Cardinality(Pages) = BitmapPages
  BY PagesFinite
<1>2. Usable \subseteq Pages
  BY PmmAssumption
<1>3. Cardinality(Usable) \in 0 .. BitmapPages
  BY <1>1, <1>2, FS_Subset, FS_CardinalityType
<1>4. TypeOK
  <2>1. free_pages \in 0 .. Wrap - 1
    BY <1>3, PmmAssumption
  <2>2. page_cache \in Seq(Pages) /\ Len(page_cache) <= CacheSize
    BY PmmAssumption
  <2>3. Idle \in Calls
    BY DEF Idle, Calls, NULL
  <2>4. QED
    BY <2>1, <2>2, <2>3 DEF TypeOK, Lock!spinlock_init, NULL
<1>5. CallsSane
  BY DEF CallsSane, Idle, Fresh
<1>6. QED
  BY <1>4, <1>5 DEF TypeInv

\* A core that enters a call brings arguments of the right type.
LEMMA TypeEnter ==
  ASSUME TypeInv, NEW c \in Cores, NEW args \in Calls, Enter(c, args),
         Fresh(args),
         args.op \in {"request", "release"} => args.pages \in Sizes,
         args.op = "request" => args.pages # 0,
         held' \in [Pages -> Nat]
  PROVE  TypeInv'
<1> USE DEF TypeInv, Enter, Goto
<1>1. TypeOK'
  BY DEF TypeOK
<1>2. CallsSane'
  <2> SUFFICES ASSUME NEW d \in Cores
               PROVE  /\ pc'[d] \in {"acquire", "locked"} => Fresh(call'[d])
                      /\ pc'[d] = "scanning" =>
                           /\ call'[d].op = "request"
                           /\ call'[d].consecutive <= call'[d].bit
                      /\ pc'[d] = "freeing" =>
                           /\ call'[d].op = "release"
                           /\ InBitmap(call'[d].ptr, call'[d].pages)
                           /\ call'[d].done < call'[d].pages
                      /\ call'[d].op \in {"request", "release"} =>
                           call'[d].pages \in Sizes
                      /\ call'[d].op = "request" => call'[d].pages # 0
    BY DEF CallsSane, InBitmap, PageOf, Fresh
  <2>1. CASE d = c
    BY <2>1 DEF TypeOK
  <2>2. CASE d # c
    BY <2>2 DEF TypeOK, CallsSane
  <2>3. QED
    BY <2>1, <2>2
<1>3. QED
  BY <1>1, <1>2

\* Handing out a run that the bitmap covers keeps every variable in its type.
LEMMA TypeHandOut ==
  ASSUME TypeInv, NEW c \in Cores, NEW s \in Pages,
         call[c].pages <= BitmapPages, HandOut(c, s),
         page_cache' \in Seq(Pages), Len(page_cache') <= CacheSize
  PROVE  TypeInv'
<1> USE DEF TypeInv
<1>1. call[c].pages \in Nat /\ call[c].higher_half \in BOOLEAN
  BY DEF TypeOK, Calls
<1>2. PointerTo(s, call[c].higher_half) \in Nat
  BY <1>1, PointerRoundTrip
<1>3. bitmap' \in [Pages -> BOOLEAN]
  BY DEF HandOut, SetBits, TypeOK
<1>4. free_pages' \in 0 .. Wrap - 1
  BY <1>1, PmmAssumption DEF HandOut, CountOut, Minus, TypeOK
<1>5. held' \in [Pages -> Nat]
  BY DEF HandOut, TypeOK
<1>6. TypeOK'
  BY <1>2, <1>3, <1>4, <1>5 DEF HandOut, Goto, TypeOK, Critical
<1>7. CallsSane'
  BY DEF HandOut, Goto, TypeOK, CallsSane
<1>8. QED
  BY <1>6, <1>7

\* A call that starts keeps every variable in its type.
LEMMA TypeStart ==
  ASSUME TypeInv, NEW c \in Cores, Start(c)
  PROVE  TypeInv'
<1>1. CASE \E n \in Sizes, hh \in BOOLEAN : RequestEnter(c, n, hh)
  <2>1. PICK n \in Sizes, hh \in BOOLEAN : RequestEnter(c, n, hh)
    BY <1>1
  <2> DEFINE args == [Idle EXCEPT !.op = "request", !.pages = n,
                                  !.higher_half = hh]
  <2>2. args \in Calls /\ Fresh(args) /\ args.op = "request"
        /\ args.pages = n
    BY PmmAssumption DEF Idle, Calls, NULL, Fresh
  <2>3. Enter(c, args) /\ n # 0 /\ UNCHANGED held
    BY <2>1 DEF RequestEnter
  <2> HIDE DEF args
  <2>4. QED
    BY <2>2, <2>3, TypeEnter DEF TypeInv, TypeOK
<1>2. CASE \E n \in Sizes : RequestReject(c, n)
  BY <1>2 DEF RequestReject, vars, TypeInv, TypeOK, CallsSane, InBitmap, PageOf, Fresh
<1>3. CASE \E n \in Sizes, ptr \in Pointers : ReleaseEnter(c, n, ptr)
  <2>1. PICK n \in Sizes, ptr \in Pointers : ReleaseEnter(c, n, ptr)
    BY <1>3
  <2> DEFINE args == [Idle EXCEPT !.op = "release", !.pages = n, !.ptr = ptr]
  <2>2. args \in Calls /\ Fresh(args) /\ args.op = "release"
        /\ args.pages = n
    BY PmmAssumption, PointersType DEF Idle, Calls, NULL, Fresh
  <2>3. Enter(c, args)
    BY <2>1 DEF ReleaseEnter
  <2>4. held' \in [Pages -> Nat]
    BY <2>1 DEF ReleaseEnter, TypeInv, TypeOK
  <2> HIDE DEF args
  <2>5. QED
    BY <2>2, <2>3, <2>4, TypeEnter
<1>4. CASE CountEnter(c)
  <2> DEFINE args == [Idle EXCEPT !.op = "count"]
  <2>1. args \in Calls /\ Fresh(args) /\ args.op = "count"
    BY DEF Idle, Calls, NULL, Fresh
  <2>2. Enter(c, args) /\ UNCHANGED held
    BY <1>4 DEF CountEnter
  <2> HIDE DEF args
  <2>3. QED
    BY <2>1, <2>2, TypeEnter DEF TypeInv, TypeOK
<1>5. QED
  BY <1>1, <1>2, <1>3, <1>4 DEF Start

\* Whatever a core does inside a call keeps every variable in its type.
LEMMA TypeStep ==
  ASSUME TypeInv, NEW c \in Cores, Step(c)
  PROVE  TypeInv'
<1> USE DEF TypeInv
<1>1. CASE Acquire(c)
  BY <1>1 DEF Acquire, Goto, Lock!spinlock_acquire, TypeOK, Critical,
              CallsSane, InBitmap, PageOf, Fresh
<1>2. CASE TakeCached(c)
  <2>1. page_cache \in Seq(Pages) /\ page_cache # <<>>
    BY <1>2 DEF TakeCached, UsesCache, TypeOK
  <2>2. TopOfCache \in Pages /\ Len(page_cache) \in Nat \ {0}
    BY <2>1 DEF TopOfCache
  <2>3. call[c].pages <= BitmapPages
    BY <1>2, <2>2, PmmAssumption DEF TakeCached, UsesCache, Pages
  <2>4. page_cache' \in Seq(Pages) /\ Len(page_cache') <= CacheSize
    BY <1>2, <2>1, <2>2, PmmAssumption DEF TakeCached, TypeOK
  <2>5. QED
    BY <1>2, <2>2, <2>3, <2>4, TypeHandOut DEF TakeCached
<1>3. CASE TakeRun(c)
  <2> DEFINE a == call[c]
  <2>1. /\ a \in Calls /\ a.consecutive <= a.bit /\ a.pages # 0
        /\ ~WordOver(a) /\ Consecutive(a) = a.pages
        /\ HandOut(c, PageAt(a) + 1 - a.pages)
    BY <1>3 DEF TakeRun, Scanning, TypeOK, CallsSane
  <2>2. PageAt(a) + 1 - a.pages \in Pages /\ a.pages <= BitmapPages
    BY <2>1, RunsInBitmap
  <2>3. page_cache' \in Seq(Pages) /\ Len(page_cache') <= CacheSize
    BY <1>3 DEF TakeRun, TypeOK
  <2>4. QED
    BY <2>1, <2>2, <2>3, TypeHandOut
<1>4. CASE RequestFail(c)
  BY <1>4 DEF RequestFail, Goto, TypeOK, Critical, CallsSane, InBitmap,
              PageOf, NULL, Fresh
<1>5. CASE ReleaseCheck(c)
  <2>1. TypeOK'
    BY <1>5 DEF ReleaseCheck, Goto, TypeOK, Critical
  <2>2. call[c].pages \in Nat
    BY DEF TypeOK, Calls
  <2>3. CallsSane'
    BY <1>5, <2>2 DEF ReleaseCheck, Locked, EntersLoop, Goto, TypeOK,
                      CallsSane, InBitmap, PageOf, Fresh
  <2>4. QED
    BY <2>1, <2>3
<1>6. CASE FreePage(c)
  <2> DEFINE a == call[c]
             p == PageOf(a.ptr) + a.done
  <2>1. /\ a \in Calls /\ PageOf(a.ptr) \in Nat
        /\ a.pages \in Nat /\ a.done \in Nat /\ a.ptr \in Nat
    BY PointersType DEF TypeOK, Calls
  <2>2. InBitmap(a.ptr, a.pages) /\ a.done < a.pages
    BY <1>6 DEF FreePage, CallsSane
  <2>3. PageOf(a.ptr) \in Pages
    BY <2>1, <2>2, PmmAssumption DEF InBitmap, Pages
  <2>4. bitmap' \in [Pages -> BOOLEAN]
    BY <1>6 DEF FreePage, TypeOK
  <2>5. free_pages' \in 0 .. Wrap - 1
    BY <1>6, PmmAssumption DEF FreePage, Plus, TypeOK
  <2>6. page_cache' \in Seq(Pages) /\ Len(page_cache') <= CacheSize
    <3>1. page_cache \in Seq(Pages) /\ Len(page_cache) <= CacheSize
      BY DEF TypeOK
    <3>2. Len(Append(page_cache, PageOf(a.ptr))) = Len(page_cache) + 1
          /\ Append(page_cache, PageOf(a.ptr)) \in Seq(Pages)
          /\ Len(page_cache) \in Nat
      BY <2>3, <3>1
    <3>3. \/ page_cache' = page_cache
          \/ /\ page_cache' = Append(page_cache, PageOf(a.ptr))
             /\ Len(page_cache) < CacheSize
      BY <1>6, Zenon DEF FreePage, CachesPage
    <3>4. QED
      BY <3>1, <3>2, <3>3, PmmAssumption
  <2>7. call' = [call EXCEPT ![c] = [a EXCEPT !.done = a.done + 1]]
    BY <1>6 DEF FreePage, TypeOK
  <2>8. [a EXCEPT !.done = a.done + 1] \in Calls
    BY <2>1 DEF Calls
  <2>9. TypeOK'
    BY <1>6, <2>4, <2>5, <2>6, <2>7, <2>8
       DEF FreePage, Goto, TypeOK, Critical
  <2>10. CallsSane'
    <3> SUFFICES ASSUME NEW d \in Cores
                 PROVE  /\ pc'[d] \in {"acquire", "locked"} => Fresh(call'[d])
                        /\ pc'[d] = "scanning" =>
                             /\ call'[d].op = "request"
                             /\ call'[d].consecutive <= call'[d].bit
                        /\ pc'[d] = "freeing" =>
                             /\ call'[d].op = "release"
                             /\ InBitmap(call'[d].ptr, call'[d].pages)
                             /\ call'[d].done < call'[d].pages
                        /\ call'[d].op \in {"request", "release"} =>
                             call'[d].pages \in Sizes
                        /\ call'[d].op = "request" => call'[d].pages # 0
      BY DEF CallsSane, InBitmap, PageOf, Fresh
    <3>1. CASE d # c
      BY <1>6, <2>7, <3>1 DEF FreePage, Goto, TypeOK, CallsSane
    <3>2. CASE d = c
      <4>1. /\ call'[c].op = a.op /\ call'[c].pages = a.pages
            /\ call'[c].ptr = a.ptr /\ call'[c].done = a.done + 1
        BY <2>1, <2>7 DEF TypeOK, Calls
      <4>2. pc'[c] \in {"freeing", "unlock"}
        BY <1>6 DEF FreePage, Goto, TypeOK
      <4>3. pc'[c] = "freeing" => a.done + 1 < a.pages
        BY <1>6, <2>1, <2>2 DEF FreePage, Goto, TypeOK
      <4>4. a.op = "release"
        BY <1>6 DEF FreePage, CallsSane
      <4>5. QED
        BY <2>2, <3>2, <4>1, <4>2, <4>3, <4>4 DEF CallsSane
    <3>3. QED
      BY <3>1, <3>2
  <2>11. QED
    BY <2>9, <2>10
<1>7. CASE Count(c)
  BY <1>7 DEF Count, Goto, TypeOK, Critical, CallsSane, InBitmap, PageOf, Fresh
<1>8. CASE Unlock(c)
  <2>1. Idle \in Calls /\ Idle.op = "none"
    BY DEF Idle, Calls, NULL
  <2>2. TypeOK'
    BY <1>8, <2>1 DEF Unlock, Goto, Lock!spinlock_release, TypeOK, Critical,
                      NULL
  <2>3. CallsSane'
    BY <1>8, <2>1 DEF Unlock, Goto, TypeOK, CallsSane, InBitmap, PageOf, Fresh
  <2>4. QED
    BY <2>2, <2>3
<1>9. CASE StartScan(c)
  BY <1>9 DEF StartScan, Locked, Goto, TypeOK, Critical, CallsSane, InBitmap,
              PageOf, Fresh
<1>10. ASSUME NEW word \in Nat, NEW bit \in Nat, NEW count \in Nat,
              count <= bit, Scanning(c), ScanOn(c, word, bit, count)
       PROVE  TypeInv'
  <2>1. call[c] \in Calls /\ pc[c] = "scanning" /\ call[c].op = "request"
    BY <1>10 DEF TypeOK, CallsSane, Scanning
  <2> DEFINE a == [call[c] EXCEPT !.word = word, !.bit = bit,
                                  !.consecutive = count]
  <2>2. /\ a \in Calls /\ a.op = call[c].op /\ a.pages = call[c].pages
        /\ a.consecutive = count /\ a.bit = bit
    BY <2>1 DEF Calls
  <2>3. call' = [call EXCEPT ![c] = a]
    BY <1>10 DEF ScanOn, TypeOK
  <2> HIDE DEF a
  <2>4. TypeOK'
    BY <1>10, <2>2, <2>3 DEF ScanOn, TypeOK, Critical
  <2>5. CallsSane'
    BY <1>10, <2>1, <2>2, <2>3
       DEF ScanOn, TypeOK, CallsSane, InBitmap, PageOf, Fresh
  <2>6. QED
    BY <2>4, <2>5
<1>11. CASE NextWord(c)
  <2>1. call[c].word + 1 \in Nat
    BY DEF TypeOK, Calls
  <2>2. QED
    BY <1>10, <1>11, <2>1 DEF NextWord
<1>12. CASE NextBit(c)
  <2> DEFINE a == call[c]
  <2>1. a \in Calls /\ a.consecutive <= a.bit
    BY <1>12 DEF TypeOK, CallsSane, NextBit, Scanning
  <2>2. /\ a.word \in Nat /\ a.bit + 1 \in Nat /\ Consecutive(a) \in Nat
        /\ Consecutive(a) <= a.bit + 1
    BY <2>1, ScanTypes DEF Calls
  <2>3. QED
    BY <1>10, <1>12, <2>2 DEF NextBit
<1>13. QED
  BY <1>1, <1>2, <1>3, <1>4, <1>5, <1>6, <1>7, <1>8, <1>9, <1>11, <1>12
     DEF Step

\* No step, by any core, takes a variable out of its type.
LEMMA TypeNext == TypeInv /\ [Next]_vars => TypeInv'
<1> SUFFICES ASSUME TypeInv, [Next]_vars PROVE TypeInv'
  OBVIOUS
<1>1. CASE Next
  BY <1>1, TypeStart, TypeStep DEF Next
<1>2. CASE UNCHANGED vars
  BY <1>2 DEF vars, TypeInv, TypeOK, CallsSane, InBitmap, PageOf, Fresh
<1>3. QED
  BY <1>1, <1>2

\* The types, and what the arguments of a call in progress satisfy, hold in
\* every reachable state, for any callers.
LEMMA TypeInvariant == Spec => []TypeInv
BY TypeInit, TypeNext, PTL DEF Spec

\* Whatever callers ask for and release, free_pages stays a 64-bit number,
\* the stack of cached pages never outgrows page_cache[], and every index
\* into the bitmap is below bitmap_pages.
THEOREM TypeCorrect == Spec => []TypeOK
BY TypeInvariant, PTL DEF TypeInv

-----------------------------------------------------------------------------
(* Mutual exclusion *)

\* The cores between acquiring pmm_lock and releasing it.
Inside == {d \in Cores : pc[d] \in Critical}

\* A core moves into the critical section by taking the free lock, moves out
\* by clearing it, and at every other step leaves the lock and the section
\* alone.
LockQuiet == pmm_lock' = pmm_lock /\ Inside' = Inside
LockTaken(c) == ~pmm_lock /\ pmm_lock' = TRUE /\ Inside' = Inside \cup {c}
LockCleared(c) == c \in Inside /\ pmm_lock' = FALSE /\ Inside' = Inside \ {c}

LEMMA LockMoves ==
  ASSUME TypeOK, NEW c \in Cores, Start(c) \/ Step(c)
  PROVE  LockQuiet \/ LockTaken(c) \/ LockCleared(c)
<1>1. pc \in [Cores -> {"idle", "acquire"} \cup Critical] /\ pmm_lock \in BOOLEAN
  BY DEF TypeOK, Critical
<1>2. CASE Start(c)
  <2>1. /\ pmm_lock' = pmm_lock
        /\ \/ pc' = pc
           \/ pc[c] = "idle" /\ pc' = [pc EXCEPT ![c] = "acquire"]
    BY <1>2 DEF Start, RequestEnter, RequestReject, ReleaseEnter,
                CountEnter, Enter, Goto, vars
  <2>2. Inside' = Inside
    BY <1>1, <2>1 DEF Inside, Critical
  <2>3. QED
    BY <2>1, <2>2 DEF LockQuiet
<1>3. ASSUME \/ TakeCached(c) \/ StartScan(c) \/ NextWord(c) \/ NextBit(c)
             \/ TakeRun(c) \/ RequestFail(c)
             \/ ReleaseCheck(c) \/ FreePage(c) \/ Count(c)
      PROVE  LockQuiet
  <2>1. /\ pmm_lock' = pmm_lock /\ pc[c] \in Critical
        /\ pc' = pc \/ \E there \in Critical : pc' = [pc EXCEPT ![c] = there]
    BY <1>3 DEF TakeCached, StartScan, NextWord, NextBit, ScanOn, Scanning,
                TakeRun, HandOut, RequestFail, ScannedAll, ReleaseCheck,
                FreePage, Count, Locked, Goto, Critical
  <2>2. Inside' = Inside
    BY <1>1, <2>1 DEF Inside
  <2>3. QED
    BY <2>1, <2>2 DEF LockQuiet
<1>4. ASSUME Acquire(c) PROVE LockTaken(c)
  <2>1. ~pmm_lock /\ pmm_lock' = TRUE /\ pc' = [pc EXCEPT ![c] = "locked"]
    BY <1>1, <1>4 DEF Acquire, Goto, Lock!spinlock_acquire
  <2>2. QED
    BY <1>1, <2>1 DEF LockTaken, Inside, Critical
<1>5. ASSUME Unlock(c) PROVE LockCleared(c)
  <2>1. /\ pc[c] = "unlock" /\ pmm_lock' = FALSE
        /\ pc' = [pc EXCEPT ![c] = "idle"]
    BY <1>5 DEF Unlock, Goto, Lock!spinlock_release
  <2>2. QED
    BY <1>1, <2>1 DEF LockCleared, Inside, Critical
<1>6. QED
  BY <1>2, <1>3, <1>4, <1>5 DEF Step

\* The lock is set exactly while one core is inside.
LEMMA ExclusionBySet ==
  MutualExclusion <=> /\ pmm_lock <=> Inside # {}
                      /\ \A d, e \in Inside : d = e
BY DEF MutualExclusion, Inside

\* No way through the three functions returns with pmm_lock set or enters
\* the critical section without it, for any number of cores.
THEOREM OneCoreInside == Spec => []MutualExclusion
<1>1. ASSUME Init PROVE MutualExclusion
  BY <1>1 DEF Init, MutualExclusion, Critical, Lock!spinlock_init
<1>2. ASSUME TypeOK, MutualExclusion, [Next]_vars PROVE MutualExclusion'
  <2>1. ASSUME LockQuiet PROVE MutualExclusion'
    BY <1>2, <2>1, ExclusionBySet DEF LockQuiet, MutualExclusion, Inside
  <2>2. ASSUME NEW c \in Cores, LockTaken(c) PROVE MutualExclusion'
    <3>1. Inside' = {c} /\ pmm_lock' = TRUE
      BY <1>2, <2>2, ExclusionBySet DEF LockTaken
    <3>2. QED
      BY <3>1 DEF Inside, MutualExclusion
  <2>3. ASSUME NEW c \in Cores, LockCleared(c) PROVE MutualExclusion'
    <3>1. Inside' = {} /\ pmm_lock' = FALSE
      BY <1>2, <2>3, ExclusionBySet DEF LockCleared
    <3>2. QED
      BY <3>1 DEF Inside, MutualExclusion
  <2>4. ASSUME vars' = vars PROVE LockQuiet
    BY <2>4 DEF vars, LockQuiet, Inside
  <2>5. QED
    BY <1>2, <2>1, <2>2, <2>3, <2>4, LockMoves DEF Next
<1>3. QED
  BY <1>1, <1>2, TypeCorrect, PTL DEF Spec

-----------------------------------------------------------------------------
(* The scan *)

\* The clear bits in a row that end before the current one.
Counted(a) == PageAt(a) - a.consecutive .. PageAt(a) - 1

\* What the scan knows of a bitmap that nobody else can change: it counts the
\* clear bits just before the current one, and a run that is long enough and
\* within a word cannot start before those.
ScanOf(c) ==
  LET a == call[c] IN
  /\ ~UsesCache(c)
  /\ a.word <= WordCount
  /\ a.consecutive < a.pages
  /\ Counted(a) \subseteq Free
  /\ \A s \in FreeRuns(a.pages) : s >= PageAt(a) - a.consecutive

ScanSound == \A c \in Cores : pc[c] = "scanning" => ScanOf(c)

\* Page 0 is never clear, cached, held or on its way back.
NullUsed ==
  /\ NULL \notin Free /\ NULL \notin Held
  /\ \A i \in 1 .. Len(page_cache) : page_cache[i] # NULL
  /\ \A c \in Cores : NULL \notin Pending(c)

ScanInv == TypeInv /\ MutualExclusion /\ ScanSound /\ NullUsed

\* Where words begin and end.
LEMMA Words ==
  ASSUME NEW w \in Nat, NEW s \in Nat
  PROVE  /\ w * WordSize \in Nat
         /\ (w + 1) * WordSize = w * WordSize + WordSize
         /\ s \div WordSize \in Nat
         /\ s \div WordSize = w <=>
              w * WordSize <= s /\ s < w * WordSize + WordSize
<1>1. WordSize \in Nat \ {0}
  BY PmmAssumption
<1>2. \A v \in Nat \ {0} :
        /\ w * v \in Nat /\ (w + 1) * v = w * v + v /\ s \div v \in Nat
        /\ s \div v = w <=> w * v <= s /\ s < w * v + v
  BY Z3
<1>3. QED
  BY <1>1, <1>2

\* The words cover the bitmap.
LEMMA WordsCover ==
  ASSUME NEW w \in Nat, w <= WordCount, w >= WordCount
  PROVE  BitmapPages <= w * WordSize
<1>1. WordSize \in Nat \ {0} /\ BitmapPages \in Nat
  BY PmmAssumption
<1>2. \A q \in Nat, v \in Nat \ {0} : q <= ((q + v - 1) \div v) * v
  BY Z3
<1>3. w = WordCount
  BY <1>1 DEF WordCount
<1>4. QED
  BY <1>1, <1>2, <1>3 DEF WordCount

\* A run of free pages within a word: all of its pages are free pages of the
\* word of the first.
LEMMA RunOfWord ==
  ASSUME NEW n \in Nat \ {0}, NEW s \in FreeRuns(n)
  PROVE  /\ s \in Free /\ s \in Nat /\ s + n <= BitmapPages
         /\ \A p \in s .. s + n - 1 : p \in Free
         /\ \A w \in Nat : s \div WordSize = w => s + n <= w * WordSize + WordSize
<1>1. /\ s \in Nat /\ n \in Nat /\ s + n - 1 \in Nat /\ BitmapPages \in Nat
      /\ Run(s, n) \subseteq Free /\ Free \subseteq 0 .. BitmapPages - 1
      /\ s \div WordSize = (s + n - 1) \div WordSize
  BY PmmAssumption DEF FreeRuns, Pages, Free
<1>2. s \in Run(s, n) /\ s + n - 1 \in Run(s, n)
  BY <1>1 DEF Run
<1>3. \A w \in Nat : s \div WordSize = w => s + n - 1 < w * WordSize + WordSize
  BY <1>1, Words
<1>4. ASSUME NEW w \in Nat, s \div WordSize = w
      PROVE  s + n <= w * WordSize + WordSize
  BY <1>1, <1>3, <1>4, Words, PmmAssumption
<1>5. s \in Free /\ s + n <= BitmapPages
  BY <1>1, <1>2
<1>6. QED
  BY <1>1, <1>4, <1>5 DEF Run

\* Neither a word without a clear bit nor the end of a word or of the bitmap
\* leaves a run behind.
LEMMA NextWordMissesNothing ==
  ASSUME NEW a \in Calls, a.pages # 0, a.consecutive <= a.bit,
         a.consecutive < a.pages, WordOver(a), NEW s \in FreeRuns(a.pages),
         s >= PageAt(a) - a.consecutive
  PROVE  s >= (a.word + 1) * WordSize
<1> DEFINE n == a.pages
           w == a.word
<1>1. /\ n \in Nat \ {0} /\ w \in Nat /\ a.bit \in Nat /\ a.consecutive \in Nat
      /\ BitmapPages \in Nat /\ WordSize \in Nat
  BY PmmAssumption DEF Calls
<1>2. /\ s \in Free /\ s \in Nat /\ s + n <= BitmapPages
      /\ s \div WordSize = w => s + n <= w * WordSize + WordSize
  BY <1>1, RunOfWord
<1>3. PageAt(a) = w * WordSize + a.bit /\ w * WordSize \in Nat
  BY <1>1, Words DEF PageAt
<1> HIDE DEF n, w
<1>4. SUFFICES ASSUME s < w * WordSize + WordSize PROVE FALSE
  BY <1>1, <1>2, Words DEF w
<1>5. w * WordSize <= s
  BY <1>1, <1>2, <1>3
<1>6. s \div WordSize = w
  BY <1>1, <1>2, <1>4, <1>5, Words
<1>7. CASE a.bit = 0 /\ FullWord(a.word)
  BY <1>2, <1>6, <1>7 DEF FullWord, Free, w
<1>8. CASE a.bit = WordSize
  BY <1>1, <1>2, <1>3, <1>6, <1>8 DEF n
<1>9. CASE PageAt(a) >= BitmapPages
  BY <1>1, <1>2, <1>3, <1>9 DEF n
<1>10. QED
  BY <1>7, <1>8, <1>9 DEF WordOver

\* A used bit ends every run that is too short.
LEMMA UsedBitMissesNothing ==
  ASSUME NEW a \in Calls, a.pages # 0, a.consecutive < a.pages,
         PageAt(a) \notin Free, NEW s \in FreeRuns(a.pages),
         s >= PageAt(a) - a.consecutive
  PROVE  s >= PageAt(a) + 1
<1> DEFINE n == a.pages
           p == PageAt(a)
<1>1. n \in Nat \ {0} /\ p \in Nat /\ a.consecutive \in Nat
  BY ScanTypes DEF Calls
<1>2. s \in Nat /\ \A q \in s .. s + n - 1 : q \in Free
  BY <1>1, RunOfWord
<1> HIDE DEF n, p
<1>3. p \notin s .. s + n - 1
  BY <1>2 DEF p
<1>4. QED
  BY <1>1, <1>2, <1>3 DEF n, p

\* The run that the current bit completes is free, and page 0 is not in it.
LEMMA TakenRunFree ==
  ASSUME TypeInv, NullUsed, NEW c \in Cores, ScanOf(c), TakeRun(c)
  PROVE  LET s == PageAt(call[c]) + 1 - call[c].pages
         IN  /\ HandOut(c, s) /\ s \in Pages \ {NULL}
             /\ Run(s, call[c].pages) \subseteq Free
<1> DEFINE a == call[c]
           p == PageAt(a)
           n == a.pages
           s == p + 1 - n
<1>1. /\ a \in Calls /\ a.consecutive <= a.bit /\ n # 0
      /\ ~WordOver(a) /\ Consecutive(a) = n /\ HandOut(c, s)
  BY DEF TakeRun, Scanning, TypeInv, TypeOK, CallsSane
<1>2. s \in Pages
  BY <1>1, RunsInBitmap
<1>3. /\ p \in Nat /\ n \in Nat \ {0} /\ a.consecutive \in Nat
      /\ p < BitmapPages /\ BitmapPages \in Nat
  BY <1>1, ScanTypes, PmmAssumption DEF Calls, WordOver
<1>4. ~bitmap[p] /\ n = a.consecutive + 1
  BY <1>1, <1>3 DEF Consecutive
<1>5. p \in Free
  BY <1>3, <1>4 DEF Free, Pages
<1>6. p - a.consecutive .. p - 1 \subseteq Free
  BY DEF ScanOf, Counted
<1> HIDE DEF a, p, n
<1>7. Run(s, n) \subseteq Free
  BY <1>3, <1>4, <1>5, <1>6 DEF Run
<1>8. s \in Run(s, n)
  BY <1>2, <1>3 DEF Run, Pages
<1>9. s # NULL
  BY <1>7, <1>8 DEF NullUsed
<1>10. QED
  BY <1>1, <1>2, <1>7, <1>9 DEF a, p, n

\* A step of one core leaves the calls of the others alone, and outside the
\* critical section it leaves bitmap and cache alone, too.
LEMMA OthersAlone ==
  ASSUME TypeOK, NEW c \in Cores, NEW d \in Cores, c # d, Start(d) \/ Step(d)
  PROVE  pc'[c] = pc[c] /\ call'[c] = call[c]
<1>1. \/ pc' = pc
      \/ \E where : pc' = [pc EXCEPT ![d] = where]
  BY DEF Start, Step, RequestEnter, RequestReject, ReleaseEnter, CountEnter,
         Enter, Acquire, TakeCached, StartScan, NextWord, NextBit, ScanOn,
         TakeRun, HandOut, RequestFail, ReleaseCheck, FreePage, Count, Unlock,
         Goto, vars
<1>2. \/ call' = call
      \/ \E args : call' = [call EXCEPT ![d] = args]
  <2>1. CASE Start(d)
    BY <2>1 DEF Start, RequestEnter, RequestReject, ReleaseEnter, CountEnter,
                Enter, vars
  <2>2. CASE NextWord(d) \/ NextBit(d)
    BY <2>2 DEF NextWord, NextBit, ScanOn, TypeOK
  <2>3. CASE FreePage(d)
    BY <2>3 DEF FreePage, TypeOK
  <2>4. ASSUME Step(d), ~NextWord(d), ~NextBit(d), ~FreePage(d)
        PROVE  \/ call' = call
               \/ \E args : call' = [call EXCEPT ![d] = args]
    BY <2>4 DEF Step, Acquire, TakeCached, StartScan, TakeRun, HandOut,
                RequestFail, ReleaseCheck, Count, Unlock
  <2>5. QED
    BY <2>1, <2>2, <2>3, <2>4
<1>3. QED
  BY <1>1, <1>2 DEF TypeOK

LEMMA OutsideQuiet ==
  ASSUME NEW d \in Cores, Start(d) \/ Step(d), pc[d] \notin Critical
  PROVE  bitmap' = bitmap /\ page_cache' = page_cache
BY DEF Start, Step, RequestEnter, RequestReject, ReleaseEnter, CountEnter,
       Enter, Acquire, TakeCached, StartScan, NextWord, NextBit, Scanning,
       TakeRun, RequestFail, ScannedAll, ReleaseCheck, FreePage, Count, Unlock,
       Locked, Critical, vars

\* What a scan knows depends on its locals, the bitmap and the cache only.
LEMMA ScanOfQuiet ==
  ASSUME NEW c \in Cores, ScanOf(c), call'[c] = call[c],
         bitmap' = bitmap, page_cache' = page_cache
  PROVE  ScanOf(c)'
BY DEF ScanOf, UsesCache, Counted, PageAt, FreeRuns, Run, Free, WordCount

\* A scan that starts or goes on keeps what it knows.
LEMMA ScanStep ==
  ASSUME TypeInv, NEW c \in Cores,
         StartScan(c) \/ (ScanOf(c) /\ (NextWord(c) \/ NextBit(c)))
  PROVE  ScanOf(c)'
<1> DEFINE a == call[c]
           b == call'[c]
           n == a.pages
<1>1. /\ a \in Calls /\ n \in Nat \ {0} /\ TypeOK
      /\ bitmap' = bitmap /\ page_cache' = page_cache
  BY DEF StartScan, NextWord, NextBit, ScanOn, Scanning, Locked, TypeInv,
         TypeOK, CallsSane, Calls
<1>2. Free' = Free /\ n = a.pages
  BY <1>1 DEF Free
<1>3. ASSUME b.pages = n, b.word <= WordCount, b.consecutive < n,
             PageAt(b) - b.consecutive .. PageAt(b) - 1 \subseteq Free,
             \A s \in FreeRuns(n) : s >= PageAt(b) - b.consecutive,
             ~UsesCache(c)
      PROVE  ScanOf(c)'
  <2>1. FreeRuns(call[c].pages)' = FreeRuns(n)
    BY <1>2, <1>3 DEF FreeRuns, Run, Pages, b
  <2>2. UsesCache(c)' = UsesCache(c)
    BY <1>1, <1>3 DEF UsesCache, b
  <2>3. /\ Counted(call[c])' = PageAt(b) - b.consecutive .. PageAt(b) - 1
        /\ PageAt(call[c])' = PageAt(b)
        /\ WordCount' = WordCount
    BY DEF Counted, PageAt, WordCount, b
  <2>4. ~UsesCache(c)' /\ (call[c].word <= WordCount)'
        /\ (call[c].consecutive < call[c].pages)'
    BY <1>3, <2>2, <2>3 DEF b
  <2>5. (Counted(call[c]) \subseteq Free)'
    BY <1>2, <1>3, <2>3
  <2>6. (\A s \in FreeRuns(call[c].pages) :
           s >= PageAt(call[c]) - call[c].consecutive)'
    BY <1>3, <2>1, <2>3 DEF b
  <2>7. QED
    BY <2>4, <2>5, <2>6 DEF ScanOf
<1> HIDE DEF n, b
<1>4. CASE StartScan(c)
  <2>1. b = a /\ Fresh(a) /\ ~UsesCache(c)
    BY <1>4 DEF StartScan, Locked, TypeInv, CallsSane, b
  <2>2. /\ b.pages = n /\ b.consecutive = 0 /\ b.word = 0
        /\ PageAt(b) = 0 /\ WordCount \in Nat
    BY <2>1, ScanTypes, <1>1, PmmAssumption DEF Fresh, PageAt, n
  <2>3. \A s \in FreeRuns(n) : s \in Nat
    BY <1>1, RunOfWord
  <2>4. QED
    BY <1>1, <1>3, <2>1, <2>2, <2>3
<1>5. ASSUME ScanOf(c), NextWord(c) \/ NextBit(c)
      PROVE  /\ a.word < WordCount /\ a.consecutive < n /\ ~UsesCache(c)
             /\ a.consecutive <= a.bit
             /\ PageAt(a) - a.consecutive .. PageAt(a) - 1 \subseteq Free
             /\ \A s \in FreeRuns(n) : s >= PageAt(a) - a.consecutive
  BY <1>5 DEF ScanOf, Counted, NextWord, NextBit, Scanning, TypeInv, CallsSane,
              n
<1>6. CASE ScanOf(c) /\ NextWord(c)
  <2>1. /\ b.pages = n /\ b.word = a.word + 1 /\ b.bit = 0
        /\ b.consecutive = 0 /\ WordOver(a)
    BY <1>1, <1>6 DEF NextWord, ScanOn, TypeOK, Calls, b, n
  <2>2. a.word \in Nat /\ WordCount \in Nat
    BY <1>1, ScanTypes DEF Calls
  <2>3. PageAt(b) = (a.word + 1) * WordSize /\ PageAt(b) \in Nat
    <3> DEFINE w == a.word + 1
    <3>4. w \in Nat
      BY <2>2
    <3> HIDE DEF w
    <3>1. w * WordSize \in Nat
      BY <3>4, Words
    <3> USE DEF w
    <3>2. PageAt(b) = (a.word + 1) * WordSize + 0
      BY <2>1 DEF PageAt
    <3>3. QED
      BY <3>1, <3>2
  <2>4. ASSUME NEW s \in FreeRuns(n) PROVE s >= PageAt(b) /\ s \in Nat
    <3>1. s >= PageAt(a) - a.consecutive /\ a.consecutive <= a.bit
          /\ a.consecutive < a.pages /\ a.pages # 0
      BY <1>1, <1>5, <1>6 DEF n
    <3>2. s >= (a.word + 1) * WordSize
      BY <1>1, <2>1, <2>4, <3>1, NextWordMissesNothing DEF n
    <3>3. s \in Nat
      BY <1>1, <2>4, RunOfWord
    <3>4. QED
      BY <2>3, <3>2, <3>3
  <2>5. PageAt(b) - b.consecutive = PageAt(b) /\ b.consecutive < n
        /\ b.word <= WordCount
        /\ PageAt(b) - b.consecutive .. PageAt(b) - 1 = {}
    BY <1>1, <1>5, <1>6, <2>1, <2>2, <2>3
  <2>6. QED
    BY <1>3, <1>5, <1>6, <2>1, <2>4, <2>5
<1>7. CASE ScanOf(c) /\ NextBit(c)
  <2>1. /\ b.pages = n /\ b.word = a.word /\ b.bit = a.bit + 1
        /\ b.consecutive = Consecutive(a) /\ ~WordOver(a)
        /\ Consecutive(a) # n
    BY <1>1, <1>7 DEF NextBit, ScanOn, TypeOK, Calls, b, n
  <2>2. /\ a.word \in Nat /\ a.bit \in Nat /\ a.consecutive \in Nat
        /\ PageAt(a) \in Nat /\ WordCount \in Nat
        /\ a.word * WordSize \in Nat
    BY <1>1, ScanTypes DEF Calls
  <2>3. PageAt(b) = PageAt(a) + 1
    BY <2>1, <2>2 DEF PageAt
  <2>4. PageAt(a) \in Pages
    BY <2>1, <2>2, PmmAssumption DEF WordOver, Pages
  <2>5. CASE PageAt(a) \in Free
    <3>1. b.consecutive = a.consecutive + 1
      BY <2>1, <2>5 DEF Consecutive, Free
    <3>2. \A q \in PageAt(b) - b.consecutive .. PageAt(b) - 1 : q \in Free
      BY <1>5, <1>7, <2>2, <2>3, <2>5, <3>1
    <3>3. b.consecutive < n
      BY <1>1, <1>5, <1>7, <2>1, <2>2, <3>1
    <3>4. \A s \in FreeRuns(n) : s >= PageAt(b) - b.consecutive
      BY <1>5, <1>7, <2>2, <2>3, <3>1
    <3>5. b.word <= WordCount
      BY <1>5, <1>7, <2>1, <2>2
    <3>6. QED
      BY <1>3, <1>5, <1>7, <2>1, <3>2, <3>3, <3>4, <3>5
  <2>6. CASE PageAt(a) \notin Free
    <3>1. b.consecutive = 0
      BY <2>1, <2>4, <2>6 DEF Consecutive, Free
    <3>2. \A s \in FreeRuns(n) : s >= PageAt(b) /\ s \in Nat
      BY <1>1, <1>5, <1>7, <2>3, <2>6, UsedBitMissesNothing, RunOfWord DEF n
    <3>3. PageAt(b) - b.consecutive .. PageAt(b) - 1 = {}
      BY <2>2, <2>3, <3>1
    <3>4. b.word <= WordCount /\ b.consecutive < n
      BY <1>1, <1>5, <1>7, <2>1, <2>2, <3>1
    <3>5. \A s \in FreeRuns(n) : s >= PageAt(b) - b.consecutive
      BY <2>2, <2>3, <3>1, <3>2
    <3>6. QED
      BY <1>3, <1>5, <1>7, <2>1, <3>3, <3>4, <3>5
  <2>7. QED
    BY <2>5, <2>6
<1>8. QED
  BY <1>4, <1>6, <1>7

\* Popping leaves the entries below the top as they are.
LEMMA CachePopped ==
  ASSUME NEW q \in Seq(Pages), q # <<>>
  PROVE  LET rest == SubSeq(q, 1, Len(q) - 1)
         IN  /\ Len(q) \in Nat \ {0} /\ Len(rest) = Len(q) - 1
             /\ \A i \in 1 .. Len(rest) : rest[i] = q[i]
<1> DEFINE len == Len(q) - 1
           rest == SubSeq(q, 1, len)
<1>1. Len(q) \in Nat \ {0} /\ len \in Nat /\ \A i \in 1 .. len : q[i] \in Pages
  OBVIOUS
<1> HIDE DEF len
<1>2. /\ Len(rest) = IF 1 <= len THEN len - 1 + 1 ELSE 0
      /\ \A i \in 1 .. len - 1 + 1 : rest[i] = q[1 + i - 1]
  BY <1>1, SubSeqProperties
<1> HIDE DEF rest
<1>3. Len(rest) = len
  BY <1>1, <1>2
<1>4. \A i \in 1 .. len : rest[i] = q[i]
  BY <1>1, <1>2, <1>3
<1>5. QED
  BY <1>1, <1>3, <1>4 DEF len, rest

\* A core that enters a call has nothing to give back but pages that somebody
\* holds or that are free.
LEMMA NullStart ==
  ASSUME TypeInv, NullUsed, NEW c \in Cores, Start(c)
  PROVE  NullUsed'
<1>1. TypeOK /\ bitmap' = bitmap /\ page_cache' = page_cache
  BY DEF Start, RequestEnter, RequestReject, ReleaseEnter, CountEnter, Enter,
         vars, TypeInv
<1>2. Free' = Free /\ NULL \notin Free /\ NULL \notin Held
  BY <1>1 DEF Free, NullUsed
<1>3. \A d \in Cores : d # c => Pending(d)' = Pending(d)
  BY <1>1, OthersAlone DEF Pending, InBitmap, PageOf
<1>4. NULL \notin Held' /\ NULL \notin Pending(c)'
  <2>1. CASE \E n \in Sizes, hh \in BOOLEAN : RequestEnter(c, n, hh)
    BY <1>1, <1>2, <2>1
       DEF RequestEnter, Enter, Goto, Pending, Idle, TypeOK, Held
  <2>2. CASE CountEnter(c)
    BY <1>1, <1>2, <2>2
       DEF CountEnter, Enter, Goto, Pending, Idle, TypeOK, Held
  <2>3. CASE \E n \in Sizes : RequestReject(c, n)
    BY <1>2, <2>3 DEF RequestReject, vars, Pending, InBitmap, PageOf, Held, NullUsed
  <2>4. ASSUME NEW n \in Sizes, NEW ptr \in Pointers, ReleaseEnter(c, n, ptr)
        PROVE  NULL \notin Held' /\ NULL \notin Pending(c)'
    <3> DEFINE R == Run(PageOf(ptr), n)
    <3>1. /\ n \in Nat /\ PageOf(ptr) \in Nat
          /\ call'[c].op = "release" /\ call'[c].pages = n
          /\ call'[c].ptr = ptr /\ call'[c].done = 0
      BY <1>1, <2>4, PmmAssumption, PointersType
         DEF ReleaseEnter, Enter, Idle, TypeOK
    <3>2. Pending(c)' = R \/ (Pending(c)' = {} /\ ~InBitmap(ptr, n))
          \/ Pending(c)' = {}
      BY <3>1 DEF Pending, Run, InBitmap, PageOf
    <3>3. Pending(c)' # {} => InBitmap(ptr, n)
      BY <3>1 DEF Pending, InBitmap, PageOf
    <3>4. InBitmap(ptr, n) => R \subseteq Pages
      BY <3>1, PmmAssumption DEF InBitmap, Run, Pages
    <3>5. \/ /\ \A p \in R : held[p] > 0
             /\ held' = [p \in Pages |-> held[p] - (IF p \in R THEN 1 ELSE 0)]
          \/ ~InBitmap(ptr, n) /\ held' = held
          \/ R \subseteq Free /\ held' = held
      BY <2>4 DEF ReleaseEnter
    <3> HIDE DEF R
    <3>6. Pending(c)' # {} => NULL \notin R
      BY <1>2, <3>3, <3>4, <3>5 DEF Held
    <3>7. NULL \notin Pending(c)'
      BY <3>2, <3>6
    <3>8. NULL \notin Held'
      BY <1>1, <1>2, <3>5, PmmAssumption DEF Held, TypeOK
    <3>9. QED
      BY <3>7, <3>8
  <2>5. QED
    BY <2>1, <2>2, <2>3, <2>4 DEF Start
<1>5. QED
  BY <1>1, <1>2, <1>3, <1>4 DEF NullUsed

\* Inside a call page 0 is neither handed out nor cached.
LEMMA NullStep ==
  ASSUME TypeInv, ScanSound, NullUsed, NEW c \in Cores, Step(c)
  PROVE  NullUsed'
<1>1. TypeOK /\ CallsSane
  BY DEF TypeInv
<1>2. \A d \in Cores : d # c => Pending(d)' = Pending(d)
  BY <1>1, OthersAlone DEF Pending, InBitmap, PageOf
<1>3. ASSUME UNCHANGED <<bitmap, page_cache, held>>, Pending(c)' \subseteq Pending(c)
      PROVE  NullUsed'
  <2>1. Free' = Free /\ Held' = Held
    BY <1>3 DEF Free, Held
  <2>2. QED
    BY <1>2, <1>3, <2>1 DEF NullUsed
<1>4. ASSUME NEW s \in Pages \ {NULL}, HandOut(c, s), pc[c] \in Critical,
             NULL \notin Run(s, call[c].pages),
             \A i \in 1 .. Len(page_cache') : page_cache'[i] # NULL
      PROVE  NullUsed'
  <2>1. call[c].higher_half \in BOOLEAN
    BY <1>1 DEF TypeOK, Calls
  <2>2. PageOf(PointerTo(s, call[c].higher_half)) = s
    BY <2>1, <1>4, PointerRoundTrip
  <2>3. NULL \notin Held'
    BY <1>1, <1>4, <2>2 DEF HandOut, Held, NullUsed, TypeOK
  <2>4. NULL \notin Free'
    BY <1>1, <1>4 DEF HandOut, SetBits, Free, NullUsed, TypeOK
  <2>5. Pending(c)' = {}
    BY <1>1, <1>4 DEF HandOut, Goto, Pending, TypeOK
  <2>6. QED
    BY <1>2, <1>4, <2>3, <2>4, <2>5 DEF NullUsed
<1>5. CASE Acquire(c)
  <2>1. Pending(c)' = Pending(c)
    BY <1>1, <1>5 DEF Acquire, Goto, Pending, InBitmap, PageOf, TypeOK
  <2>2. QED
    BY <1>3, <1>5, <2>1 DEF Acquire
<1>6. CASE TakeCached(c)
  <2>1. /\ page_cache \in Seq(Pages) /\ page_cache # <<>>
        /\ call[c].pages = 1 /\ HandOut(c, TopOfCache) /\ pc[c] \in Critical
        /\ page_cache' = SubSeq(page_cache, 1, Len(page_cache) - 1)
    BY <1>1, <1>6 DEF TakeCached, UsesCache, TypeOK, Locked, Critical
  <2>2. TopOfCache \in Pages \ {NULL}
    BY <2>1 DEF TopOfCache, NullUsed
  <2>3. NULL \notin Run(TopOfCache, call[c].pages)
    BY <2>1, <2>2, PmmAssumption DEF Run, Pages, NULL
  <2>4. \A i \in 1 .. Len(page_cache') : page_cache'[i] # NULL
    BY <2>1, CachePopped DEF NullUsed
  <2>5. QED
    BY <1>4, <2>1, <2>2, <2>3, <2>4
<1>7. CASE TakeRun(c)
  <2>1. pc[c] \in Critical /\ page_cache' = page_cache /\ ScanOf(c)
    BY <1>7 DEF TakeRun, Scanning, Critical, ScanSound
  <2> DEFINE s == PageAt(call[c]) + 1 - call[c].pages
  <2>2. /\ HandOut(c, s) /\ s \in Pages \ {NULL}
        /\ Run(s, call[c].pages) \subseteq Free
    BY <1>7, <2>1, TakenRunFree
  <2> HIDE DEF s
  <2>3. NULL \notin Run(s, call[c].pages)
    BY <2>2 DEF NullUsed
  <2>4. QED
    BY <1>4, <2>1, <2>2, <2>3 DEF NullUsed
<1>8. CASE StartScan(c) \/ NextWord(c) \/ NextBit(c)
  <2>1. Pending(c)' = {}
    BY <1>1, <1>8 DEF StartScan, NextWord, NextBit, ScanOn, Scanning, Goto,
                      Pending, TypeOK
  <2>2. QED
    BY <1>3, <1>8, <2>1 DEF StartScan, NextWord, NextBit, ScanOn
<1>9. CASE RequestFail(c) \/ Count(c) \/ Unlock(c)
  <2>1. Pending(c)' = {}
    BY <1>1, <1>9 DEF RequestFail, Count, Unlock, Goto, Pending, TypeOK
  <2>2. QED
    BY <1>3, <1>9, <2>1 DEF RequestFail, Count, Unlock
<1>10. CASE ReleaseCheck(c)
  <2>1. Pending(c)' \subseteq Pending(c)
    BY <1>1, <1>10 DEF ReleaseCheck, Locked, Goto, Pending, TypeOK, InBitmap,
                       PageOf
  <2>2. QED
    BY <1>3, <1>10, <2>1 DEF ReleaseCheck
<1>11. CASE FreePage(c)
  <2> DEFINE a == call[c]
             first == PageOf(a.ptr)
             p == first + a.done
  <2>1. /\ first \in Nat /\ a.pages \in Nat /\ a.done \in Nat
        /\ a \in Calls /\ a.op = "release" /\ InBitmap(a.ptr, a.pages)
        /\ a.done < a.pages /\ pc[c] = "freeing"
    BY <1>1, <1>11, PointersType DEF TypeOK, Calls, CallsSane, FreePage
  <2>2. Pending(c) = p .. first + a.pages - 1
    BY <2>1 DEF Pending
  <2>3. p # NULL
    BY <2>1, <2>2 DEF NullUsed, NULL
  <2>4. /\ call'[c].op = "release" /\ call'[c].pages = a.pages
        /\ call'[c].ptr = a.ptr /\ call'[c].done = a.done + 1
    BY <1>1, <1>11, <2>1 DEF FreePage, TypeOK, Calls
  <2>5. Pending(c)' \subseteq Pending(c)
    <3>1. Pending(c)' \subseteq first + (a.done + 1) .. first + a.pages - 1
      BY <2>4 DEF Pending, InBitmap, PageOf
    <3>2. QED
      BY <2>1, <2>2, <3>1
  <2>6. held' = held /\ NULL \notin Held'
    BY <1>11 DEF FreePage, NullUsed, Held
  <2>7. NULL \notin Free'
    BY <1>1, <1>11, <2>3 DEF FreePage, Free, NullUsed, TypeOK
  <2>8. \/ page_cache' = page_cache
        \/ page_cache' = Append(page_cache, first) /\ a.pages = 1
    BY <1>11, Zenon DEF FreePage, CachesPage
  <2>9. \A i \in 1 .. Len(page_cache') : page_cache'[i] # NULL
    <3>1. CASE page_cache' = page_cache
      BY <3>1 DEF NullUsed
    <3>2. CASE page_cache' = Append(page_cache, first) /\ a.pages = 1
      <4>1. first # NULL
        BY <2>1, <2>3, <3>2
      <4>2. page_cache \in Seq(Pages)
        BY <1>1 DEF TypeOK
      <4>3. QED
        BY <3>2, <4>1, <4>2 DEF NullUsed
    <3>3. QED
      BY <2>8, <3>1, <3>2
  <2>10. QED
    BY <1>2, <2>5, <2>6, <2>7, <2>9 DEF NullUsed
<1>12. QED
  BY <1>5, <1>6, <1>7, <1>8, <1>9, <1>10, <1>11 DEF Step

\* Whatever callers ask for and release, scans know what they should.
LEMMA ScanNext ==
  ASSUME ScanInv, [Next]_vars
  PROVE  ScanSound' /\ NullUsed'
<1>1. TypeInv /\ TypeOK /\ MutualExclusion /\ ScanSound /\ NullUsed
  BY DEF ScanInv, TypeInv
<1>2. ASSUME NEW d \in Cores, Start(d) \/ Step(d), NEW c \in Cores,
             pc'[c] = "scanning"
      PROVE  ScanOf(c)'
  <2>1. CASE c # d
    <3>1. pc[c] = "scanning" /\ call'[c] = call[c]
      BY <1>1, <1>2, <2>1, OthersAlone
    <3>2. pc[d] \notin Critical
      BY <1>1, <2>1, <3>1 DEF MutualExclusion, Critical
    <3>3. bitmap' = bitmap /\ page_cache' = page_cache
      BY <1>2, <3>2, OutsideQuiet
    <3>4. ScanOf(c)
      BY <1>1, <3>1 DEF ScanSound
    <3>5. QED
      BY <3>1, <3>3, <3>4, ScanOfQuiet
  <2>2. CASE c = d /\ (StartScan(c) \/ NextWord(c) \/ NextBit(c))
    <3>1. StartScan(c) \/ ScanOf(c)
      BY <1>1, <2>2 DEF NextWord, NextBit, Scanning, ScanSound
    <3>2. QED
      BY <1>1, <2>2, <3>1, ScanStep
  <2>3. CASE c = d /\ Start(c)
    <3>1. pc[c] = "idle" \/ UNCHANGED vars
      BY <2>3 DEF Start, RequestEnter, RequestReject, ReleaseEnter,
                  CountEnter, Enter
    <3>2. pc'[c] \in {"idle", "acquire"} \/ UNCHANGED vars
      BY <1>1, <2>3 DEF Start, RequestEnter, RequestReject, ReleaseEnter,
                  CountEnter, Enter, Goto, TypeOK
    <3>3. UNCHANGED vars
      BY <1>2, <3>2
    <3>4. ScanOf(c)
      BY <1>1, <1>2, <3>3 DEF ScanSound, vars
    <3>5. QED
      BY <3>3, <3>4, ScanOfQuiet DEF vars
  <2>4. CASE c = d /\ Step(c) /\ ~StartScan(c) /\ ~NextWord(c) /\ ~NextBit(c)
    <3>1. pc'[c] # "scanning"
      BY <1>1, <2>4
         DEF Step, Acquire, TakeCached, TakeRun, HandOut, RequestFail,
             ReleaseCheck, FreePage, Count, Unlock, Goto, TypeOK
    <3>2. QED
      BY <1>2, <3>1
  <2>5. QED
    BY <1>2, <2>1, <2>2, <2>3, <2>4
<1>3. CASE Next
  <2>1. PICK d \in Cores : Start(d) \/ Step(d)
    BY <1>3 DEF Next
  <2>2. ScanSound'
    BY <1>2, <2>1 DEF ScanSound
  <2>3. NullUsed'
    BY <1>1, <2>1, NullStart, NullStep
  <2>4. QED
    BY <2>2, <2>3
<1>4. CASE UNCHANGED vars
  <2>1. ScanSound'
    BY <1>1, <1>4, ScanOfQuiet DEF ScanSound, vars
  <2>2. NullUsed'
    BY <1>1, <1>4 DEF NullUsed, vars, Free, Held, Pending, InBitmap, PageOf
  <2>3. QED
    BY <2>1, <2>2
<1>5. QED
  BY <1>3, <1>4

LEMMA ScanInvariant == Spec => []ScanInv
<1>1. ASSUME Init PROVE ScanSound /\ NullUsed
  BY <1>1, PmmAssumption
     DEF Init, ScanSound, NullUsed, Free, Held, Pending, NULL
<1>2. QED
  BY <1>1, ScanNext, TypeInvariant, OneCoreInside, PTL DEF Spec, ScanInv

\* Whoever calls, with whatever sizes, and however the calls interleave: a
\* request that took the lock returns NULL only when no word of the bitmap
\* holds a long enough run of clear bits.  The loop over the words and their
\* bits, its counts and its ends miss nothing else.
THEOREM NoRunOfAWordMissed == Spec => FailsOnlyWithoutARun
<1>1. ASSUME ScanInv, [Next]_vars, vars' # vars, NEW c \in Cores, ReturnsNull(c)
      PROVE  FreeRuns(call[c].pages) = {}
  <2>1. /\ TypeInv /\ TypeOK /\ CallsSane /\ ScanSound /\ NullUsed
        /\ pc[c] \in {"locked", "scanning"} /\ call[c].op = "request"
        /\ pc'[c] = "unlock" /\ ret'[c] = NULL
        /\ call[c] \in Calls /\ call[c].higher_half \in BOOLEAN
    BY <1>1 DEF ScanInv, TypeInv, TypeOK, Calls, ReturnsNull
  <2>2. PICK d \in Cores : Start(d) \/ Step(d)
    BY <1>1 DEF Next
  <2>3. d = c
    BY <2>1, <2>2, OthersAlone
  <2>4. ASSUME NEW s \in Pages \ {NULL}, HandOut(c, s) PROVE FALSE
    <3>1. ret'[c] = PointerTo(s, call[c].higher_half)
      BY <2>1, <2>4 DEF HandOut, TypeOK
    <3>2. QED
      BY <2>1, <2>4, <3>1, PointerRoundTrip
  <2>5. ~TakeCached(c)
    <3> SUFFICES ASSUME TakeCached(c) PROVE FALSE
      OBVIOUS
    <3>1. page_cache \in Seq(Pages) /\ page_cache # <<>>
      BY <2>1 DEF TakeCached, UsesCache, TypeOK
    <3>2. TopOfCache \in Pages \ {NULL}
      BY <2>1, <3>1 DEF TopOfCache, NullUsed
    <3>3. QED
      BY <2>4, <3>2 DEF TakeCached
  <2>6. ~TakeRun(c)
    <3> SUFFICES ASSUME TakeRun(c) PROVE FALSE
      OBVIOUS
    <3>1. ScanOf(c)
      BY <2>1 DEF TakeRun, Scanning, ScanSound
    <3>2. QED
      BY <2>1, <2>4, <3>1, TakenRunFree
  <2>7. RequestFail(c)
    <3>1. ~Start(c)
      BY <2>1, <1>1 DEF Start, RequestEnter, RequestReject, ReleaseEnter, CountEnter,
                  Enter
    <3>2. Step(c)
      BY <2>2, <2>3, <3>1
    <3>3. QED
      BY <2>1, <2>5, <2>6, <3>2
         DEF Step, Acquire, StartScan, NextWord, NextBit, ScanOn, Goto,
             ReleaseCheck, FreePage, Count, Unlock, Locked, TypeOK
  <2>8. ScanOf(c) /\ call[c].word = WordCount /\ call[c].pages # 0
        /\ call[c].consecutive <= call[c].bit
    BY <2>1, <2>7 DEF RequestFail, ScannedAll, ScanSound, CallsSane
  <2>9. ASSUME NEW s \in FreeRuns(call[c].pages) PROVE FALSE
    <3> DEFINE a == call[c]
    <3>1. /\ a.word \in Nat /\ a.bit \in Nat /\ a.consecutive \in Nat
          /\ a.pages \in Nat \ {0}
          /\ PageAt(a) = a.word * WordSize + a.bit /\ WordCount \in Nat
          /\ a.word * WordSize \in Nat
      BY <2>1, <2>8, ScanTypes DEF Calls
    <3>2. BitmapPages <= a.word * WordSize
      BY <2>8, <3>1, WordsCover
    <3>3. s \in Nat /\ s + a.pages <= BitmapPages /\ BitmapPages \in Nat
      BY <3>1, RunOfWord, PmmAssumption
    <3>4. s >= PageAt(a) - a.consecutive
      BY <2>8 DEF ScanOf
    <3> HIDE DEF a
    <3>5. QED
      BY <2>8, <3>1, <3>2, <3>3, <3>4 DEF a
  <2>10. QED
    BY <2>9
<1>2. ASSUME ScanInv, [Next]_vars
      PROVE  [\A c \in Cores :
                ReturnsNull(c) => FreeRuns(call[c].pages) = {}]_vars
  BY <1>1, <1>2
<1>3. QED
  BY <1>2, ScanInvariant, PTL DEF Spec, FailsOnlyWithoutARun

-----------------------------------------------------------------------------
(* Who owns which page *)

\* The state after pmm_init: all usable pages free, the cache empty.
LEMMA OwnersInit == Init => OwnersInv /\ FreePagesExact
<1> SUFFICES ASSUME Init PROVE OwnersInv /\ FreePagesExact
  OBVIOUS
<1> USE DEF Init
<1>1. Free = Usable
  BY PmmAssumption DEF Free
<1>2. Held = {}
  BY DEF Held
<1>3. \A c \in Cores : Pending(c) = {}
  BY DEF Pending
<1>4. NoDoubleAllocation /\ NoPageLost /\ PendingSound
  BY <1>1, <1>2, <1>3, PmmAssumption
     DEF NoDoubleAllocation, NoPageLost, Returning, PendingSound
<1>5. CacheSound /\ CacheOfSingles
  BY DEF CacheSound, CacheOfSingles
<1>6. QED
  BY <1>1, <1>4, <1>5 DEF OwnersInv, FreePagesExact

\* A step of the abstract allocator, as long as nobody releases what is free.
Refines == DoubleFrees \/ [Allocator!Next]_(Allocator!vars)

\* A step that changes neither the pages nor who is to give them back.
LEMMA OwnersQuiet ==
  ASSUME OwnersInv, FreePagesExact,
         UNCHANGED <<bitmap, free_pages, page_cache, held>>,
         \A c \in Cores : Pending(c)' = Pending(c)
  PROVE  OwnersInv' /\ FreePagesExact' /\ Refines
<1>1. Free' = Free /\ Held' = Held
  BY DEF Free, Held
<1>2. Returning' = Returning
  BY DEF Returning
<1>3. QED
  BY <1>1, <1>2
     DEF Allocator!vars, OwnersInv, FreePagesExact, NoDoubleAllocation, NoPageLost,
         PendingSound, CacheSound, CacheOfSingles, Refines

\* Only the core that takes a step changes what it has to give back.
LEMMA OthersPending ==
  ASSUME NEW c \in Cores, NEW d \in Cores, c # d, TypeOK,
         pc' = pc \/ \E where : pc' = [pc EXCEPT ![c] = where],
         call' = call \/ \E args : call' = [call EXCEPT ![c] = args]
  PROVE  Pending(d)' = Pending(d)
BY DEF Pending, TypeOK, InBitmap, PageOf

\* A core that is not releasing gives nothing back.
LEMMA NothingPending ==
  ASSUME NEW c \in Cores,
         \/ pc[c] \notin {"acquire", "locked", "freeing"}
         \/ call[c].op # "release"
  PROVE  Pending(c) = {}
BY DEF Pending

\* Handing out a run of free pages makes the caller their one owner, if the
\* cache no longer names any of them.
LEMMA OwnersHandOut ==
  ASSUME SimpleCallers, AllocInv, NEW c \in Cores, NEW s \in Pages,
         pc[c] \in {"locked", "scanning"}, call[c].op = "request",
         Run(s, call[c].pages) \subseteq Free, HandOut(c, s),
         \A i \in 1 .. Len(page_cache') :
           page_cache'[i] \in Free \ Run(s, call[c].pages),
         \A i, j \in 1 .. Len(page_cache') :
           page_cache'[i] = page_cache'[j] => i = j,
         page_cache' # <<>> => 1 \in Sizes
  PROVE  OwnersInv' /\ FreePagesExact' /\ Refines
<1> DEFINE n == call[c].pages
           R == Run(s, n)
<1>1. n \in Nat /\ call[c].higher_half \in BOOLEAN /\ TypeOK /\ OwnersInv
      /\ FreePagesExact
  BY DEF AllocInv, TypeInv, TypeOK, Calls
<1>2. PageOf(PointerTo(s, call[c].higher_half)) = s
  BY <1>1, PointerRoundTrip
<1>3. Free' = Free \ R
  BY <1>1 DEF HandOut, SetBits, Free, TypeOK
<1>4. R \subseteq Pages /\ R \cap Held = {}
  BY <1>1 DEF Free, OwnersInv, NoDoubleAllocation
<1>5. held' = [p \in Pages |-> held[p] + (IF p \in R THEN 1 ELSE 0)]
  BY <1>2 DEF HandOut
<1>6. /\ Held' = Held \cup R
      /\ \A p \in Pages : held'[p] <= 1
  <2>1. \A p \in Pages : held[p] \in Nat /\ held[p] <= 1
    BY <1>1 DEF TypeOK, OwnersInv, NoDoubleAllocation
  <2>2. \A p \in R : p \in Pages /\ held[p] = 0
    BY <1>4, <2>1 DEF Held
  <2>3. \A p \in Pages : held'[p] = IF p \in R THEN 1 ELSE held[p]
    BY <1>5, <2>1, <2>2
  <2> HIDE DEF R
  <2>4. Held' = Held \cup R
    BY <1>4, <2>1, <2>3 DEF Held
  <2>5. QED
    BY <2>1, <2>3, <2>4
<1>7. \A d \in Cores : Pending(d)' = Pending(d)
  <2>1. Pending(c) = {} /\ Pending(c)' = {}
    BY <1>1 DEF Pending, HandOut, Goto, TypeOK
  <2>2. \A d \in Cores : d # c => Pending(d)' = Pending(d)
    BY <1>1, OthersPending DEF HandOut, Goto
  <2>3. QED
    BY <2>1, <2>2
<1>8. Returning' = Returning
  BY <1>7 DEF Returning
<1>9. NoDoubleAllocation'
  BY <1>1, <1>3, <1>6 DEF OwnersInv, NoDoubleAllocation
<1>10. NoPageLost'
  <2>1. R \subseteq Free
    OBVIOUS
  <2> HIDE DEF R
  <2>2. QED
    BY <1>1, <1>3, <1>6, <1>8, <2>1 DEF OwnersInv, NoPageLost
<1>11. PendingSound'
  <2>1. R \subseteq Free
    OBVIOUS
  <2> HIDE DEF R
  <2>2. \A d \in Cores : Pending(d) \cap R = {}
    <3>1. CASE DoubleFrees
      BY <3>1, NothingPending DEF SimpleCallers
    <3>2. CASE ~DoubleFrees
      BY <1>1, <2>1, <3>2 DEF OwnersInv, PendingSound
    <3>3. QED
      BY <3>1, <3>2
  <2>3. QED
    BY <1>1, <1>3, <1>6, <1>7, <2>2 DEF OwnersInv, PendingSound
<1>12. CacheSound' /\ CacheOfSingles'
  BY <1>3 DEF CacheSound, CacheOfSingles
<1>13. FreePagesExact'
  <2>1. IsFiniteSet(Free)
    BY PagesFinite, FS_Subset DEF Free
  <2>2. IsFiniteSet(R) /\ Cardinality(R) = n
    BY <1>1, RunLength
  <2>3. Free \cap R = R /\ R \in SUBSET Free
    OBVIOUS
  <2>4. Cardinality(Free') = Cardinality(Free) - n
    <3> HIDE DEF R
    <3>1. Cardinality(Free \ R) = Cardinality(Free) - Cardinality(Free \cap R)
      BY <2>1, FS_Difference
    <3>2. QED
      BY <1>3, <2>2, <2>3, <3>1
  <2>5. n <= Cardinality(Free) /\ Cardinality(Free) \in Nat
    BY <2>1, <2>2, <2>3, FS_Subset, FS_CardinalityType
  <2>6. free_pages' = free_pages - n
    BY <1>1, <2>5 DEF HandOut, CountOut, Minus, FreePagesExact
  <2>7. QED
    BY <1>1, <2>4, <2>6 DEF FreePagesExact
<1>14. Allocator!Next
  <2>1. R \subseteq Free /\ R \in SUBSET Usable
    BY <1>1 DEF OwnersInv, NoPageLost
  <2> HIDE DEF R
  <2>2. Allocator!Grab(R)
    BY <1>3, <1>6, <1>8, <2>1 DEF Allocator!Grab
  <2>3. QED
    BY <2>1, <2>2 DEF Allocator!Next
<1>15. QED
  BY <1>9, <1>10, <1>11, <1>12, <1>13, <1>14 DEF OwnersInv, Refines

\* A caller that gives pages up no longer owns them, and its core is the only
\* one that has to free them.
LEMMA OwnersReleaseEnter ==
  ASSUME SimpleCallers, AllocInv, NEW c \in Cores, NEW n \in Sizes,
         NEW ptr \in Pointers, ReleaseEnter(c, n, ptr)
  PROVE  OwnersInv' /\ FreePagesExact' /\ Refines
<1> DEFINE R == Run(PageOf(ptr), n)
<1>1. TypeOK /\ OwnersInv /\ FreePagesExact /\ n \in Nat /\ ptr \in Nat
      /\ PageOf(ptr) \in Nat
  BY PmmAssumption, PointersType DEF AllocInv, TypeInv
<1>2. /\ pc[c] = "idle" /\ pc' = [pc EXCEPT ![c] = "acquire"]
      /\ call' = [call EXCEPT ![c] = [Idle EXCEPT !.op = "release",
                                       !.pages = n, !.ptr = ptr]]
      /\ UNCHANGED <<bitmap, free_pages, page_cache>>
  BY DEF ReleaseEnter, Enter, Goto
<1>3. /\ call'[c].op = "release" /\ call'[c].pages = n /\ call'[c].ptr = ptr
      /\ call'[c].done = 0 /\ pc'[c] = "acquire"
  BY <1>1, <1>2 DEF TypeOK, Idle
<1>4. Pending(c)' = IF InBitmap(ptr, n) THEN R ELSE {}
  BY <1>1, <1>3 DEF Pending, Run, InBitmap, PageOf
<1>5. Pending(c) = {}
  BY <1>2, NothingPending
<1>6. \A d \in Cores : d # c => Pending(d)' = Pending(d)
  BY <1>1, <1>2, OthersPending
<1>7. Free' = Free
  BY <1>2 DEF Free
<1>8. CASE ~InBitmap(ptr, n)
  <2>1. held' = held
    BY <1>8 DEF ReleaseEnter
  <2>2. QED
    BY <1>1, <1>2, <1>4, <1>5, <1>6, <1>8, <2>1, OwnersQuiet
<1>9. ASSUME InBitmap(ptr, n), \A p \in R : held[p] > 0,
             held' = [p \in Pages |-> held[p] - (IF p \in R THEN 1 ELSE 0)]
      PROVE  OwnersInv' /\ FreePagesExact' /\ Refines
  <2>1. /\ \A p \in R : held[p] > 0
        /\ held' = [p \in Pages |-> held[p] - (IF p \in R THEN 1 ELSE 0)]
    BY <1>9
  <2>2. R \subseteq Pages
    BY <1>1, <1>9, PmmAssumption DEF InBitmap, Run, Pages
  <2>3. R \subseteq Held
    BY <2>1, <2>2 DEF Held
  <2>4. \A p \in Pages : held[p] \in Nat /\ held[p] <= 1
    BY <1>1 DEF TypeOK, OwnersInv, NoDoubleAllocation
  <2> HIDE DEF R
  <2>5. \A p \in Pages : held'[p] = IF p \in R THEN 0 ELSE held[p]
    BY <2>1, <2>2, <2>4
  <2>6. Held' = Held \ R
    BY <2>4, <2>5 DEF Held
  <2>7. Pending(c)' = R
    BY <1>4, <1>9
  <2>8. Returning' = Returning \cup R
    BY <1>5, <1>6, <2>7 DEF Returning
  <2>9. NoDoubleAllocation'
    BY <1>1, <1>7, <2>4, <2>5, <2>6 DEF OwnersInv, NoDoubleAllocation
  <2>10. NoPageLost'
    BY <1>1, <1>7, <2>3, <2>6, <2>8 DEF OwnersInv, NoPageLost
  <2>11. PendingSound'
    <3>1. R \subseteq Pages \ Held' /\ R \cap Free' = {}
      BY <1>1, <1>7, <2>2, <2>3, <2>6 DEF OwnersInv, NoDoubleAllocation
    <3>2. \A d \in Cores : d # c => Pending(d)' \cap R = {}
      BY <1>1, <1>6, <2>3 DEF OwnersInv, PendingSound
    <3>3. \A d \in Cores : d # c => /\ Pending(d)' \subseteq Pages \ Held'
                                    /\ ~DoubleFrees => Pending(d)' \cap Free' = {}
      BY <1>1, <1>6, <1>7, <2>6 DEF OwnersInv, PendingSound
    <3>4. \A d, e \in Cores : d # e /\ d # c /\ e # c
                             => Pending(d)' \cap Pending(e)' = {}
      BY <1>1, <1>6 DEF OwnersInv, PendingSound
    <3>5. \A d \in Cores : /\ Pending(d)' \subseteq Pages \ Held'
                           /\ ~DoubleFrees => Pending(d)' \cap Free' = {}
      <4>1. /\ Pending(c)' \subseteq Pages \ Held'
            /\ ~DoubleFrees => Pending(c)' \cap Free' = {}
        BY <2>7, <3>1
      <4>2. QED
        BY <3>3, <4>1
    <3>6. \A d, e \in Cores : d # e => Pending(d)' \cap Pending(e)' = {}
      BY <2>7, <3>2, <3>4
    <3>7. QED
      BY <3>5, <3>6, Zenon DEF PendingSound
  <2>12. CacheSound' /\ CacheOfSingles' /\ FreePagesExact'
    BY <1>1, <1>2, <1>7
       DEF OwnersInv, CacheSound, CacheOfSingles, FreePagesExact
  <2>13. Allocator!Next
    <3>1. R \in SUBSET Usable
      BY <1>1, <2>3 DEF OwnersInv, NoPageLost
    <3>2. Allocator!GiveBack(R)
      BY <1>7, <2>3, <2>6, <2>8 DEF Allocator!GiveBack
    <3>3. QED
      BY <3>1, <3>2 DEF Allocator!Next
  <2>14. QED
    BY <2>9, <2>10, <2>11, <2>12, <2>13 DEF OwnersInv, Refines
<1>10. ASSUME InBitmap(ptr, n), DoubleFrees, R \subseteq Free, held' = held
       PROVE  OwnersInv' /\ FreePagesExact' /\ Refines
  <2>1. Pending(c)' = R /\ \A d \in Cores : d = c
    BY <1>4, <1>10 DEF SimpleCallers
  <2> HIDE DEF R
  <2>2. Returning' = R /\ Returning = {}
    BY <1>5, <2>1 DEF Returning
  <2>3. Held' = Held /\ R \subseteq Pages \ Held
    BY <1>1, <1>10 DEF Held, Free, OwnersInv, NoDoubleAllocation
  <2>4. NoDoubleAllocation' /\ NoPageLost' /\ PendingSound'
    BY <1>1, <1>7, <1>10, <2>1, <2>2, <2>3
       DEF OwnersInv, NoDoubleAllocation, NoPageLost, PendingSound
  <2>5. CacheSound' /\ CacheOfSingles' /\ FreePagesExact'
    BY <1>1, <1>2, <1>7
       DEF OwnersInv, CacheSound, CacheOfSingles, FreePagesExact
  <2>6. QED
    BY <1>10, <2>4, <2>5 DEF OwnersInv, Refines
<1>11. QED
  BY <1>8, <1>9, <1>10 DEF ReleaseEnter

\* One iteration of the release loop moves one page from the pages that are
\* on their way back to the free ones.
LEMMA OwnersFreePage ==
  ASSUME AllocInv, NEW c \in Cores, FreePage(c)
  PROVE  OwnersInv' /\ FreePagesExact' /\ Refines
<1> DEFINE a == call[c]
           first == PageOf(a.ptr)
           p == first + a.done
<1>1. /\ TypeOK /\ OwnersInv /\ FreePagesExact /\ first \in Nat
      /\ a.pages \in Nat /\ a.done \in Nat /\ a.ptr \in Nat
  BY PointersType DEF AllocInv, TypeInv, TypeOK, Calls
<1>2. /\ a.op = "release" /\ InBitmap(a.ptr, a.pages) /\ a.done < a.pages
      /\ a.pages \in Sizes /\ pc[c] = "freeing"
  BY DEF AllocInv, TypeInv, CallsSane, FreePage
<1>3. Pending(c) = first + a.done .. first + a.pages - 1
  BY <1>2 DEF Pending
<1>4. p \in Pending(c)
  BY <1>1, <1>2, <1>3
<1>5. p \in Pages /\ p \notin Held /\ (bitmap[p] \/ DoubleFrees)
  BY <1>1, <1>4 DEF OwnersInv, PendingSound, Free
<1>6. UNCHANGED held
  BY DEF FreePage
<1>7. /\ call' = [call EXCEPT ![c] = [a EXCEPT !.done = a.done + 1]]
      /\ pc' = IF a.done + 1 = a.pages THEN [pc EXCEPT ![c] = "unlock"] ELSE pc
  BY DEF FreePage, Goto
<1>8. Held' = Held
  BY <1>6 DEF Held
<1>9. Pending(c)' = Pending(c) \ {p}
  <2>1. /\ call'[c].op = "release" /\ call'[c].pages = a.pages
        /\ call'[c].ptr = a.ptr /\ call'[c].done = a.done + 1
    BY <1>1, <1>2, <1>7 DEF TypeOK, Calls
  <2>2. CASE a.done + 1 = a.pages
    <3>1. pc'[c] = "unlock"
      BY <1>1, <1>7, <2>2 DEF TypeOK
    <3>2. Pending(c)' = {}
      BY <3>1 DEF Pending
    <3>3. Pending(c) = {p}
      BY <1>1, <1>3, <2>2
    <3>4. QED
      BY <3>2, <3>3
  <2>3. CASE a.done + 1 # a.pages
    <3>1. pc'[c] = "freeing"
      BY <1>2, <1>7, <2>3
    <3>2. Pending(c)' = first + (a.done + 1) .. first + a.pages - 1
      BY <1>2, <2>1, <3>1 DEF Pending, InBitmap, PageOf
    <3>3. QED
      BY <1>1, <1>3, <3>2
  <2>4. QED
    BY <2>2, <2>3
<1>10. \A d \in Cores : d # c => Pending(d)' = Pending(d)
  BY <1>1, <1>7, OthersPending
<1> HIDE DEF p
<1>11. Returning' = Returning \ {p}
  <2>1. \A d \in Cores : d # c => p \notin Pending(d)
    BY <1>1, <1>4 DEF OwnersInv, PendingSound
  <2>2. \A d \in Cores : Pending(d)' = Pending(d) \ {p}
    BY <1>9, <1>10, <2>1
  <2>3. QED
    BY <2>2 DEF Returning
<1>12. p \in Returning
  BY <1>4 DEF Returning
<1>13. CASE ~bitmap[p]
  <2>1. UNCHANGED <<bitmap, free_pages, page_cache>> /\ DoubleFrees
    BY <1>5, <1>13 DEF FreePage, MustFree, p
  <2>2. Free' = Free /\ p \in Free
    BY <1>5, <1>13, <2>1 DEF Free
  <2>3. NoDoubleAllocation' /\ NoPageLost' /\ CacheSound' /\ CacheOfSingles'
        /\ FreePagesExact'
    BY <1>1, <1>6, <1>8, <1>11, <2>1, <2>2
       DEF OwnersInv, NoDoubleAllocation, NoPageLost, CacheSound,
           CacheOfSingles, FreePagesExact
  <2>4. PendingSound'
    BY <1>1, <1>8, <1>9, <1>10, <2>1 DEF OwnersInv, PendingSound
  <2>5. QED
    BY <2>1, <2>3, <2>4 DEF OwnersInv, Refines
<1>14. SUFFICES ASSUME bitmap[p] PROVE OwnersInv' /\ FreePagesExact' /\ Refines
  BY <1>13
<1>15. /\ bitmap' = [bitmap EXCEPT ![p] = FALSE]
       /\ free_pages' = Plus(free_pages, 1)
       /\ IF CachesPage(a.pages)
            THEN page_cache' = Append(page_cache, first)
            ELSE UNCHANGED page_cache
  BY <1>14 DEF FreePage, MustFree, p
<1>16. Free' = Free \cup {p}
  BY <1>1, <1>5, <1>15 DEF Free, TypeOK
<1>17. NoDoubleAllocation' /\ NoPageLost'
  BY <1>1, <1>5, <1>6, <1>8, <1>11, <1>12, <1>16
     DEF OwnersInv, NoDoubleAllocation, NoPageLost
<1>18. PendingSound'
  <2>1. \A d \in Cores : /\ Pending(d)' \subseteq Pending(d)
                         /\ p \notin Pending(d)'
    BY <1>1, <1>4, <1>9, <1>10 DEF OwnersInv, PendingSound
  <2>2. QED
    BY <1>1, <1>16, <1>8, <2>1 DEF OwnersInv, PendingSound
<1>19. CacheSound' /\ CacheOfSingles'
  <2>1. CASE ~CachesPage(a.pages)
    BY <1>1, <1>15, <1>16, <2>1 DEF OwnersInv, CacheSound, CacheOfSingles
  <2>2. CASE CachesPage(a.pages)
    <3>1. a.pages = 1 /\ a.done = 0 /\ first = p
      BY <1>1, <1>2, <2>2 DEF CachesPage, p
    <3>2. page_cache' = Append(page_cache, p) /\ page_cache \in Seq(Pages)
      BY <1>1, <1>15, <2>2, <3>1 DEF TypeOK
    <3>3. /\ Len(page_cache) \in Nat /\ Len(page_cache') = Len(page_cache) + 1
          /\ page_cache'[Len(page_cache')] = p
          /\ \A i \in 1 .. Len(page_cache) : page_cache'[i] = page_cache[i]
      BY <1>5, <3>2
    <3>4. \A i \in 1 .. Len(page_cache) : page_cache[i] # p
      BY <1>1, <1>5, <1>14 DEF OwnersInv, CacheSound, Free
    <3>5. CacheSound'
      BY <1>1, <1>16, <3>3, <3>4 DEF OwnersInv, CacheSound
    <3>6. QED
      BY <1>2, <3>1, <3>5 DEF CacheOfSingles
  <2>3. QED
    BY <2>1, <2>2
<1>20. FreePagesExact'
  <2>1. IsFiniteSet(Free) /\ p \notin Free
    BY <1>5, <1>14, PagesFinite, FS_Subset DEF Free
  <2>2. Cardinality(Free') = Cardinality(Free) + 1
    BY <1>16, <2>1, FS_AddElement
  <2>3. Free' \in SUBSET Pages
    BY <1>16, <1>5 DEF Free
  <2>4. Cardinality(Free') <= BitmapPages
    BY <2>3, PagesFinite, FS_Subset
  <2>5. Cardinality(Free) \in Nat
    BY <2>1, FS_CardinalityType
  <2>6. free_pages' = free_pages + 1
    BY <1>1, <1>15, <2>2, <2>4, <2>5, PmmAssumption DEF Plus, FreePagesExact
  <2>7. QED
    BY <1>1, <2>2, <2>6 DEF FreePagesExact
<1>21. Allocator!Next
  <2>1. {p} \in SUBSET Usable
    BY <1>1, <1>12 DEF OwnersInv, NoPageLost
  <2>2. Allocator!Reclaim({p})
    BY <1>16, <1>8, <1>11, <1>12 DEF Allocator!Reclaim
  <2>3. QED
    BY <2>1, <2>2 DEF Allocator!Next
<1>22. QED
  BY <1>17, <1>18, <1>19, <1>20, <1>21 DEF OwnersInv, Refines

\* With simple callers the scan of the bitmap runs only while the cache is
\* empty: a single page comes from the cache first, and callers of longer
\* runs never fill it.
LEMMA ScanFindsCacheEmpty ==
  ASSUME SimpleCallers, AllocInv, NEW c \in Cores, call[c].op = "request",
         ~UsesCache(c)
  PROVE  page_cache = <<>>
BY PmmAssumption
   DEF AllocInv, TypeInv, CallsSane, OwnersInv, CacheOfSingles, SimpleCallers,
       UsesCache

\* A call that starts moves pages at most from a holder to the pages on their
\* way back.
LEMMA OwnersStart ==
  ASSUME SimpleCallers, AllocInv, NEW c \in Cores, Start(c)
  PROVE  OwnersInv' /\ FreePagesExact' /\ Refines
<1>1. TypeOK /\ OwnersInv /\ FreePagesExact
  BY DEF AllocInv, TypeInv
<1>2. CASE \E n \in Sizes, hh \in BOOLEAN : RequestEnter(c, n, hh)
  <2>1. PICK n \in Sizes, hh \in BOOLEAN : RequestEnter(c, n, hh)
    BY <1>2
  <2> DEFINE args == [Idle EXCEPT !.op = "request", !.pages = n,
                                  !.higher_half = hh]
  <2>2. args.op = "request"
    BY DEF Idle
  <2> HIDE DEF args
  <2>3. /\ pc[c] = "idle" /\ pc' = [pc EXCEPT ![c] = "acquire"]
        /\ call' = [call EXCEPT ![c] = args]
        /\ UNCHANGED <<bitmap, free_pages, page_cache, held>>
    BY <2>1 DEF RequestEnter, Enter, Goto, args
  <2>4. Pending(c) = {} /\ Pending(c)' = {}
    BY <1>1, <2>2, <2>3 DEF Pending, TypeOK
  <2>5. \A d \in Cores : d # c => Pending(d)' = Pending(d)
    BY <1>1, <2>3, OthersPending
  <2>6. QED
    BY <1>1, <2>3, <2>4, <2>5, OwnersQuiet
<1>3. CASE \E n \in Sizes : RequestReject(c, n)
  <2>1. UNCHANGED vars
    BY <1>3 DEF RequestReject
  <2>2. \A d \in Cores : Pending(d)' = Pending(d)
    BY <2>1 DEF vars, Pending, InBitmap, PageOf
  <2>3. QED
    BY <1>1, <2>1, <2>2, OwnersQuiet DEF vars
<1>4. CASE \E n \in Sizes, ptr \in Pointers : ReleaseEnter(c, n, ptr)
  BY <1>4, OwnersReleaseEnter
<1>5. CASE CountEnter(c)
  <2> DEFINE args == [Idle EXCEPT !.op = "count"]
  <2>1. args.op = "count"
    BY DEF Idle
  <2> HIDE DEF args
  <2>2. /\ pc[c] = "idle" /\ pc' = [pc EXCEPT ![c] = "acquire"]
        /\ call' = [call EXCEPT ![c] = args]
        /\ UNCHANGED <<bitmap, free_pages, page_cache, held>>
    BY <1>5 DEF CountEnter, Enter, Goto, args
  <2>3. Pending(c) = {} /\ Pending(c)' = {}
    BY <1>1, <2>1, <2>2 DEF Pending, TypeOK
  <2>4. \A d \in Cores : d # c => Pending(d)' = Pending(d)
    BY <1>1, <2>2, OthersPending
  <2>5. QED
    BY <1>1, <2>2, <2>3, <2>4, OwnersQuiet
<1>6. QED
  BY <1>2, <1>3, <1>4, <1>5 DEF Start

\* Inside a call no page gets a second owner or is lost, and the counter
\* follows the bitmap.
LEMMA OwnersStep ==
  ASSUME SimpleCallers, AllocInv, ScanInv, NEW c \in Cores, Step(c)
  PROVE  OwnersInv' /\ FreePagesExact' /\ Refines
<1>1. TypeOK /\ CallsSane /\ OwnersInv /\ FreePagesExact
  BY DEF AllocInv, TypeInv
<1>2. ASSUME UNCHANGED <<bitmap, free_pages, page_cache, held>>,
             Pending(c)' = Pending(c),
             pc' = pc \/ \E where : pc' = [pc EXCEPT ![c] = where],
             call' = call \/ \E args : call' = [call EXCEPT ![c] = args]
      PROVE  OwnersInv' /\ FreePagesExact' /\ Refines
  <2>1. \A d \in Cores : d # c => Pending(d)' = Pending(d)
    BY <1>1, <1>2, OthersPending
  <2>2. QED
    BY <1>1, <1>2, <2>1, OwnersQuiet
<1>3. CASE Acquire(c)
  <2>1. Pending(c)' = Pending(c)
    BY <1>1, <1>3 DEF Acquire, Goto, Pending, InBitmap, PageOf, TypeOK
  <2>2. QED
    BY <1>2, <1>3, <2>1 DEF Acquire, Goto
<1>4. CASE TakeCached(c)
  <2> DEFINE top == page_cache[Len(page_cache)]
             n   == call[c].pages
  <2>1. page_cache \in Seq(Pages) /\ page_cache # <<>> /\ n = 1
    BY <1>1, <1>4 DEF TakeCached, UsesCache, TypeOK
  <2>2. Len(page_cache) \in Nat \ {0} /\ top \in Pages
    BY <2>1
  <2>3. page_cache' = SubSeq(page_cache, 1, Len(page_cache) - 1)
    BY <1>4 DEF TakeCached
  <2>4. /\ Len(page_cache') = Len(page_cache) - 1
        /\ \A i \in 1 .. Len(page_cache') : page_cache'[i] = page_cache[i]
    BY <2>1, <2>3, CachePopped
  <2>5. Run(top, n) = {top}
    BY <2>1, <2>2, PmmAssumption DEF Run, Pages
  <2>6. CacheSound /\ 1 \in Sizes
    BY <1>1, <2>1 DEF OwnersInv, CacheOfSingles
  <2>7. Run(top, n) \subseteq Free
    BY <2>2, <2>5, <2>6 DEF CacheSound
  <2>8. \A i \in 1 .. Len(page_cache') :
          page_cache'[i] \in Free \ Run(top, n)
    BY <2>2, <2>4, <2>5, <2>6 DEF CacheSound
  <2>9. \A i, j \in 1 .. Len(page_cache') :
          page_cache'[i] = page_cache'[j] => i = j
    BY <2>2, <2>4, <2>6 DEF CacheSound
  <2>10. HandOut(c, top) /\ pc[c] = "locked" /\ call[c].op = "request"
    BY <1>4 DEF TakeCached, TopOfCache, Locked
  <2> HIDE DEF top, n
  <2>11. QED
    BY <2>2, <2>6, <2>7, <2>8, <2>9, <2>10, OwnersHandOut DEF n
<1>5. CASE TakeRun(c)
  <2> DEFINE s == PageAt(call[c]) + 1 - call[c].pages
  <2>1. /\ pc[c] = "scanning" /\ call[c].op = "request" /\ ScanOf(c)
        /\ TypeInv /\ NullUsed
    BY <1>1, <1>5 DEF TakeRun, Scanning, CallsSane, ScanInv, ScanSound
  <2>2. /\ HandOut(c, s) /\ s \in Pages
        /\ Run(s, call[c].pages) \subseteq Free
    BY <1>5, <2>1, TakenRunFree
  <2>3. page_cache' = <<>>
    BY <1>5, <2>1, ScanFindsCacheEmpty DEF TakeRun, ScanOf
  <2>4. 1 .. Len(page_cache') = {}
    BY <2>3
  <2> HIDE DEF s
  <2>5. QED
    BY <2>1, <2>2, <2>3, <2>4, OwnersHandOut
<1>6. CASE RequestFail(c)
  <2>1. Pending(c)' = {} /\ Pending(c) = {}
    BY <1>1, <1>6 DEF RequestFail, ScannedAll, Goto, Pending, TypeOK
  <2>2. QED
    BY <1>2, <1>6, <2>1 DEF RequestFail, Goto
<1>7. CASE ReleaseCheck(c)
  <2>1. /\ pc[c] = "locked" /\ call[c].op = "release" /\ call[c].done = 0
        /\ call[c].pages \in Nat /\ PageOf(call[c].ptr) \in Nat
    BY <1>1, <1>7, PointersType
       DEF ReleaseCheck, Locked, CallsSane, Fresh, TypeOK, Calls
  <2>2. CASE EntersLoop(call[c])
    <3>1. pc' = [pc EXCEPT ![c] = "freeing"] /\ call' = call
      BY <1>7, <2>2 DEF ReleaseCheck, Goto
    <3>2. Pending(c)' = Pending(c)
      BY <1>1, <2>1, <3>1 DEF Pending, TypeOK, InBitmap, PageOf
    <3>3. QED
      BY <1>2, <1>7, <3>1, <3>2 DEF ReleaseCheck
  <2>3. CASE ~EntersLoop(call[c])
    <3>1. pc' = [pc EXCEPT ![c] = "unlock"] /\ call' = call
      BY <1>7, <2>3 DEF ReleaseCheck, Goto
    <3>2. Pending(c)' = {}
      BY <1>1, <3>1 DEF Pending, TypeOK
    <3>3. Pending(c) = {}
      BY <2>1, <2>3 DEF Pending, EntersLoop
    <3>4. QED
      BY <1>2, <1>7, <3>1, <3>2, <3>3 DEF ReleaseCheck
  <2>4. QED
    BY <2>2, <2>3
<1>8. CASE FreePage(c)
  BY <1>8, OwnersFreePage
<1>9. CASE Count(c)
  <2>1. Pending(c)' = {} /\ Pending(c) = {}
    BY <1>1, <1>9 DEF Count, Locked, Goto, Pending, TypeOK
  <2>2. QED
    BY <1>2, <1>9, <2>1 DEF Count, Goto
<1>10. CASE Unlock(c)
  <2>1. Pending(c)' = {} /\ Pending(c) = {}
    BY <1>1, <1>10 DEF Unlock, Goto, Pending, TypeOK
  <2>2. QED
    BY <1>2, <1>10, <2>1 DEF Unlock, Goto
<1>11. CASE StartScan(c) \/ NextWord(c) \/ NextBit(c)
  <2>1. Pending(c)' = {} /\ Pending(c) = {}
    BY <1>1, <1>11 DEF StartScan, Locked, NextWord, NextBit, ScanOn, Scanning,
                       Goto, Pending, TypeOK
  <2>2. call' = call \/ \E args : call' = [call EXCEPT ![c] = args]
    BY <1>1, <1>11 DEF StartScan, NextWord, NextBit, ScanOn, TypeOK
  <2>3. QED
    BY <1>2, <1>11, <2>1, <2>2
       DEF StartScan, NextWord, NextBit, ScanOn, Goto
<1>12. QED
  BY <1>3, <1>4, <1>5, <1>6, <1>7, <1>8, <1>9, <1>10, <1>11 DEF Step

\* No step of simple callers gives a page a second owner, loses one or makes
\* the counter wrong.
LEMMA OwnersNext ==
  ASSUME SimpleCallers, AllocInv, ScanInv, [Next]_vars
  PROVE  OwnersInv' /\ FreePagesExact' /\ Refines
<1>1. CASE Next
  BY <1>1, OwnersStart, OwnersStep DEF Next
<1>2. CASE UNCHANGED vars
  <2>1. \A d \in Cores : Pending(d)' = Pending(d)
    BY <1>2 DEF vars, Pending, InBitmap, PageOf
  <2>2. QED
    BY <1>2, <2>1, OwnersQuiet DEF vars, AllocInv
<1>3. QED
  BY <1>1, <1>2

\* With simple callers the inductive invariant holds in every reachable state.
LEMMA AllocInvariant == ASSUME SimpleCallers PROVE Spec => []AllocInv
<1>1. Init => AllocInv
  BY TypeInit, OwnersInit DEF AllocInv
<1>2. AllocInv /\ ScanInv /\ [Next]_vars => AllocInv'
  BY TypeNext, OwnersNext DEF AllocInv
<1>3. QED
  BY <1>1, <1>2, ScanInvariant, PTL DEF Spec

\* Callers that use single pages only, or runs only, never get a page that
\* someone owns, from the cache or from the scan, however their calls
\* interleave.
THEOREM NobodySharesAPage ==
  ASSUME SimpleCallers PROVE Spec => []NoDoubleAllocation
<1>1. AllocInv => NoDoubleAllocation
  BY DEF AllocInv, OwnersInv
<1>2. QED
  BY <1>1, AllocInvariant, PTL

\* Nor is a page ever forgotten: a used page has an owner or a core that is
\* about to free it.
THEOREM EveryPageAccountedFor ==
  ASSUME SimpleCallers PROVE Spec => []NoPageLost
<1>1. AllocInv => NoPageLost
  BY DEF AllocInv, OwnersInv
<1>2. QED
  BY <1>1, AllocInvariant, PTL

\* The cached page numbers are distinct and free, for any cache size.
THEOREM CacheAlwaysSound ==
  ASSUME SimpleCallers PROVE Spec => []CacheSound
<1>1. AllocInv => CacheSound
  BY DEF AllocInv, OwnersInv
<1>2. QED
  BY <1>1, AllocInvariant, PTL

\* The counter that the unlocked check reads equals the clear bits of the
\* bitmap in every state, between any two iterations of a release, too.
THEOREM CounterExact ==
  ASSUME SimpleCallers PROVE Spec => []FreePagesExact
<1>1. AllocInv => FreePagesExact
  BY DEF AllocInv
<1>2. QED
  BY <1>1, AllocInvariant, PTL

\* Bitmap, cache and counter implement one set of free pages: each step of
\* pmm_request_pages and pmm_release_pages grabs, gives back or reclaims
\* pages, or changes nothing an owner can see.
THEOREM PmmImplementsPageAllocator ==
  ASSUME SimpleCallers, ~DoubleFrees PROVE Spec => ImplementsPageAllocator
<1>1. Init => Allocator!Init
  <2> SUFFICES ASSUME Init PROVE Allocator!Init
    OBVIOUS
  <2>1. Free = Usable
    BY PmmAssumption DEF Init, Free
  <2>2. Held = {}
    BY DEF Init, Held
  <2>3. \A c \in Cores : Pending(c) = {}
    BY DEF Init, Pending
  <2>4. Returning = {}
    BY <2>3 DEF Returning
  <2>5. QED
    BY <2>1, <2>2, <2>4 DEF Allocator!Init
<1>2. AllocInv /\ ScanInv /\ [Next]_vars => [Allocator!Next]_(Allocator!vars)
  BY OwnersNext DEF Refines
<1>3. QED
  BY <1>1, <1>2, AllocInvariant, ScanInvariant, PTL
     DEF Spec, ImplementsPageAllocator, Allocator!Spec
=============================================================================
