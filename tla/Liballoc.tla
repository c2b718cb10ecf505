------------------------------ MODULE Liballoc ------------------------------
(***************************************************************************)
(* The kernel's heap, src/mm/liballoc/liballoc.c: majors, which are runs   *)
(* of pages, hold lists of minors, which are the blocks callers get.       *)
(*                                                                         *)
(* What happens under the lock is one step; krealloc and kcalloc, which    *)
(* take it several times, are several.  Addresses and sizes are numbers.   *)
(* Pages come from a source that grants a run at an address or nothing;    *)
(* the caller of each action says which (new).                             *)
(***************************************************************************)
EXTENDS Integers, Sequences, FiniteSetsExt, SequencesExt

CONSTANTS
  Cores,
  Requests,       \* numbers of bytes that callers ask for
  Bases,          \* addresses at which the source may grant pages
  PageSize,       \* l_pageSize
  PageCount,      \* l_pageCount
  MajorHeader,    \* sizeof(struct liballoc_major)
  MinorHeader,    \* sizeof(struct liballoc_minor)
  ALIGNMENT,
  ALIGN_INFO,
  MaxBlocks       \* bound: blocks owned or in the making

NULL == 0
LIBALLOC_MAGIC == "magic"
LIBALLOC_DEAD == "dead"
Junk == "junk"

ASSUME LiballocAssumption ==
  /\ Requests \subseteq Nat \ {0}
  /\ {PageSize, ALIGNMENT, MajorHeader, MinorHeader} \subseteq Nat \ {0}
  /\ {PageCount, ALIGN_INFO, MaxBlocks} \subseteq Nat
  /\ Bases \subseteq Nat \ {NULL}
  \* a pointer leads to one header
  /\ MinorHeader >= ALIGNMENT
  /\ NULL \notin Cores /\ Junk \notin Cores

VARIABLES
  major,          \* address -> header of a run of pages
  minor,          \* address -> header of a block, or what is left of it
  l_memRoot,
  l_bestBet,
  owned,          \* pointer -> the core that has it
  call            \* core -> where it is in krealloc or kcalloc

vars == <<major, minor, l_memRoot, l_bestBet, owned, call>>

Idle == [at |-> "idle"]

Init ==
  /\ major = << >> /\ minor = << >>
  /\ l_memRoot = NULL /\ l_bestBet = NULL
  /\ owned = << >>
  /\ call = [c \in Cores |-> Idle]

-----------------------------------------------------------------------------
(* Lists and gaps *)

\* The list that starts at an address, link is what it is linked by.
Walk(start, link) ==
  LET nth[k \in 1 .. Cardinality(DOMAIN link) + 1] ==
        IF k = 1 THEN start
        ELSE IF nth[k - 1] \in DOMAIN link THEN link[nth[k - 1]] ELSE NULL
  IN  [k \in {k \in DOMAIN nth : nth[k] # NULL} |-> nth[k]]

MajorsFrom(a) == Walk(a, [x \in DOMAIN major |-> major[x].next])
MinorsOf(a) == Walk(major[a].first, [x \in DOMAIN minor |-> minor[x].next])

Spare(a) == major[a].size - major[a].usage

\* size with room for the alignment, and what a block of it takes.
Padded(req) == req + ALIGNMENT + ALIGN_INFO
Need(size) == size + MinorHeader

\* The room behind the k-th block of the list of a run, or in front of all:
\* where it starts and where it ends.
GapStart(a, list, k) == IF k = 0 THEN a + MajorHeader
                        ELSE list[k] + MinorHeader + minor[list[k]].size
GapEnd(a, list, k) == IF k = Len(list) THEN a + major[a].size ELSE list[k + 1]

IsRoom(room, size) == room >= Need(size)

\* Cases 3, 4.1 and 4.2: where there is room.
Gaps(a, list, size) ==
  {k \in 0 .. Len(list) : IsRoom(GapEnd(a, list, k) - GapStart(a, list, k), size)}

\* Case 1 passes over runs without the space, case 5 over those without the
\* room.
Fits(a, size) == Spare(a) >= Need(size) /\ Gaps(a, MinorsOf(a), size) # {}

\* The runs in the order they are looked at: from l_bestBet to the end first,
\* if it has the space, then all.
Searched(size) ==
  (IF l_bestBet # NULL /\ Spare(l_bestBet) > Need(size)
     THEN MajorsFrom(l_bestBet) ELSE << >>) \o MajorsFrom(l_memRoot)

\* Index of the run that has room, 0 if none has.
Fit(size) ==
  LET fitting == {k \in DOMAIN Searched(size) : Fits(Searched(size)[k], size)}
  IN  IF fitting = {} THEN 0 ELSE Min(fitting)

\* The best bet after the runs of a sequence have been looked at.
Better(spare, bet, a) ==
  IF spare[a] > (IF bet = NULL THEN 0 ELSE spare[bet]) THEN a ELSE bet
BestBet(looked, spare) ==
  LET bet[k \in 0 .. Len(looked)] ==
        IF k = 0 THEN l_bestBet ELSE Better(spare, bet[k - 1], looked[k])
  IN  bet[Len(looked)]

\* ALIGN: the pointer behind a block's header, and UNALIGN, which finds the
\* header by the distance that ALIGN has left in front of the pointer.
PointerTo(m) ==
  LET p == m + MinorHeader + ALIGN_INFO
  IN  p + ((ALIGNMENT - (p % ALIGNMENT)) % ALIGNMENT)
MinorAt(p) == CHOOSE m \in DOMAIN minor : PointerTo(m) = p

\* Pages for a request: allocate_new_page.
PagesFor(size) ==
  LET st == (size + MajorHeader + MinorHeader + PageSize - 1) \div PageSize
  IN  IF st < PageCount THEN PageCount ELSE st

-----------------------------------------------------------------------------
(* kmalloc *)

\* Mutant: the block behind does not learn of the new one.
NewMinorBackOnly(m, at, prev, next, header) ==
  IF m = at THEN header
  ELSE [minor[m] EXCEPT !.next = IF m = prev THEN at ELSE @]

NewMinor(m, at, prev, next, header) ==
  IF m = at THEN header
  ELSE [minor[m] EXCEPT !.next = IF m = prev THEN at ELSE @,
                        !.prev = IF m = next THEN at ELSE @]

\* A block of size bytes at an address of run a, between two others.  It
\* overwrites what is left of the headers of blocks there.
Insert(a, at, prev, next, size, req, data) ==
  LET overwritten == {m \in DOMAIN minor : m + MinorHeader > at
                                           /\ m < at + Need(size)}
      header == [prev |-> prev, next |-> next, block |-> a,
                 magic |-> LIBALLOC_MAGIC, size |-> size, req_size |-> req,
                 data |-> data]
  IN  minor' = [m \in (DOMAIN minor \ overwritten) \cup {at} |->
                  NewMinor(m, at, prev, next, header)]

\* The first run that has room, and the first place in it.
Target(size) == Searched(size)[Fit(size)]
Place(size) ==
  LET a    == Target(size)
      list == MinorsOf(a)
      k    == Min(Gaps(a, list, size))
  IN  [at |-> GapStart(a, list, k),
       prev |-> IF k = 0 THEN NULL ELSE list[k],
       next |-> IF k = Len(list) THEN NULL ELSE list[k + 1]]

PlaceInRun(req, data) ==
  LET size  == Padded(req)
      a     == Target(size)
      place == Place(size)
  IN
  /\ Fit(size) # 0
  /\ Insert(a, place.at, place.prev, place.next, size, req, data)
  /\ major' = [major EXCEPT
       ![a].first = IF place.prev = NULL THEN place.at ELSE @,
       ![a].usage = @ + Need(size)]
  /\ l_bestBet' = BestBet(SubSeq(Searched(size), 1, Fit(size)),
                          [b \in DOMAIN major |-> Spare(b)])
  /\ UNCHANGED l_memRoot

\* No run has room: a new one, behind the last.
PlaceInNewRun(req, new, data) ==
  LET size  == Padded(req)
      runs  == Searched(size)
      last  == IF runs = << >> THEN NULL ELSE Last(runs)
      bytes == PagesFor(size) * PageSize
      at    == new + MajorHeader
      spare == [b \in DOMAIN major \cup {new} |->
                  IF b = new THEN bytes - MajorHeader ELSE Spare(b)]
      \* A run that had the space and no room (case 5) lets the loop go on to
      \* the new one; one without the space (case 1) does not.
      looked == IF last = NULL THEN << new >>
                ELSE IF Spare(last) >= Need(size) THEN Append(runs, new)
                ELSE runs
  IN
  /\ Fit(size) = 0
  /\ Insert(new, at, NULL, NULL, size, req, data)
  /\ major' = [b \in DOMAIN major \cup {new} |->
                 IF b = new
                   THEN [prev |-> last, next |-> NULL,
                         pages |-> PagesFor(size), size |-> bytes,
                         usage |-> MajorHeader + Need(size), first |-> at]
                   ELSE [major[b] EXCEPT !.next = IF b = last THEN new ELSE @]]
  /\ l_memRoot' = IF last = NULL THEN new ELSE l_memRoot
  /\ l_bestBet' = BestBet(looked, spare)

\* No run has room, and there are no pages.
PlaceNowhere(req) ==
  LET size == Padded(req) IN
  /\ Fit(size) = 0
  /\ l_bestBet' = BestBet(Searched(size), [b \in DOMAIN major |-> Spare(b)])
  /\ UNCHANGED <<major, minor, l_memRoot>>

\* new is what liballoc_alloc returns, if it is called.
malloc(req, new, data) ==
  \/ PlaceInRun(req, data) /\ new = NULL
  \/ new # NULL /\ PlaceInNewRun(req, new, data)
  \/ new = NULL /\ PlaceNowhere(req)

\* The pointer that malloc returns.
Returned(req, new) ==
  LET size == Padded(req) IN
  IF Fit(size) # 0 THEN PointerTo(Place(size).at)
  ELSE IF new = NULL THEN NULL
  ELSE PointerTo(new + MajorHeader)

-----------------------------------------------------------------------------
(* kfree *)

BetWithout(a) == IF l_bestBet = a THEN NULL ELSE l_bestBet

\* Mutant: the first run goes, and the list still starts there.
RootWithoutKept(a) == l_memRoot

RootWithout(a) == IF l_memRoot = a THEN major[a].next ELSE l_memRoot

\* The last block of a run has gone, and the run goes with it.
ReleaseRun(a) ==
  LET prev == major[a].prev
      next == major[a].next
  IN
  /\ major' = [b \in DOMAIN major \ {a} |->
                 [major[b] EXCEPT !.next = IF b = prev THEN next ELSE @,
                                  !.prev = IF b = next THEN prev ELSE @]]
  /\ minor' = [m \in {m \in DOMAIN minor : minor[m].block # a} |-> minor[m]]
  /\ l_memRoot' = RootWithout(a)
  /\ l_bestBet' = BetWithout(a)

\* Mutant: the header of the block is not counted.
UsageLess(m) == minor[m].size

UsageOf(m) == Need(minor[m].size)

ReleaseBlock(m) ==
  LET a    == minor[m].block
      prev == minor[m].prev
      next == minor[m].next
      spare == Spare(a) + UsageOf(m)
  IN
  /\ major' = [major EXCEPT ![a].usage = @ - UsageOf(m),
                            ![a].first = IF prev = NULL THEN next ELSE @]
  /\ minor' = [x \in DOMAIN minor |->
                 [minor[x] EXCEPT
                    !.magic = IF x = m THEN LIBALLOC_DEAD ELSE @,
                    !.next = IF x = prev THEN next ELSE @,
                    !.prev = IF x = next THEN prev ELSE @]]
  /\ l_bestBet' = IF l_bestBet \notin {NULL, a} /\ spare > Spare(l_bestBet)
                    THEN a ELSE l_bestBet
  /\ UNCHANGED l_memRoot

Alone(m) == minor[m].prev = NULL /\ minor[m].next = NULL

\* A pointer that has been freed before is recognised by what is left of the
\* header, and nothing happens.
free(p) ==
  LET m == MinorAt(p) IN
  \/ minor[m].magic = LIBALLOC_MAGIC /\ Alone(m) /\ ReleaseRun(minor[m].block)
  \/ minor[m].magic = LIBALLOC_MAGIC /\ ~Alone(m) /\ ReleaseBlock(m)
  \/ /\ minor[m].magic # LIBALLOC_MAGIC
     /\ UNCHANGED <<major, minor, l_memRoot, l_bestBet>>

-----------------------------------------------------------------------------
(* What callers do *)

Busy == {c \in Cores : call[c] # Idle}
MayAllocate == Cardinality(DOMAIN owned) + Cardinality(Busy) < MaxBlocks

Gain(p, c) == owned' = [q \in DOMAIN owned \cup {p} |->
                          IF q = p THEN c ELSE owned[q]]
Lose(p) == owned' = [q \in DOMAIN owned \ {p} |-> owned[q]]

\* The owner writes its name into what it gets.
kmalloc(c, req, new) ==
  /\ call[c] = Idle /\ MayAllocate
  /\ malloc(req, new, c)
  /\ IF Returned(req, new) = NULL THEN UNCHANGED owned
                                  ELSE Gain(Returned(req, new), c)
  /\ UNCHANGED call

kfree(c, p) ==
  /\ call[c] = Idle
  /\ p \in DOMAIN owned /\ owned[p] = c
  /\ free(p)
  /\ Lose(p)
  /\ UNCHANGED call

\* A pointer of which only the dead header is left.
FreeAgain(c, m) ==
  /\ call[c] = Idle
  /\ minor[m].magic = LIBALLOC_DEAD
  /\ free(PointerTo(m))
  /\ UNCHANGED <<owned, call>>

Continue(c, next) == call' = [call EXCEPT ![c] = next]

kcalloc(c, size) ==
  /\ call[c] = Idle /\ MayAllocate
  /\ Continue(c, [at |-> "malloc", old |-> NULL, size |-> size])
  /\ UNCHANGED <<major, minor, l_memRoot, l_bestBet, owned>>

krealloc(c, p, size) ==
  LET m == MinorAt(p) IN
  /\ call[c] = Idle /\ MayAllocate
  /\ p \in DOMAIN owned /\ owned[p] = c
  /\ IF minor[m].req_size >= size
       THEN /\ minor' = [minor EXCEPT ![m].req_size = size]
            /\ UNCHANGED call
       ELSE /\ Continue(c, [at |-> "malloc", old |-> p, size |-> size])
            /\ UNCHANGED minor
  /\ UNCHANGED <<major, l_memRoot, l_bestBet, owned>>

CallMalloc(c, new) ==
  /\ call[c].at = "malloc"
  /\ malloc(call[c].size, new, Junk)
  /\ Continue(c, [at |-> "fill", old |-> call[c].old,
                  new |-> Returned(call[c].size, new)])
  /\ UNCHANGED owned

\* Mutant: nothing is copied.
ContentOfNothing(c, old) == Junk

ContentOf(c, old) == IF old = NULL THEN c ELSE minor[MinorAt(old)].data

\* memset or memcpy; neither function has looked at what malloc returned, and
\* nothing is mapped at NULL: the core panics.
Fill(c) ==
  LET old == call[c].old
      new == call[c].new
  IN
  /\ call[c].at = "fill"
  /\ IF new = NULL
       THEN /\ Continue(c, [at |-> "panic"])
            /\ UNCHANGED <<minor, owned>>
       ELSE /\ minor' = [minor EXCEPT ![MinorAt(new)].data =
                                         ContentOf(c, old)]
            /\ IF old = NULL
                 THEN Gain(new, c) /\ Continue(c, Idle)
                 ELSE /\ Continue(c, [at |-> "free", old |-> old, new |-> new])
                      /\ UNCHANGED owned
  /\ UNCHANGED <<major, l_memRoot, l_bestBet>>

FreeOld(c) ==
  LET old == call[c].old
      new == call[c].new
  IN
  /\ call[c].at = "free"
  /\ free(old)
  /\ owned' = [q \in (DOMAIN owned \ {old}) \cup {new} |->
                 IF q = new THEN c ELSE owned[q]]
  /\ Continue(c, Idle)

\* One step of a core; new is the answer of the source, should it be asked.
Step(c, new) ==
  \/ \E req \in Requests : kmalloc(c, req, new)
  \/ CallMalloc(c, new)
  \/ /\ new = NULL
     /\ \/ \E p \in DOMAIN owned : kfree(c, p)
        \/ \E m \in DOMAIN minor : FreeAgain(c, m)
        \/ \E size \in Requests : kcalloc(c, size)
        \/ \E p \in DOMAIN owned, size \in Requests : krealloc(c, p, size)
        \/ Fill(c) \/ FreeOld(c)

\* The source grants runs whose pages are not in use, or nothing.
Grants == {NULL} \cup (Bases \ DOMAIN major)
OutOfUse ==
  \A new \in DOMAIN major' \ DOMAIN major : \A a \in DOMAIN major :
    a + major[a].size <= new \/ new + major'[new].size <= a

Next == \E c \in Cores : \E new \in Grants : Step(c, new) /\ OutOfUse

Spec == Init /\ [][Next]_vars

-----------------------------------------------------------------------------
(* Properties *)

Live == {m \in DOMAIN minor : minor[m].magic = LIBALLOC_MAGIC}
Links == Nat \cup {NULL}

\* Headers hold what their fields are for, and l_bestBet is a run in use.
TypeOK ==
  /\ \A a \in DOMAIN major :
       major[a] \in [prev : Links, next : Links, pages : Nat, size : Nat,
                     usage : 0 .. major[a].size, first : DOMAIN minor]
  /\ \A m \in DOMAIN minor :
       minor[m] \in [prev : Links, next : Links, block : DOMAIN major,
                     magic : {LIBALLOC_MAGIC, LIBALLOC_DEAD}, size : Nat,
                     req_size : Nat, data : Cores \cup {Junk}]
  /\ {l_memRoot, l_bestBet} \subseteq DOMAIN major \cup {NULL}
  /\ \A p \in DOMAIN owned : owned[p] \in Cores
  /\ \A c \in Cores :
       call[c].at \in {"idle", "malloc", "fill", "free", "panic"}

\* The blocks of a run are linked both ways in the order of their addresses,
\* do not overlap, end with the run, and are all the live blocks there are.
BlocksApart ==
  /\ Live = UNION {ToSet(MinorsOf(a)) : a \in DOMAIN major}
  /\ \A a \in DOMAIN major :
       LET list == MinorsOf(a) IN
       /\ \A k \in 0 .. Len(list) : GapStart(a, list, k) <= GapEnd(a, list, k)
       /\ \A k \in 1 .. Len(list) :
            /\ minor[list[k]].prev = (IF k = 1 THEN NULL ELSE list[k - 1])
            /\ minor[list[k]].block = a

\* usage is what the headers and blocks of the run take, so that cases 1 and
\* 5 pass over the right runs.
Total(s) ==
  LET sum[k \in 0 .. Len(s)] == IF k = 0 THEN 0 ELSE sum[k - 1] + s[k]
  IN  sum[Len(s)]
Taken(list) == Total([k \in 1 .. Len(list) |-> Need(minor[list[k]].size)])
UsageExact ==
  \A a \in DOMAIN major : major[a].usage = MajorHeader + Taken(MinorsOf(a))

\* Every run in use is in the list, linked both ways, and holds a block: no
\* pages are lost, and none are kept for nothing, and the root and the best bet
\* (TypeOK) are runs that are there.
RunsListed ==
  LET list == MajorsFrom(l_memRoot) IN
  /\ TypeOK
  /\ ToSet(list) = DOMAIN major
  /\ \A k \in 1 .. Len(list) :
       /\ major[list[k]].prev = (IF k = 1 THEN NULL ELSE list[k - 1])
       /\ MinorsOf(list[k]) # << >>

\* What a core has been given stays its own: the pointer is aligned, all of
\* the bytes it asked for are inside a live block, and they hold what it has
\* written, whatever others allocate, free and reallocate meanwhile.
ContentsKept ==
  \A p \in DOMAIN owned :
    \E m \in Live :
      /\ PointerTo(m) = p
      /\ p % ALIGNMENT = 0
      /\ p + minor[m].req_size <= m + MinorHeader + minor[m].size
      /\ minor[m].data = owned[p]
=============================================================================
