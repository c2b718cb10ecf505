------------------------------ MODULE PmmBoot ------------------------------
(***************************************************************************)
(* pmm_init of src/mm/pmm.c: from the memory map of the boot loader to the *)
(* bitmap and the counter that Pmm starts with.  It runs once, on one      *)
(* core; a step is one iteration of one of its three loops over the map.   *)
(*                                                                         *)
(* Bases and lengths of the map are counted in pages (the boot loader      *)
(* aligns usable entries to pages), the size of the bitmap in bytes.       *)
(***************************************************************************)
EXTENDS Integers, Sequences, FiniteSets

CONSTANTS
  Maps,           \* memory maps the boot loader may report
  BitsPerByte,    \* 8
  PageBytes       \* PAGE_SIZE

ASSUME PmmBootAssumption ==
  /\ BitsPerByte \in Nat \ {0}
  /\ PageBytes \in Nat \ {0}
  /\ Maps \subseteq Seq([base : Nat, length : Nat, usable : BOOLEAN])
  \* sorted, and usable entries do not overlap
  /\ \A m \in Maps : \A j, k \in DOMAIN m :
       j < k /\ m[j].usable /\ m[k].usable => m[j].base + m[j].length <= m[k].base

VARIABLES
  response,       \* FALSE if memmap_request.response is NULL
  memmap,         \* memmap->entries, which pmm_init modifies
  high, free_pages, bitmap_pages, bitmap_size,
  bitmap,         \* page where the bitmap starts; the global is 0 at first
  bits,           \* page -> its bit, once the memory is the bitmap's
  i,              \* index of the loop that runs
  pc

vars == <<response, memmap, high, free_pages, bitmap_pages, bitmap_size,
          bitmap, bits, i, pc>>

NULL == 0

AlignUp(x, y) == ((x + y - 1) \div y) * y

PagesOf(e) == e.base .. e.base + e.length - 1
UsablePages == UNION {PagesOf(memmap[k]) :
                        k \in {k \in DOMAIN memmap : memmap[k].usable}}

\* The page of memory that holds the bit of page p.
BitHome(p) == bitmap + (p \div BitsPerByte) \div PageBytes

\* What bitmap_size bytes can track.
CoveredPages == 0 .. bitmap_size * BitsPerByte - 1

Init ==
  /\ response \in BOOLEAN
  /\ memmap \in Maps
  /\ high = 0 /\ free_pages = 0 /\ bitmap_pages = 0 /\ bitmap_size = 0
  /\ bitmap = NULL
  /\ bits = <<>>
  /\ i = 1
  /\ pc = "start"

Start ==
  /\ pc = "start"
  /\ pc' = IF response THEN "count" ELSE "halted"     \* hcf
  /\ UNCHANGED <<response, memmap, high, free_pages, bitmap_pages,
                 bitmap_size, bitmap, bits, i>>

-----------------------------------------------------------------------------
(* First loop: the highest usable address and the number of usable pages *)

CountEntry ==
  LET e == memmap[i] IN
  /\ pc = "count" /\ i <= Len(memmap)
  /\ IF e.usable
       THEN /\ high' = IF e.base + e.length > high THEN e.base + e.length
                                                   ELSE high
            /\ free_pages' = free_pages + e.length
       ELSE UNCHANGED <<high, free_pages>>
  /\ i' = i + 1
  /\ UNCHANGED <<response, memmap, bitmap_pages, bitmap_size, bitmap, bits,
                 pc>>

\* Mutant: the bytes of the bitmap are rounded down to whole pages.
BitmapBytesDown(pages) == ((pages \div BitsPerByte) \div PageBytes) * PageBytes

\* The division drops a last, incomplete byte of bits.
BitmapBytes(pages) == AlignUp(pages \div BitsPerByte, PageBytes)

SizeBitmap ==
  /\ pc = "count" /\ i > Len(memmap)
  /\ bitmap_pages' = high
  /\ bitmap_size' = BitmapBytes(high)
  /\ i' = 1
  /\ pc' = "place"
  /\ UNCHANGED <<response, memmap, high, free_pages, bitmap, bits>>

-----------------------------------------------------------------------------
(* Second loop: the first usable entry that is long enough *)

Holds(e) == e.usable /\ e.length * PageBytes >= bitmap_size

Shrink(e, n) == [e EXCEPT !.base = @ + n, !.length = @ - n]

\* Mutant: the pages of the bitmap stay counted as free.
CountOutNothing(n) == free_pages

CountOutBitmap(n) == free_pages - n

\* memset fills bitmap_size bytes; bits beyond them have the value that the
\* memory happens to hold.
PlaceBitmap ==
  LET e == memmap[i]
      n == bitmap_size \div PageBytes
      Tracked == 0 .. bitmap_pages - 1
  IN  /\ pc = "place" /\ i <= Len(memmap) /\ Holds(e)
      /\ bitmap' = e.base
      /\ \E garbage \in [Tracked \ CoveredPages -> BOOLEAN] :
           bits' = [p \in Tracked |-> IF p \in CoveredPages THEN TRUE
                                                            ELSE garbage[p]]
      /\ memmap' = [memmap EXCEPT ![i] = Shrink(e, n)]
      /\ free_pages' = CountOutBitmap(n)
      /\ i' = 1
      /\ pc' = "clear"
      /\ UNCHANGED <<response, high, bitmap_pages, bitmap_size>>

SkipEntry ==
  /\ pc = "place" /\ i <= Len(memmap) /\ ~Holds(memmap[i])
  /\ i' = i + 1
  /\ UNCHANGED <<response, memmap, high, free_pages, bitmap_pages,
                 bitmap_size, bitmap, bits, pc>>

\* No entry is long enough: bitmap stays NULL, and nothing checks it.
NoPlace ==
  /\ pc = "place" /\ i > Len(memmap)
  /\ i' = 1
  /\ pc' = "clear"
  /\ UNCHANGED <<response, memmap, high, free_pages, bitmap_pages,
                 bitmap_size, bitmap, bits>>

-----------------------------------------------------------------------------
(* Third loop: the bits of the usable pages *)

ToClear(e) == {p \in PagesOf(e) : e.usable /\ p < bitmap_pages}

ClearEntry ==
  LET S == ToClear(memmap[i]) IN
  /\ pc = "clear" /\ i <= Len(memmap)
  /\ IF bitmap = NULL /\ S # {}
       THEN pc' = "fault" /\ UNCHANGED <<bits, i>>      \* a store near NULL
       ELSE /\ bits' = [p \in DOMAIN bits |-> bits[p] /\ p \notin S]
            /\ i' = i + 1
            /\ UNCHANGED pc
  /\ UNCHANGED <<response, memmap, high, free_pages, bitmap_pages,
                 bitmap_size, bitmap>>

Return ==
  /\ pc = "clear" /\ i > Len(memmap)
  /\ pc' = "done"
  /\ UNCHANGED <<response, memmap, high, free_pages, bitmap_pages,
                 bitmap_size, bitmap, bits, i>>

Next ==
  \/ Start
  \/ CountEntry \/ SizeBitmap
  \/ PlaceBitmap \/ SkipEntry \/ NoPlace
  \/ ClearEntry \/ Return

Spec == Init /\ [][Next]_vars

-----------------------------------------------------------------------------
(* Properties *)

\* Counters stay naturals, the loop index stays within the map, and the bits
\* are those of the pages below the highest usable address.
TypeOK ==
  /\ response \in BOOLEAN
  /\ memmap \in Seq([base : Nat, length : Nat, usable : BOOLEAN])
  /\ {high, free_pages, bitmap_pages, bitmap_size, bitmap} \subseteq Nat
  /\ DOMAIN bits \in {{}, 0 .. bitmap_pages - 1}
  /\ i \in 1 .. Len(memmap) + 1
  /\ pc \in {"start", "count", "place", "clear",
             "done", "halted", "fault"}

Done == pc = "done" /\ bitmap # NULL
ClearBits == {p \in DOMAIN bits : ~bits[p]}
Covered == 0 .. bitmap_pages - 1 \subseteq CoveredPages

\* docs/design/PMM.md says "The bitmap needs to cover all possible pages", and
\* the division in the code leaves exactly one case in which it does not: memory
\* that ends a few pages, less than a byte of bits, past what a whole page of
\* bitmap tracks.  In any other case the rounding up to pages makes up for it.
CoversUnlessJustPast ==
  Done /\ ~Covered =>
    /\ bitmap_pages % BitsPerByte # 0
    /\ bitmap_pages \div (BitsPerByte * PageBytes)
         = bitmap_size \div PageBytes

\* Pmm starts from a consistent state.  A bitmap that covers the memory has
\* exactly those pages free that the memory map still calls usable, none of
\* them holds the bitmap, so that Pmm hands out no page of bits, and the counter,
\* kept by the first loop and the placement, agrees with the bits that the third
\* loop clears.
PmmStartsSound ==
  /\ TypeOK
  /\ Done /\ Covered =>
       /\ ClearBits = UsablePages
       /\ \A p \in DOMAIN bits : BitHome(p) \notin ClearBits
       /\ free_pages = Cardinality(ClearBits)
=============================================================================
