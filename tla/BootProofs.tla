---------------------------- MODULE BootProofs ----------------------------
(***************************************************************************)
(* What runs once: pmm_init and vmm_init, for every memory map, every size *)
(* of pages and bytes and every depth and width of the page tables, and    *)
(* the initialisation of the terminal.                                     *)
(*                                                                         *)
(* What pmm_init hands to Pmm is a consistent state, and the bitmap is too *)
(* short in one case only.  The invariant follows the three loops: what    *)
(* the first has counted, what placing the bitmap takes away again, and    *)
(* what the third has cleared.                                             *)
(*                                                                         *)
(* When vmm_init switches to its tables, what the kernel uses is where it  *)
(* was.  The invariant says that the tables are a tree in which each has a *)
(* level and a number, so that one entry is on the way to one page only,   *)
(* and that every round of the loops that is past has left its page mapped.*)
(*                                                                         *)
(* flanterm_fb_init, at the end: for every mode of the framebuffer the     *)
(* terminal's memory fits its pool and its cells fit the framebuffer.      *)
(***************************************************************************)
EXTENDS VmmBoot, FbInit, FiniteSetTheorems, SequenceTheorems, NaturalsInduction, TLAPS

MapEntry == [base : Nat, length : Nat, usable : BOOLEAN]

\* The pages of the usable entries in front of the k-th.
Before(k) == {p \in Nat : \E j \in DOMAIN memmap :
                j < k /\ memmap[j].usable /\ p \in PagesOf(memmap[j])}

MapInv ==
  /\ memmap \in Seq(MapEntry)
  /\ \A j, k \in DOMAIN memmap :
       j < k /\ memmap[j].usable /\ memmap[k].usable =>
         memmap[j].base + memmap[j].length <= memmap[k].base

Counting ==
  /\ bitmap = NULL /\ DOMAIN bits = {}
  /\ \A p \in Before(i) : p < high
  /\ free_pages = Cardinality(Before(i))

Placing ==
  /\ bitmap = NULL /\ DOMAIN bits = {}
  /\ bitmap_size = BitmapBytes(bitmap_pages)
  /\ \A p \in UsablePages : p < bitmap_pages
  /\ free_pages = Cardinality(UsablePages)

Placed ==
  /\ bitmap_size = BitmapBytes(bitmap_pages)
  /\ \A p \in UsablePages : p < bitmap_pages
  /\ free_pages = Cardinality(UsablePages)
  /\ UsablePages \cap BitmapPages = {}
  /\ bits \in [0 .. bitmap_pages - 1 -> BOOLEAN]
  /\ Covered => ClearBits = Before(i)

BootInv ==
  /\ TypeOK
  /\ MapInv
  /\ pc \in {"start", "count"} => Counting
  /\ pc = "place" => Placing
  /\ pc \in {"clear", "done"} /\ bitmap # NULL => Placed
  /\ pc = "start" => i = 1
  /\ pc = "done" => i = Len(memmap) + 1

-----------------------------------------------------------------------------
(* Arithmetic: divisions by sizes that are not known *)

LEMMA DivBelow ==
  ASSUME NEW a \in Nat, NEW b \in Nat \ {0}, NEW q \in Nat, a < q * b
  PROVE  a \div b \in Nat /\ a \div b < q
  BY Z3

LEMMA DivAbove ==
  ASSUME NEW h \in Nat, NEW b \in Nat \ {0}
  PROVE  h \div b \in Nat /\ h < ((h \div b) + 1) * b
  BY Z3

LEMMA DivTwice ==
  ASSUME NEW h \in Nat, NEW b \in Nat \ {0}, NEW p \in Nat \ {0}
  PROVE  (h \div b) \div p = h \div (b * p)
  BY Z3

LEMMA DivExact ==
  ASSUME NEW h \in Nat, NEW b \in Nat \ {0}, h % b = 0
  PROVE  h = (h \div b) * b
  BY Z3

LEMMA MulDiv ==
  ASSUME NEW k \in Nat, NEW p \in Nat \ {0}
  PROVE  (k * p) \div p = k /\ k * p \in Nat
  BY Z3

LEMMA MulMono ==
  ASSUME NEW a \in Nat, NEW b \in Nat, NEW p \in Nat \ {0}
  PROVE  a <= b <=> a * p <= b * p
  BY Z3

LEMMA CeilAbove ==
  ASSUME NEW q \in Nat, NEW p \in Nat \ {0}
  PROVE  (q + p - 1) \div p \in Nat /\ q <= ((q + p - 1) \div p) * p
  BY Z3

\* The bitmap takes whole pages, k of them, and holds at least the bytes of
\* bits that are complete.
LEMMA BitmapWholePages ==
  ASSUME NEW pages \in Nat
  PROVE  \E k \in Nat : /\ BitmapBytes(pages) = k * PageBytes
                        /\ BitmapBytes(pages) \in Nat
                        /\ BitmapBytes(pages) \div PageBytes = k
                        /\ pages \div BitsPerByte \in Nat
                        /\ pages \div BitsPerByte <= k * PageBytes
<1>1. PageBytes \in Nat \ {0} /\ BitsPerByte \in Nat \ {0}
  BY PmmBootAssumption
<1> DEFINE q == pages \div BitsPerByte
           k == (q + PageBytes - 1) \div PageBytes
<1>2. q \in Nat
  BY <1>1, DivAbove
<1>3. BitmapBytes(pages) = k * PageBytes
  BY DEF BitmapBytes, AlignUp
<1> HIDE DEF q
<1>4. k \in Nat /\ q <= k * PageBytes
  BY <1>1, <1>2, CeilAbove
<1> HIDE DEF k
<1>5. (k * PageBytes) \div PageBytes = k /\ k * PageBytes \in Nat
  BY <1>1, <1>4, MulDiv
<1> QED
  BY <1>2, <1>3, <1>4, <1>5 DEF q

-----------------------------------------------------------------------------
(* Entries and their pages *)

LEMMA EntryFacts ==
  ASSUME MapInv
  PROVE  /\ Len(memmap) \in Nat
         /\ DOMAIN memmap = 1 .. Len(memmap)
         /\ \A k \in DOMAIN memmap :
              /\ memmap[k] \in MapEntry
              /\ memmap[k].base \in Nat /\ memmap[k].length \in Nat
              /\ memmap[k].usable \in BOOLEAN
              /\ \A p : p \in PagesOf(memmap[k]) <=>
                   /\ p \in Nat
                   /\ memmap[k].base <= p /\ p < memmap[k].base + memmap[k].length
<1>1. Len(memmap) \in Nat /\ DOMAIN memmap = 1 .. Len(memmap)
  BY LenProperties DEF MapInv
<1>2. \A k \in DOMAIN memmap : memmap[k] \in MapEntry
  BY <1>1, ElementOfSeq DEF MapInv
<1>3. \A e \in MapEntry : e.base \in Nat /\ e.length \in Nat /\ e.usable \in BOOLEAN
  BY DEF MapEntry
<1>4. \A e \in MapEntry : \A p : p \in PagesOf(e) <=>
        p \in Nat /\ e.base <= p /\ p < e.base + e.length
  BY <1>3 DEF PagesOf
<1> QED
  BY <1>1, <1>2, <1>3, <1>4

LEMMA BeforeAll ==
  ASSUME MapInv
  PROVE  Before(Len(memmap) + 1) = UsablePages
<1>1. /\ Len(memmap) \in Nat /\ DOMAIN memmap = 1 .. Len(memmap)
      /\ \A k \in DOMAIN memmap : PagesOf(memmap[k]) \subseteq Nat
  BY EntryFacts
<1>2. \A j \in DOMAIN memmap : j < Len(memmap) + 1
  BY <1>1
<1> QED
  BY <1>1, <1>2 DEF Before, UsablePages

LEMMA BeforeNext ==
  ASSUME MapInv, NEW k \in DOMAIN memmap
  PROVE  /\ memmap[k].usable => Before(k + 1) = Before(k) \cup PagesOf(memmap[k])
         /\ ~memmap[k].usable => Before(k + 1) = Before(k)
         /\ memmap[k].usable => Before(k) \cap PagesOf(memmap[k]) = {}
<1>1. /\ DOMAIN memmap = 1 .. Len(memmap) /\ Len(memmap) \in Nat
      /\ \A j \in DOMAIN memmap :
           /\ memmap[j].base \in Nat /\ memmap[j].length \in Nat
           /\ \A p : p \in PagesOf(memmap[j]) <=>
                /\ p \in Nat
                /\ memmap[j].base <= p /\ p < memmap[j].base + memmap[j].length
  BY EntryFacts
<1>2. \A j \in DOMAIN memmap : j < k + 1 <=> j < k \/ j = k
  BY <1>1
<1>3. memmap[k].usable => Before(k + 1) = Before(k) \cup PagesOf(memmap[k])
  BY <1>1, <1>2 DEF Before
<1>4. ~memmap[k].usable => Before(k + 1) = Before(k)
  BY <1>2 DEF Before
<1>5. ASSUME memmap[k].usable, NEW p \in Before(k), p \in PagesOf(memmap[k])
      PROVE  FALSE
  <2>1. PICK j \in DOMAIN memmap : j < k /\ memmap[j].usable /\ p \in PagesOf(memmap[j])
    BY DEF Before
  <2>2. memmap[j].base + memmap[j].length <= memmap[k].base
    BY <1>5, <2>1 DEF MapInv
  <2> QED
    BY <1>1, <1>5, <2>1, <2>2
<1> QED
  BY <1>3, <1>4, <1>5

LEMMA PagesFinite ==
  ASSUME MapInv, NEW k \in DOMAIN memmap
  PROVE  /\ IsFiniteSet(PagesOf(memmap[k]))
         /\ Cardinality(PagesOf(memmap[k])) = memmap[k].length
<1>1. memmap[k].base \in Nat /\ memmap[k].length \in Nat
  BY EntryFacts
<1> DEFINE a == memmap[k].base
           b == memmap[k].base + memmap[k].length - 1
<1>2. a \in Int /\ b \in Int /\ PagesOf(memmap[k]) = a .. b
  BY <1>1 DEF PagesOf
<1>3. IsFiniteSet(a .. b) /\ Cardinality(a .. b) = IF a > b THEN 0 ELSE b - a + 1
  <2> HIDE DEF a, b
  <2> QED
    BY <1>2, FS_Interval
<1>4. (IF a > b THEN 0 ELSE b - a + 1) = memmap[k].length
  BY <1>1
<1> QED
  BY <1>2, <1>3, <1>4

LEMMA BoundedFinite ==
  ASSUME NEW S, S \subseteq Nat, NEW h \in Nat, \A p \in S : p < h
  PROVE  IsFiniteSet(S)
<1>1. \A p \in S : p <= h
  OBVIOUS
<1> QED
  BY <1>1, FS_BoundedSetOfNaturals

-----------------------------------------------------------------------------
(* The steps *)

LEMMA BootInvInit == Init => BootInv
<1> SUFFICES ASSUME Init PROVE BootInv
  OBVIOUS
<1>1. MapInv
  BY PmmBootAssumption DEF Init, MapInv, MapEntry
<1>2. Len(memmap) \in Nat
  BY <1>1, EntryFacts
<1>3. TypeOK
  BY <1>1, <1>2 DEF Init, TypeOK, MapInv, MapEntry, NULL
<1>4. Before(i) = {}
  <2>1. \A j \in DOMAIN memmap : ~(j < 1)
    BY <1>1, EntryFacts
  <2> QED
    BY <2>1 DEF Init, Before
<1>5. Counting
  <2>1. DOMAIN bits = {}
    BY DEF Init
  <2>2. Cardinality({}) = 0
    BY FS_EmptySet
  <2> QED
    BY <1>4, <2>1, <2>2 DEF Init, Counting
<1> QED
  BY <1>1, <1>3, <1>5 DEF Init, BootInv

\* Nothing but the program counter changes.
LEMMA StepStart == BootInv /\ Start => BootInv'
<1> SUFFICES ASSUME BootInv, Start PROVE BootInv'
  OBVIOUS
<1>1. /\ UNCHANGED << response, memmap, high, free_pages, bitmap_pages, bitmap_size,
                     bitmap, bits, i >>
      /\ pc = "start" /\ pc' \in {"count", "halted"}
  BY DEF Start
<1>2. TypeOK' /\ MapInv'
  BY <1>1 DEF BootInv, TypeOK, MapInv
<1>3. Counting'
  BY <1>1 DEF BootInv, Counting, Before, PagesOf
<1> QED
  BY <1>1, <1>2, <1>3 DEF BootInv

LEMMA StepCountEntry == BootInv /\ CountEntry => BootInv'
<1> SUFFICES ASSUME BootInv, CountEntry PROVE BootInv'
  OBVIOUS
<1> DEFINE e == memmap[i]
<1>1. /\ MapInv /\ TypeOK /\ Counting /\ pc = "count"
      /\ i \in DOMAIN memmap /\ i \in Nat /\ Len(memmap) \in Nat
      /\ high \in Nat /\ free_pages \in Nat
  BY EntryFacts DEF BootInv, CountEntry, TypeOK
<1>2. /\ UNCHANGED << response, memmap, bitmap_pages, bitmap_size, bitmap, bits, pc >>
      /\ i' = i + 1
  BY DEF CountEntry
<1>3. /\ e.base \in Nat /\ e.length \in Nat /\ e.usable \in BOOLEAN
      /\ \A p : p \in PagesOf(e) <=> p \in Nat /\ e.base <= p /\ p < e.base + e.length
  BY <1>1, EntryFacts
<1>4. Before(i)' = Before(i + 1)
  BY <1>2 DEF Before, PagesOf
<1>5. CASE e.usable
  <2>1. /\ high' = IF e.base + e.length > high THEN e.base + e.length ELSE high
        /\ free_pages' = free_pages + e.length
    BY <1>5 DEF CountEntry
  <2>2. /\ Before(i + 1) = Before(i) \cup PagesOf(e)
        /\ Before(i) \cap PagesOf(e) = {}
    BY <1>1, <1>5, BeforeNext
  <2>3. high' \in Nat /\ free_pages' \in Nat /\ high <= high' /\ e.base + e.length <= high'
    BY <1>1, <1>3, <2>1
  <2>4. \A p \in Before(i + 1) : p < high'
    <3>1. \A p \in Before(i) : p \in Nat /\ p < high
      BY <1>1 DEF Counting, Before
    <3> QED
      BY <1>1, <1>3, <2>2, <2>3, <3>1
  <2>5. free_pages' = Cardinality(Before(i + 1))
    <3>1. IsFiniteSet(Before(i))
      <4>1. Before(i) \subseteq Nat /\ \A p \in Before(i) : p < high
        BY <1>1 DEF Counting, Before
      <4> QED
        BY <1>1, <4>1, BoundedFinite
    <3>2. IsFiniteSet(PagesOf(e)) /\ Cardinality(PagesOf(e)) = e.length
      BY <1>1, PagesFinite
    <3>3. Cardinality(Before(i) \cup PagesOf(e)) =
            Cardinality(Before(i)) + Cardinality(PagesOf(e))
              - Cardinality(Before(i) \cap PagesOf(e))
      BY <3>1, <3>2, FS_Union
    <3>4. Cardinality(Before(i) \cap PagesOf(e)) = 0
      BY <2>2, FS_EmptySet
    <3>5. free_pages = Cardinality(Before(i)) /\ free_pages \in Nat
      BY <1>1 DEF Counting
    <3>6. Cardinality(Before(i + 1)) = free_pages + e.length - 0
      BY <2>2, <3>2, <3>3, <3>4, <3>5
    <3> QED
      BY <1>3, <2>1, <3>5, <3>6
  <2>6. Counting'
    BY <1>1, <1>2, <1>4, <2>4, <2>5 DEF Counting, NULL
  <2>7. TypeOK'
    BY <1>1, <1>2, <2>3 DEF TypeOK
  <2> QED
    BY <1>1, <1>2, <2>6, <2>7 DEF BootInv, MapInv
<1>6. CASE ~e.usable
  <2>1. UNCHANGED << high, free_pages >>
    BY <1>6 DEF CountEntry
  <2>2. Before(i + 1) = Before(i)
    BY <1>1, <1>6, BeforeNext
  <2>3. Counting'
    BY <1>1, <1>2, <1>4, <2>1, <2>2 DEF Counting, NULL
  <2>4. TypeOK'
    BY <1>1, <1>2, <2>1 DEF TypeOK
  <2> QED
    BY <1>1, <1>2, <2>3, <2>4 DEF BootInv, MapInv
<1> QED
  BY <1>3, <1>5, <1>6

LEMMA StepSizeBitmap == BootInv /\ SizeBitmap => BootInv'
<1> SUFFICES ASSUME BootInv, SizeBitmap PROVE BootInv'
  OBVIOUS
<1>1. /\ MapInv /\ TypeOK /\ Counting /\ pc = "count"
      /\ i = Len(memmap) + 1 /\ high \in Nat /\ Len(memmap) \in Nat
  BY SMTT(30), EntryFacts DEF BootInv, SizeBitmap, TypeOK
<1>2. /\ UNCHANGED << response, memmap, high, free_pages, bitmap, bits >>
      /\ bitmap_pages' = high /\ bitmap_size' = BitmapBytes(high)
      /\ i' = 1 /\ pc' = "place"
  BY DEF SizeBitmap
<1>3. BitmapBytes(high) \in Nat
  BY <1>1, BitmapWholePages
<1>4. UsablePages' = UsablePages /\ UsablePages = Before(i)
  BY <1>1, <1>2, BeforeAll DEF UsablePages, PagesOf
<1>5. Placing'
  <2>1. (bitmap_size = BitmapBytes(bitmap_pages))'
    BY <1>2 DEF BitmapBytes, AlignUp
  <2> QED
    BY <1>1, <1>2, <1>4, <2>1 DEF Placing, Counting, NULL
<1>6. TypeOK'
  BY <1>1, <1>2, <1>3 DEF TypeOK, Counting
<1> QED
  BY <1>1, <1>2, <1>5, <1>6 DEF BootInv, MapInv

\* The entry gives up its first pages, as many as the bitmap takes; they were
\* usable, and no other usable entry has them.
LEMMA StepPlaceBitmap == BootInv /\ PlaceBitmap => BootInv'
<1> SUFFICES ASSUME BootInv, PlaceBitmap PROVE BootInv'
  OBVIOUS
<1> DEFINE e == memmap[i]
           n == bitmap_size \div PageBytes
           Tracked == 0 .. bitmap_pages - 1
           taken == e.base .. e.base + n - 1
<1>1. /\ MapInv /\ TypeOK /\ Placing /\ pc = "place"
      /\ i \in DOMAIN memmap /\ Len(memmap) \in Nat
      /\ bitmap_pages \in Nat /\ bitmap_size \in Nat
  BY EntryFacts DEF BootInv, PlaceBitmap, TypeOK
<1>2. /\ UNCHANGED << response, high, bitmap_pages, bitmap_size >>
      /\ bitmap' = e.base /\ memmap' = [memmap EXCEPT ![i] = Shrink(e, n)]
      /\ free_pages' = free_pages - n
      /\ i' = 1 /\ pc' = "clear" /\ Holds(e)
  BY DEF PlaceBitmap, CountOutBitmap
<1>3. /\ DOMAIN memmap = 1 .. Len(memmap)
      /\ \A k \in DOMAIN memmap :
           /\ memmap[k] \in MapEntry
           /\ memmap[k].base \in Nat /\ memmap[k].length \in Nat
           /\ memmap[k].usable \in BOOLEAN
           /\ \A p : p \in PagesOf(memmap[k]) <=>
                /\ p \in Nat
                /\ memmap[k].base <= p /\ p < memmap[k].base + memmap[k].length
  BY <1>1, EntryFacts
<1>4. n \in Nat /\ n <= e.length /\ e.usable
  <2>1. PageBytes \in Nat \ {0}
    BY PmmBootAssumption
  <2>2. n \in Nat /\ bitmap_size = n * PageBytes
    BY <1>1, BitmapWholePages DEF Placing
  <2>3. e.length \in Nat /\ n * PageBytes <= e.length * PageBytes /\ e.usable
    BY <1>1, <1>2, <1>3, <2>1, <2>2 DEF Holds
  <2> QED
    BY <2>1, <2>2, <2>3, MulMono
<1> DEFINE f == [base |-> e.base + n, length |-> e.length - n, usable |-> e.usable]
<1>5. /\ f \in MapEntry /\ Shrink(e, n) = f
      /\ f.base = e.base + n /\ f.length = e.length - n /\ f.usable = e.usable
  <2>1. e \in MapEntry /\ e.base \in Nat /\ e.length \in Nat /\ e.usable \in BOOLEAN
    BY <1>1, <1>3
  <2>2. f \in MapEntry
    BY <1>4, <2>1 DEF MapEntry
  <2>3. Shrink(e, n) = f
    <3> DEFINE g == [e EXCEPT !.base = @ + n]
    <3>1. g = [base |-> e.base + n, length |-> e.length, usable |-> e.usable]
      BY <2>1 DEF MapEntry
    <3>2. Shrink(e, n) = [g EXCEPT !.length = @ - n]
      BY DEF Shrink
    <3> HIDE DEF g
    <3> QED
      BY <3>1, <3>2
  <2> QED
    BY <2>2, <2>3
<1>6. /\ memmap' \in Seq(MapEntry) /\ Len(memmap') = Len(memmap)
      /\ DOMAIN memmap' = DOMAIN memmap
      /\ memmap'[i] = f
      /\ \A k \in DOMAIN memmap : k # i => memmap'[k] = memmap[k]
  BY <1>1, <1>2, <1>3, <1>5, ExceptSeq DEF MapInv
<1> HIDE DEF n, f
<1>7. MapInv'
  <2> SUFFICES ASSUME NEW j \in DOMAIN memmap, NEW k \in DOMAIN memmap,
                      j < k, memmap'[j].usable, memmap'[k].usable
               PROVE  memmap'[j].base + memmap'[j].length <= memmap'[k].base
    BY <1>6 DEF MapInv
  <2>1. memmap[j].base + memmap[j].length <= memmap[k].base
    BY <1>1, <1>4, <1>5, <1>6 DEF MapInv
  <2>2. memmap'[j].base + memmap'[j].length = memmap[j].base + memmap[j].length
    BY <1>3, <1>4, <1>5, <1>6
  <2>3. memmap[k].base <= memmap'[k].base
    BY <1>3, <1>4, <1>5, <1>6
  <2>4. /\ memmap[k].base \in Nat /\ memmap'[k].base \in Nat
        /\ memmap[j].base \in Nat /\ memmap[j].length \in Nat
    BY <1>1, <1>3, <1>4, <1>5, <1>6
  <2> QED
    BY <2>1, <2>2, <2>3, <2>4
<1>8. /\ \A p \in taken : p \in PagesOf(e)
      /\ \A p : p \in PagesOf(f) <=> p \in PagesOf(e) /\ p \notin taken
  <2>1. /\ e.base \in Nat /\ e.length \in Nat /\ f.base \in Nat
        /\ f.length \in Nat /\ n \in Nat /\ n <= e.length
        /\ f.base = e.base + n /\ f.length = e.length - n
    BY <1>1, <1>3, <1>4, <1>5
  <2>2. \A p : p \in PagesOf(e) <=> p \in Nat /\ e.base <= p /\ p < e.base + e.length
    BY <1>1, <1>3
  <2>3. \A p : p \in taken <=> p \in Nat /\ e.base <= p /\ p < e.base + n
    BY <2>1
  <2>4. \A p : p \in PagesOf(f) <=> p \in Nat /\ e.base + n <= p /\ p < e.base + e.length
    BY <2>1 DEF PagesOf
  <2> HIDE DEF e, taken
  <2> QED
    BY <2>1, <2>2, <2>3, <2>4
<1>9. ASSUME NEW k \in DOMAIN memmap, k # i, memmap[k].usable
      PROVE  PagesOf(memmap[k]) \cap taken = {}
  <2> SUFFICES ASSUME NEW p \in PagesOf(memmap[k]), p \in PagesOf(e) PROVE FALSE
    BY <1>8
  <2>1. k \in Nat /\ i \in Nat
    BY <1>1, <1>3
  <2>2. \/ memmap[k].base + memmap[k].length <= e.base
        \/ e.base + e.length <= memmap[k].base
    BY <1>1, <1>4, <1>9, <2>1 DEF MapInv
  <2> QED
    BY <1>1, <1>3, <2>2
<1>10. UsablePages' = UsablePages \ taken
  <2>1. UsablePages' = UNION {PagesOf(memmap'[k]) :
                                k \in {k \in DOMAIN memmap : memmap'[k].usable}}
    BY <1>6 DEF UsablePages, PagesOf
  <2>2. \A p : p \in UsablePages' <=>
          \E k \in DOMAIN memmap : memmap'[k].usable /\ p \in PagesOf(memmap'[k])
    BY <2>1
  <2>3. \A p : p \in UsablePages <=>
          \E k \in DOMAIN memmap : memmap[k].usable /\ p \in PagesOf(memmap[k])
    BY DEF UsablePages
  <2>4. \A k \in DOMAIN memmap : \A p :
          memmap'[k].usable /\ p \in PagesOf(memmap'[k])
            <=> memmap[k].usable /\ p \in PagesOf(memmap[k]) /\ p \notin taken
    <3> SUFFICES ASSUME NEW k \in DOMAIN memmap, NEW p
                 PROVE  memmap'[k].usable /\ p \in PagesOf(memmap'[k])
                          <=> memmap[k].usable /\ p \in PagesOf(memmap[k]) /\ p \notin taken
      OBVIOUS
    <3>1. CASE k = i
      BY <1>4, <1>5, <1>6, <1>8, <3>1
    <3>2. CASE k # i
      BY <1>6, <1>9, <3>2
    <3> QED
      BY <3>1, <3>2
  <2> HIDE DEF taken
  <2> QED
    BY <2>2, <2>3, <2>4
<1>11. free_pages' = Cardinality(UsablePages') /\ free_pages' \in Nat
  <2>1. UsablePages \subseteq Nat
    BY <1>3 DEF UsablePages
  <2>2. IsFiniteSet(UsablePages)
    BY <1>1, <2>1, BoundedFinite DEF Placing
  <2>3. UsablePages \cap taken = taken
    BY <1>1, <1>4, <1>8 DEF UsablePages
  <2>4. IsFiniteSet(taken) /\ Cardinality(taken) = n
    <3> DEFINE a == e.base
               b == e.base + n - 1
    <3>1. a \in Int /\ b \in Int /\ n \in Nat /\ b = a + n - 1
      BY <1>1, <1>3, <1>4
    <3>2. taken = a .. b
      OBVIOUS
    <3> HIDE DEF a, b, taken
    <3>3. IsFiniteSet(a .. b) /\ Cardinality(a .. b) = IF a > b THEN 0 ELSE b - a + 1
      BY <3>1, FS_Interval
    <3>4. (IF a > b THEN 0 ELSE b - a + 1) = n
      BY <3>1
    <3> QED
      BY <3>2, <3>3, <3>4
  <2> HIDE DEF taken
  <2>5. /\ IsFiniteSet(UsablePages \ taken)
        /\ Cardinality(UsablePages \ taken) =
             Cardinality(UsablePages) - Cardinality(UsablePages \cap taken)
    BY <2>2, FS_Difference
  <2>6. Cardinality(UsablePages \ taken) \in Nat
    BY <2>5, FS_CardinalityType
  <2>7. free_pages' = Cardinality(UsablePages \ taken)
    BY <1>1, <1>2, <2>3, <2>4, <2>5 DEF Placing, n
  <2> QED
    BY <1>10, <2>6, <2>7
<1>12. /\ bits' \in [Tracked -> BOOLEAN]
       /\ \A p \in Tracked : p \in CoveredPages => bits'[p]
  <2>1. PICK garbage \in [Tracked \ CoveredPages -> BOOLEAN] :
          bits' = [p \in Tracked |-> IF p \in CoveredPages THEN TRUE ELSE garbage[p]]
    BY DEF PlaceBitmap
  <2> HIDE DEF Tracked
  <2> QED
    BY <2>1
<1>13. Placed'
  <2>1. (bitmap_size = BitmapBytes(bitmap_pages))'
    BY <1>1, <1>2 DEF BitmapBytes, AlignUp, Placing
  <2>2. \A p \in UsablePages' : p < bitmap_pages'
    BY <1>1, <1>2, <1>10 DEF Placing
  <2>3. BitmapPages' = taken
    BY <1>2 DEF BitmapPages, n
  <2>4. Before(i)' = {}
    <3>1. \A j \in DOMAIN memmap' : ~(j < i')
      BY <1>2, <1>3, <1>6
    <3> QED
      BY <3>1 DEF Before
  <2>5. Covered' => ClearBits' = {}
    BY <1>2, <1>12 DEF Covered, CoveredPages, ClearBits
  <2> HIDE DEF taken
  <2> QED
    BY <1>2, <1>10, <1>11, <1>12, <2>1, <2>2, <2>3, <2>4, <2>5 DEF Placed
<1>14. TypeOK'
  <2>1. DOMAIN bits' = Tracked
    BY <1>12
  <2>2. bitmap' \in Nat
    BY <1>1, <1>2, <1>3
  <2>3. memmap' \in Seq([base : Nat, length : Nat, usable : BOOLEAN])
    BY <1>6 DEF MapEntry
  <2>4. i' \in 1 .. Len(memmap') + 1
    BY <1>1, <1>2, <1>6
  <2> QED
    BY <1>1, <1>2, <1>11, <2>1, <2>2, <2>3, <2>4 DEF TypeOK
<1> QED
  BY <1>2, <1>7, <1>13, <1>14 DEF BootInv

\* The search goes on, or ends without a place; with no place nothing is claimed.
LEMMA StepSkipEntry == BootInv /\ SkipEntry => BootInv'
<1> SUFFICES ASSUME BootInv, SkipEntry PROVE BootInv'
  OBVIOUS
<1>1. MapInv /\ TypeOK /\ Placing /\ pc = "place" /\ Len(memmap) \in Nat
  BY EntryFacts DEF BootInv, SkipEntry
<1>2. /\ UNCHANGED << response, memmap, high, free_pages, bitmap_pages, bitmap_size,
                     bitmap, bits, pc >>
      /\ i' = i + 1 /\ i <= Len(memmap)
  BY DEF SkipEntry
<1>3. UsablePages' = UsablePages
  BY <1>2 DEF UsablePages, PagesOf
<1>4. Placing'
  BY <1>1, <1>2, <1>3 DEF Placing, BitmapBytes, AlignUp, NULL
<1>5. TypeOK'
  BY <1>1, <1>2 DEF TypeOK
<1> QED
  BY <1>1, <1>2, <1>4, <1>5 DEF BootInv, MapInv

LEMMA StepNoPlace == BootInv /\ NoPlace => BootInv'
<1> SUFFICES ASSUME BootInv, NoPlace PROVE BootInv'
  OBVIOUS
<1>1. MapInv /\ TypeOK /\ Placing /\ Len(memmap) \in Nat
  BY EntryFacts DEF BootInv, NoPlace
<1>2. /\ UNCHANGED << response, memmap, high, free_pages, bitmap_pages, bitmap_size,
                     bitmap, bits >>
      /\ i' = 1 /\ pc' = "clear"
  BY DEF NoPlace
<1>3. TypeOK'
  BY <1>1, <1>2 DEF TypeOK
<1> QED
  BY <1>1, <1>2, <1>3 DEF BootInv, MapInv, Placing, NULL

\* The pages of one entry join those whose bits are clear.
LEMMA StepClearEntry == BootInv /\ ClearEntry => BootInv'
<1> SUFFICES ASSUME BootInv, ClearEntry PROVE BootInv'
  OBVIOUS
<1> DEFINE e == memmap[i]
           S == ToClear(e)
<1>1. /\ MapInv /\ TypeOK /\ pc = "clear" /\ bitmap_pages \in Nat
      /\ i \in DOMAIN memmap /\ i \in Nat /\ Len(memmap) \in Nat
  BY EntryFacts DEF BootInv, ClearEntry, TypeOK
<1>2. UNCHANGED << response, memmap, high, free_pages, bitmap_pages, bitmap_size, bitmap >>
  BY DEF ClearEntry
<1>3. CASE bitmap = NULL /\ S # {}
  <2>1. pc' = "fault" /\ UNCHANGED << bits, i >>
    BY <1>3 DEF ClearEntry
  <2>2. TypeOK'
    BY <1>1, <1>2, <2>1 DEF TypeOK
  <2> QED
    BY <1>1, <1>2, <2>1, <2>2 DEF BootInv, MapInv
<1>4. CASE ~(bitmap = NULL /\ S # {})
  <2>1. /\ bits' = [p \in DOMAIN bits |-> bits[p] /\ p \notin S]
        /\ i' = i + 1 /\ pc' = "clear"
    BY <1>1, <1>4 DEF ClearEntry
  <2>2. DOMAIN bits' = DOMAIN bits
    BY <2>1
  <2>3. TypeOK'
    BY SMTT(30), <1>1, <1>2, <2>1, <2>2, EntryFacts DEF TypeOK
  <2>4. ASSUME bitmap # NULL PROVE Placed'
    <3>1. Placed
      BY <1>1, <2>4 DEF BootInv
    <3>2. UsablePages' = UsablePages /\ BitmapPages' = BitmapPages
      BY <1>2 DEF UsablePages, PagesOf, BitmapPages
    <3>3. bits' \in [0 .. bitmap_pages - 1 -> BOOLEAN]
      <4>1. DOMAIN bits = 0 .. bitmap_pages - 1
        BY <3>1 DEF Placed
      <4>2. \A p \in DOMAIN bits : (bits[p] /\ p \notin S) \in BOOLEAN
        OBVIOUS
      <4> QED
        BY <2>1, <4>1, <4>2
    <3>4. S = IF e.usable THEN PagesOf(e) ELSE {}
      <4>1. e.usable => \A p \in PagesOf(e) : p < bitmap_pages
        BY <1>1, <3>1 DEF Placed, UsablePages
      <4> QED
        BY <4>1 DEF ToClear
    <3>5. Before(i)' = Before(i) \cup S
      <4>1. Before(i)' = Before(i + 1)
        BY <1>2, <2>1 DEF Before, PagesOf
      <4>2. e.usable \in BOOLEAN
        BY <1>1, EntryFacts
      <4> QED
        BY <1>1, <3>4, <4>1, <4>2, BeforeNext
    <3>6. ClearBits' = ClearBits \cup S
      <4>1. S \subseteq DOMAIN bits
        <5>1. DOMAIN bits = 0 .. bitmap_pages - 1
          BY <3>1 DEF Placed
        <5>2. PagesOf(e) \subseteq Nat
          BY <1>1, EntryFacts
        <5> QED
          BY <1>1, <5>1, <5>2 DEF ToClear
      <4> HIDE DEF S
      <4> QED
        BY <2>1, <2>2, <4>1 DEF ClearBits
    <3>7. Covered' = Covered
      BY <1>2 DEF Covered, CoveredPages
    <3>8. Covered' => ClearBits' = Before(i)'
      BY <3>1, <3>5, <3>6, <3>7 DEF Placed
    <3>9. (bitmap_size = BitmapBytes(bitmap_pages))'
      BY <1>2, <3>1 DEF Placed, BitmapBytes, AlignUp
    <3> QED
      BY <1>2, <3>1, <3>2, <3>3, <3>8, <3>9 DEF Placed
  <2> QED
    BY <1>1, <1>2, <2>1, <2>3, <2>4 DEF BootInv, MapInv, NULL
<1> QED
  BY <1>3, <1>4

LEMMA StepReturn == BootInv /\ Return => BootInv'
<1> SUFFICES ASSUME BootInv, Return PROVE BootInv'
  OBVIOUS
<1>1. MapInv /\ TypeOK /\ pc = "clear" /\ Len(memmap) \in Nat /\ i = Len(memmap) + 1
  BY EntryFacts DEF BootInv, Return, TypeOK
<1>2. /\ UNCHANGED << response, memmap, high, free_pages, bitmap_pages, bitmap_size,
                     bitmap, bits, i >>
      /\ pc' = "done"
  BY DEF Return
<1>3. TypeOK' /\ MapInv'
  BY <1>1, <1>2 DEF TypeOK, MapInv
<1>4. ASSUME bitmap # NULL PROVE Placed'
  BY <1>1, <1>2, <1>4 DEF BootInv, Placed, BitmapBytes, AlignUp, UsablePages, PagesOf,
     BitmapPages, Covered, CoveredPages, ClearBits, Before
<1> QED
  BY <1>1, <1>2, <1>3, <1>4 DEF BootInv, NULL

LEMMA StepStutter == BootInv /\ UNCHANGED vars => BootInv'
BY DEF vars, BootInv, TypeOK, MapInv, Counting, Placing, Placed, BitmapBytes, AlignUp,
  UsablePages, PagesOf, BitmapPages, Covered, CoveredPages, ClearBits, Before, NULL

-----------------------------------------------------------------------------
(* What pmm_init hands over *)

\* Every step of pmm_init keeps the invariant of the loop it belongs to.
LEMMA BootInvAlways == Spec => []BootInv
<1>1. BootInv /\ [Next]_vars => BootInv'
  BY StepStart, StepCountEntry, StepSizeBitmap, StepPlaceBitmap, StepSkipEntry,
     StepNoPlace, StepClearEntry, StepReturn, StepStutter DEF Next
<1> QED
  BY BootInvInit, <1>1, PTL DEF Spec

\* A covered page has its bit within the pages of the bitmap.
LEMMA BitsAtHome ==
  ASSUME BootInv, Done, Covered, NEW p \in DOMAIN bits
  PROVE  BitHome(p) \in BitmapPages
<1>1. /\ bitmap_pages \in Nat /\ bitmap_size \in Nat /\ bitmap \in Nat
      /\ DOMAIN bits = 0 .. bitmap_pages - 1
      /\ bitmap_size = BitmapBytes(bitmap_pages)
  BY DEF BootInv, Done, Placed, TypeOK
<1>2. PageBytes \in Nat \ {0} /\ BitsPerByte \in Nat \ {0}
  BY PmmBootAssumption
<1>3. PICK k \in Nat : bitmap_size = k * PageBytes /\ bitmap_size \div PageBytes = k
  BY <1>1, BitmapWholePages
<1>4. p \in Nat /\ p < bitmap_size * BitsPerByte
  <2>1. bitmap_size * BitsPerByte \in Nat
    BY <1>1, <1>2, MulDiv
  <2>2. p \in CoveredPages
    BY <1>1 DEF Covered
  <2> DEFINE c == bitmap_size * BitsPerByte
  <2>3. p \in 0 .. c - 1 /\ c \in Nat
    BY <2>1, <2>2 DEF CoveredPages
  <2> HIDE DEF c
  <2>4. p \in Nat /\ p < c
    BY <2>3
  <2> QED
    BY <2>4 DEF c
<1>5. p \div BitsPerByte \in Nat /\ p \div BitsPerByte < bitmap_size
  BY <1>1, <1>2, <1>4, DivBelow
<1>6. /\ (p \div BitsPerByte) \div PageBytes \in Nat
      /\ (p \div BitsPerByte) \div PageBytes < k
  <2> DEFINE q == p \div BitsPerByte
  <2>1. q \in Nat /\ q < k * PageBytes
    BY <1>3, <1>5
  <2> HIDE DEF q
  <2>2. q \div PageBytes \in Nat /\ q \div PageBytes < k
    BY <1>2, <2>1, DivBelow
  <2> QED
    BY <2>2 DEF q
<1> HIDE DEF BitmapPages
<1> DEFINE d == (p \div BitsPerByte) \div PageBytes
<1>7. BitHome(p) = bitmap + d /\ BitmapPages = bitmap .. bitmap + k - 1
  BY <1>3 DEF BitHome, BitmapPages
<1> HIDE DEF d
<1> QED
  BY <1>1, <1>3, <1>6, <1>7 DEF d

\* For every memory map, page size and byte width: whenever pmm_init returns
\* with a bitmap that covers the memory, the clear bits are exactly the usable
\* pages, none of them holds the bitmap, and free_pages is their number.
THEOREM BootHandsOver == Spec => []PmmStartsSound
<1>1. BootInv => PmmStartsSound
  <2> SUFFICES ASSUME BootInv PROVE PmmStartsSound
    OBVIOUS
  <2>1. ASSUME Done, Covered
        PROVE  /\ ClearBits = UsablePages
               /\ \A p \in DOMAIN bits : BitHome(p) \notin ClearBits
               /\ free_pages = Cardinality(ClearBits)
    <3>1. Placed /\ MapInv /\ i = Len(memmap) + 1
      BY <2>1 DEF BootInv, Done
    <3>2. ClearBits = UsablePages
      BY <2>1, <3>1, BeforeAll DEF Placed
    <3>3. \A p \in DOMAIN bits : BitHome(p) \in BitmapPages
      BY <2>1, BitsAtHome
    <3>4. UsablePages \cap BitmapPages = {} /\ free_pages = Cardinality(UsablePages)
      BY <3>1 DEF Placed
    <3> QED
      BY <3>2, <3>3, <3>4
  <2> QED
    BY <2>1 DEF PmmStartsSound, BootInv
<1> QED
  BY BootInvAlways, <1>1, PTL

\* The division that drops an incomplete byte makes the bitmap too short only
\* where the memory ends less than a byte of bits past a whole page of bitmap,
\* whatever the map, the page size and the width of a byte.
THEOREM BitmapCovers == Spec => []CoversUnlessJustPast
<1>1. BootInv => CoversUnlessJustPast
  <2> SUFFICES ASSUME BootInv, Done, ~Covered
               PROVE  /\ bitmap_pages % BitsPerByte # 0
                      /\ bitmap_pages \div (BitsPerByte * PageBytes)
                           = bitmap_size \div PageBytes
    BY DEF CoversUnlessJustPast
  <2> DEFINE h == bitmap_pages
             B == BitsPerByte
             P == PageBytes
             s == bitmap_size
             q == h \div B
  <2>1. h \in Nat /\ s \in Nat /\ s = BitmapBytes(h)
    BY DEF BootInv, Done, Placed, TypeOK
  <2>2. B \in Nat \ {0} /\ P \in Nat \ {0}
    BY PmmBootAssumption
  <2>3. PICK k \in Nat : s = k * P /\ s \div P = k /\ q \in Nat /\ q <= k * P
    BY <2>1, BitmapWholePages
  <2>4. s * B < h
    <3>1. s * B \in Nat
      BY <2>1, <2>2, MulDiv
    <3> QED
      BY <2>1, <3>1 DEF Covered, CoveredPages
  <2> HIDE DEF h, B, P, s
  <2>5. h < (q + 1) * B
    BY <2>1, <2>2, DivAbove
  <2> HIDE DEF q
  <2>6. s * B \in Nat /\ (q + 1) * B \in Nat /\ q * B \in Nat
    BY <2>1, <2>2, <2>3, MulDiv
  <2>7. h % B # 0
    <3> SUFFICES ASSUME h % B = 0 PROVE FALSE
      OBVIOUS
    <3>1. h = q * B
      BY <2>1, <2>2, DivExact DEF q
    <3>2. q * B <= s * B
      BY <2>1, <2>2, <2>3, MulMono
    <3> QED
      BY <2>1, <2>4, <2>6, <3>1, <3>2
  <2>8. q = k * P
    <3>1. ~((q + 1) * B <= s * B)
      BY <2>1, <2>4, <2>5, <2>6
    <3>2. ~(q + 1 <= s)
      BY <2>1, <2>2, <2>3, <3>1, MulMono
    <3> QED
      BY <2>1, <2>3, <3>2
  <2>9. h \div (B * P) = s \div P
    <3>1. q \div P = h \div (B * P)
      BY <2>1, <2>2, DivTwice DEF q
    <3> QED
      BY <2>3, <2>8, <3>1
  <2> QED
    BY <2>7, <2>9 DEF h, B, P, s
<1> QED
  BY BootInvAlways, <1>1, PTL

-----------------------------------------------------------------------------
(* Loops *)

\* A number that has a property from which no smaller one is free ...
LEMMA LeastNumber ==
  ASSUME NEW T, T \subseteq Nat, T # {}
  PROVE  \E n \in T : \A m \in T : n <= m
<1> DEFINE R == {p \in Nat \X Nat : p[1] < p[2]}
<1>1. IsWellFoundedOn(R, Nat)
  BY NatLessThanWellFounded DEF OpToRel
<1>2. PICK n \in T : \A m \in T : << m, n >> \notin R
  <2> HIDE DEF R
  <2> QED
    BY <1>1, WFMin
<1>3. \A m \in T : ~(m < n)
  BY <1>2
<1> QED
  BY <1>3

\* The states of a loop whose body F is a function on a set.
States(F, s, N, S) ==
  {g \in [0 .. N -> S] :
     g[0] = s /\ \A n \in 1 .. N : g[n] = F[<< g[n - 1], n >>]}

LEMMA LoopExists ==
  ASSUME NEW S, NEW N \in Nat, NEW s \in S, NEW F \in [S \X (1 .. N) -> S]
  PROVE  States(F, s, N, S) # {}
<1> DEFINE Upto(k, g) == g[0] = s /\ \A n \in 1 .. k : g[n] = F[<< g[n - 1], n >>]
           T == {k \in 0 .. N : ~\E g \in [0 .. k -> S] : Upto(k, g)}
<1>1. SUFFICES T = {}
  <2>1. N \in 0 .. N
    OBVIOUS
  <2> QED
    BY <2>1 DEF States
<1>2. SUFFICES ASSUME T # {} PROVE FALSE
  OBVIOUS
<1>3. PICK k \in T : \A m \in T : k <= m
  <2>1. T \subseteq Nat
    OBVIOUS
  <2> HIDE DEF T
  <2> QED
    BY <1>2, <2>1, LeastNumber
<1>4. k # 0
  <2> DEFINE g == [n \in 0 .. 0 |-> s]
  <2>1. g \in [0 .. 0 -> S] /\ Upto(0, g)
    OBVIOUS
  <2> QED
    BY <1>3, <2>1
<1>5. k - 1 \in 0 .. N /\ k \in 1 .. N /\ k - 1 \notin T
  BY <1>3, <1>4
<1>6. PICK g \in [0 .. k - 1 -> S] : Upto(k - 1, g)
  <2> HIDE DEF Upto
  <2> QED
    BY <1>5
<1> DEFINE h == [n \in 0 .. k |-> IF n = k THEN F[<< g[k - 1], k >>] ELSE g[n]]
<1>7. g[k - 1] \in S
  BY <1>5, <1>6
<1>8. F[<< g[k - 1], k >>] \in S
  BY <1>5, <1>7
<1>9. h \in [0 .. k -> S]
  BY <1>5, <1>6, <1>8
<1>10. Upto(k, h)
  <2>1. h[0] = s
    BY <1>5, <1>6
  <2>2. ASSUME NEW n \in 1 .. k PROVE h[n] = F[<< h[n - 1], n >>]
    <3>1. h[n - 1] = g[n - 1]
      BY <1>5
    <3>2. CASE n = k
      BY <3>1, <3>2, <1>5
    <3>3. CASE n # k
      <4>1. n \in 1 .. k - 1
        BY <3>3, <1>5
      <4>2. h[n] = g[n]
        BY <3>3, <1>5
      <4> QED
        BY <3>1, <4>1, <4>2, <1>6
    <3> QED
      BY <3>2, <3>3
  <2> QED
    BY <2>1, <2>2
<1> QED
  BY <1>3, <1>9, <1>10

\* Counting up.
LEMMA CountUp ==
  ASSUME NEW N \in Nat, NEW G, 0 \in G, \A n \in 1 .. N : n - 1 \in G => n \in G
  PROVE  \A n \in 0 .. N : n \in G
<1> DEFINE T == {n \in 0 .. N : n \notin G}
<1>1. SUFFICES ASSUME T # {} PROVE FALSE
  OBVIOUS
<1>2. PICK n \in T : \A m \in T : n <= m
  <2>1. T \subseteq Nat
    OBVIOUS
  <2> HIDE DEF T
  <2> QED
    BY <1>1, <2>1, LeastNumber
<1>3. n \in 1 .. N
  BY <1>2
<1>4. n - 1 \in 0 .. N /\ n - 1 < n
  BY <1>3
<1>5. n - 1 \in G
  BY <1>2, <1>4
<1> QED
  BY <1>2, <1>3, <1>5

-----------------------------------------------------------------------------
(* Addresses and their digits *)

LEMMA DigitFacts ==
  ASSUME NEW a \in Nat, NEW b \in Nat \ {0}
  PROVE  /\ a \div b \in Nat /\ a % b \in 0 .. b - 1
         /\ (a \div b) * b + (a % b) = a
<1>1. a \div b \in Nat
  BY Z3
<1>2. a % b \in 0 .. b - 1
  BY SMT
<1>3. (a \div b) * b + (a % b) = a
  BY Z3
<1> QED
  BY <1>1, <1>2, <1>3

LEMMA LevelFacts ==
  /\ Levels \in Nat /\ Radix \in Nat \ {0} /\ Levels >= 2 /\ Radix >= 2
  /\ {hhdm_offset, virtual_base, Requests, Text, Rodata, Data, Stack, FourGiB} \subseteq Nat
  BY VmmBootAssumption

\* What is left of an address in front of its last digits.
LEMMA ShiftedFacts ==
  ASSUME NEW v \in Nat
  PROVE  /\ Shifted(v) \in [0 .. Levels -> Nat]
         /\ Shifted(v)[0] = v
         /\ \A n \in 1 .. Levels : Shifted(v)[n] = Shifted(v)[n - 1] \div Radix
<1> DEFINE N == Levels
           F == [a \in Nat \X (1 .. N) |-> a[1] \div Radix]
           Is(g) == g = [n \in 0 .. N |-> IF n = 0 THEN v ELSE g[n - 1] \div Radix]
           f == CHOOSE g : Is(g)
<1>1. \A t \in Nat : t \div Radix \in Nat
  BY LevelFacts, DigitFacts
<1>2. N \in Nat
  BY LevelFacts
<1>4. Shifted(v) = f
  BY DEF Shifted
<1>5. F \in [Nat \X (1 .. N) -> Nat] /\ \A t \in Nat, n \in 1 .. N : F[<< t, n >>] = t \div Radix
  BY <1>1
<1> HIDE DEF N, F, f
<1>6. PICK g : g \in States(F, v, N, Nat)
  BY ZenonT(60), <1>2, <1>5, LoopExists
<1>7. Is(g)
  <2>1. /\ g \in [0 .. N -> Nat] /\ g[0] = v
        /\ \A n \in 1 .. N : g[n] = F[<< g[n - 1], n >>]
    BY <1>6 DEF States
  <2>2. \A n \in 1 .. N : n - 1 \in 0 .. N /\ g[n - 1] \in Nat
    BY <1>2, <2>1
  <2>3. \A n \in 1 .. N : g[n] = g[n - 1] \div Radix
    BY <1>5, <2>1, <2>2
  <2>4. \A n \in 0 .. N : g[n] = IF n = 0 THEN v ELSE g[n - 1] \div Radix
    BY <1>2, <2>1, <2>3
  <2>5. g = [n \in 0 .. N |-> g[n]]
    BY <2>1
  <2> QED
    BY <2>4, <2>5
<1>8. Is(f)
  <2> HIDE DEF Is
  <2> QED
    BY <1>7 DEF f
<1>9. f = [n \in 0 .. N |-> IF n = 0 THEN v ELSE f[n - 1] \div Radix]
  BY <1>8
<1>10. f[0] = v /\ \A n \in 1 .. N : f[n] = f[n - 1] \div Radix
  BY <1>2, <1>9
<1> DEFINE G == {n \in 0 .. N : f[n] \in Nat}
<1>11. 0 \in G
  BY <1>2, <1>10
<1>12. \A n \in 1 .. N : n - 1 \in G => n \in G
  BY <1>1, <1>2, <1>10
<1> HIDE DEF G
<1>13. \A n \in 0 .. N : n \in G
  BY <1>2, <1>11, <1>12, CountUp
<1>14. f \in [0 .. N -> Nat]
  BY <1>9, <1>13 DEF G
<1> QED
  BY <1>4, <1>10, <1>14 DEF N

\* The number of a table of level n on the way to v.
Prefix(v, n) == Shifted(v)[Levels - n]

LEMMA PrefixFacts ==
  ASSUME NEW v \in Nat
  PROVE  /\ \A n \in 0 .. Levels : Prefix(v, n) \in Nat
         /\ \A n \in 1 .. Levels :
              /\ page_index(v, n) \in 0 .. Radix - 1
              /\ Prefix(v, n - 1) * Radix + page_index(v, n) = Prefix(v, n)
         /\ Prefix(v, Levels) = v
         /\ Prefix(v, 0) = Shifted(v)[Levels]
<1>1. Levels \in Nat /\ Radix \in Nat \ {0}
  BY LevelFacts
<1>2. \A n \in 0 .. Levels : Prefix(v, n) \in Nat
  BY <1>1, ShiftedFacts DEF Prefix
<1>3. ASSUME NEW n \in 1 .. Levels
      PROVE  /\ page_index(v, n) \in 0 .. Radix - 1
             /\ Prefix(v, n - 1) * Radix + page_index(v, n) = Prefix(v, n)
  <2>1. Levels - n \in 0 .. Levels /\ n - 1 \in 0 .. Levels /\ Levels - (n - 1) \in 1 .. Levels
        /\ Levels - (n - 1) - 1 = Levels - n
    BY <1>1
  <2>2. Prefix(v, n - 1) = Prefix(v, n) \div Radix
    BY SMTT(30), <2>1, ShiftedFacts DEF Prefix
  <2>3. page_index(v, n) = Prefix(v, n) % Radix
    BY DEF page_index, Prefix
  <2>4. Prefix(v, n) \in Nat
    BY <1>2
  <2> QED
    BY <1>1, <2>2, <2>3, <2>4, DigitFacts
<1>4. Levels - Levels = 0 /\ Levels - 0 = Levels
  BY <1>1
<1>5. Prefix(v, Levels) = v /\ Prefix(v, 0) = Shifted(v)[Levels]
  BY <1>4, ShiftedFacts DEF Prefix
<1> QED
  BY <1>2, <1>3, <1>5

-----------------------------------------------------------------------------
(* The tables of one page map *)

TableEntries == [present : BOOLEAN, to : Nat, writable : BOOLEAN, nx : BOOLEAN]
Tables == [0 .. Radix - 1 -> TableEntries]
Memories == UNION {[D -> Tables] : D \in SUBSET Nat}

\* A table that an entry of table f leads to is the one below f with the number
\* of that entry, and the entry takes no right away.
LinkSound(m, lev, pre, f, j) ==
  m[f][j].present /\ lev[f] < Levels - 1 =>
    /\ m[f][j].to \in DOMAIN m
    /\ lev[m[f][j].to] = lev[f] + 1
    /\ pre[m[f][j].to] = pre[f] * Radix + j
    /\ m[f][j].writable /\ ~m[f][j].nx

\* The tables in memory m are a tree below the page map: lev is the level of
\* each, pre its number among those that its level can have.
Tree(m, lev, pre) ==
  /\ m \in Memories
  /\ kernel_pagemap \in DOMAIN m
  /\ lev \in [DOMAIN m -> 0 .. Levels - 1] /\ lev[kernel_pagemap] = 0
  /\ pre \in [DOMAIN m -> Nat] /\ pre[kernel_pagemap] = 0
  /\ \A f \in DOMAIN m, j \in 0 .. Radix - 1 : LinkSound(m, lev, pre, f, j)

\* c[k] is where the first k entries on the way to v lead.
Chain(m, v, n, c) ==
  /\ c[0] = kernel_pagemap
  /\ \A k \in 1 .. n : /\ m[c[k - 1]][page_index(v, k)].present
                       /\ m[c[k - 1]][page_index(v, k)].to = c[k]

\* Nothing that is there is changed.
Grown(m, m2) ==
  /\ DOMAIN m \subseteq DOMAIN m2
  /\ \A f \in DOMAIN m, j \in 0 .. Radix - 1 : m[f][j].present => m2[f][j] = m[f][j]

LEMMA MemoryFacts ==
  ASSUME NEW m \in Memories
  PROVE  /\ DOMAIN m \subseteq Nat
         /\ m = [f \in DOMAIN m |-> m[f]]
         /\ \A f \in DOMAIN m : m[f] \in Tables
         /\ \A f \in DOMAIN m, j \in 0 .. Radix - 1 : m[f][j] \in TableEntries
         /\ \A f \in DOMAIN m, j \in 0 .. Radix - 1 :
              /\ m[f][j].present \in BOOLEAN /\ m[f][j].to \in Nat
              /\ m[f][j].writable \in BOOLEAN /\ m[f][j].nx \in BOOLEAN
<1>1. PICK D \in SUBSET Nat : m \in [D -> Tables]
  BY DEF Memories
<1>2. DOMAIN m = D /\ m = [f \in DOMAIN m |-> m[f]] /\ \A f \in DOMAIN m : m[f] \in Tables
  BY <1>1
<1>3. \A t \in Tables, j \in 0 .. Radix - 1 : t[j] \in TableEntries
  BY DEF Tables
<1>4. \A e \in TableEntries : /\ e.present \in BOOLEAN /\ e.to \in Nat
                              /\ e.writable \in BOOLEAN /\ e.nx \in BOOLEAN
  BY DEF TableEntries
<1> QED
  BY <1>2, <1>3, <1>4

LEMMA MakesMemory ==
  ASSUME NEW m, DOMAIN m \subseteq Nat, m = [f \in DOMAIN m |-> m[f]],
         \A f \in DOMAIN m : m[f] \in Tables
  PROVE  m \in Memories
<1>1. m \in [DOMAIN m -> Tables]
  OBVIOUS
<1>2. DOMAIN m \in SUBSET Nat
  OBVIOUS
<1> QED
  BY <1>1, <1>2 DEF Memories

\* The way to an address goes one level down at each entry.
LEMMA ChainLevels ==
  ASSUME NEW m, NEW lev, NEW pre, Tree(m, lev, pre),
         NEW v \in Nat, Shifted(v)[Levels] = 0,
         NEW n \in 0 .. Levels - 1, NEW c, Chain(m, v, n, c)
  PROVE  \A k \in 0 .. n : /\ c[k] \in DOMAIN m /\ lev[c[k]] = k
                           /\ pre[c[k]] = Prefix(v, k)
<1> DEFINE G == {k \in 0 .. n : /\ c[k] \in DOMAIN m /\ lev[c[k]] = k
                                /\ pre[c[k]] = Prefix(v, k)}
<1>1. n \in Nat /\ Levels \in Nat
  BY LevelFacts
<1>2. 0 \in G
  <2>1. 0 \in 0 .. n /\ c[0] = kernel_pagemap
    BY <1>1 DEF Chain
  <2>2. kernel_pagemap \in DOMAIN m /\ lev[kernel_pagemap] = 0 /\ pre[kernel_pagemap] = 0
    BY DEF Tree
  <2>3. Prefix(v, 0) = 0
    BY PrefixFacts
  <2> QED
    BY <2>1, <2>2, <2>3
<1>3. ASSUME NEW k \in 1 .. n, k - 1 \in G PROVE k \in G
  <2> DEFINE f == c[k - 1]
             j == page_index(v, k)
  <2>1. f \in DOMAIN m /\ lev[f] = k - 1 /\ pre[f] = Prefix(v, k - 1)
    BY <1>3
  <2>2. k \in 1 .. Levels /\ k \in 0 .. n /\ k - 1 < Levels - 1 /\ k - 1 + 1 = k
    BY <1>1
  <2>3. j \in 0 .. Radix - 1 /\ Prefix(v, k - 1) * Radix + j = Prefix(v, k)
    BY <2>2, PrefixFacts
  <2>4. m[f][j].present /\ m[f][j].to = c[k]
    BY DEF Chain
  <2> HIDE DEF f, j
  <2>5. LinkSound(m, lev, pre, f, j)
    BY <2>1, <2>3 DEF Tree
  <2>6. c[k] \in DOMAIN m /\ lev[c[k]] = k /\ pre[c[k]] = Prefix(v, k)
    BY <2>1, <2>2, <2>3, <2>4, <2>5 DEF LinkSound
  <2> QED
    BY <2>2, <2>6
<1> HIDE DEF G
<1>4. \A k \in 0 .. n : k \in G
  BY <1>1, <1>2, <1>3, CountUp
<1> QED
  BY <1>4 DEF G

\* A way stays while the tables grow.
LEMMA ChainGrown ==
  ASSUME NEW m, NEW m2, NEW v \in Nat, NEW n \in 0 .. Levels, NEW c,
         Chain(m, v, n, c), Grown(m, m2), \A k \in 0 .. n - 1 : c[k] \in DOMAIN m
  PROVE  Chain(m2, v, n, c)
<1>1. Levels \in Nat
  BY LevelFacts
<1>2. ASSUME NEW k \in 1 .. n
      PROVE  /\ m2[c[k - 1]][page_index(v, k)].present
             /\ m2[c[k - 1]][page_index(v, k)].to = c[k]
  <2>1. k - 1 \in 0 .. n - 1 /\ k \in 1 .. Levels
    BY <1>1
  <2>2. c[k - 1] \in DOMAIN m /\ page_index(v, k) \in 0 .. Radix - 1
    BY <2>1, PrefixFacts
  <2>3. /\ m[c[k - 1]][page_index(v, k)].present
        /\ m[c[k - 1]][page_index(v, k)].to = c[k]
    BY DEF Chain
  <2>4. m2[c[k - 1]][page_index(v, k)] = m[c[k - 1]][page_index(v, k)]
    BY <2>2, <2>3 DEF Grown
  <2> QED
    BY <2>3, <2>4
<1> QED
  BY <1>2 DEF Chain

LEMMA GrownTwice ==
  ASSUME NEW m1, NEW m2, NEW m3, Grown(m1, m2), Grown(m2, m3)
  PROVE  Grown(m1, m3)
<1>1. DOMAIN m1 \subseteq DOMAIN m2 /\ DOMAIN m2 \subseteq DOMAIN m3
  BY DEF Grown
<1>2. ASSUME NEW f \in DOMAIN m1, NEW j \in 0 .. Radix - 1, m1[f][j].present
      PROVE  m3[f][j] = m1[f][j]
  <2>1. m2[f][j] = m1[f][j]
    BY <1>2 DEF Grown
  <2>2. m2[f][j].present
    BY <1>2, <2>1
  <2>3. m3[f][j] = m2[f][j]
    BY <1>1, <2>2 DEF Grown
  <2> QED
    BY <2>1, <2>3
<1> QED
  BY <1>1, <1>2 DEF Grown

-----------------------------------------------------------------------------
(* One level down *)

WalkStates == [table : Nat, mem : Memories, free : SUBSET Nat]

\* Tables are in pages the allocator had and has no longer.
Apart(m, pages) == DOMAIN m \cup pages \subseteq ClearBits /\ DOMAIN m \cap pages = {}

\* After n of the entries on the way to v, from memory m.
Reached(s, m, v, n) ==
  /\ \E lev, pre : Tree(s.mem, lev, pre)
  /\ \E c : Chain(s.mem, v, n, c) /\ c[n] = s.table
  /\ Apart(s.mem, s.free)
  /\ Grown(m, s.mem)

LEMMA LowestIn ==
  ASSUME NEW S, S \subseteq Nat, S # {}
  PROVE  Lowest(S) \in S /\ Lowest(S) \in Nat
<1>1. \E p \in S : \A q \in S : p <= q
  BY LeastNumber
<1>2. Lowest(S) \in S
  BY <1>1 DEF Lowest
<1> QED
  BY <1>2

LEMMA ChainLonger ==
  ASSUME NEW m, NEW v, NEW n \in Nat \ {0}, NEW c, Chain(m, v, n - 1, c),
         m[c[n - 1]][page_index(v, n)].present
  PROVE  \E d : Chain(m, v, n, d) /\ d[n] = m[c[n - 1]][page_index(v, n)].to
<1> DEFINE to == m[c[n - 1]][page_index(v, n)].to
           d == [k \in 0 .. n |-> IF k = n THEN to ELSE c[k]]
<1>1. \A k \in 0 .. n - 1 : d[k] = c[k]
  OBVIOUS
<1>2. d[n] = to
  OBVIOUS
<1>3. 0 \in 0 .. n - 1 /\ n - 1 \in 0 .. n - 1
  OBVIOUS
<1> HIDE DEF d
<1>4. d[0] = kernel_pagemap
  BY <1>1, <1>3 DEF Chain
<1>5. ASSUME NEW k \in 1 .. n
      PROVE  /\ m[d[k - 1]][page_index(v, k)].present
             /\ m[d[k - 1]][page_index(v, k)].to = d[k]
  <2>1. d[k - 1] = c[k - 1]
    BY <1>1
  <2>2. CASE k = n
    BY <1>2, <2>1, <2>2
  <2>3. CASE k # n
    <3>1. k \in 1 .. n - 1 /\ k \in 0 .. n - 1
      BY <2>3
    <3> QED
      BY <1>1, <2>1, <3>1 DEF Chain
  <2> QED
    BY <2>2, <2>3
<1>6. Chain(m, v, n, d)
  BY <1>4, <1>5 DEF Chain
<1> QED
  BY <1>2, <1>6

\* A new table in page f below entry j of table t.
NewTable(m, t, j, f, nx, m2) ==
  /\ DOMAIN m2 = DOMAIN m \cup {f} /\ m2 = [g \in DOMAIN m2 |-> m2[g]]
  /\ m2[f] = EmptyTable
  /\ m2[t] = [m[t] EXCEPT ![j] = TableEntry(f, nx)]
  /\ \A g \in DOMAIN m : g # t => m2[g] = m[g]

LEMMA TableLinked ==
  ASSUME NEW m, NEW lev, NEW pre, Tree(m, lev, pre),
         NEW t \in DOMAIN m, NEW j \in 0 .. Radix - 1, ~m[t][j].present,
         lev[t] < Levels - 1, NEW f \in Nat, f \notin DOMAIN m,
         NEW nx, NEW m2, NewTable(m, t, j, f, nx, m2)
  PROVE  /\ m2 \in Memories /\ Grown(m, m2)
         /\ m2[t][j].present /\ m2[t][j].to = f
         /\ \E lev2, pre2 : Tree(m2, lev2, pre2)
<1> DEFINE lev2 == [g \in DOMAIN m2 |-> IF g = f THEN lev[t] + 1 ELSE lev[g]]
           pre2 == [g \in DOMAIN m2 |-> IF g = f THEN pre[t] * Radix + j ELSE pre[g]]
<1>0. /\ DOMAIN m2 = DOMAIN m \cup {f} /\ m2 = [g \in DOMAIN m2 |-> m2[g]]
      /\ m2[f] = EmptyTable
      /\ m2[t] = [m[t] EXCEPT ![j] = TableEntry(f, nx)]
      /\ \A g \in DOMAIN m : g # t => m2[g] = m[g]
  BY DEF NewTable
<1>1. /\ m \in Memories /\ kernel_pagemap \in DOMAIN m
      /\ lev \in [DOMAIN m -> 0 .. Levels - 1] /\ lev[kernel_pagemap] = 0
      /\ pre \in [DOMAIN m -> Nat] /\ pre[kernel_pagemap] = 0
      /\ \A g \in DOMAIN m, h \in 0 .. Radix - 1 : LinkSound(m, lev, pre, g, h)
  BY DEF Tree
<1>2. Levels \in Nat /\ Radix \in Nat /\ Radix >= 2
  BY LevelFacts
<1>3. /\ TableEntry(f, nx) = [present |-> TRUE, to |-> f, writable |-> TRUE, nx |-> FALSE]
      /\ TableEntry(f, nx) \in TableEntries
  BY DEF TableEntry, Entry, TableEntries
<1>4. EmptyTable \in Tables /\ \A h \in 0 .. Radix - 1 : ~EmptyTable[h].present
  BY DEF EmptyTable, Absent, Tables, TableEntries, NULL
<1>5. m[t] \in Tables
  BY <1>1, MemoryFacts
<1>6. /\ m2[t] \in Tables /\ m2[t][j] = TableEntry(f, nx)
      /\ \A h \in 0 .. Radix - 1 : h # j => m2[t][h] = m[t][h]
  BY <1>0, <1>3, <1>5 DEF Tables
<1>7. \A g \in DOMAIN m2 : m2[g] \in Tables
  BY ZenonT(60), <1>0, <1>1, <1>4, <1>6, MemoryFacts
<1>8. m2 \in Memories
  <2>1. DOMAIN m2 \subseteq Nat
    BY <1>0, <1>1, MemoryFacts
  <2> QED
    BY <1>0, <1>7, <2>1, MakesMemory
<1>9. \A g \in DOMAIN m, h \in 0 .. Radix - 1 :
        ~(g = t /\ h = j) => m2[g][h] = m[g][h]
  BY <1>0, <1>6
<1>10. Grown(m, m2)
  BY <1>0, <1>9 DEF Grown
<1>11. m2[t][j].present /\ m2[t][j].to = f /\ m2[t][j].writable /\ ~m2[t][j].nx
  BY <1>3, <1>6
<1>12. lev[t] \in 0 .. Levels - 1 /\ pre[t] \in Nat /\ lev[t] + 1 \in 0 .. Levels - 1
  BY <1>1, <1>2
<1>13. pre[t] * Radix + j \in Nat
  <2>1. \A a \in Nat, b \in Nat : a * b \in Nat
    OBVIOUS
  <2>2. pre[t] * Radix \in Nat
    BY <1>2, <1>12, <2>1
  <2> QED
    BY <2>2
<1>14. /\ lev2[f] = lev[t] + 1 /\ pre2[f] = pre[t] * Radix + j
       /\ \A g \in DOMAIN m : lev2[g] = lev[g] /\ pre2[g] = pre[g]
  BY <1>0
<1>15. lev2 \in [DOMAIN m2 -> 0 .. Levels - 1] /\ pre2 \in [DOMAIN m2 -> Nat]
  BY <1>0, <1>1, <1>12, <1>13
<1> HIDE DEF lev2, pre2
<1>16. ASSUME NEW g \in DOMAIN m2, NEW h \in 0 .. Radix - 1
       PROVE  LinkSound(m2, lev2, pre2, g, h)
  <2>1. CASE g = f
    BY <1>0, <1>4, <2>1 DEF LinkSound
  <2>2. CASE g = t /\ h = j
    BY <1>0, <1>11, <1>14, <2>2 DEF LinkSound
  <2>3. CASE g # f /\ ~(g = t /\ h = j)
    <3>1. g \in DOMAIN m /\ m2[g][h] = m[g][h]
      BY <1>0, <1>9, <2>3
    <3>2. LinkSound(m, lev, pre, g, h)
      BY <1>1, <3>1
    <3> QED
      BY <1>0, <1>14, <3>1, <3>2 DEF LinkSound
  <2> QED
    BY <2>1, <2>2, <2>3
<1>17. Tree(m2, lev2, pre2)
  BY <1>0, <1>1, <1>8, <1>14, <1>15, <1>16 DEF Tree
<1> QED
  BY <1>8, <1>10, <1>11, <1>17

\* get_or_alloc_table keeps a tree a tree and goes one level down in it.
LEMMA OneLevelDown ==
  ASSUME NEW s \in WalkStates, NEW m0, NEW v \in Nat, Shifted(v)[Levels] = 0,
         NEW n \in 1 .. Levels - 1, s.table # NULL, Reached(s, m0, v, n - 1), NEW nx,
         NEW r, r = get_or_alloc_table(s, page_index(v, n), nx)
  PROVE  r \in WalkStates /\ (r.table # NULL => Reached(r, m0, v, n))
<1> DEFINE j == page_index(v, n)
           t == s.table
           m == s.mem
<1>1. /\ t \in Nat /\ m \in Memories /\ s.free \subseteq Nat
      /\ s = [table |-> t, mem |-> m, free |-> s.free]
  BY DEF WalkStates
<1>2. /\ Levels \in Nat /\ n \in Nat \ {0} /\ n - 1 \in 0 .. Levels - 1 /\ n \in 1 .. Levels
      /\ n - 1 < Levels - 1 /\ n - 1 \in 0 .. n - 1
  BY LevelFacts
<1>3. PICK lev, pre : Tree(m, lev, pre)
  BY DEF Reached
<1>4. PICK c : Chain(m, v, n - 1, c) /\ c[n - 1] = t
  BY DEF Reached
<1>5. Apart(m, s.free) /\ Grown(m0, m)
  BY DEF Reached
<1>6. t \in DOMAIN m /\ lev[t] = n - 1
  BY <1>2, <1>3, <1>4, ChainLevels
<1>7. j \in 0 .. Radix - 1
  BY <1>2, PrefixFacts
<1>8. m[t][j].present \in BOOLEAN /\ m[t][j].to \in Nat
  BY <1>1, <1>6, <1>7, MemoryFacts
<1>9. CASE m[t][j].present
  <2>1. r = [s EXCEPT !.table = m[t][j].to]
    BY <1>9 DEF get_or_alloc_table
  <2>2. r = [table |-> m[t][j].to, mem |-> m, free |-> s.free]
    BY <1>1, <2>1
  <2>3. r \in WalkStates /\ r.table = m[t][j].to /\ r.mem = m /\ r.free = s.free
    BY <1>1, <1>8, <2>2 DEF WalkStates
  <2>4. \E d : Chain(m, v, n, d) /\ d[n] = m[t][j].to
    <3>1. /\ n \in Nat \ {0}
          /\ m[c[n - 1]][page_index(v, n)] = m[t][j]
      BY <1>2, <1>4
    <3>2. \E d : Chain(m, v, n, d) /\ d[n] = m[c[n - 1]][page_index(v, n)].to
      BY <1>4, <1>9, <3>1, ChainLonger
    <3> QED
      BY <3>1, <3>2
  <2> HIDE DEF j, t, m
  <2> QED
    BY <1>3, <1>5, <2>3, <2>4 DEF Reached
<1>10. CASE ~m[t][j].present /\ s.free = {}
  <2>1. r = [s EXCEPT !.table = NULL]
    BY <1>10 DEF get_or_alloc_table
  <2>2. r = [table |-> NULL, mem |-> m, free |-> s.free] /\ NULL \in Nat
    BY <1>1, <2>1 DEF NULL
  <2>3. r \in WalkStates /\ r.table = NULL
    BY <1>1, <2>2 DEF WalkStates
  <2> QED
    BY <2>3
<1>11. CASE ~m[t][j].present /\ s.free # {}
  <2> DEFINE f == Lowest(s.free)
             linked == [m EXCEPT ![t][j] = TableEntry(f, nx)]
             m2 == [g \in DOMAIN linked \cup {f} |->
                      IF g = f THEN EmptyTable ELSE linked[g]]
  <2>1. f \in s.free /\ f \in Nat
    BY <1>1, <1>11, LowestIn
  <2>2. r = [table |-> f, free |-> s.free \ {f}, mem |-> m2]
    BY <1>11 DEF get_or_alloc_table
  <2>3. f \notin DOMAIN m /\ f # t
    BY <1>5, <1>6, <2>1 DEF Apart
  <2>4. m = [g \in DOMAIN m |-> m[g]]
    BY <1>1, MemoryFacts
  <2> HIDE DEF f, t, j, m
  <2>5. /\ DOMAIN linked = DOMAIN m
        /\ linked[t] = [m[t] EXCEPT ![j] = TableEntry(f, nx)]
        /\ \A g \in DOMAIN m : g # t => linked[g] = m[g]
    BY <1>6, <2>4
  <2> HIDE DEF linked
  <2>6. /\ DOMAIN m2 = DOMAIN m \cup {f} /\ m2 = [g \in DOMAIN m2 |-> m2[g]]
        /\ m2[f] = EmptyTable
        /\ \A g \in DOMAIN m : m2[g] = linked[g]
    BY <2>3, <2>5
  <2>7. r.mem = m2 /\ r.table = f /\ r.free = s.free \ {f}
    BY <2>2
  <2> HIDE DEF m2
  <2>8. m2[t] = [m[t] EXCEPT ![j] = TableEntry(f, nx)]
        /\ \A g \in DOMAIN m : g # t => m2[g] = m[g]
    BY <1>6, <2>5, <2>6
  <2>9. /\ m2 \in Memories /\ Grown(m, m2) /\ m2[t][j].present /\ m2[t][j].to = f
        /\ \E lev2, pre2 : Tree(m2, lev2, pre2)
    <3>1. lev[t] < Levels - 1
      BY <1>2, <1>6
    <3>2. NewTable(m, t, j, f, nx, m2)
      BY <2>6, <2>8 DEF NewTable
    <3> QED
      BY <1>3, <1>6, <1>7, <1>11, <2>1, <2>3, <3>1, <3>2, TableLinked
  <2>10. r \in WalkStates
    BY <1>1, <2>1, <2>2, <2>9 DEF WalkStates, f
  <2>11. \A k \in 0 .. n - 1 : c[k] \in DOMAIN m
    BY ZenonT(60), <1>2, <1>3, <1>4, ChainLevels
  <2>12. Chain(m2, v, n - 1, c)
    <3> DEFINE n0 == n - 1
    <3>1. n0 \in 0 .. Levels
      BY <1>2
    <3>2. \A k \in 0 .. n0 - 1 : c[k] \in DOMAIN m
      BY <1>2, <2>11
    <3>3. Chain(m, v, n0, c) /\ Grown(m, m2)
      BY <1>4, <2>9
    <3> HIDE DEF n0
    <3>4. Chain(m2, v, n0, c)
      BY <3>1, <3>2, <3>3, ChainGrown
    <3> QED
      BY <3>4 DEF n0
  <2>13. \E d : Chain(m2, v, n, d) /\ d[n] = m2[t][j].to
    <3>1. /\ n \in Nat \ {0}
          /\ m2[c[n - 1]][page_index(v, n)] = m2[t][j]
      BY <1>2, <1>4 DEF j
    <3>2. m2[c[n - 1]][page_index(v, n)].present
      BY <2>9, <3>1
    <3>3. \E d : Chain(m2, v, n, d) /\ d[n] = m2[c[n - 1]][page_index(v, n)].to
      BY <2>12, <3>1, <3>2, ChainLonger
    <3> QED
      BY <3>1, <3>3
  <2>14. Grown(m0, m2)
    BY <1>5, <2>9, GrownTwice
  <2>15. Apart(m2, s.free \ {f})
    BY <1>5, <2>1, <2>6 DEF Apart
  <2> QED
    BY <2>7, <2>9, <2>10, <2>13, <2>14, <2>15 DEF Reached
<1> QED
  BY <1>8, <1>9, <1>10, <1>11

-----------------------------------------------------------------------------
(* vmm_map *)

\* What vmm_map has when it comes to the last table, which it may not come to.
Arrived(s, v) ==
  s \in WalkStates /\ (s.table # NULL => Reached(s, mem, v, Levels - 1))

\* The entry for v written into the last table.
Written(s, v, e) ==
  IF s.table = NULL THEN s ELSE [s EXCEPT !.mem[s.table][page_index(v, Levels)] = e]

LEMMA MapArrives ==
  ASSUME NEW v \in Nat, Shifted(v)[Levels] = 0, NEW phys, NEW writable, NEW nx,
         \E lev, pre : Tree(mem, lev, pre), Apart(mem, free), free \subseteq Nat
  PROVE  \E s : /\ Arrived(s, v)
                /\ vmm_map(v, phys, writable, nx) = Written(s, v, Entry(phys, writable, nx))
<1> DEFINE S == WalkStates
           b == [table |-> kernel_pagemap, mem |-> mem, free |-> free]
           N == Levels - 1
           op(t, n) == get_or_alloc_table(t, page_index(v, n), nx)
           F == [a \in S \X (1 .. N) |-> IF op(a[1], a[2]) \in S THEN op(a[1], a[2]) ELSE a[1]]
           Is(g) == g = [n \in 0 .. N |-> IF n = 0 THEN b ELSE op(g[n - 1], n)]
           f == CHOOSE g : Is(g)
           Good(t, n) == t \in S /\ (t.table # NULL => Reached(t, mem, v, n))
<1>1. Levels \in Nat /\ N \in Nat /\ N + 1 = Levels
  BY LevelFacts
<1>2. b \in S /\ Good(b, 0)
  <2>1. PICK lev, pre : Tree(mem, lev, pre)
    OBVIOUS
  <2>2. mem \in Memories /\ kernel_pagemap \in DOMAIN mem
    BY <2>1 DEF Tree
  <2>3. kernel_pagemap \in Nat
    BY <2>2, MemoryFacts
  <2>4. b \in S /\ b.table = kernel_pagemap /\ b.mem = mem /\ b.free = free
    BY <2>2, <2>3 DEF WalkStates
  <2>5. \E c : Chain(mem, v, 0, c) /\ c[0] = kernel_pagemap
    <3> DEFINE c == [k \in {0} |-> kernel_pagemap]
    <3>1. c[0] = kernel_pagemap
      OBVIOUS
    <3> HIDE DEF c
    <3>2. Chain(mem, v, 0, c)
      BY <3>1 DEF Chain
    <3> QED
      BY <3>1, <3>2
  <2>6. Grown(mem, mem)
    BY DEF Grown
  <2> HIDE DEF b
  <2>7. Reached(b, mem, v, 0)
    BY <2>1, <2>4, <2>5, <2>6 DEF Reached
  <2> QED
    BY <2>4, <2>7
<1>3. vmm_map(v, phys, writable, nx) = Written(f[N], v, Entry(phys, writable, nx))
  BY DEF vmm_map, Written
<1>4. ASSUME NEW t, NEW n \in 1 .. N, Good(t, n - 1)
      PROVE  op(t, n) \in S /\ Good(op(t, n), n)
  <2>1. CASE t.table = NULL
    <3>1. op(t, n) = t
      BY <2>1 DEF get_or_alloc_table
    <3> HIDE DEF op
    <3> QED
      BY <1>4, <2>1, <3>1
  <2>2. CASE t.table # NULL
    <3>1. t \in WalkStates /\ Reached(t, mem, v, n - 1)
      BY <1>4, <2>2
    <3>2. op(t, n) \in WalkStates /\ (op(t, n).table # NULL => Reached(op(t, n), mem, v, n))
      BY <2>2, <3>1, OneLevelDown
    <3> QED
      BY <3>2
  <2> QED
    BY <2>1, <2>2
<1> HIDE DEF S, b, op, Good
<1>5. ASSUME NEW h, h[0] = b,
             \A n \in 1 .. N : op(h[n - 1], n) \in S => h[n] = op(h[n - 1], n)
      PROVE  \A n \in 0 .. N : Good(h[n], n)
  <2> DEFINE G == {n \in 0 .. N : Good(h[n], n)}
  <2>1. 0 \in G
    BY <1>1, <1>2, <1>5
  <2>2. ASSUME NEW n \in 1 .. N, n - 1 \in G PROVE n \in G
    <3>1. Good(h[n - 1], n - 1)
      BY <2>2
    <3>2. op(h[n - 1], n) \in S /\ Good(op(h[n - 1], n), n)
      BY <1>4, <3>1
    <3>3. h[n] = op(h[n - 1], n)
      BY <1>5, <3>2
    <3>4. n \in 0 .. N
      BY <1>1
    <3> QED
      BY <3>2, <3>3, <3>4
  <2> HIDE DEF G, N
  <2>3. \A n \in 1 .. N : n - 1 \in G => n \in G
    BY <2>2
  <2>4. \A n \in 0 .. N : n \in G
    BY <1>1, <2>1, <2>3, CountUp
  <2> QED
    BY <2>4 DEF G
<1>6. /\ F \in [S \X (1 .. N) -> S]
      /\ \A t \in S, n \in 1 .. N :
           op(t, n) \in S => F[<< t, n >>] = op(t, n)
  OBVIOUS
<1> HIDE DEF F, f, N
<1>7. PICK g : g \in States(F, b, N, S)
  <2>1. N \in Nat
    BY <1>1
  <2>2. b \in S
    BY <1>2
  <2>3. F \in [S \X (1 .. N) -> S]
    BY <1>6
  <2>4. States(F, b, N, S) # {}
    BY <2>1, <2>2, <2>3, LoopExists
  <2> QED
    BY <2>4
<1>8. /\ g \in [0 .. N -> S] /\ g[0] = b
      /\ \A n \in 1 .. N : g[n] = F[<< g[n - 1], n >>]
  BY <1>7 DEF States
<1>9. \A n \in 1 .. N : n - 1 \in 0 .. N /\ g[n - 1] \in S
  BY <1>1, <1>8
<1>10. \A n \in 1 .. N : op(g[n - 1], n) \in S => g[n] = op(g[n - 1], n)
  BY <1>6, <1>8, <1>9
<1>11. \A n \in 0 .. N : Good(g[n], n)
  BY <1>5, <1>8, <1>10
<1>12. Is(g)
  <2>1. \A n \in 1 .. N : op(g[n - 1], n) \in S
    BY <1>4, <1>9, <1>11
  <2>2. \A n \in 0 .. N : g[n] = IF n = 0 THEN b ELSE op(g[n - 1], n)
    BY <1>1, <1>8, <1>10, <2>1
  <2>3. g = [n \in 0 .. N |-> g[n]]
    BY <1>8
  <2> QED
    BY <2>2, <2>3
<1>13. Is(f)
  <2> HIDE DEF Is
  <2> QED
    BY <1>12 DEF f
<1>14. f = [n \in 0 .. N |-> IF n = 0 THEN b ELSE op(f[n - 1], n)]
  BY <1>13
<1>15. f[0] = b /\ \A n \in 1 .. N : f[n] = op(f[n - 1], n)
  BY <1>1, <1>14
<1>16. Good(f[N], N)
  BY <1>1, <1>5, <1>15
<1>17. Arrived(f[N], v)
  BY <1>16 DEF Good, Arrived, S, N
<1> QED
  BY <1>3, <1>17

\* Every table on the way to v is there, and x is the last entry.
Mapped(m, v, x) ==
  \E c : Chain(m, v, Levels, c) /\ m[c[Levels - 1]][page_index(v, Levels)] = x

LEMMA ChainShorter ==
  ASSUME NEW m, NEW v, NEW c, Chain(m, v, Levels, c)
  PROVE  Chain(m, v, Levels - 1, c)
<1>1. \A k \in 1 .. Levels - 1 : k \in 1 .. Levels
  BY LevelFacts
<1> QED
  BY <1>1 DEF Chain

\* An entry written into a table of the last level.
LeafWritten(m, t, j, e) == [m EXCEPT ![t][j] = e]

LEMMA WriteLeaf ==
  ASSUME NEW m, NEW lev, NEW pre, Tree(m, lev, pre), NEW t \in DOMAIN m,
         lev[t] = Levels - 1, NEW j \in 0 .. Radix - 1, NEW e \in TableEntries
  PROVE  /\ DOMAIN LeafWritten(m, t, j, e) = DOMAIN m
         /\ LeafWritten(m, t, j, e)[t][j] = e
         /\ \A g \in DOMAIN m, h \in 0 .. Radix - 1 :
              ~(g = t /\ h = j) => LeafWritten(m, t, j, e)[g][h] = m[g][h]
         /\ Tree(LeafWritten(m, t, j, e), lev, pre)
<1> DEFINE m3 == LeafWritten(m, t, j, e)
<1>1. /\ m \in Memories /\ kernel_pagemap \in DOMAIN m
      /\ lev \in [DOMAIN m -> 0 .. Levels - 1] /\ lev[kernel_pagemap] = 0
      /\ pre \in [DOMAIN m -> Nat] /\ pre[kernel_pagemap] = 0
      /\ \A g \in DOMAIN m, h \in 0 .. Radix - 1 : LinkSound(m, lev, pre, g, h)
  BY DEF Tree
<1>2. m = [g \in DOMAIN m |-> m[g]] /\ m[t] \in Tables
  BY <1>1, MemoryFacts
<1>3. /\ DOMAIN m3 = DOMAIN m /\ m3 = [g \in DOMAIN m3 |-> m3[g]]
      /\ m3[t] = [m[t] EXCEPT ![j] = e]
      /\ \A g \in DOMAIN m : g # t => m3[g] = m[g]
  BY <1>2 DEF LeafWritten
<1> HIDE DEF m3
<1>4. /\ m3[t] \in Tables /\ m3[t][j] = e
      /\ \A h \in 0 .. Radix - 1 : h # j => m3[t][h] = m[t][h]
  BY <1>2, <1>3 DEF Tables
<1>5. \A g \in DOMAIN m, h \in 0 .. Radix - 1 : ~(g = t /\ h = j) => m3[g][h] = m[g][h]
  BY <1>3, <1>4
<1>6. m3 \in Memories
  <2>1. \A g \in DOMAIN m3 : m3[g] \in Tables
    BY <1>1, <1>3, <1>4, MemoryFacts
  <2>2. DOMAIN m3 \subseteq Nat
    BY <1>1, <1>3, MemoryFacts
  <2> QED
    BY <1>3, <2>1, <2>2, MakesMemory
<1>7. ASSUME NEW g \in DOMAIN m3, NEW h \in 0 .. Radix - 1
      PROVE  LinkSound(m3, lev, pre, g, h)
  <2>1. CASE g = t /\ h = j
    <3>1. ~(lev[t] < Levels - 1)
      BY LevelFacts
    <3> QED
      BY <2>1, <3>1 DEF LinkSound
  <2>2. CASE ~(g = t /\ h = j)
    <3>1. g \in DOMAIN m /\ m3[g][h] = m[g][h]
      BY <1>3, <1>5, <2>2
    <3>2. LinkSound(m, lev, pre, g, h)
      BY <1>1, <3>1
    <3> QED
      BY <1>3, <3>1, <3>2 DEF LinkSound
  <2> QED
    BY <2>1, <2>2
<1>8. Tree(m3, lev, pre)
  BY <1>1, <1>3, <1>6, <1>7 DEF Tree
<1> QED
  BY <1>3, <1>4, <1>5, <1>8 DEF m3

\* One page mapped: it is, and what was mapped elsewhere still is.
MapsOnly(m, v, e) ==
  /\ \E lev, pre : Tree(m, lev, pre)
  /\ Mapped(m, v, e)
  /\ \A w \in Nat : \A x : w # v /\ Shifted(w)[Levels] = 0 /\ x.present /\ Mapped(mem, w, x)
       => Mapped(m, w, x)

LEMMA LeafMaps ==
  ASSUME NEW v \in Nat, Shifted(v)[Levels] = 0, NEW e \in TableEntries, e.present,
         \E lev, pre : Tree(mem, lev, pre), NEW s \in WalkStates,
         Reached(s, mem, v, Levels - 1)
  PROVE  /\ MapsOnly(LeafWritten(s.mem, s.table, page_index(v, Levels), e), v, e)
         /\ DOMAIN LeafWritten(s.mem, s.table, page_index(v, Levels), e) = DOMAIN s.mem
<1> DEFINE m == s.mem
           t == s.table
           j == page_index(v, Levels)
           m3 == LeafWritten(m, t, j, e)
<1>1. PICK lev0, pre0 : Tree(mem, lev0, pre0)
  OBVIOUS
<1>2. PICK lev, pre : Tree(m, lev, pre)
  BY DEF Reached
<1>3. PICK c : Chain(m, v, Levels - 1, c) /\ c[Levels - 1] = t
  BY DEF Reached
<1>4. Grown(mem, m)
  BY DEF Reached
<1>5. /\ Levels \in Nat \ {0} /\ Levels - 1 \in 0 .. Levels - 1 /\ Levels \in 1 .. Levels
      /\ Levels \in 0 .. Levels
  BY LevelFacts
<1>6. \A k \in 0 .. Levels - 1 : /\ c[k] \in DOMAIN m /\ lev[c[k]] = k
                                 /\ pre[c[k]] = Prefix(v, k)
  BY <1>2, <1>3, <1>5, ChainLevels
<1>7. t \in DOMAIN m /\ lev[t] = Levels - 1 /\ pre[t] = Prefix(v, Levels - 1)
  BY <1>3, <1>5, <1>6
<1>8. j \in 0 .. Radix - 1
  BY <1>5, PrefixFacts
<1> HIDE DEF m, t, j, m3
<1>9. /\ DOMAIN m3 = DOMAIN m /\ m3[t][j] = e
      /\ \A g \in DOMAIN m, h \in 0 .. Radix - 1 : ~(g = t /\ h = j) => m3[g][h] = m[g][h]
      /\ Tree(m3, lev, pre)
  BY <1>2, <1>7, <1>8, WriteLeaf DEF m3
\* Only the last entry on a way can be the one that is written.
<1>10. ASSUME NEW w \in Nat, Shifted(w)[Levels] = 0, NEW d, NEW n \in 0 .. Levels,
              Chain(m, w, n, d), n = Levels => w # v
       PROVE  /\ Chain(m3, w, n, d)
              /\ n = Levels => m3[d[Levels - 1]][page_index(w, Levels)]
                                 = m[d[Levels - 1]][page_index(w, Levels)]
  <2> DEFINE n1 == IF n = Levels THEN Levels - 1 ELSE n
  <2>1. n1 \in 0 .. Levels - 1 /\ \A k \in 1 .. n : k - 1 \in 0 .. n1 /\ k \in 1 .. Levels
    BY <1>5
  <2>2. Chain(m, w, n1, d)
    BY <1>10, ChainShorter
  <2> HIDE DEF n1
  <2>3. \A k \in 0 .. n1 : /\ d[k] \in DOMAIN m /\ lev[d[k]] = k
                           /\ pre[d[k]] = Prefix(w, k)
    BY <1>2, <1>10, <2>1, <2>2, ChainLevels
  <2>4. ASSUME NEW k \in 1 .. n
        PROVE  m3[d[k - 1]][page_index(w, k)] = m[d[k - 1]][page_index(w, k)]
    <3> DEFINE g == d[k - 1]
               h == page_index(w, k)
    <3>1. g \in DOMAIN m /\ lev[g] = k - 1 /\ pre[g] = Prefix(w, k - 1)
      BY <2>1, <2>3
    <3>2. h \in 0 .. Radix - 1 /\ Prefix(w, k - 1) * Radix + h = Prefix(w, k)
      BY <2>1, PrefixFacts
    <3> HIDE DEF g
    <3>3. ASSUME g = t, h = j PROVE FALSE
      <4>1. k - 1 = Levels - 1
        BY <1>7, <3>1, <3>3
      <4>2. k = Levels
        BY <1>5, <4>1
      <4>3. n = Levels /\ w # v
        BY <1>5, <1>10, <4>2
      <4>4. Prefix(w, Levels) = Prefix(v, Levels)
        BY <1>5, <1>7, <3>1, <3>2, <3>3, <4>2, PrefixFacts DEF j
      <4> QED
        BY <4>3, <4>4, PrefixFacts
    <3> HIDE DEF h
    <3>4. m3[g][h] = m[g][h]
      BY <1>9, <3>1, <3>2, <3>3
    <3> QED
      BY <3>4 DEF g, h
  <2>5. Chain(m3, w, n, d)
    BY <1>10, <2>4 DEF Chain
  <2>6. n = Levels => n \in 1 .. n
    BY <1>5
  <2> QED
    BY <2>4, <2>5, <2>6
<1>11. Mapped(m3, v, e)
  <2>1. Chain(m3, v, Levels - 1, c)
    <3>1. Levels - 1 \in 0 .. Levels /\ Levels - 1 # Levels
      BY <1>5
    <3> QED
      BY <1>3, <1>10, <3>1
  <2>2. m3[c[Levels - 1]][page_index(v, Levels)] = e
    BY <1>3, <1>9 DEF j
  <2>3. PICK d : /\ Chain(m3, v, Levels, d)
                 /\ d[Levels] = m3[c[Levels - 1]][page_index(v, Levels)].to
    BY <1>5, <2>1, <2>2, ChainLonger
  <2>4. d[Levels - 1] = c[Levels - 1]
    <3>1. Chain(m3, v, Levels - 1, d)
      BY <2>3, ChainShorter
    <3> DEFINE G == {k \in 0 .. Levels - 1 : d[k] = c[k]}
               N == Levels - 1
    <3>2. 0 \in G
      BY <1>5, <2>1, <3>1 DEF Chain
    <3>3. \A k \in 1 .. N : k - 1 \in G => k \in G
      BY <1>5, <2>1, <3>1 DEF Chain
    <3>4. N \in Nat
      BY <1>5
    <3> HIDE DEF G, N
    <3>5. \A k \in 0 .. N : k \in G
      BY <3>2, <3>3, <3>4, CountUp
    <3>6. N \in G
      BY <3>4, <3>5
    <3> QED
      BY <3>6 DEF G, N
  <2> QED
    BY <2>2, <2>3, <2>4 DEF Mapped
<1>12. ASSUME NEW w \in Nat, NEW x, w # v, Shifted(w)[Levels] = 0, x.present,
              Mapped(mem, w, x)
       PROVE  Mapped(m3, w, x)
  <2>1. PICK d : Chain(mem, w, Levels, d) /\ mem[d[Levels - 1]][page_index(w, Levels)] = x
    BY <1>12 DEF Mapped
  <2>2. \A k \in 0 .. Levels - 1 : d[k] \in DOMAIN mem
    BY <1>1, <1>5, <1>12, <2>1, ChainShorter, ChainLevels
  <2>3. Chain(m, w, Levels, d)
    BY <1>4, <1>5, <2>1, <2>2, ChainGrown
  <2>4. m[d[Levels - 1]][page_index(w, Levels)] = x
    <3>1. page_index(w, Levels) \in 0 .. Radix - 1
      BY <1>5, PrefixFacts
    <3> QED
      BY <1>4, <1>5, <1>12, <2>1, <2>2, <3>1 DEF Grown
  <2>5. Chain(m3, w, Levels, d) /\ m3[d[Levels - 1]][page_index(w, Levels)] = x
    BY <1>5, <1>10, <1>12, <2>3, <2>4
  <2> QED
    BY <2>5 DEF Mapped
<1>13. MapsOnly(m3, v, e)
  BY <1>9, <1>11, <1>12 DEF MapsOnly
<1> QED
  BY <1>9, <1>13 DEF m3, m, t, j

-----------------------------------------------------------------------------
(* The loops of vmm_init *)

\* pmm_init leaves the entry of the kernel and the end of every entry.
MapKept ==
  /\ \A k \in DOMAIN memmap :
       hhdm_offset + (memmap[k].base + memmap[k].length) <= virtual_base
  /\ \E k \in DOMAIN memmap :
       HoldsKernel(memmap[k]) /\ physical_base = memmap[k].base

LEMMA LengthFacts ==
  /\ hhdm_offset \in Nat /\ virtual_base \in Nat /\ Requests \in Nat /\ Text \in Nat
  /\ Rodata \in Nat /\ Data \in Nat /\ Stack \in Nat /\ FourGiB \in Nat
  /\ ImageLength = Requests + Text + Rodata + Data /\ ImageLength \in Nat
<1>1. /\ hhdm_offset \in Nat /\ virtual_base \in Nat /\ Requests \in Nat /\ Text \in Nat
      /\ Rodata \in Nat /\ Data \in Nat /\ Stack \in Nat /\ FourGiB \in Nat
  BY VmmBootAssumption
<1> QED
  BY <1>1 DEF ImageLength

LEMMA KernelPlace ==
  ASSUME MapInv, MapKept
  PROVE  /\ physical_base \in Nat
         /\ hhdm_offset + (physical_base + (ImageLength + Stack)) <= virtual_base
<1>1. PICK k \in DOMAIN memmap : HoldsKernel(memmap[k]) /\ physical_base = memmap[k].base
  BY DEF MapKept
<1>2. memmap[k].base \in Nat
  BY EntryFacts
<1> QED
  BY <1>1, <1>2 DEF MapKept, HoldsKernel

MapLoops == [virt : Nat, phys : Nat, length : Nat, writable : BOOLEAN, nx : BOOLEAN]

LEMMA FunctionIsSeq ==
  ASSUME NEW S, NEW n \in Nat, NEW f \in [1 .. n -> S]
  PROVE  f \in Seq(S) /\ Len(f) = n
  OBVIOUS

LEMMA FiveInSeq ==
  ASSUME NEW S, NEW a \in S, NEW b \in S, NEW c \in S, NEW d \in S, NEW e \in S
  PROVE  << a, b, c, d, e >> \in Seq(S) /\ Len(<< a, b, c, d, e >>) = 5
  OBVIOUS

LEMMA OneInSeq ==
  ASSUME NEW S, NEW a \in S
  PROVE  << a >> \in Seq(S) /\ Len(<< a >>) = 1 /\ << a >>[1] = a
  OBVIOUS

LEMMA LoopsAre ==
  ASSUME MapInv, MapKept
  PROVE  /\ Len(memmap) \in Nat /\ Len(Loops) = Len(memmap) + 6
         /\ Loops[1] = HigherHalf(physical_base + ImageLength, Stack, TRUE)
         /\ Loops[2] = Section(0, Requests, TRUE, FALSE)
         /\ Loops[3] = Section(Requests, Text, FALSE, FALSE)
         /\ Loops[4] = Section(Requests + Text, Rodata, FALSE, TRUE)
         /\ Loops[5] = Section(Requests + Text + Rodata, Data, TRUE, TRUE)
         /\ \A k \in 1 .. Len(memmap) :
              Loops[k + 5] = HigherHalf(memmap[k].base, memmap[k].length, TRUE)
         /\ Loops[Len(memmap) + 6] = HigherHalf(0, FourGiB, FALSE)
<1> DEFINE own == << HigherHalf(physical_base + ImageLength, Stack, TRUE),
                     Section(0, Requests, TRUE, FALSE),
                     Section(Requests, Text, FALSE, FALSE),
                     Section(Requests + Text, Rodata, FALSE, TRUE),
                     Section(Requests + Text + Rodata, Data, TRUE, TRUE) >>
           all == [k \in DOMAIN memmap |->
                     HigherHalf(memmap[k].base, memmap[k].length, TRUE)]
           low == MapsLow
<1>1. /\ physical_base \in Nat /\ ImageLength \in Nat
      /\ hhdm_offset \in Nat /\ virtual_base \in Nat /\ Requests \in Nat /\ Text \in Nat
      /\ Rodata \in Nat /\ Data \in Nat /\ Stack \in Nat /\ FourGiB \in Nat
  BY KernelPlace, LengthFacts
<1>2. /\ Len(memmap) \in Nat /\ DOMAIN memmap = 1 .. Len(memmap)
      /\ \A k \in 1 .. Len(memmap) : memmap[k].base \in Nat /\ memmap[k].length \in Nat
  BY EntryFacts
<1>3. \A first \in Nat, length \in Nat, nx \in BOOLEAN :
        HigherHalf(first, length, nx) \in MapLoops
  BY <1>1 DEF HigherHalf, MapLoop, MapLoops
<1>4. \A offset \in Nat, length \in Nat, writable \in BOOLEAN, nx \in BOOLEAN :
        Section(offset, length, writable, nx) \in MapLoops
  BY <1>1 DEF Section, MapLoop, MapLoops
<1>5. Requests + Text \in Nat /\ Requests + Text + Rodata \in Nat
      /\ physical_base + ImageLength \in Nat
  BY <1>1
<1>6. own \in Seq(MapLoops) /\ Len(own) = 5
  <2>1. /\ HigherHalf(physical_base + ImageLength, Stack, TRUE) \in MapLoops
        /\ Section(0, Requests, TRUE, FALSE) \in MapLoops
        /\ Section(Requests, Text, FALSE, FALSE) \in MapLoops
        /\ Section(Requests + Text, Rodata, FALSE, TRUE) \in MapLoops
        /\ Section(Requests + Text + Rodata, Data, TRUE, TRUE) \in MapLoops
    BY <1>1, <1>3, <1>4, <1>5
  <2> QED
    BY <2>1, FiveInSeq
<1>7. all \in Seq(MapLoops) /\ Len(all) = Len(memmap)
  <2>1. all \in [1 .. Len(memmap) -> MapLoops]
    BY <1>2, <1>3
  <2> HIDE DEF all
  <2> QED
    BY <1>2, <2>1, FunctionIsSeq
<1>8. low \in Seq(MapLoops) /\ Len(low) = 1 /\ low[1] = HigherHalf(0, FourGiB, FALSE)
  <2>1. HigherHalf(0, FourGiB, FALSE) \in MapLoops
    BY <1>1, <1>3
  <2> QED
    BY <2>1, OneInSeq DEF MapsLow
<1>9. Loops = own \o all \o low
  BY DEF Loops
<1>10. /\ own[1] = HigherHalf(physical_base + ImageLength, Stack, TRUE)
       /\ own[2] = Section(0, Requests, TRUE, FALSE)
       /\ own[3] = Section(Requests, Text, FALSE, FALSE)
       /\ own[4] = Section(Requests + Text, Rodata, FALSE, TRUE)
       /\ own[5] = Section(Requests + Text + Rodata, Data, TRUE, TRUE)
  OBVIOUS
<1>11. \A k \in 1 .. Len(memmap) :
         all[k] = HigherHalf(memmap[k].base, memmap[k].length, TRUE)
  BY <1>2
<1> HIDE DEF own, all, low
<1> DEFINE both == own \o all
<1>12. /\ both \in Seq(MapLoops) /\ Len(both) = 5 + Len(memmap)
       /\ \A n \in 1 .. 5 + Len(memmap) :
            both[n] = IF n <= 5 THEN own[n] ELSE all[n - 5]
  <2>1. own \in Seq(MapLoops) /\ all \in Seq(MapLoops)
    BY <1>6, <1>7
  <2>2. /\ both \in Seq(MapLoops) /\ Len(both) = Len(own) + Len(all)
        /\ \A n \in 1 .. Len(own) + Len(all) :
             both[n] = IF n <= Len(own) THEN own[n] ELSE all[n - Len(own)]
    BY <2>1, ConcatProperties
  <2> QED
    BY <1>6, <1>7, <2>2
<1> HIDE DEF both
<1>13. /\ Len(both \o low) = (5 + Len(memmap)) + 1
       /\ \A n \in 1 .. (5 + Len(memmap)) + 1 :
            (both \o low)[n] = IF n <= 5 + Len(memmap) THEN both[n]
                               ELSE low[n - (5 + Len(memmap))]
  <2>1. both \in Seq(MapLoops) /\ low \in Seq(MapLoops)
    BY <1>8, <1>12
  <2>2. /\ Len(both \o low) = Len(both) + Len(low)
        /\ \A n \in 1 .. Len(both) + Len(low) :
             (both \o low)[n] = IF n <= Len(both) THEN both[n] ELSE low[n - Len(both)]
    BY <2>1, ConcatProperties
  <2> QED
    BY <1>8, <1>12, <2>2
<1>14. Loops = both \o low
  BY <1>9 DEF both
<1>15. /\ Len(Loops) = Len(memmap) + 6
       /\ \A n \in 1 .. Len(memmap) + 6 :
            Loops[n] = IF n <= 5 THEN own[n]
                       ELSE IF n <= 5 + Len(memmap) THEN all[n - 5]
                       ELSE low[n - (5 + Len(memmap))]
  BY <1>2, <1>12, <1>13, <1>14
<1>16. \A k \in 1 .. Len(memmap) : Loops[k + 5] = all[k]
  BY <1>2, <1>15
<1>17. Loops[Len(memmap) + 6] = low[1]
  BY <1>2, <1>15
<1>18. \A n \in 1 .. 5 : Loops[n] = own[n]
  BY <1>2, <1>15
<1>19. /\ Loops[1] = own[1] /\ Loops[2] = own[2] /\ Loops[3] = own[3]
       /\ Loops[4] = own[4] /\ Loops[5] = own[5]
  BY <1>18
<1>20. \A k \in 1 .. Len(memmap) :
         Loops[k + 5] = HigherHalf(memmap[k].base, memmap[k].length, TRUE)
  BY <1>11, <1>16
<1>21. Loops[Len(memmap) + 6] = HigherHalf(0, FourGiB, FALSE)
  BY <1>8, <1>17
<1>22. Len(memmap) \in Nat /\ Len(Loops) = Len(memmap) + 6
  BY <1>2, <1>15
<1> QED
  BY <1>10, <1>19, <1>20, <1>21, <1>22

\* What a round of a loop maps: a page of memory, in the last loop for good ...
HalfRound(l, v, p, writable, nx) ==
  /\ hhdm_offset <= v /\ v < virtual_base /\ p = v - hhdm_offset
  /\ writable /\ (nx <=> l # Len(Loops))

\* ... or a page of the image.
ImageRound(l, v, p, writable, nx) ==
  /\ virtual_base <= v /\ v - virtual_base < ImageLength /\ l # Len(Loops)
  /\ p = physical_base + (v - virtual_base)
  /\ writable <=> v - virtual_base < Requests \/ v - virtual_base >= Requests + Text + Rodata
  /\ nx <=> v - virtual_base >= Requests + Text

LEMMA HigherHalfRound ==
  ASSUME NEW first \in Nat, NEW length \in Nat, NEW nx \in BOOLEAN,
         hhdm_offset + (first + length) <= virtual_base,
         NEW q \in Nat, q < length, NEW l, nx <=> l # Len(Loops),
         NEW r, r = HigherHalf(first, length, nx)
  PROVE  HalfRound(l, r.virt + q, r.phys + q, r.writable, r.nx)
<1>1. hhdm_offset \in Nat /\ virtual_base \in Nat
  BY LengthFacts
<1>2. /\ r.virt = hhdm_offset + first /\ r.phys = first
      /\ r.nx = nx /\ r.writable = TRUE
  BY DEF HigherHalf, MapLoop
<1>3. /\ hhdm_offset <= hhdm_offset + first + q /\ hhdm_offset + first + q < virtual_base
      /\ first + q = (hhdm_offset + first + q) - hhdm_offset
  BY <1>1
<1> QED
  BY <1>2, <1>3 DEF HalfRound

LEMMA SectionRound ==
  ASSUME physical_base \in Nat, NEW offset \in Nat, NEW length \in Nat,
         NEW writable \in BOOLEAN, NEW nx \in BOOLEAN, NEW q \in Nat, q < length,
         NEW r, r = Section(offset, length, writable, nx)
  PROVE  /\ r \in MapLoops /\ r.length = length /\ r.nx = nx /\ r.writable = writable
         /\ r.virt + q \in Nat /\ virtual_base <= r.virt + q
         /\ (r.virt + q) - virtual_base = offset + q
         /\ r.phys + q = physical_base + (offset + q)
<1>1. virtual_base \in Nat
  BY LengthFacts
<1>2. /\ r = [virt |-> virtual_base + offset, phys |-> physical_base + offset,
              length |-> length, writable |-> writable, nx |-> nx]
  BY DEF Section, MapLoop
<1>3. /\ r \in MapLoops /\ r.virt = virtual_base + offset /\ r.phys = physical_base + offset
      /\ r.length = length /\ r.nx = nx /\ r.writable = writable
  BY <1>1, <1>2 DEF MapLoops
<1>4. /\ virtual_base + offset + q \in Nat /\ virtual_base <= virtual_base + offset + q
      /\ (virtual_base + offset + q) - virtual_base = offset + q
      /\ physical_base + offset + q = physical_base + (offset + q)
  BY <1>1
<1> QED
  BY <1>3, <1>4

\* What a section's round is.
SectionSound(l) ==
  \A q \in Nat : q < Loops[l].length =>
    ImageRound(l, Loops[l].virt + q, Loops[l].phys + q, Loops[l].writable, Loops[l].nx)

LEMMA SectionsSound ==
  ASSUME MapInv, MapKept, NEW l \in 2 .. 5
  PROVE  SectionSound(l) /\ Loops[l] \in MapLoops
<1>1. /\ physical_base \in Nat /\ ImageLength \in Nat
      /\ Requests \in Nat /\ Text \in Nat /\ Rodata \in Nat /\ Data \in Nat
      /\ ImageLength = Requests + Text + Rodata + Data
  BY KernelPlace, LengthFacts
<1>2. Len(Loops) = Len(memmap) + 6 /\ Len(memmap) \in Nat
  BY LoopsAre
<1>3. l # Len(Loops)
  BY <1>2
<1>4. Requests + Text \in Nat /\ Requests + Text + Rodata \in Nat
  BY <1>1
<1>5. ASSUME NEW offset \in Nat, NEW length \in Nat, NEW writable \in BOOLEAN,
             NEW nx \in BOOLEAN, Loops[l] = Section(offset, length, writable, nx),
             offset + length <= ImageLength,
             \A s \in Nat : offset <= s /\ s < offset + length =>
               /\ writable <=> s < Requests \/ s >= Requests + Text + Rodata
               /\ nx <=> s >= Requests + Text
      PROVE  SectionSound(l) /\ Loops[l] \in MapLoops
  <2>1. ASSUME NEW q \in Nat, q < Loops[l].length
        PROVE  ImageRound(l, Loops[l].virt + q, Loops[l].phys + q, Loops[l].writable,
                          Loops[l].nx)
    <3>1. Loops[l].length = length
      BY <1>5 DEF Section, MapLoop
    <3>2. /\ Loops[l].nx = nx /\ Loops[l].writable = writable
          /\ virtual_base <= Loops[l].virt + q
          /\ (Loops[l].virt + q) - virtual_base = offset + q
          /\ Loops[l].phys + q = physical_base + (offset + q)
      BY <1>1, <1>5, <2>1, <3>1, SectionRound
    <3>3. offset + q \in Nat /\ offset <= offset + q /\ offset + q < offset + length
          /\ offset + q < ImageLength
      BY <1>1, <1>5, <2>1, <3>1
    <3>4. /\ writable <=> offset + q < Requests \/ offset + q >= Requests + Text + Rodata
          /\ nx <=> offset + q >= Requests + Text
      BY <1>5, <3>3
    <3> QED
      BY <1>3, <3>2, <3>3, <3>4 DEF ImageRound
  <2>2. Loops[l] \in MapLoops
    <3>1. virtual_base \in Nat
      BY LengthFacts
    <3> QED
      BY <1>1, <1>5, <3>1 DEF Section, MapLoop, MapLoops
  <2> QED
    BY <2>1, <2>2 DEF SectionSound
<1>6. CASE l = 2
  <2>1. Loops[l] = Section(0, Requests, TRUE, FALSE)
    BY <1>6, LoopsAre
  <2>2. \A s \in Nat : 0 <= s /\ s < 0 + Requests =>
          /\ TRUE <=> s < Requests \/ s >= Requests + Text + Rodata
          /\ FALSE <=> s >= Requests + Text
    BY <1>1
  <2>3. 0 + Requests <= ImageLength
    BY <1>1
  <2> QED
    BY <1>1, <1>5, <2>1, <2>2, <2>3
<1>7. CASE l = 3
  <2>1. Loops[l] = Section(Requests, Text, FALSE, FALSE)
    BY <1>7, LoopsAre
  <2>2. \A s \in Nat : Requests <= s /\ s < Requests + Text =>
          /\ FALSE <=> s < Requests \/ s >= Requests + Text + Rodata
          /\ FALSE <=> s >= Requests + Text
    BY <1>1
  <2>3. Requests + Text <= ImageLength
    BY <1>1
  <2> QED
    BY <1>1, <1>5, <2>1, <2>2, <2>3
<1>8. CASE l = 4
  <2>1. Loops[l] = Section(Requests + Text, Rodata, FALSE, TRUE)
    BY <1>8, LoopsAre
  <2>2. \A s \in Nat : Requests + Text <= s /\ s < Requests + Text + Rodata =>
          /\ FALSE <=> s < Requests \/ s >= Requests + Text + Rodata
          /\ TRUE <=> s >= Requests + Text
    BY <1>1
  <2>3. Requests + Text + Rodata <= ImageLength
    BY <1>1
  <2> QED
    BY <1>1, <1>4, <1>5, <2>1, <2>2, <2>3
<1>9. CASE l = 5
  <2>1. Loops[l] = Section(Requests + Text + Rodata, Data, TRUE, TRUE)
    BY <1>9, LoopsAre
  <2>2. \A s \in Nat : Requests + Text + Rodata <= s /\ s < Requests + Text + Rodata + Data =>
          /\ TRUE <=> s < Requests \/ s >= Requests + Text + Rodata
          /\ TRUE <=> s >= Requests + Text
    BY <1>1
  <2>3. Requests + Text + Rodata + Data <= ImageLength
    BY <1>1
  <2> QED
    BY <1>1, <1>4, <1>5, <2>1, <2>2, <2>3
<1> QED
  BY <1>6, <1>7, <1>8, <1>9

\* What any round is.
LEMMA RoundsAre ==
  ASSUME MapInv, MapKept, hhdm_offset + FourGiB <= virtual_base,
         NEW l \in 1 .. Len(Loops)
  PROVE  /\ Loops[l] \in MapLoops
         /\ \A q \in Nat : q < Loops[l].length =>
              \/ HalfRound(l, Loops[l].virt + q, Loops[l].phys + q,
                           Loops[l].writable, Loops[l].nx)
              \/ ImageRound(l, Loops[l].virt + q, Loops[l].phys + q,
                            Loops[l].writable, Loops[l].nx)
<1>1. /\ hhdm_offset \in Nat /\ virtual_base \in Nat /\ Stack \in Nat /\ FourGiB \in Nat
      /\ ImageLength \in Nat /\ physical_base \in Nat
      /\ hhdm_offset + (physical_base + (ImageLength + Stack)) <= virtual_base
  BY KernelPlace, LengthFacts
<1>2. /\ Len(memmap) \in Nat /\ Len(Loops) = Len(memmap) + 6
      /\ Loops[1] = HigherHalf(physical_base + ImageLength, Stack, TRUE)
      /\ \A k \in 1 .. Len(memmap) :
           Loops[k + 5] = HigherHalf(memmap[k].base, memmap[k].length, TRUE)
      /\ Loops[Len(memmap) + 6] = HigherHalf(0, FourGiB, FALSE)
  BY LoopsAre
<1>3. /\ DOMAIN memmap = 1 .. Len(memmap)
      /\ \A k \in 1 .. Len(memmap) : memmap[k].base \in Nat /\ memmap[k].length \in Nat
  BY EntryFacts
<1>4. ASSUME NEW first \in Nat, NEW length \in Nat, NEW nx \in BOOLEAN,
             hhdm_offset + (first + length) <= virtual_base,
             Loops[l] = HigherHalf(first, length, nx), nx <=> l # Len(Loops)
      PROVE  /\ Loops[l] \in MapLoops
             /\ \A q \in Nat : q < Loops[l].length =>
                  HalfRound(l, Loops[l].virt + q, Loops[l].phys + q,
                            Loops[l].writable, Loops[l].nx)
  <2>1. Loops[l] \in MapLoops /\ Loops[l].length = length
    BY <1>1, <1>4 DEF HigherHalf, MapLoop, MapLoops
  <2>2. ASSUME NEW q \in Nat, q < Loops[l].length
        PROVE  HalfRound(l, Loops[l].virt + q, Loops[l].phys + q,
                         Loops[l].writable, Loops[l].nx)
    <3>1. q < length
      BY <2>1, <2>2
    <3> QED
      BY <1>4, <3>1, HigherHalfRound
  <2> QED
    BY <2>1, <2>2
<1>5. CASE l = 1
  <2>1. /\ physical_base + ImageLength \in Nat
        /\ hhdm_offset + (physical_base + ImageLength + Stack) <= virtual_base
        /\ l # Len(Loops)
    BY <1>1, <1>2, <1>5
  <2> QED
    BY <1>1, <1>2, <1>4, <1>5, <2>1
<1>6. CASE l \in 2 .. 5
  BY <1>6, SectionsSound DEF SectionSound
<1>7. CASE l \in 6 .. Len(memmap) + 5
  <2>1. PICK k \in 1 .. Len(memmap) : l = k + 5
    <3>1. l - 5 \in 1 .. Len(memmap) /\ l = (l - 5) + 5
      BY <1>2, <1>7
    <3> QED
      BY <3>1
  <2>2. Loops[l] = HigherHalf(memmap[k].base, memmap[k].length, TRUE)
    BY <1>2, <2>1
  <2>3. l # Len(Loops)
    BY <1>2, <1>7
  <2>4. hhdm_offset + (memmap[k].base + memmap[k].length) <= virtual_base
    BY <1>3 DEF MapKept
  <2> QED
    BY <1>3, <1>4, <2>2, <2>3, <2>4
<1>8. CASE l = Len(memmap) + 6
  <2>1. hhdm_offset + (0 + FourGiB) <= virtual_base
    BY <1>1
  <2> QED
    BY <1>1, <1>2, <1>4, <1>8, <2>1
<1>9. \/ l = 1 \/ l \in 2 .. 5 \/ l \in 6 .. Len(memmap) + 5 \/ l = Len(memmap) + 6
  BY <1>2
<1> QED
  BY <1>5, <1>6, <1>7, <1>8, <1>9

-----------------------------------------------------------------------------
(* What is mapped so far *)

\* The last loop has come to page p, or past it.
Lowered(p) == p < FourGiB /\ (loop > Len(Loops) \/ (loop = Len(Loops) /\ p < page))

\* The entry for address v, if there is one.
Expected(v) ==
  IF v < virtual_base THEN Entry(v - hhdm_offset, TRUE, ~Lowered(v - hhdm_offset))
  ELSE Entry(physical_base + (v - virtual_base),
             v - virtual_base < Requests \/ v - virtual_base >= Requests + Text + Rodata,
             v - virtual_base >= Requests + Text)

Passed(l, q) ==
  q < Loops[l].length /\ (l < loop \/ (l = loop /\ q < page))

PassedMapped ==
  \A l \in 1 .. Len(Loops), q \in Nat :
    Passed(l, q) => Mapped(mem, Loops[l].virt + q, Expected(Loops[l].virt + q))

MapsSound ==
  /\ \E lev, pre : Tree(mem, lev, pre)
  /\ Apart(mem, free) /\ free \subseteq Nat
  /\ loop \in Nat \ {0} /\ page \in Nat
  /\ PassedMapped
  /\ vmm = "returned" => loop > Len(Loops)

MapsInv ==
  /\ vmm # "waits" => pc = "done" /\ bitmap # NULL
  /\ vmm = "waits" => loop = 1 /\ page = 0
  /\ vmm \in {"maps", "returned"} => MapsSound

MachineInv == BootInv /\ MapKept /\ MapsInv

LEMMA ClearBitsNat == ASSUME TypeOK PROVE ClearBits \subseteq Nat
  BY DEF TypeOK, ClearBits

LEMMA MachineInit == ASSUME BootInit PROVE MachineInv
<1>1. BootInv
  BY BootInvInit DEF BootInit
<1>2. MapKept
  BY VmmBootLayout DEF BootInit, Init, MapKept
<1>3. MapsInv
  BY DEF BootInit, MapsInv
<1> QED
  BY <1>1, <1>2, <1>3 DEF MachineInv

\* pmm_init changes the map in one place, where it takes pages from the front
\* of an entry that is usable.
LEMMA StepPmmInit == ASSUME MachineInv, PmmInit PROVE MachineInv'
<1>1. BootInv /\ MapKept /\ MapsInv /\ Next
      /\ UNCHANGED << physical_base, vmm, kernel_pagemap, mem, free, loop, page >>
  BY DEF MachineInv, PmmInit
<1>2. BootInv'
  BY <1>1, StepStart, StepCountEntry, StepSizeBitmap, StepPlaceBitmap, StepSkipEntry,
     StepNoPlace, StepClearEntry, StepReturn DEF Next
<1>3. pc # "done"
  BY <1>1 DEF Next, Start, CountEntry, SizeBitmap, PlaceBitmap, SkipEntry, NoPlace,
              ClearEntry, Return
<1>4. vmm = "waits" /\ loop = 1 /\ page = 0
  BY <1>1, <1>3 DEF MapsInv
<1>5. MapsInv'
  BY <1>1, <1>4 DEF MapsInv
<1>6. MapKept'
  <2>1. CASE UNCHANGED memmap
    BY <1>1, <2>1 DEF MapKept
  <2>2. CASE PlaceBitmap
    <3> DEFINE n == bitmap_size \div PageBytes
    <3>1. MapInv /\ bitmap_size \in Nat /\ i \in Nat
      BY <1>1 DEF BootInv, TypeOK
    <3>2. n \in Nat
      BY <3>1, PmmBootAssumption, DivAbove
    <3>3. memmap' = [memmap EXCEPT ![i] = Shrink(memmap[i], n)] /\ memmap[i].usable
          /\ i \in 1 .. Len(memmap)
      <4>1. /\ memmap' = [memmap EXCEPT ![i] = Shrink(memmap[i], n)]
            /\ memmap[i].usable /\ i <= Len(memmap)
        BY <2>2 DEF PlaceBitmap, Holds
      <4>2. i >= 1
        BY <1>1 DEF BootInv, TypeOK
      <4>3. Len(memmap) \in Nat
        BY <3>1, EntryFacts
      <4> QED
        BY <3>1, <4>1, <4>2, <4>3
    <3> HIDE DEF n
    <3>4. i \in DOMAIN memmap /\ memmap[i] \in MapEntry
      BY <3>1, <3>3, EntryFacts
    <3>5. /\ Shrink(memmap[i], n).base = memmap[i].base + n
          /\ Shrink(memmap[i], n).length = memmap[i].length - n
      BY <3>4 DEF Shrink, MapEntry
    <3>6. /\ DOMAIN memmap' = DOMAIN memmap
          /\ memmap'[i] = Shrink(memmap[i], n)
          /\ \A k \in DOMAIN memmap : k # i => memmap'[k] = memmap[k]
      BY <3>3, <3>4
    <3>7. memmap[i].base \in Nat /\ memmap[i].length \in Nat
      BY <3>1, <3>4, EntryFacts
    <3>8. memmap'[i].base + memmap'[i].length = memmap[i].base + memmap[i].length
      BY <3>2, <3>5, <3>6, <3>7
    <3>9. \A k \in DOMAIN memmap' :
            hhdm_offset + (memmap'[k].base + memmap'[k].length) <= virtual_base
      BY <1>1, <3>6, <3>8 DEF MapKept
    <3>10. PICK k \in DOMAIN memmap :
             HoldsKernel(memmap[k]) /\ physical_base = memmap[k].base
      BY <1>1 DEF MapKept
    <3>11. k # i
      BY <3>3, <3>10 DEF HoldsKernel
    <3>12. memmap'[k] = memmap[k] /\ k \in DOMAIN memmap'
      BY <3>6, <3>11
    <3> QED
      BY <1>1, <3>9, <3>10, <3>12 DEF MapKept, HoldsKernel
  <2>3. UNCHANGED memmap \/ PlaceBitmap
    BY <1>1 DEF Next, Start, CountEntry, SizeBitmap, SkipEntry, NoPlace, ClearEntry, Return
  <2> QED
    BY <2>1, <2>2, <2>3
<1> QED
  BY <1>2, <1>5, <1>6 DEF MachineInv

LEMMA StepNewPagemap == ASSUME MachineInv, NewPagemap PROVE MachineInv'
<1>1. BootInv /\ MapKept /\ MapsInv /\ UNCHANGED << vars, physical_base, loop, page >>
      /\ pc = "done" /\ bitmap # NULL /\ vmm = "waits" /\ loop = 1 /\ page = 0
  BY DEF MachineInv, NewPagemap, MapsInv
<1>2. BootInv'
  BY <1>1, StepStutter
<1>3. MapKept'
  BY <1>1 DEF MapKept, vars
<1>4. pc' = "done" /\ bitmap' # NULL
  BY <1>1 DEF vars, NULL
<1>5. CASE ClearBits = {}
  <2>1. vmm' = "halted"
    BY <1>5 DEF NewPagemap
  <2> QED
    BY <1>2, <1>3, <1>4, <2>1 DEF MachineInv, MapsInv
<1>6. CASE ClearBits # {}
  <2>0. PICK f : f = Lowest(ClearBits)
    OBVIOUS
  <2> DEFINE lev == [g \in {f} |-> 0]
  <2>1. /\ vmm' = "maps" /\ kernel_pagemap' = f /\ mem' = [g \in {f} |-> EmptyTable]
        /\ free' = ClearBits \ {f}
    BY <1>6, <2>0 DEF NewPagemap
  <2>2. ClearBits \subseteq Nat
    BY <1>1, ClearBitsNat DEF BootInv
  <2>3. f \in ClearBits /\ f \in Nat
    BY <1>6, <2>0, <2>2, LowestIn
  <2>4. DOMAIN mem' = {f} /\ mem'[f] = EmptyTable /\ mem' = [g \in DOMAIN mem' |-> mem'[g]]
    BY <2>1
  <2>5. EmptyTable \in Tables /\ \A j \in 0 .. Radix - 1 : ~EmptyTable[j].present
    BY DEF EmptyTable, Absent, Tables, TableEntries, NULL
  <2>6. mem' \in Memories
    BY <2>3, <2>4, <2>5, MakesMemory
  <2>7. 0 \in 0 .. Levels - 1
    BY LevelFacts
  <2>8. Tree(mem, lev, lev)'
    <3>1. lev \in [{f} -> 0 .. Levels - 1] /\ lev \in [{f} -> Nat] /\ lev[f] = 0
      BY <2>7
    <3> HIDE DEF lev
    <3>2. \A g \in DOMAIN mem', j \in 0 .. Radix - 1 : LinkSound(mem', lev, lev, g, j)
      BY <2>4, <2>5 DEF LinkSound
    <3> QED
      BY <2>1, <2>4, <2>6, <3>1, <3>2 DEF Tree
  <2>9. (\E a, b : Tree(mem, a, b))'
    BY <2>8
  <2>10. Apart(mem, free)' /\ free' \subseteq Nat
    <3>1. ClearBits' = ClearBits
      BY <1>1 DEF ClearBits, vars
    <3> QED
      BY <2>1, <2>2, <2>3, <2>4, <3>1 DEF Apart
  <2>11. PassedMapped'
    <3>1. \A l \in (1 .. Len(Loops))', q \in Nat : ~Passed(l, q)'
      BY <1>1 DEF Passed
    <3> QED
      BY <3>1 DEF PassedMapped
  <2>12. MapsSound'
    BY <1>1, <2>1, <2>9, <2>10, <2>11 DEF MapsSound
  <2> QED
    BY <1>2, <1>3, <1>4, <2>1, <2>12 DEF MachineInv, MapsInv
<1> QED
  BY <1>5, <1>6

LEMMA LoopsKept ==
  ASSUME memmap' = memmap, physical_base' = physical_base
  PROVE  Loops' = Loops
  BY DEF Loops, HigherHalf, Section, MapsLow

LEMMA TypesOfEntries ==
  ASSUME NEW p \in Nat, NEW writable \in BOOLEAN, NEW nx \in BOOLEAN
  PROVE  /\ Entry(p, writable, nx) \in TableEntries /\ Entry(p, writable, nx).present
         /\ Entry(p, writable, nx).to = p
         /\ Entry(p, writable, nx).writable = writable /\ Entry(p, writable, nx).nx = nx
  BY DEF Entry, TableEntries

\* The addresses of the rounds, and what is expected there.
LEMMA RoundFacts ==
  ASSUME MapInv, MapKept, NEW l \in 1 .. Len(Loops),
         NEW q \in Nat, q < Loops[l].length
  PROVE  /\ Loops[l].virt + q \in Nat
         /\ Shifted(Loops[l].virt + q)[Levels] = 0
         /\ Expected(Loops[l].virt + q).present
         /\ Loops[l].virt + q < virtual_base => Loops[l].virt + q >= hhdm_offset
<1>1. Loops[l] \in MapLoops
      /\ \/ HalfRound(l, Loops[l].virt + q, Loops[l].phys + q,
                      Loops[l].writable, Loops[l].nx)
         \/ ImageRound(l, Loops[l].virt + q, Loops[l].phys + q,
                       Loops[l].writable, Loops[l].nx)
  BY RoundsAre, VmmBootLayout
<1>2. /\ hhdm_offset \in Nat /\ virtual_base \in Nat /\ ImageLength \in Nat
  BY LengthFacts
<1> DEFINE v == Loops[l].virt + q
<1>3. v \in Nat
  BY <1>1 DEF MapLoops
<1>4. v \in 0 .. virtual_base + ImageLength - 1
  <2>1. v < virtual_base \/ v - virtual_base < ImageLength
    BY <1>1 DEF HalfRound, ImageRound
  <2> HIDE DEF v
  <2> QED
    BY <1>2, <1>3, <2>1
<1>5. Shifted(v)[Levels] = 0
  BY <1>4, VmmBootLayout
<1>6. Expected(v).present
  BY DEF Expected, Entry
<1>7. v < virtual_base => v >= hhdm_offset
  <2>1. v >= hhdm_offset \/ v >= virtual_base
    BY <1>1 DEF HalfRound, ImageRound
  <2> HIDE DEF v
  <2> QED
    BY <1>2, <1>3, <2>1
<1> QED
  BY <1>3, <1>5, <1>6, <1>7

\* MapPage writes what is expected from then on, and expects nothing else anew.
LEMMA ExpectedNext ==
  ASSUME MapInv, MapKept, loop \in 1 .. Len(Loops), page \in Nat,
         page < Loops[loop].length, loop' = loop, page' = page + 1,
         memmap' = memmap, physical_base' = physical_base,
         NEW v, v = Loops[loop].virt + page, NEW p, p = Loops[loop].phys + page,
         NEW writable, writable = Loops[loop].writable, NEW nx, nx = Loops[loop].nx
  PROVE  /\ Entry(p, writable, nx) = Expected(v)'
         /\ Entry(p, writable, nx) \in TableEntries /\ Entry(p, writable, nx).present
         /\ \A w \in Nat : w # v => Expected(w)' = Expected(w)
<1>1. Loops[loop] \in MapLoops
      /\ (HalfRound(loop, v, p, writable, nx) \/ ImageRound(loop, v, p, writable, nx))
  BY RoundsAre, VmmBootLayout
<1>2. /\ hhdm_offset \in Nat /\ virtual_base \in Nat /\ FourGiB \in Nat
      /\ Requests \in Nat /\ Text \in Nat /\ Rodata \in Nat
  BY LengthFacts
<1>3. Loops' = Loops
  BY LoopsKept
<1>4. loop \in Nat /\ Len(Loops) \in Nat
  BY LoopsAre
<1>5. /\ v \in Nat /\ p \in Nat /\ writable \in BOOLEAN /\ nx \in BOOLEAN
  BY <1>1 DEF MapLoops
<1>6. ASSUME loop = Len(Loops)
      PROVE  v = hhdm_offset + page /\ p = page /\ page < FourGiB
  <2>1. Loops[loop] = HigherHalf(0, FourGiB, FALSE)
    BY <1>6, LoopsAre
  <2>2. /\ Loops[loop].virt = hhdm_offset /\ Loops[loop].phys = 0
        /\ Loops[loop].length = FourGiB
    BY <1>2, <2>1 DEF HigherHalf, MapLoop
  <2> QED
    BY <2>2
<1>7. ASSUME NEW x \in Int
      PROVE  Lowered(x)' <=> Lowered(x) \/ (loop = Len(Loops) /\ x = page)
  <2>1. Lowered(x)' <=> x < FourGiB /\ (loop > Len(Loops) \/ (loop = Len(Loops) /\ x < page + 1))
    BY <1>3 DEF Lowered
  <2>2. ~(loop > Len(Loops))
    BY <1>4
  <2>3. x < page + 1 <=> x < page \/ x = page
    OBVIOUS
  <2>4. loop = Len(Loops) => page < FourGiB
    BY <1>6
  <2> QED
    BY <2>1, <2>2, <2>3, <2>4 DEF Lowered
<1>8. ASSUME NEW w \in Nat, w # v PROVE Expected(w)' = Expected(w)
  <2>1. w < virtual_base => (Lowered(w - hhdm_offset)' <=> Lowered(w - hhdm_offset))
    <3>1. w - hhdm_offset \in Int
      BY <1>2
    <3>2. loop = Len(Loops) => w - hhdm_offset # page
      BY <1>2, <1>6, <1>8
    <3> QED
      BY <1>7, <3>1, <3>2
  <2>2. CASE w < virtual_base
    <3>1. /\ Expected(w) = Entry(w - hhdm_offset, TRUE, ~Lowered(w - hhdm_offset))
          /\ Expected(w)' = Entry(w - hhdm_offset, TRUE, ~Lowered(w - hhdm_offset)')
      BY <2>2 DEF Expected
    <3>2. (~Lowered(w - hhdm_offset)) = (~Lowered(w - hhdm_offset)')
      BY <2>1, <2>2
    <3> QED
      BY <3>1, <3>2
  <2>3. CASE ~(w < virtual_base)
    BY <2>3 DEF Expected
  <2> QED
    BY <2>2, <2>3
<1>9. ASSUME HalfRound(loop, v, p, writable, nx)
      PROVE  Entry(p, writable, nx) = Expected(v)'
  <2>1. /\ v < virtual_base /\ v - hhdm_offset = p /\ writable = TRUE
        /\ nx <=> loop # Len(Loops)
    BY <1>5, <1>9 DEF HalfRound
  <2>2. Lowered(p)' <=> loop = Len(Loops)
    <3>1. CASE loop = Len(Loops)
      BY <1>5, <1>6, <1>7, <3>1
    <3>2. CASE loop # Len(Loops)
      <4>1. ~(loop > Len(Loops))
        BY <1>4
      <4>2. ~Lowered(p)
        BY <3>2, <4>1 DEF Lowered
      <4> QED
        BY <1>5, <1>7, <3>2, <4>2
    <3> QED
      BY <3>1, <3>2
  <2>3. v - hhdm_offset = p
    BY <2>1
  <2> DEFINE b == ~Lowered(p)'
  <2>4. b = nx
    BY <1>5, <2>1, <2>2
  <2>5. Expected(v)' = Entry(v - hhdm_offset, TRUE, ~Lowered(v - hhdm_offset)')
    BY <2>1 DEF Expected
  <2>6. Expected(v)' = Entry(p, TRUE, b)
    BY <2>3, <2>5
  <2> HIDE DEF b
  <2> QED
    BY <2>1, <2>4, <2>6
<1>10. ASSUME ImageRound(loop, v, p, writable, nx)
       PROVE  Entry(p, writable, nx) = Expected(v)'
  <2> DEFINE a == v - virtual_base < Requests \/ v - virtual_base >= Requests + Text + Rodata
             b == v - virtual_base >= Requests + Text
  <2>1. ~(v < virtual_base) /\ p = physical_base + (v - virtual_base)
    BY <1>2, <1>5, <1>10 DEF ImageRound
  <2>2. writable = a /\ nx = b
    BY <1>5, <1>10 DEF ImageRound
  <2>3. Expected(v)' = Entry(physical_base + (v - virtual_base), a, b)
    BY <2>1 DEF Expected
  <2> HIDE DEF a, b
  <2> QED
    BY <2>1, <2>2, <2>3
<1>11. Entry(p, writable, nx) \in TableEntries /\ Entry(p, writable, nx).present
  BY <1>5, TypesOfEntries
<1>12. Entry(p, writable, nx) = Expected(v)'
  BY <1>1, <1>9, <1>10
<1> QED
  BY <1>8, <1>11, <1>12

\* What vmm_map does when no request for a table fails.
LEMMA MapKeepsTree ==
  ASSUME \E lev, pre : Tree(mem, lev, pre), Apart(mem, free), free \subseteq Nat,
         NEW v \in Nat, Shifted(v)[Levels] = 0, NEW p, NEW writable, NEW nx,
         Entry(p, writable, nx) \in TableEntries, Entry(p, writable, nx).present,
         NEW s, s = vmm_map(v, p, writable, nx), s.table # NULL
  PROVE  /\ MapsOnly(s.mem, v, Entry(p, writable, nx))
         /\ Apart(s.mem, s.free) /\ s.free \subseteq Nat
<1> DEFINE e == Entry(p, writable, nx)
           j == page_index(v, Levels)
<1>1. PICK t : /\ Arrived(t, v)
               /\ s = Written(t, v, e)
  BY MapArrives
<1> HIDE DEF e, j
<1>2. t.table # NULL
  BY <1>1 DEF Written
<1>3. t \in WalkStates /\ Reached(t, mem, v, Levels - 1)
  BY <1>1, <1>2 DEF Arrived
<1>4. /\ t = [table |-> t.table, mem |-> t.mem, free |-> t.free]
      /\ t.free \subseteq Nat
  BY <1>3 DEF WalkStates
<1>5. s = [t EXCEPT !.mem = LeafWritten(t.mem, t.table, j, e)]
  BY <1>1, <1>2 DEF LeafWritten, Written, j
<1>6. s.mem = LeafWritten(t.mem, t.table, j, e) /\ s.free = t.free
  BY <1>4, <1>5
<1>7. /\ MapsOnly(LeafWritten(t.mem, t.table, j, e), v, e)
      /\ DOMAIN LeafWritten(t.mem, t.table, j, e) = DOMAIN t.mem
  BY <1>3, LeafMaps DEF e, j
<1>8. Apart(s.mem, s.free)
  BY <1>3, <1>6, <1>7 DEF Apart, Reached
<1> QED
  BY <1>4, <1>6, <1>7, <1>8 DEF e

LEMMA StepMapPage == ASSUME MachineInv, MapPage PROVE MachineInv'
<1>1. /\ BootInv /\ MapKept /\ MapsInv /\ MapsSound /\ MapInv
      /\ vmm = "maps" /\ loop <= Len(Loops) /\ page < Loops[loop].length
      /\ loop' = loop /\ page' = page + 1 /\ kernel_pagemap' = kernel_pagemap
      /\ UNCHANGED vars /\ physical_base' = physical_base
      /\ loop \in Nat \ {0} /\ page \in Nat
  BY DEF MachineInv, MapPage, MapsInv, MapsSound, BootInv
<1>2. BootInv'
  BY <1>1, StepStutter
<1>3. MapKept'
  BY <1>1 DEF MapKept, vars
<1>4. pc' = "done" /\ bitmap' # NULL /\ memmap' = memmap
  BY <1>1 DEF vars, NULL, MapsInv
<1>5. PICK v, p, writable, nx, s :
        /\ v = Loops[loop].virt + page /\ p = Loops[loop].phys + page
        /\ writable = Loops[loop].writable /\ nx = Loops[loop].nx
        /\ s = vmm_map(v, p, writable, nx)
  OBVIOUS
<1>6. /\ mem' = s.mem /\ free' = s.free
      /\ vmm' = IF s.table = NULL THEN "exhausted" ELSE "maps"
  BY <1>5 DEF MapPage
<1>7. CASE s.table = NULL
  <2>1. vmm' = "exhausted"
    BY <1>6, <1>7
  <2> QED
    BY <1>2, <1>3, <1>4, <2>1 DEF MachineInv, MapsInv
<1>8. CASE s.table # NULL
  <2>1. vmm' = "maps"
    BY <1>6, <1>8
  <2>2. Len(Loops) \in Nat /\ loop \in 1 .. Len(Loops)
    BY <1>1, LoopsAre
  <2> DEFINE e == Entry(p, writable, nx)
  <2>3. /\ e = Expected(v)' /\ e \in TableEntries /\ e.present
        /\ \A w \in Nat : w # v => Expected(w)' = Expected(w)
    BY <1>1, <1>4, <1>5, <2>2, ExpectedNext
  <2>4. v \in Nat /\ Shifted(v)[Levels] = 0
    BY <1>1, <1>5, <2>2, RoundFacts
  <2>5. MapsOnly(s.mem, v, e) /\ Apart(s.mem, s.free) /\ s.free \subseteq Nat
    BY <1>1, <1>5, <1>8, <2>3, <2>4, MapKeepsTree DEF MapsSound
  <2> HIDE DEF e
  <2>6. (\E lev, pre : Tree(mem, lev, pre))'
    BY <1>1, <1>6, <2>5 DEF MapsOnly, Tree
  <2>7. Apart(mem, free)' /\ free' \subseteq Nat
    BY <1>1, <1>6, <2>5 DEF Apart, ClearBits, vars
  <2>8. Loops' = Loops
    BY <1>1, <1>4, LoopsKept
  <2>9. \A w, x : Mapped(s.mem, w, x) => Mapped(mem, w, x)'
    BY <1>1, <1>6 DEF Mapped, Chain
  <2>10. PassedMapped'
    <3> SUFFICES ASSUME NEW l \in 1 .. Len(Loops), NEW q \in Nat, Passed(l, q)',
                        NEW w, w = Loops[l].virt + q
                 PROVE  Mapped(mem, w, Expected(w))'
      BY <2>8 DEF PassedMapped
    <3>1. q < Loops[l].length /\ (l < loop \/ (l = loop /\ q < page + 1))
      BY <1>1, <2>8 DEF Passed
    <3>2. CASE w = v
      <4>1. Mapped(s.mem, v, e)
        BY <2>5 DEF MapsOnly
      <4> QED
        BY <2>3, <2>9, <3>2, <4>1
    <3>3. CASE w # v
      <4>1. ~(l = loop /\ q = page)
        BY <1>5, <3>3
      <4>2. Passed(l, q)
        BY <1>1, <3>1, <4>1 DEF Passed
      <4>3. Mapped(mem, w, Expected(w))
        BY <1>1, <4>2 DEF MapsSound, PassedMapped
      <4>4. w \in Nat /\ Shifted(w)[Levels] = 0 /\ Expected(w).present
        BY <1>1, <3>1, RoundFacts
      <4>5. Mapped(s.mem, w, Expected(w))
        BY <2>5, <3>3, <4>3, <4>4 DEF MapsOnly
      <4> QED
        BY <2>3, <2>9, <3>3, <4>4, <4>5
    <3> QED
      BY <3>2, <3>3
  <2>11. MapsSound'
    BY <1>1, <2>1, <2>6, <2>7, <2>10 DEF MapsSound
  <2> QED
    BY <1>2, <1>3, <1>4, <2>1, <2>11 DEF MachineInv, MapsInv
<1> QED
  BY <1>7, <1>8

LEMMA StepNextLoop == ASSUME MachineInv, NextLoop PROVE MachineInv'
<1>1. /\ BootInv /\ MapKept /\ MapsInv /\ MapsSound /\ MapInv
      /\ vmm = "maps" /\ loop <= Len(Loops) /\ page = Loops[loop].length
      /\ loop' = loop + 1 /\ page' = 0
      /\ UNCHANGED << vars, physical_base, vmm, kernel_pagemap, mem, free >>
      /\ loop \in Nat \ {0} /\ page \in Nat
  BY DEF MachineInv, NextLoop, MapsInv, MapsSound, BootInv
<1>2. BootInv'
  BY <1>1, StepStutter
<1>3. MapKept'
  BY <1>1 DEF MapKept, vars
<1>4. /\ pc' = "done" /\ bitmap' # NULL /\ memmap' = memmap /\ ClearBits' = ClearBits
  BY <1>1 DEF vars, NULL, MapsInv, ClearBits
<1>5. Loops' = Loops
  BY <1>1, <1>4, LoopsKept
<1>6. Len(Loops) \in Nat
  BY <1>1, LoopsAre
<1>7. ASSUME loop = Len(Loops) PROVE page = FourGiB
  <2>1. Loops[loop] = HigherHalf(0, FourGiB, FALSE)
    BY <1>1, <1>7, LoopsAre
  <2> QED
    BY <1>1, <2>1 DEF HigherHalf, MapLoop
<1>8. ASSUME NEW x \in Nat PROVE Lowered(x)' <=> Lowered(x)
  <2>1. Lowered(x)' <=> x < FourGiB /\ loop + 1 > Len(Loops)
    BY <1>1, <1>5 DEF Lowered
  <2>2. CASE loop = Len(Loops)
    <3>1. Lowered(x)' <=> x < FourGiB
      BY <1>6, <2>1, <2>2
    <3> QED
      BY <1>7, <2>2, <3>1 DEF Lowered
  <2>3. CASE loop # Len(Loops)
    <3>1. ~(loop + 1 > Len(Loops)) /\ ~(loop > Len(Loops))
      BY <1>1, <1>6, <2>3
    <3> QED
      BY <2>1, <2>3, <3>1 DEF Lowered
  <2> QED
    BY <2>2, <2>3
<1>9. PassedMapped'
  <2> SUFFICES ASSUME NEW l \in 1 .. Len(Loops), NEW q \in Nat, Passed(l, q)',
                      NEW w, w = Loops[l].virt + q
               PROVE  Mapped(mem, w, Expected(w))'
    BY <1>5 DEF PassedMapped
  <2>1. q < Loops[l].length /\ (l < loop + 1 \/ (l = loop + 1 /\ q < 0))
    BY <1>1, <1>5 DEF Passed
  <2>2. l <= loop /\ (l = loop => q < page)
    BY <1>1, <2>1
  <2>3. Passed(l, q)
    BY <1>1, <2>1, <2>2 DEF Passed
  <2>4. Mapped(mem, w, Expected(w))
    BY <1>1, <2>3 DEF MapsSound, PassedMapped
  <2>5. w \in Nat /\ (w < virtual_base => w >= hhdm_offset)
    BY <1>1, <2>1, RoundFacts
  <2>6. Expected(w)' = Expected(w)
    <3>1. CASE w < virtual_base
      <4>1. w - hhdm_offset \in Nat
        BY <2>5, <3>1, LengthFacts
      <4> DEFINE a == ~Lowered(w - hhdm_offset)
                 b == ~Lowered(w - hhdm_offset)'
      <4>2. a = b
        BY <1>8, <4>1
      <4>3. /\ Expected(w) = Entry(w - hhdm_offset, TRUE, a)
            /\ Expected(w)' = Entry(w - hhdm_offset, TRUE, b)
        BY <3>1 DEF Expected
      <4> HIDE DEF a, b
      <4> QED
        BY <4>2, <4>3
    <3>2. CASE ~(w < virtual_base)
      BY <1>1, <3>2 DEF Expected
    <3> QED
      BY <3>1, <3>2
  <2>7. \A x : Mapped(mem, w, x) => Mapped(mem, w, x)'
    BY <1>1 DEF Mapped, Chain
  <2> QED
    BY <2>4, <2>6, <2>7
<1>10. (\E lev, pre : Tree(mem, lev, pre))'
  BY <1>1 DEF MapsSound, Tree
<1>11. Apart(mem, free)' /\ free' \subseteq Nat
  BY <1>1, <1>4 DEF MapsSound, Apart
<1>12. MapsSound'
  BY <1>1, <1>9, <1>10, <1>11 DEF MapsSound
<1> QED
  BY <1>1, <1>2, <1>3, <1>4, <1>12 DEF MachineInv, MapsInv

LEMMA StepSwitch ==
  ASSUME MachineInv, SwitchPagemap \/ UNCHANGED bootvars PROVE MachineInv'
<1>1. /\ BootInv /\ MapKept /\ MapsInv
      /\ UNCHANGED << vars, physical_base, kernel_pagemap, mem, free, loop, page >>
      /\ \/ vmm' = vmm
         \/ vmm = "maps" /\ vmm' = "returned" /\ loop > Len(Loops)
  BY DEF MachineInv, SwitchPagemap, bootvars, vars
<1>2. BootInv'
  BY <1>1, StepStutter
<1>3. MapKept'
  BY <1>1 DEF MapKept, vars
<1>4. /\ pc' = pc /\ bitmap' = bitmap /\ memmap' = memmap /\ ClearBits' = ClearBits
  BY <1>1 DEF vars, ClearBits
<1>5. Loops' = Loops
  BY <1>1, <1>4, LoopsKept
<1>6. ASSUME MapsSound, vmm' # "returned" \/ loop > Len(Loops) PROVE MapsSound'
  <2>1. (\E lev, pre : Tree(mem, lev, pre))'
    BY <1>1, <1>6 DEF MapsSound, Tree
  <2>2. Apart(mem, free)' /\ free' \subseteq Nat
    BY <1>1, <1>4, <1>6 DEF MapsSound, Apart
  <2>3. PassedMapped'
    <3> SUFFICES ASSUME NEW l \in 1 .. Len(Loops), NEW q \in Nat, Passed(l, q)',
                        NEW w, w = Loops[l].virt + q
                 PROVE  Mapped(mem, w, Expected(w))'
      BY <1>5 DEF PassedMapped
    <3>1. Passed(l, q)
      BY <1>1, <1>5 DEF Passed
    <3>2. Mapped(mem, w, Expected(w))
      BY <1>6, <3>1 DEF MapsSound, PassedMapped
    <3>3. Expected(w)' = Expected(w)
      BY <1>1, <1>5 DEF Expected, Lowered
    <3> QED
      BY <1>1, <3>2, <3>3 DEF Mapped, Chain
  <2> QED
    BY <1>1, <1>5, <1>6, <2>1, <2>2, <2>3 DEF MapsSound
<1>7. (vmm # "waits" => pc = "done" /\ bitmap # NULL)'
  BY <1>1, <1>4 DEF MapsInv, NULL
<1>8. (vmm = "waits" => loop = 1 /\ page = 0)'
  BY <1>1 DEF MapsInv
<1>9. (vmm \in {"maps", "returned"} => MapsSound)'
  <2> SUFFICES ASSUME vmm' \in {"maps", "returned"} PROVE MapsSound'
    OBVIOUS
  <2>1. vmm \in {"maps", "returned"}
    BY <1>1
  <2>2. MapsSound
    BY <1>1, <2>1 DEF MapsInv
  <2>3. vmm' # "returned" \/ loop > Len(Loops)
    BY <1>1, <2>2 DEF MapsSound
  <2> QED
    BY <1>6, <2>2, <2>3
<1>10. MapsInv'
  BY <1>7, <1>8, <1>9 DEF MapsInv
<1> QED
  BY <1>2, <1>3, <1>10 DEF MachineInv

LEMMA MachineAlways == BootSpec => []MachineInv
<1>1. BootInit => MachineInv
  BY MachineInit
<1>2. MachineInv /\ [BootNext]_bootvars => MachineInv'
  <2> SUFFICES ASSUME MachineInv, [BootNext]_bootvars PROVE MachineInv'
    OBVIOUS
  <2>1. CASE PmmInit
    BY <2>1, StepPmmInit
  <2>2. CASE NewPagemap
    BY <2>2, StepNewPagemap
  <2>3. CASE MapPage
    BY <2>3, StepMapPage
  <2>4. CASE NextLoop
    BY <2>4, StepNextLoop
  <2>5. CASE SwitchPagemap \/ UNCHANGED bootvars
    BY <2>5, StepSwitch
  <2> QED
    BY <2>1, <2>2, <2>3, <2>4, <2>5 DEF BootNext
<1> QED
  BY <1>1, <1>2, PTL DEF BootSpec

-----------------------------------------------------------------------------
(* The walk of the processor *)

\* What leads there takes no right away.
LEMMA ThroughTable ==
  ASSUME NEW f, NEW j, mem[f][j] \in TableEntries, mem[f][j].present
  PROVE  Through(Entry(f, TRUE, FALSE), j) =
           Entry(mem[f][j].to, mem[f][j].writable, mem[f][j].nx)
<1> DEFINE d == mem[f][j]
           e == Entry(f, TRUE, FALSE)
           a == e.writable /\ d.writable
           b == e.nx \/ d.nx
<1>1. e.present /\ e.to = f /\ e.writable = TRUE /\ e.nx = FALSE
  BY DEF Entry
<1>2. d.writable \in BOOLEAN /\ d.nx \in BOOLEAN
  BY DEF TableEntries
<1>3. Through(e, j) = Entry(d.to, a, b)
  BY <1>1 DEF Through
<1>4. a = d.writable /\ b = d.nx
  BY <1>1, <1>2
<1> HIDE DEF d, e, a, b
<1>5. Through(e, j) = Entry(d.to, d.writable, d.nx)
  BY <1>3, <1>4
<1> QED
  BY <1>5 DEF d, e

LEMMA WalkMapped ==
  ASSUME MapsSound, NEW v \in Nat, Shifted(v)[Levels] = 0,
         NEW x, x.present, Mapped(mem, v, x)
  PROVE  Walk(v) = Entry(x.to, x.writable, x.nx)
<1>1. PICK lev, pre : Tree(mem, lev, pre)
  BY DEF MapsSound
<1>2. PICK c : Chain(mem, v, Levels, c) /\ mem[c[Levels - 1]][page_index(v, Levels)] = x
  BY DEF Mapped
<1>3. Levels \in Nat \ {0} /\ Levels - 1 \in 0 .. Levels - 1 /\ Levels \in 1 .. Levels
      /\ Levels \in 0 .. Levels
  BY LevelFacts
<1>4. \A k \in 0 .. Levels - 1 : c[k] \in DOMAIN mem /\ lev[c[k]] = k
  BY <1>1, <1>2, <1>3, ChainShorter, ChainLevels
<1> DEFINE last == Entry(x.to, x.writable, x.nx)
           first == Entry(kernel_pagemap, TRUE, FALSE)
           N == Levels
           op(e, n) == Through(e, page_index(v, n))
           Is(g) == g = [n \in 0 .. N |-> IF n = 0 THEN first ELSE op(g[n - 1], n)]
           f == CHOOSE g : Is(g)
           h == [n \in 0 .. N |-> IF n < N THEN Entry(c[n], TRUE, FALSE) ELSE last]
<1>5. Walk(v) = f[N]
  BY DEF Walk
<1>6. /\ \A n \in 0 .. N : h[n] = IF n < N THEN Entry(c[n], TRUE, FALSE) ELSE last
      /\ h = [n \in 0 .. N |-> h[n]]
  OBVIOUS
<1>7. N \in Nat /\ ~(N < N) /\ N \in 0 .. N
  BY <1>3
<1> HIDE DEF h, last
<1>8. ASSUME NEW n \in 1 .. N PROVE op(h[n - 1], n) = h[n]
  <2> DEFINE t == c[n - 1]
             j == page_index(v, n)
             d == mem[t][j]
  <2>1. n - 1 \in 0 .. N - 1 /\ n - 1 \in 0 .. N /\ n - 1 < N /\ n \in 0 .. N
    BY <1>3
  <2>2. h[n - 1] = Entry(t, TRUE, FALSE)
    BY <1>6, <2>1
  <2>3. t \in DOMAIN mem /\ lev[t] = n - 1
    BY <1>4, <2>1
  <2>4. j \in 0 .. Radix - 1
    BY PrefixFacts
  <2>5. mem \in Memories
    BY <1>1 DEF Tree
  <2>6. d \in TableEntries
    BY <2>3, <2>4, <2>5, MemoryFacts
  <2>7. d.present /\ d.to = c[n]
    BY <1>2 DEF Chain
  <2>8. op(h[n - 1], n) = Entry(d.to, d.writable, d.nx)
    <3>1. mem[t][j] \in TableEntries /\ mem[t][j].present
      BY <2>6, <2>7
    <3> HIDE DEF t, j, d
    <3>2. Through(Entry(t, TRUE, FALSE), j) =
            Entry(mem[t][j].to, mem[t][j].writable, mem[t][j].nx)
      BY <3>1, ThroughTable
    <3> QED
      BY <2>2, <3>2 DEF d, j
  <2>9. CASE n = N
    <3>1. d = x
      BY <1>2, <2>9
    <3>3. last = Entry(x.to, x.writable, x.nx)
      BY DEF last
    <3>2. h[n] = last
      BY <1>6, <1>7, <2>9
    <3> QED
      BY <2>8, <3>1, <3>2, <3>3
  <2>10. CASE n # N
    <3>1. n < N /\ lev[t] < Levels - 1
      BY <1>3, <2>3, <2>10
    <3>2. LinkSound(mem, lev, pre, t, j)
      BY <1>1, <2>3, <2>4 DEF Tree
    <3>3. d.writable /\ ~d.nx
      BY <2>7, <3>1, <3>2 DEF LinkSound
    <3>4. d.writable \in BOOLEAN /\ d.nx \in BOOLEAN
      BY <2>6 DEF TableEntries
    <3>5. d.writable = TRUE /\ d.nx = FALSE
      BY <3>3, <3>4
    <3>6. h[n] = Entry(c[n], TRUE, FALSE)
      BY <1>6, <2>1, <3>1
    <3> HIDE DEF d, op
    <3> QED
      BY <2>7, <2>8, <3>5, <3>6
  <2> QED
    BY <2>9, <2>10
<1>9. h[0] = first
  <2>1. c[0] = kernel_pagemap
    BY <1>2 DEF Chain
  <2>2. 0 \in 0 .. N /\ 0 < N
    BY <1>3
  <2> QED
    BY <1>6, <2>1, <2>2
<1>10. h[N] = last
  BY <1>6, <1>7
<1> HIDE DEF f, op, first, N
<1>11. Is(h)
  <2>1. \A n \in 0 .. N : h[n] = IF n = 0 THEN first ELSE op(h[n - 1], n)
    BY <1>8, <1>9, <1>7
  <2> QED
    BY <1>6, <2>1
<1>12. Is(f)
  <2> HIDE DEF Is
  <2> QED
    BY <1>11 DEF f
<1>13. f = [n \in 0 .. N |-> IF n = 0 THEN first ELSE op(f[n - 1], n)]
  BY <1>12
<1> DEFINE G == {n \in 0 .. N : f[n] = h[n]}
<1>14. 0 \in G
  BY <1>9, <1>7, <1>13
<1>15. ASSUME NEW n \in 1 .. N, n - 1 \in G PROVE n \in G
  <2>1. f[n] = op(f[n - 1], n)
    BY <1>7, <1>13
  <2>2. f[n - 1] = h[n - 1]
    BY <1>15
  <2>3. f[n] = h[n]
    BY <1>8, <2>1, <2>2
  <2> QED
    BY <1>7, <2>3
<1> HIDE DEF G
<1>16. \A n \in 0 .. N : n \in G
  BY <1>7, <1>14, <1>15, CountUp
<1>17. f[N] = h[N]
  BY <1>7, <1>16 DEF G
<1> QED
  BY <1>5, <1>10, <1>17 DEF last

-----------------------------------------------------------------------------
(* When the page tables are switched *)

\* Where the walk of the processor leads then.
LEMMA WalkAtEnd ==
  ASSUME MachineInv, vmm = "returned", NEW l \in 1 .. Len(Loops),
         NEW q \in Nat, q < Loops[l].length
  PROVE  Walk(Loops[l].virt + q) = Expected(Loops[l].virt + q)
<1> DEFINE v == Loops[l].virt + q
<1>1. MapInv /\ MapKept /\ MapsSound
  BY DEF MachineInv, BootInv, MapsInv
<1>2. v \in Nat /\ Shifted(v)[Levels] = 0 /\ Expected(v).present
  BY <1>1, RoundFacts
<1>3. Len(Loops) \in Nat /\ loop > Len(Loops) /\ loop \in Nat
  BY <1>1, LoopsAre DEF MapsSound
<1>4. Passed(l, q)
  BY <1>3 DEF Passed
<1>5. Mapped(mem, v, Expected(v))
  BY <1>1, <1>4 DEF MapsSound, PassedMapped
<1> HIDE DEF v
<1>6. Walk(v) = Entry(Expected(v).to, Expected(v).writable, Expected(v).nx)
  BY <1>1, <1>2, <1>5, WalkMapped
<1>7. Entry(Expected(v).to, Expected(v).writable, Expected(v).nx) = Expected(v)
  <2>1. \A p, a, b : Entry(Entry(p, a, b).to, Entry(p, a, b).writable, Entry(p, a, b).nx)
                       = Entry(p, a, b)
    BY DEF Entry
  <2>2. \E p, a, b : Expected(v) = Entry(p, a, b)
    BY DEF Expected
  <2> QED
    BY <2>1, <2>2
<1> QED
  BY <1>6, <1>7 DEF v

LEMMA ReachedAtEnd ==
  ASSUME MachineInv, vmm = "returned", NEW l \in 1 .. Len(Loops), NEW v \in Nat,
         Loops[l].virt <= v, v < Loops[l].virt + Loops[l].length
  PROVE  Walk(v) = Expected(v)
<1>1. MapInv /\ MapKept
  BY DEF MachineInv, BootInv
<1>2. Loops[l] \in MapLoops
  BY <1>1, RoundsAre, VmmBootLayout
<1>3. Loops[l].virt \in Nat /\ Loops[l].length \in Nat
  BY <1>2 DEF MapLoops
<1> DEFINE q == v - Loops[l].virt
<1>4. q \in Nat /\ q < Loops[l].length /\ Loops[l].virt + q = v
  BY <1>3
<1> HIDE DEF q
<1>5. Walk(Loops[l].virt + q) = Expected(Loops[l].virt + q)
  BY <1>4, WalkAtEnd
<1> QED
  BY <1>4, <1>5

LEMMA ImageAtEnd ==
  ASSUME MachineInv, vmm = "returned", NEW s \in 0 .. ImageLength - 1
  PROVE  /\ Walk(virtual_base + s).to = physical_base + s
         /\ Walk(virtual_base + s).writable <=>
              s < Requests \/ s >= Requests + Text + Rodata
         /\ Walk(virtual_base + s).nx <=> s >= Requests + Text
<1> DEFINE v == virtual_base + s
<1>1. MapInv /\ MapKept
  BY DEF MachineInv, BootInv
<1>2. /\ virtual_base \in Nat /\ Requests \in Nat /\ Text \in Nat /\ Rodata \in Nat
      /\ Data \in Nat /\ ImageLength = Requests + Text + Rodata + Data
      /\ ImageLength \in Nat
  BY LengthFacts
<1>3. /\ Len(Loops) = Len(memmap) + 6 /\ Len(memmap) \in Nat
      /\ Loops[2] = Section(0, Requests, TRUE, FALSE)
      /\ Loops[3] = Section(Requests, Text, FALSE, FALSE)
      /\ Loops[4] = Section(Requests + Text, Rodata, FALSE, TRUE)
      /\ Loops[5] = Section(Requests + Text + Rodata, Data, TRUE, TRUE)
  BY <1>1, LoopsAre
<1>4. /\ Loops[2].virt = virtual_base + 0 /\ Loops[2].length = Requests
      /\ Loops[3].virt = virtual_base + Requests /\ Loops[3].length = Text
      /\ Loops[4].virt = virtual_base + (Requests + Text) /\ Loops[4].length = Rodata
      /\ Loops[5].virt = virtual_base + (Requests + Text + Rodata) /\ Loops[5].length = Data
  <2>1. Loops[2].virt = virtual_base + 0 /\ Loops[2].length = Requests
    BY <1>3 DEF Section, MapLoop
  <2>2. Loops[3].virt = virtual_base + Requests /\ Loops[3].length = Text
    BY <1>3 DEF Section, MapLoop
  <2>3. Loops[4].virt = virtual_base + (Requests + Text) /\ Loops[4].length = Rodata
    BY <1>3 DEF Section, MapLoop
  <2>4. Loops[5].virt = virtual_base + (Requests + Text + Rodata) /\ Loops[5].length = Data
    BY <1>3 DEF Section, MapLoop
  <2> QED
    BY <2>1, <2>2, <2>3, <2>4
<1>5. s \in Nat /\ s < Requests + Text + Rodata + Data /\ v \in Nat
  BY <1>2
<1>6. \E l \in {2, 3, 4, 5} : Loops[l].virt <= v /\ v < Loops[l].virt + Loops[l].length
  <2>1. CASE s < Requests
    <3>1. Loops[2].virt <= v /\ v < Loops[2].virt + Loops[2].length
      BY <1>2, <1>4, <1>5, <2>1
    <3> QED
      BY <3>1
  <2>2. CASE Requests <= s /\ s < Requests + Text
    <3>1. Loops[3].virt <= v /\ v < Loops[3].virt + Loops[3].length
      BY <1>2, <1>4, <1>5, <2>2
    <3> QED
      BY <3>1
  <2>3. CASE Requests + Text <= s /\ s < Requests + Text + Rodata
    <3>1. Loops[4].virt <= v /\ v < Loops[4].virt + Loops[4].length
      BY <1>2, <1>4, <1>5, <2>3
    <3> QED
      BY <3>1
  <2>4. CASE Requests + Text + Rodata <= s
    <3>1. Loops[5].virt <= v /\ v < Loops[5].virt + Loops[5].length
      BY <1>2, <1>4, <1>5, <2>4
    <3> QED
      BY <3>1
  <2> QED
    BY <1>2, <1>5, <2>1, <2>2, <2>3, <2>4
<1>7. Walk(v) = Expected(v)
  <2> HIDE DEF v
  <2>1. PICK l \in {2, 3, 4, 5} :
          Loops[l].virt <= v /\ v < Loops[l].virt + Loops[l].length
    BY <1>6
  <2>2. l \in 1 .. Len(Loops)
    BY <1>3
  <2> QED
    BY <1>5, <2>1, <2>2, ReachedAtEnd
<1>8. ~(v < virtual_base) /\ v - virtual_base = s
  BY <1>2
<1> DEFINE a == s < Requests \/ s >= Requests + Text + Rodata
           b == s >= Requests + Text
<1>9. Expected(v) = Entry(physical_base + s, a, b)
  <2> HIDE DEF v
  <2> QED
    BY <1>8 DEF Expected
<1> HIDE DEF v, a, b
<1>10. Walk(v).to = physical_base + s /\ (Walk(v).writable <=> a) /\ (Walk(v).nx <=> b)
  BY <1>7, <1>9 DEF Entry
<1> QED
  BY <1>10 DEF v, a, b

LEMMA HalfAtEnd ==
  ASSUME MachineInv, vmm = "returned", NEW p \in Nat,
         p \in MapPages \/ p < FourGiB
  PROVE  /\ Walk(hhdm_offset + p).present /\ Walk(hhdm_offset + p).to = p
         /\ Walk(hhdm_offset + p).writable
         /\ Walk(hhdm_offset + p).nx <=> p >= FourGiB
<1> DEFINE v == hhdm_offset + p
<1>1. MapInv /\ MapKept /\ MapsSound
  BY DEF MachineInv, BootInv, MapsInv
<1>2. hhdm_offset \in Nat /\ virtual_base \in Nat /\ FourGiB \in Nat
      /\ hhdm_offset + FourGiB <= virtual_base
  BY LengthFacts, VmmBootLayout
<1>3. /\ Len(Loops) = Len(memmap) + 6 /\ Len(memmap) \in Nat
      /\ \A k \in 1 .. Len(memmap) :
           Loops[k + 5] = HigherHalf(memmap[k].base, memmap[k].length, TRUE)
      /\ Loops[Len(memmap) + 6] = HigherHalf(0, FourGiB, FALSE)
  BY <1>1, LoopsAre
<1>4. loop > Len(Loops) /\ v \in Nat
  BY <1>1, <1>2 DEF MapsSound
<1>5. v < virtual_base /\ Walk(v) = Expected(v)
  <2>1. CASE p < FourGiB
    <3> DEFINE l == Len(memmap) + 6
    <3>1. l \in 1 .. Len(Loops) /\ Loops[l].virt = hhdm_offset + 0 /\ Loops[l].length = FourGiB
      BY <1>3 DEF HigherHalf, MapLoop
    <3> HIDE DEF l
    <3>2. Loops[l].virt <= v /\ v < Loops[l].virt + Loops[l].length /\ v < virtual_base
      BY <1>2, <2>1, <3>1
    <3> HIDE DEF v
    <3> QED
      BY <1>4, <3>1, <3>2, ReachedAtEnd
  <2>2. CASE p \in MapPages
    <3>1. PICK k \in DOMAIN memmap : p \in PagesOf(memmap[k])
      BY <2>2 DEF MapPages
    <3>2. /\ k \in 1 .. Len(memmap) /\ memmap[k].base \in Nat /\ memmap[k].length \in Nat
          /\ memmap[k].base <= p /\ p < memmap[k].base + memmap[k].length
      BY <1>1, <3>1, EntryFacts
    <3>3. hhdm_offset + (memmap[k].base + memmap[k].length) <= virtual_base
      BY <1>1 DEF MapKept
    <3> DEFINE l == k + 5
    <3>4. /\ l \in 1 .. Len(Loops) /\ Loops[l].virt = hhdm_offset + memmap[k].base
          /\ Loops[l].length = memmap[k].length
      <4>1. Loops[l] = HigherHalf(memmap[k].base, memmap[k].length, TRUE)
        BY <1>3, <3>2
      <4>2. l \in 1 .. Len(Loops)
        BY <1>3, <3>2
      <4> HIDE DEF l
      <4> QED
        BY <4>1, <4>2 DEF HigherHalf, MapLoop
    <3> HIDE DEF l
    <3>5. Loops[l].virt <= v /\ v < Loops[l].virt + Loops[l].length /\ v < virtual_base
      BY <1>2, <3>2, <3>3, <3>4
    <3> HIDE DEF v
    <3> QED
      BY <1>4, <3>4, <3>5, ReachedAtEnd
  <2> QED
    BY <2>1, <2>2
<1> DEFINE b == ~Lowered(p)
<1>6. Expected(v) = Entry(p, TRUE, b)
  <2>1. v - hhdm_offset = p
    BY <1>2
  <2> HIDE DEF v
  <2> QED
    BY <1>5, <2>1 DEF Expected
<1>7. b <=> p >= FourGiB
  BY <1>2, <1>4 DEF Lowered
<1> HIDE DEF v, b
<1>8. /\ Walk(v).present /\ Walk(v).to = p /\ Walk(v).writable
      /\ Walk(v).nx <=> b
  BY <1>5, <1>6 DEF Entry
<1> QED
  BY <1>7, <1>8 DEF v

\* For every memory map, page size and depth of the tables: when vmm_init
\* switches the page tables, everything the kernel goes on to use is where it
\* was, and no table is in a page that the allocator still has or that holds
\* the bitmap.
THEOREM SwitchIsSafe == BootSpec => []SwitchLosesNothing
<1>1. ASSUME MachineInv PROVE SwitchLosesNothing
  <2> SUFFICES ASSUME vmm = "returned", Covered
               PROVE  /\ \A q \in 0 .. ImageLength - 1 :
                           Walk(virtual_base + q).to = physical_base + q
                      /\ \A p \in MapPages \cup free \cup DOMAIN mem
                                  \cup {p \in BitmapPages : p < FourGiB} :
                           /\ Walk(hhdm_offset + p).present
                           /\ Walk(hhdm_offset + p).to = p
                           /\ Walk(hhdm_offset + p).writable
                      /\ DOMAIN mem \cap (free \cup BitmapPages) = {}
    BY DEF SwitchLosesNothing
  <2>1. BootInv /\ MapInv /\ MapKept /\ MapsSound /\ pc = "done" /\ bitmap # NULL
    BY <1>1 DEF MachineInv, BootInv, MapsInv
  <2>2. Placed /\ i = Len(memmap) + 1
    BY <2>1 DEF BootInv
  <2>3. ClearBits = UsablePages
    BY <2>1, <2>2, BeforeAll DEF Placed
  <2>4. UsablePages \subseteq MapPages
    BY DEF UsablePages, MapPages
  <2>5. Apart(mem, free)
    BY <2>1 DEF MapsSound
  <2>6. DOMAIN mem \cap (free \cup BitmapPages) = {}
    BY <2>2, <2>3, <2>5 DEF Apart, Placed
  <2>7. free \cup DOMAIN mem \subseteq MapPages
    BY <2>3, <2>4, <2>5 DEF Apart
  <2>8. MapPages \subseteq Nat
    BY <2>1, EntryFacts DEF MapPages
  <2>9. BitmapPages \subseteq Nat
    <3>1. bitmap \in Nat
      BY <2>1 DEF BootInv, TypeOK
    <3> QED
      BY <3>1 DEF BitmapPages
  <2>10. ASSUME NEW p \in MapPages \cup free \cup DOMAIN mem
                          \cup {p \in BitmapPages : p < FourGiB}
         PROVE  /\ Walk(hhdm_offset + p).present
                /\ Walk(hhdm_offset + p).to = p
                /\ Walk(hhdm_offset + p).writable
    <3>1. p \in Nat /\ (p \in MapPages \/ p < FourGiB)
      BY <2>7, <2>8, <2>9
    <3> QED
      BY <1>1, <3>1, HalfAtEnd
  <2>11. \A q \in 0 .. ImageLength - 1 : Walk(virtual_base + q).to = physical_base + q
    BY <1>1, ImageAtEnd
  <2> QED
    BY <2>6, <2>10, <2>11
<1> QED
  BY MachineAlways, <1>1, PTL

\* Each page of the image then has the protection of its section and no other,
\* whatever shares its tables, and memory cannot be executed above 4 GiB.
THEOREM ProtectionHolds == BootSpec => []ProtectionAsMeant
<1>1. ASSUME MachineInv PROVE ProtectionAsMeant
  <2> SUFFICES ASSUME vmm = "returned"
               PROVE  /\ \A q \in 0 .. ImageLength - 1 :
                           /\ Walk(virtual_base + q).writable <=>
                                q < Requests \/ q >= Requests + Text + Rodata
                           /\ Walk(virtual_base + q).nx <=> q >= Requests + Text
                      /\ \A p \in MapPages : Walk(hhdm_offset + p).nx <=> p >= FourGiB
    BY DEF ProtectionAsMeant
  <2>1. MapInv
    BY <1>1 DEF MachineInv, BootInv
  <2>2. MapPages \subseteq Nat
    BY <2>1, EntryFacts DEF MapPages
  <2>3. \A p \in MapPages : Walk(hhdm_offset + p).nx <=> p >= FourGiB
    BY <1>1, <2>2, HalfAtEnd
  <2>4. ASSUME NEW q \in 0 .. ImageLength - 1
        PROVE  /\ Walk(virtual_base + q).writable <=>
                    q < Requests \/ q >= Requests + Text + Rodata
               /\ Walk(virtual_base + q).nx <=> q >= Requests + Text
    BY <1>1, ImageAtEnd
  <2> QED
    BY <2>3, <2>4
<1> QED
  BY MachineAlways, <1>1, PTL

-----------------------------------------------------------------------------
(* The initialisation of the terminal *)

Modes == [width : Nat, height : Nat]

-----------------------------------------------------------------------------
(* The geometry *)

LEMMA ScaleValues == ASSUME NEW m \in Modes PROVE Scale(m) \in {1, 2, 4}
  BY DEF Modes, Scale

\* A line of n pixels that is divided into cells of g pixels, the rest halved.
LEMMA Division ==
  ASSUME NEW n \in Nat, NEW g \in {9, 18, 36, 16, 32, 64}
  PROVE  /\ n \div g \in Nat
         /\ n % g \in 0 .. g - 1
         /\ n = g * (n \div g) + (n % g)
         /\ (n % g) \div 2 \in Nat
         /\ (n % g) \div 2 <= n % g
<1>1. CASE g = 9 BY <1>1
<1>2. CASE g = 18 BY <1>2
<1>3. CASE g = 36 BY <1>3
<1>4. CASE g = 16 BY <1>4
<1>5. CASE g = 32 BY <1>5
<1>6. CASE g = 64 BY <1>6
<1> QED
  BY <1>1, <1>2, <1>3, <1>4, <1>5, <1>6

\* The cells of such a line end within it.
LEMMA CellsEnd ==
  ASSUME NEW n \in Nat, NEW g \in {9, 18, 36, 16, 32, 64},
         NEW x \in 0 .. (n \div g) - 1, NEW p \in 0 .. g - 1
  PROVE  (n % g) \div 2 + x * g + p \in 0 .. n - 1
<1> DEFINE q == n \div g
           r == n % g
           h == (n % g) \div 2
<1>1. q \in Nat /\ r \in Nat /\ h \in Nat /\ n = g * q + r /\ h <= r /\ x \in 0 .. q - 1
  BY Division
<1> HIDE DEF q, r, h
<1>2. h + x * g + p \in 0 .. n - 1
  <2>1. CASE g = 9 BY <1>1, <2>1
  <2>2. CASE g = 18 BY <1>1, <2>2
  <2>3. CASE g = 36 BY <1>1, <2>3
  <2>4. CASE g = 16 BY <1>1, <2>4
  <2>5. CASE g = 32 BY <1>1, <2>5
  <2>6. CASE g = 64 BY <1>1, <2>6
  <2> QED
    BY <2>1, <2>2, <2>3, <2>4, <2>5, <2>6
<1> QED
  BY <1>2 DEF h

\* The part of a mode that the terminal takes lies in the middle of it.
LEMMA PartInMode ==
  ASSUME NEW size \in Nat, NEW limit \in Nat
  PROVE  /\ Limited(size, limit) \in Nat
         /\ Limited(size, limit) <= limit
         /\ (size \div 2) - (Limited(size, limit) \div 2) \in Nat
         /\ (size \div 2) - (Limited(size, limit) \div 2) + Limited(size, limit) <= size
<1>1. CASE size > limit
  <2>1. Limited(size, limit) = limit
    BY <1>1 DEF Limited
  <2> QED
    BY <1>1, <2>1
<1>2. CASE ~(size > limit)
  <2>1. Limited(size, limit) = size
    BY <1>2 DEF Limited
  <2> QED
    BY <1>2, <2>1
<1> QED
  BY <1>1, <1>2

LEMMA PartOfMode ==
  ASSUME NEW m \in Modes
  PROVE  /\ Width(m) \in 0 .. FLANTERM_FB_WIDTH_LIMIT
         /\ OriginX(m) \in Nat /\ OriginX(m) + Width(m) <= m.width
         /\ Height(m) \in 0 .. FLANTERM_FB_HEIGHT_LIMIT
         /\ OriginY(m) \in Nat /\ OriginY(m) + Height(m) <= m.height
<1>1. m.width \in Nat /\ m.height \in Nat
  BY DEF Modes
<1>2. FLANTERM_FB_WIDTH_LIMIT \in Nat /\ FLANTERM_FB_HEIGHT_LIMIT \in Nat
  BY DEF FLANTERM_FB_WIDTH_LIMIT, FLANTERM_FB_HEIGHT_LIMIT
<1>3. /\ Width(m) \in 0 .. FLANTERM_FB_WIDTH_LIMIT
      /\ OriginX(m) \in Nat /\ OriginX(m) + Width(m) <= m.width
  <2> DEFINE part == Limited(m.width, FLANTERM_FB_WIDTH_LIMIT)
  <2>1. /\ part \in Nat /\ part <= FLANTERM_FB_WIDTH_LIMIT
        /\ (m.width \div 2) - (part \div 2) \in Nat
        /\ (m.width \div 2) - (part \div 2) + part <= m.width
    BY <1>1, <1>2, PartInMode
  <2>2. Width(m) = part /\ OriginX(m) = (m.width \div 2) - (part \div 2)
    BY DEF Width, OriginX
  <2> HIDE DEF part
  <2> QED
    BY <1>2, <2>1, <2>2
<1>4. /\ Height(m) \in 0 .. FLANTERM_FB_HEIGHT_LIMIT
      /\ OriginY(m) \in Nat /\ OriginY(m) + Height(m) <= m.height
  <2> DEFINE part == Limited(m.height, FLANTERM_FB_HEIGHT_LIMIT)
  <2>1. /\ part \in Nat /\ part <= FLANTERM_FB_HEIGHT_LIMIT
        /\ (m.height \div 2) - (part \div 2) \in Nat
        /\ (m.height \div 2) - (part \div 2) + part <= m.height
    BY <1>1, <1>2, PartInMode
  <2>2. Height(m) = part /\ OriginY(m) = (m.height \div 2) - (part \div 2)
    BY DEF Height, OriginY
  <2> HIDE DEF part
  <2> QED
    BY <1>2, <2>1, <2>2
<1> QED
  BY <1>3, <1>4

LEMMA GlyphSizes ==
  ASSUME NEW m \in Modes
  PROVE  /\ glyph_width(m) \in {9, 18, 36}
         /\ glyph_height(m) \in {16, 32, 64}
<1>1. Scale(m) = 1 \/ Scale(m) = 2 \/ Scale(m) = 4
  BY ScaleValues
<1> QED
  BY <1>1 DEF glyph_width, glyph_height, font_width, font_height

\* For every mode, each pixel that the terminal draws for one of its cells is a
\* pixel of the framebuffer (plot_char has no check but the one of the cell).
THEOREM PixelsInFramebuffer ==
  ASSUME NEW m \in Modes,
         NEW x \in 0 .. Cols(m) - 1, NEW y \in 0 .. Rows(m) - 1,
         NEW gx \in 0 .. glyph_width(m) - 1, NEW gy \in 0 .. glyph_height(m) - 1
  PROVE  /\ PixelX(m, x, gx) \in 0 .. m.width - 1
         /\ PixelY(m, y, gy) \in 0 .. m.height - 1
<1>1. m.width \in Nat /\ m.height \in Nat
  BY DEF Modes
<1>2. /\ Width(m) \in Nat /\ OriginX(m) \in Nat /\ OriginX(m) + Width(m) <= m.width
      /\ Height(m) \in Nat /\ OriginY(m) \in Nat /\ OriginY(m) + Height(m) <= m.height
  BY PartOfMode
<1>3. offset_x(m) + x * glyph_width(m) + gx \in 0 .. Width(m) - 1
  BY <1>2, GlyphSizes, CellsEnd DEF offset_x, Cols
<1>4. offset_y(m) + y * glyph_height(m) + gy \in 0 .. Height(m) - 1
  BY <1>2, GlyphSizes, CellsEnd DEF offset_y, Rows
<1>5. PixelX(m, x, gx) \in 0 .. m.width - 1
  <2> DEFINE a == offset_x(m)
             b == x * glyph_width(m)
  <2>1. a \in Int /\ b \in Int /\ gx \in Int
    BY <1>2, GlyphSizes, Division DEF offset_x, Cols
  <2>2. PixelX(m, x, gx) = OriginX(m) + (a + b + gx)
    BY <1>2, <2>1 DEF PixelX
  <2> HIDE DEF a, b
  <2> QED
    BY <1>1, <1>2, <1>3, <2>1, <2>2, SMTT(40) DEF a, b
<1>6. PixelY(m, y, gy) \in 0 .. m.height - 1
  <2> DEFINE a == offset_y(m)
             b == y * glyph_height(m)
  <2>1. a \in Int /\ b \in Int /\ gy \in Int
    BY <1>2, GlyphSizes, Division DEF offset_y, Rows
  <2>2. PixelY(m, y, gy) = OriginY(m) + (a + b + gy)
    BY SMTT(30), <1>2, <2>1 DEF PixelY
  <2> HIDE DEF a, b
  <2> QED
    BY <1>1, <1>2, <1>4, <2>1, <2>2, SMTT(40) DEF a, b
<1> QED
  BY <1>5, <1>6

\* The place of a bit in a font of 256 glyphs of 16 lines of 9 bits.
LEMMA PlaceInFont ==
  ASSUME NEW glyph \in 0 .. 255, NEW y \in 0 .. 15, NEW x \in 0 .. 8
  PROVE  glyph * 16 * 9 + y * 9 + x \in 0 .. 256 * 16 * 9 - 1
<1> DEFINE a == glyph * 16 * 9
           b == y * 9
<1>1. a \in Int /\ 0 <= a /\ a <= 255 * 144
  BY SMTT(60)
<1>2. b \in Int /\ 0 <= b /\ b <= 15 * 9
  BY SMTT(60)
<1>3. x \in Int /\ 0 <= x /\ x <= 8
  OBVIOUS
<1> HIDE DEF a, b
<1>4. a + b + x \in 0 .. 256 * 16 * 9 - 1
  BY <1>1, <1>2, <1>3, SMTT(60)
<1> QED
  BY <1>4 DEF a, b

\* For every mode, the bit of the font that a pixel shows lies in font_bool, for
\* each of the 256 glyphs.
THEOREM FontBitsInFont ==
  ASSUME NEW m \in Modes, NEW c \in 0 .. FLANTERM_FB_FONT_GLYPHS - 1,
         NEW gx \in 0 .. glyph_width(m) - 1, NEW gy \in 0 .. glyph_height(m) - 1
  PROVE  FontBit(m, c, gx, gy) \in 0 .. font_bool_size - 1
<1>1. /\ gx \div Scale(m) \in 0 .. font_width - 1
      /\ gy \div Scale(m) \in 0 .. font_height - 1
  <2>1. CASE Scale(m) = 1
    BY <2>1 DEF glyph_width, glyph_height, font_width, font_height
  <2>2. CASE Scale(m) = 2
    BY <2>2 DEF glyph_width, glyph_height, font_width, font_height
  <2>3. CASE Scale(m) = 4
    BY <2>3 DEF glyph_width, glyph_height, font_width, font_height
  <2> QED
    BY <2>1, <2>2, <2>3, ScaleValues
<1> QED
  <2>1. FLANTERM_FB_FONT_GLYPHS - 1 = 255
    BY DEF FLANTERM_FB_FONT_GLYPHS
  <2>2. c \in 0 .. 255
    BY <2>1, ZenonT(60)
  <2>3. PICK bx \in 0 .. 8, by \in 0 .. 15 :
          bx = gx \div Scale(m) /\ by = gy \div Scale(m)
    BY <1>1 DEF font_width, font_height
  <2>4. PICK bit : bit = FontBit(m, c, gx, gy)
    OBVIOUS
  <2>5. bit = c * 16 * 9 + by * 9 + bx
    BY <2>3, <2>4, SMTT(40) DEF FontBit, font_width, font_height
  <2> DEFINE Bits == 0 .. 256 * 16 * 9 - 1
  <2>6. c * 16 * 9 + by * 9 + bx \in Bits
    BY <2>2, PlaceInFont, Zenon
  <2>7. Bits = 0 .. font_bool_size - 1
    BY DEF font_bool_size, FLANTERM_FB_FONT_GLYPHS, font_width, font_height
  <2> HIDE DEF Bits
  <2>8. bit \in Bits
    BY <2>5, <2>6, Zenon
  <2> QED
    BY <2>4, <2>7, <2>8, Zenon

-----------------------------------------------------------------------------
(* The pool *)

\* The terminal has 213 columns and 75 lines at most.
MostCells == 15975

LEMMA CellsProduct == \A r \in 0 .. 75, c \in 0 .. 213 : r * c \in 0 .. MostCells
<1> SUFFICES ASSUME NEW r \in 0 .. 75, NEW c \in 0 .. 213
             PROVE  r * c \in 0 .. MostCells
  OBVIOUS
<1>1. r * c \in Nat /\ (75 - r) * c \in Nat
  OBVIOUS
<1>2. (75 - r) * c = 75 * c - r * c
  OBVIOUS
<1> QED
  BY <1>1, <1>2 DEF MostCells

LEMMA CellsBounded ==
  ASSUME NEW m \in Modes
  PROVE  Rows(m) * Cols(m) \in 0 .. MostCells
<1>1. Width(m) \in 0 .. 1920 /\ Height(m) \in 0 .. 1200
  BY PartOfMode DEF FLANTERM_FB_WIDTH_LIMIT, FLANTERM_FB_HEIGHT_LIMIT
<1>2. Cols(m) \in 0 .. 213
  <2>1. CASE glyph_width(m) = 9 BY <1>1, <2>1, SMTT(40) DEF Cols
  <2>2. CASE glyph_width(m) = 18 BY <1>1, <2>2, SMTT(40) DEF Cols
  <2>3. CASE glyph_width(m) = 36 BY <1>1, <2>3, SMTT(40) DEF Cols
  <2> QED
    BY <2>1, <2>2, <2>3, GlyphSizes
<1>3. Rows(m) \in 0 .. 75
  <2>1. CASE glyph_height(m) = 16 BY <1>1, <2>1, SMTT(40) DEF Rows
  <2>2. CASE glyph_height(m) = 32 BY <1>1, <2>2, SMTT(40) DEF Rows
  <2>3. CASE glyph_height(m) = 64 BY <1>1, <2>3, SMTT(40) DEF Rows
  <2> QED
    BY <2>1, <2>2, <2>3, GlyphSizes
<1> QED
  BY <1>2, <1>3, CellsProduct, Zenon

LEMMA RoundedSize ==
  ASSUME NEW s \in Nat
  PROVE  /\ Rounded(s) \in Nat
         /\ Rounded(s) % 16 = 0
         /\ s <= Rounded(s) /\ Rounded(s) < s + 16
  BY DEF Rounded

\* How far the pool is used at most after n requests, with 15 bytes lost to
\* the alignment.
Ceiling == << 15, 815, 4911, 41775, 233487, 744687, 872495 >>

LEMMA RequestsFitCeiling ==
  ASSUME NEW m \in Modes, NEW n \in 0 .. 5
  PROVE  /\ Allocations(m)[n + 1] \in Nat
         /\ Ceiling[n + 1] + Rounded(Allocations(m)[n + 1]) <= Ceiling[n + 2]
<1> DEFINE k == Rows(m) * Cols(m)
<1>1. k \in 0 .. 15975
  BY SMTT(30), CellsBounded DEF MostCells
<1>2. Allocations(m) = << 800, 4096, 36864, k * 12, k * 32, k * 8 >>
  BY DEF Allocations, SizeOfContext, SizeOfChar, SizeOfItem, SizeOfPointer,
     font_bits_size, font_bool_size, FLANTERM_FB_FONT_GLYPHS, font_width, font_height
<1> HIDE DEF k
<1>3. CASE n = 0 BY <1>2, <1>3 DEF Ceiling, Rounded
<1>4. CASE n = 1 BY <1>2, <1>4 DEF Ceiling, Rounded
<1>5. CASE n = 2 BY <1>2, <1>5 DEF Ceiling, Rounded
<1>6. CASE n = 3 BY <1>1, <1>2, <1>6 DEF Ceiling, Rounded
<1>7. CASE n = 4 BY <1>1, <1>2, <1>7 DEF Ceiling, Rounded
<1>8. CASE n = 5 BY <1>1, <1>2, <1>8 DEF Ceiling, Rounded
<1> QED
  BY <1>3, <1>4, <1>5, <1>6, <1>7, <1>8

-----------------------------------------------------------------------------
(* The requests, one after the other *)

Block == [at : Nat, size : Nat]

PoolType ==
  /\ mode \in Modes
  /\ address \in 0 .. 15
  /\ bump_alloc_ptr \in Nat
  /\ base_offset_added \in BOOLEAN
  /\ blocks \in Seq(Block)
  /\ Len(blocks) <= 6

\* The pool has been used from its first aligned byte up to bump_alloc_ptr.
UsedSoFar ==
  /\ bump_alloc_ptr <= Ceiling[Len(blocks) + 1]
  /\ base_offset_added <=> blocks # << >>
  /\ IF blocks = << >> THEN bump_alloc_ptr = 0
     ELSE (address + bump_alloc_ptr) % 16 = 0

BlocksBelow ==
  \A e \in DOMAIN blocks :
    /\ (address + blocks[e].at) % 16 = 0
    /\ blocks[e].at + blocks[e].size <= bump_alloc_ptr

BlocksApart ==
  \A e, j \in DOMAIN blocks :
    e < j => blocks[e].at + blocks[e].size <= blocks[j].at

PoolInv == PoolType /\ UsedSoFar /\ BlocksBelow /\ BlocksApart /\ NeverFails

LEMMA BlocksTyped ==
  ASSUME PoolInv
  PROVE  /\ Len(blocks) \in 0 .. 6
         /\ DOMAIN blocks = 1 .. Len(blocks)
         /\ blocks \in Seq(Block)
         /\ \A e \in 1 .. Len(blocks) :
              blocks[e] \in Block /\ blocks[e].at \in Nat /\ blocks[e].size \in Nat
<1>1. blocks \in Seq(Block) /\ Len(blocks) <= 6
  BY DEF PoolInv, PoolType
<1>2. Len(blocks) \in Nat /\ DOMAIN blocks = 1 .. Len(blocks)
  BY <1>1, LenProperties
<1>3. \A e \in 1 .. Len(blocks) : blocks[e] \in Block
  BY <1>1, ElementOfSeq
<1>4. \A b \in Block : b.at \in Nat /\ b.size \in Nat
  BY DEF Block
<1> QED
  BY <1>1, <1>2, <1>3, <1>4

LEMMA StartOfBlock ==
  ASSUME PoolInv
  PROVE  /\ BlockStart \in Nat
         /\ bump_alloc_ptr <= BlockStart
         /\ BlockStart <= Ceiling[Len(blocks) + 1]
         /\ (address + BlockStart) % 16 = 0
<1>1. CASE blocks = << >>
  <2>1. ~base_offset_added /\ bump_alloc_ptr = 0 /\ Len(blocks) = 0
    BY <1>1 DEF PoolInv, UsedSoFar
  <2>2. Ceiling[1] = 15
    BY DEF Ceiling
  <2>3. CASE address = 0
    BY <2>1, <2>2, <2>3 DEF BlockStart
  <2>4. CASE address # 0
    BY <2>1, <2>2, <2>4 DEF BlockStart, PoolInv, PoolType
  <2> QED
    BY <2>3, <2>4
<1>2. CASE blocks # << >>
  BY <1>2 DEF BlockStart, PoolInv, PoolType, UsedSoFar
<1> QED
  BY <1>1, <1>2

LEMMA NextBlockFits ==
  ASSUME PoolInv, Len(blocks) < 6
  PROVE  /\ Wanted \in Nat
         /\ BlockStart + Rounded(Wanted) <= Ceiling[Len(blocks) + 2]
         /\ Fits
<1> DEFINE n == Len(blocks)
<1>1. n \in 0 .. 5 /\ mode \in Modes
  <2>1. Len(blocks) \in 0 .. 6
    BY BlocksTyped
  <2>2. n \in 0 .. 5
    BY <2>1
  <2>3. mode \in Modes
    BY DEF PoolInv, PoolType
  <2> QED
    BY <2>2, <2>3
<1>2. /\ Wanted \in Nat
      /\ Ceiling[n + 1] + Rounded(Wanted) <= Ceiling[n + 2]
  BY <1>1, RequestsFitCeiling DEF Wanted
<1>3. BlockStart \in Nat /\ BlockStart <= Ceiling[n + 1]
  BY StartOfBlock
<1>4. Rounded(Wanted) \in Nat
  BY <1>2, RoundedSize
<1>5. /\ Ceiling[n + 1] \in Nat /\ Ceiling[n + 2] \in Nat
      /\ Ceiling[n + 2] <= FLANTERM_FB_BUMP_ALLOC_POOL_SIZE
  BY <1>1, SMT DEF Ceiling, FLANTERM_FB_BUMP_ALLOC_POOL_SIZE
<1> HIDE DEF n
<1>6. BlockStart + Rounded(Wanted) <= Ceiling[n + 2]
  BY <1>2, <1>3, <1>4, <1>5
<1>7. Fits
  BY <1>3, <1>4, <1>5, <1>6, SMT DEF Fits, FLANTERM_FB_BUMP_ALLOC_POOL_SIZE
<1> QED
  BY <1>2, <1>6, <1>7 DEF n

LEMMA PoolInvInit == InitPool => PoolInv
<1> SUFFICES ASSUME InitPool PROVE PoolInv
  OBVIOUS
<1>1. blocks \in Seq(Block) /\ Len(blocks) = 0 /\ DOMAIN blocks = 1 .. 0
  BY EmptySeq, LenProperties DEF InitPool
<1>2. PoolType /\ NeverFails
  <2>1. mode \in Modes
    BY DEF InitPool, Modes
  <2>2. address \in 0 .. 15 /\ bump_alloc_ptr \in Nat /\ base_offset_added \in BOOLEAN
    BY DEF InitPool
  <2>3. NeverFails
    BY DEF InitPool, NeverFails
  <2> QED
    BY <1>1, <2>1, <2>2, <2>3 DEF PoolType
<1>3. UsedSoFar
  <2>1. Ceiling[Len(blocks) + 1] = 15
    BY <1>1 DEF Ceiling
  <2> QED
    BY <2>1 DEF InitPool, UsedSoFar
<1>4. BlocksBelow /\ BlocksApart
  BY <1>1 DEF BlocksBelow, BlocksApart
<1> QED
  BY <1>2, <1>3, <1>4 DEF PoolInv

LEMMA PoolInvAlloc == PoolInv /\ Alloc => PoolInv'
<1> SUFFICES ASSUME PoolInv, Alloc PROVE PoolInv'
  OBVIOUS
<1> DEFINE n == Len(blocks)
           b == [at |-> BlockStart, size |-> Wanted]
<1>1. /\ n \in 0 .. 5 /\ blocks \in Seq(Block) /\ address \in 0 .. 15
      /\ bump_alloc_ptr \in Nat
  <2>1. Len(blocks) \in 0 .. 6 /\ blocks \in Seq(Block)
    BY BlocksTyped
  <2>2. Len(blocks) < 6
    BY DEF Alloc
  <2>3. n \in 0 .. 5
    BY <2>1, <2>2
  <2>4. address \in 0 .. 15 /\ bump_alloc_ptr \in Nat
    BY DEF PoolInv, PoolType
  <2> QED
    BY <2>1, <2>3, <2>4
<1>2. /\ BlockStart \in Nat /\ bump_alloc_ptr <= BlockStart /\ (address + BlockStart) % 16 = 0
  BY StartOfBlock
<1>3. Wanted \in Nat /\ BlockStart + Rounded(Wanted) <= Ceiling[n + 2]
  <2>1. Len(blocks) < 6
    BY DEF Alloc
  <2> QED
    BY <2>1, NextBlockFits
<1>4. Rounded(Wanted) \in Nat /\ Rounded(Wanted) % 16 = 0 /\ Wanted <= Rounded(Wanted)
  BY <1>3, RoundedSize
<1>5. /\ blocks' = Append(blocks, b) /\ bump_alloc_ptr' = BlockStart + Rounded(Wanted)
      /\ base_offset_added' = TRUE /\ mode' = mode /\ address' = address /\ result' = result
  BY DEF Alloc
<1>6. b \in Block /\ b.at = BlockStart /\ b.size = Wanted
  BY <1>2, <1>3 DEF Block
<1> HIDE DEF b
<1>7. /\ blocks' \in Seq(Block) /\ Len(blocks') = n + 1 /\ blocks' # << >>
      /\ blocks'[n + 1] = b
      /\ \A e \in 1 .. n : blocks'[e] = blocks[e]
      /\ DOMAIN blocks' = 1 .. n + 1
  <2>1. /\ Append(blocks, b) \in Seq(Block) /\ Append(blocks, b) # << >>
        /\ Len(Append(blocks, b)) = n + 1 /\ Append(blocks, b)[n + 1] = b
        /\ \A e \in 1 .. n : Append(blocks, b)[e] = blocks[e]
    BY <1>1, <1>6, AppendProperties
  <2>2. DOMAIN Append(blocks, b) = 1 .. n + 1
    BY <2>1, LenProperties
  <2> QED
    BY <1>5, <2>1, <2>2
<1>8. PoolType'
  <2>1. mode' \in Modes /\ address' \in 0 .. 15
    BY <1>5 DEF PoolInv, PoolType
  <2>2. bump_alloc_ptr' \in Nat /\ base_offset_added' \in BOOLEAN
    BY <1>2, <1>4, <1>5
  <2>3. blocks' \in Seq(Block) /\ Len(blocks') <= 6
    BY <1>1, <1>7
  <2> QED
    BY <2>1, <2>2, <2>3 DEF PoolType
<1>9. UsedSoFar'
  <2>1. bump_alloc_ptr' <= Ceiling[Len(blocks') + 1]
    BY <1>1, <1>3, <1>5, <1>7
  <2>2. (address' + bump_alloc_ptr') % 16 = 0
    <3>1. \A u, v \in Nat : u % 16 = 0 /\ v % 16 = 0 => (u + v) % 16 = 0
      OBVIOUS
    <3>2. address' + bump_alloc_ptr' = (address + BlockStart) + Rounded(Wanted)
      BY <1>1, <1>2, <1>4, <1>5
    <3>3. address + BlockStart \in Nat
      BY <1>1, <1>2
    <3> QED
      BY <1>2, <1>4, <3>1, <3>2, <3>3
  <2> QED
    BY <1>5, <1>7, <2>1, <2>2 DEF UsedSoFar
<1>10. \A e \in 1 .. n : /\ (address + blocks[e].at) % 16 = 0
                         /\ blocks[e].at + blocks[e].size <= bump_alloc_ptr
                         /\ blocks[e].at \in Nat /\ blocks[e].size \in Nat
  BY BlocksTyped DEF PoolInv, BlocksBelow
<1>11. BlocksBelow'
  <2>1. SUFFICES ASSUME NEW e \in 1 .. n + 1
                 PROVE  /\ (address + blocks'[e].at) % 16 = 0
                        /\ blocks'[e].at + blocks'[e].size <= BlockStart + Rounded(Wanted)
    BY <1>5, <1>7 DEF BlocksBelow
  <2>2. CASE e = n + 1
    BY <1>2, <1>3, <1>4, <1>6, <1>7, <2>2
  <2>3. CASE e \in 1 .. n
    <3>1. blocks'[e] = blocks[e]
      BY <1>7, <2>3
    <3>2. bump_alloc_ptr <= BlockStart + Rounded(Wanted)
      BY <1>1, <1>2, <1>4
    <3>3. (address + blocks[e].at) % 16 = 0 /\ blocks[e].at + blocks[e].size <= bump_alloc_ptr
      BY <1>10, <2>3
    <3> DEFINE a == blocks[e].at
               z == blocks[e].size
    <3>4. /\ a \in Nat /\ z \in Nat /\ (address + a) % 16 = 0 /\ a + z <= bump_alloc_ptr
          /\ blocks'[e].at = a /\ blocks'[e].size = z
      BY <1>10, <2>3, <3>1, <3>3
    <3> HIDE DEF a, z
    <3> QED
      BY <1>1, <1>2, <1>4, <3>2, <3>4
  <2> QED
    BY <1>1, <2>2, <2>3
<1>12. BlocksApart'
  <2>1. SUFFICES ASSUME NEW e \in 1 .. n + 1, NEW j \in 1 .. n + 1, e < j
                 PROVE  blocks'[e].at + blocks'[e].size <= blocks'[j].at
    BY <1>7 DEF BlocksApart
  <2>2. CASE j = n + 1
    <3>1. e \in 1 .. n /\ blocks'[e] = blocks[e] /\ blocks'[j] = b
      BY <1>1, <1>7, <2>1, <2>2
    <3>2. blocks[e].at + blocks[e].size <= bump_alloc_ptr
      BY <1>10, <3>1
    <3> DEFINE a == blocks[e].at
               z == blocks[e].size
    <3>3. /\ a \in Nat /\ z \in Nat /\ a + z <= bump_alloc_ptr
          /\ blocks'[e].at = a /\ blocks'[e].size = z /\ blocks'[j].at = BlockStart
      BY <1>6, <1>10, <3>1, <3>2
    <3> HIDE DEF a, z
    <3> QED
      BY <1>1, <1>2, <3>3
  <2>3. CASE j \in 1 .. n
    BY <1>1, <1>7, <2>1, <2>3 DEF PoolInv, BlocksApart
  <2> QED
    BY <1>1, <2>2, <2>3
<1> QED
  BY <1>5, <1>8, <1>9, <1>11, <1>12 DEF PoolInv, NeverFails

LEMMA PoolInvStep == PoolInv /\ [PoolStep]_poolVars => PoolInv'
<1> SUFFICES ASSUME PoolInv, [PoolStep]_poolVars PROVE PoolInv'
  OBVIOUS
<1>1. CASE Alloc
  BY <1>1, PoolInvAlloc
<1>2. CASE Fail
  BY <1>2, NextBlockFits DEF Fail
<1>3. CASE ReturnContext
  BY <1>3 DEF ReturnContext, PoolInv, PoolType, UsedSoFar, BlocksBelow, BlocksApart, NeverFails
<1>4. CASE UNCHANGED poolVars
  BY <1>4 DEF poolVars, PoolInv, PoolType, UsedSoFar, BlocksBelow, BlocksApart, NeverFails
<1> QED
  BY <1>1, <1>2, <1>3, <1>4 DEF PoolStep

LEMMA PoolInvSound == PoolInv => NeverFails /\ BlocksSound
<1> SUFFICES ASSUME PoolInv PROVE BlocksSound
  BY DEF PoolInv
<1>1. bump_alloc_ptr <= FLANTERM_FB_BUMP_ALLOC_POOL_SIZE
  <2>1. Len(blocks) \in 0 .. 6 /\ bump_alloc_ptr \in Nat
    BY BlocksTyped DEF PoolInv, PoolType
  <2>2. \A k \in 0 .. 6 : /\ Ceiling[k + 1] \in Nat
                         /\ Ceiling[k + 1] <= FLANTERM_FB_BUMP_ALLOC_POOL_SIZE
    BY SMT DEF Ceiling, FLANTERM_FB_BUMP_ALLOC_POOL_SIZE
  <2>3. bump_alloc_ptr <= Ceiling[Len(blocks) + 1]
    BY DEF PoolInv, UsedSoFar
  <2> DEFINE c == Ceiling[Len(blocks) + 1]
             pool == FLANTERM_FB_BUMP_ALLOC_POOL_SIZE
  <2>4. c \in Nat /\ c <= pool
    BY <2>1, <2>2
  <2>5. pool \in Nat
    BY SMT DEF FLANTERM_FB_BUMP_ALLOC_POOL_SIZE
  <2> HIDE DEF c, pool
  <2>6. bump_alloc_ptr <= pool
    BY <2>1, <2>3, <2>4, <2>5 DEF c
  <2> QED
    BY <2>6 DEF pool
<1>2. \A e \in DOMAIN blocks : blocks[e].at \in Nat /\ blocks[e].size \in Nat
  BY BlocksTyped
<1>3. bump_alloc_ptr \in Nat /\ address \in 0 .. 15
  BY DEF PoolInv, PoolType
<1> DEFINE pool == FLANTERM_FB_BUMP_ALLOC_POOL_SIZE
<1>4. pool \in Nat
  BY SMT DEF FLANTERM_FB_BUMP_ALLOC_POOL_SIZE
<1>5. bump_alloc_ptr <= pool
  BY <1>1
<1> HIDE DEF pool
<1>6. ASSUME NEW e \in DOMAIN blocks
      PROVE  /\ (address + blocks[e].at) % 16 = 0 /\ 0 <= blocks[e].at
             /\ blocks[e].at + blocks[e].size <= pool
  <2>1. \A a, z, r, p \in Nat : a + z <= r /\ r <= p => 0 <= a /\ a + z <= p
    OBVIOUS
  <2>2. /\ (address + blocks[e].at) % 16 = 0
        /\ blocks[e].at + blocks[e].size <= bump_alloc_ptr
    BY <1>6 DEF PoolInv, BlocksBelow
  <2> QED
    BY <1>2, <1>3, <1>4, <1>5, <1>6, <2>1, <2>2
<1> QED
  BY <1>6, Zenon DEF PoolInv, BlocksApart, BlocksSound, pool

\* For every mode and every address of the pool, flanterm_fb_init gets all the
\* memory it asks for: the kernel never runs without a terminal for want of it.
THEOREM InitNeverFails == PoolSpec => []NeverFails
<1>1. InitPool => PoolInv
  BY PoolInvInit
<1>2. PoolInv /\ [PoolStep]_poolVars => PoolInv'
  BY PoolInvStep
<1>3. PoolInv => NeverFails
  BY PoolInvSound
<1> QED
  BY <1>1, <1>2, <1>3, PTL DEF PoolSpec

\* And what it gets is aligned, in the pool and not shared.
THEOREM BlocksAlwaysSound == PoolSpec => []BlocksSound
<1>1. InitPool => PoolInv
  BY PoolInvInit
<1>2. PoolInv /\ [PoolStep]_poolVars => PoolInv'
  BY PoolInvStep
<1>3. PoolInv => BlocksSound
  BY PoolInvSound
<1> QED
  BY <1>1, <1>2, <1>3, PTL DEF PoolSpec

=============================================================================
