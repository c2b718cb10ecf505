----------------------------- MODULE VmaProofs ------------------------------
(***************************************************************************)
(* The list of regions and the pages behind them, for any number and size  *)
(* of pages and any sizes of regions, with calls of vma_alloc that run out *)
(* of pages half way.                                                      *)
(*                                                                         *)
(* Two things end what is proved here, in the code as in the theorems:     *)
(* callers that do not free the latest allocation first (a new region is   *)
(* not entered as the prev of the one behind it), and a request that finds *)
(* no page for the region itself (page 0 becomes a region).                *)
(***************************************************************************)
EXTENDS Vma, FiniteSetTheorems, SequenceTheorems, TLAPS

-----------------------------------------------------------------------------
(* The inductive invariant *)

\* The list is L: each region leads to the next one.
Path(L) ==
  /\ L \in Seq(Frames) /\ Len(L) >= 1 /\ IsInjective(L)
  /\ root = L[1]
  /\ region[L[1]].prev = NULL
  /\ \A k \in 1 .. Len(L) :
       region[L[k]].next = IF k = Len(L) THEN NULL ELSE L[k + 1]

\* Regions start one behind the other, where they can be mapped.  Only the
\* first may be empty, and then the next may have its address.
Addresses(L) ==
  /\ \A k \in 1 .. Len(L) : LET r == region[L[k]] IN
       IF r.pages = 0 THEN k = 1 ELSE PageOf(r.start) + r.pages <= MaxPage
  /\ \A j, k \in 1 .. Len(L) : j < k =>
       \/ region[L[j]].start < region[L[k]].start
       \/ region[L[j]].pages = 0 /\ region[L[j]].start = region[L[k]].start

\* What callers own is in the list in the order of the allocations, linked on
\* both sides, and in front of it there is no room for a region.
OwnedAt(L, at) ==
  /\ at \in [1 .. Len(owned) -> 2 .. Len(L)]
  /\ \A j, k \in 1 .. Len(owned) : j < k => at[j] < at[k]
  /\ \A k \in 1 .. Len(owned) :
       /\ owned[k].ptr = region[L[at[k]]].start
       /\ region[L[at[k]]].prev = L[at[k] - 1]
       /\ \A j \in 1 .. at[k] - 1 : ~HasRoom(L[j])

OnePage ==
  /\ ToSet(pool) \cap Mapped = {}
  /\ \A p, q \in DOMAIN mapping :
       mapping[p] = mapping[q] /\ mapping[p] # NoPage => p = q

\* The pages of the regions and of the context have no other use.
OwnPages(L) ==
  /\ ToSet(L) \cap (ToSet(pool) \cup Mapped) = {}
  /\ context_page \in Frames
  /\ context_page \notin ToSet(L) \cup ToSet(pool) \cup Mapped

Listing(L) == Path(L) /\ Addresses(L) /\ OwnPages(L) /\ \E at : OwnedAt(L, at)

VmaInv ==
  /\ TypeOK
  /\ OnePage
  /\ context = "live" => \E L : Listing(L)
  /\ context = "none" =>
       region = [f \in Frames \cup {NoPage} |-> Blank] /\ Mapped = {}
  /\ context # "live" => root = NULL /\ owned = <<>>

-----------------------------------------------------------------------------
(* Natural numbers *)

\* Every set of natural numbers that is not empty has a least member.
LEMMA LeastMember ==
  ASSUME NEW T \in SUBSET Nat, T # {}
  PROVE  \E n \in T : \A m \in T : n <= m
<1>1. PICK b \in T : TRUE
  OBVIOUS
<1> DEFINE S == 0 .. b
           R == StrictSubsetOrdering(S)
           F == {0 .. k : k \in T \cap S}
<1>2. IsFiniteSet(S)
  BY FS_Interval
<1>3. IsWellFoundedOn(R, FiniteSubsetsOf(S))
  BY FS_StrictSubsetOrderingWellFounded
<1>4. F \subseteq FiniteSubsetsOf(S) /\ F # {}
  <2>1. \A k \in T \cap S : 0 .. k \subseteq S /\ IsFiniteSet(0 .. k)
    BY FS_Interval
  <2> QED
    BY <1>1, <2>1 DEF FiniteSubsetsOf
<1>5. PICK x \in F : \A y \in F : ~(<< y, x >> \in R)
  <2> HIDE DEF F, R
  <2> QED
    BY <1>3, <1>4, WFMin
<1>6. PICK n \in T \cap S : x = 0 .. n
  OBVIOUS
<1>7. ASSUME NEW m \in T, m < n
      PROVE  FALSE
  <2>1. m \in T \cap S /\ 0 .. m \in F
    BY <1>6, <1>7
  <2>2. 0 .. m \subseteq 0 .. n /\ 0 .. m # 0 .. n /\ 0 .. m \subseteq S /\ 0 .. n \subseteq S
    BY <1>6, <1>7
  <2>3. << 0 .. m, 0 .. n >> \in R
    BY <2>2 DEF StrictSubsetOrdering
  <2> QED
    BY <1>5, <1>6, <2>1, <2>3
<1> QED
  BY <1>6, <1>7

\* Induction, for a set in place of a property.
LEMMA Induction ==
  ASSUME NEW S, 0 \in S, \A n \in Nat : n \in S => n + 1 \in S
  PROVE  Nat \subseteq S
<1> DEFINE T == Nat \ S
<1> SUFFICES ASSUME T # {} PROVE FALSE
  OBVIOUS
<1>1. PICK n \in T : \A m \in T : n <= m
  BY LeastMember
<1>2. n # 0 /\ n - 1 \in Nat
  BY <1>1
<1>3. n - 1 \in S
  BY <1>1, <1>2
<1> QED
  BY <1>1, <1>2, <1>3

\* Of a page of an address and the ones behind it.
LEMMA PageBehind ==
  ASSUME NEW a \in Nat, NEW i \in Nat
  PROVE  PageOf(a + i * PageSize) = PageOf(a) + i /\ PageOf(a) \in Nat
<1> DEFINE q == a \div PageSize
           r == a % PageSize
<1>1. PageSize \in Nat /\ PageSize > 0
  BY VmaAssumption
<1>2. q \in Nat /\ r \in Nat /\ r < PageSize /\ a = PageSize * q + r
  BY <1>1
<1>3. a + i * PageSize = PageSize * (q + i) + r
  <2> HIDE DEF q, r
  <2> QED
    BY <1>1, <1>2
<1>4. \A x \in Nat, y \in Nat : y < PageSize => (PageSize * x + y) \div PageSize = x
  BY <1>1
<1> HIDE DEF q, r
<1>5. q + i \in Nat
  BY <1>2
<1>6. (a + i * PageSize) \div PageSize = q + i
  BY <1>2, <1>3, <1>4, <1>5
<1> QED
  BY <1>2, <1>6 DEF PageOf, q

-----------------------------------------------------------------------------
(* The list *)

LEMMA NullIsNone == NULL \notin Frames /\ NoPage \notin Frames /\ NULL # NoPage
BY VmaAssumption DEF NULL, NoPage, Frames

\* Different pages are no more than there are.
LEMMA PathLength ==
  ASSUME NEW L \in Seq(Frames), IsInjective(L)
  PROVE  Len(L) <= FrameCount
<1>1. IsFiniteSet(Frames) /\ Cardinality(Frames) = FrameCount
  BY FS_Interval, VmaAssumption DEF Frames
<1>2. Len(L) \in Nat /\ IsFiniteSet(1 .. Len(L)) /\ Cardinality(1 .. Len(L)) = Len(L)
  <2>1. Len(L) \in Nat
    OBVIOUS
  <2> QED
    BY <2>1, FS_Interval
<1>3. L \in Injection(1 .. Len(L), Frames)
  BY DEF Injection, IsInjective
<1> QED
  BY <1>1, <1>2, <1>3, FS_Injection

\* What the definition of Nth says, of any function.
FollowsNext(f) ==
  f = [k \in 0 .. FrameCount + 2 |->
         IF k = 0 THEN root
         ELSE IF f[k - 1] = NULL THEN NULL ELSE region[f[k - 1]].next]

LEMMA NthFollows == ASSUME NEW f, FollowsNext(f) PROVE FollowsNext(Nth)
<1>1. Nth = CHOOSE g : FollowsNext(g)
  BY DEF Nth, FollowsNext
<1> QED
  BY <1>1

\* The recursion follows the path, and stays at its end.
LEMMA NthOfPath ==
  ASSUME NEW L, Path(L)
  PROVE  /\ DOMAIN Nth = 0 .. FrameCount + 2
         /\ Len(L) \in 1 .. FrameCount
         /\ \A k \in 0 .. FrameCount + 2 : Nth[k] = IF k < Len(L) THEN L[k + 1] ELSE NULL
<1> DEFINE f == [k \in 0 .. FrameCount + 2 |-> IF k < Len(L) THEN L[k + 1] ELSE NULL]
<1>1. Len(L) \in 1 .. FrameCount /\ FrameCount \in Nat
  BY PathLength, VmaAssumption DEF Path
<1>2. \A k \in 0 .. FrameCount + 2 :
        f[k] = IF k = 0 THEN root
               ELSE IF f[k - 1] = NULL THEN NULL ELSE region[f[k - 1]].next
  <2>1. TAKE k \in 0 .. FrameCount + 2
  <2>2. CASE k = 0
    BY <1>1, <2>2 DEF Path
  <2>3. CASE k # 0 /\ k - 1 < Len(L)
    <3>1. f[k - 1] = L[k] /\ k \in 1 .. Len(L)
      BY <1>1, <2>3
    <3>2. L[k] # NULL
      BY <3>1, NullIsNone DEF Path
    <3> QED
      BY <1>1, <2>3, <3>1, <3>2 DEF Path
  <2>4. CASE k # 0 /\ k - 1 >= Len(L)
    BY <1>1, <2>4
  <2> QED
    BY <1>1, <2>2, <2>3, <2>4
<1>3. FollowsNext(f)
  BY <1>2 DEF FollowsNext
<1>4. Nth = [k \in 0 .. FrameCount + 2 |->
               IF k = 0 THEN root
               ELSE IF Nth[k - 1] = NULL THEN NULL ELSE region[Nth[k - 1]].next]
  <2>1. FollowsNext(Nth)
    BY <1>3, NthFollows
  <2> QED
    BY <2>1 DEF FollowsNext
<1> DEFINE S == {k \in Nat : k <= FrameCount + 2 => Nth[k] = f[k]}
<1>5. 0 \in S
  BY <1>1, <1>2, <1>4
<1>6. ASSUME NEW n \in Nat, n \in S
      PROVE  n + 1 \in S
  <2> SUFFICES ASSUME n + 1 <= FrameCount + 2 PROVE Nth[n + 1] = f[n + 1]
    OBVIOUS
  <2>1. n + 1 \in 0 .. FrameCount + 2 /\ n + 1 # 0 /\ (n + 1) - 1 = n
    BY <1>1
  <2>2. Nth[n] = f[n]
    BY <1>1, <1>6
  <2>3. Nth[n + 1] = IF Nth[n] = NULL THEN NULL ELSE region[Nth[n]].next
    BY <1>4, <2>1
  <2>4. f[n + 1] = IF f[n] = NULL THEN NULL ELSE region[f[n]].next
    <3> HIDE DEF f
    <3> QED
      BY <1>2, <2>1
  <2> QED
    BY <2>2, <2>3, <2>4
<1>7. Nat \subseteq S
  <2> HIDE DEF S
  <2> QED
    BY <1>5, <1>6, Induction
<1>8. \A k \in 0 .. FrameCount + 2 : Nth[k] = f[k]
  <2> HIDE DEF f
  <2> QED
    BY <1>7
<1>9. DOMAIN Nth = 0 .. FrameCount + 2
  BY <1>4, Zenon
<1> QED
  BY <1>1, <1>8, <1>9

\* Without a list nothing is listed.
LEMMA NthOfNone ==
  ASSUME root = NULL
  PROVE  Listed = {} /\ Ends
<1> DEFINE f == [k \in 0 .. FrameCount + 2 |-> NULL]
<1>1. FrameCount \in Nat
  BY VmaAssumption
<1>2. FollowsNext(f)
  BY <1>1 DEF FollowsNext
<1>3. Nth = [k \in 0 .. FrameCount + 2 |->
               IF k = 0 THEN root
               ELSE IF Nth[k - 1] = NULL THEN NULL ELSE region[Nth[k - 1]].next]
  <2>1. FollowsNext(Nth)
    BY <1>2, NthFollows
  <2> QED
    BY <2>1 DEF FollowsNext
<1> DEFINE S == {k \in Nat : k <= FrameCount + 2 => Nth[k] = NULL}
<1>4. 0 \in S
  BY <1>1, <1>3
<1>5. ASSUME NEW n \in Nat, n \in S
      PROVE  n + 1 \in S
  <2> SUFFICES ASSUME n + 1 <= FrameCount + 2 PROVE Nth[n + 1] = NULL
    OBVIOUS
  <2>1. n + 1 \in 0 .. FrameCount + 2 /\ n + 1 # 0 /\ (n + 1) - 1 = n
    BY <1>1
  <2>2. Nth[n] = NULL
    BY <1>1, <1>5
  <2> QED
    BY <1>3, <2>1, <2>2
<1>6. Nat \subseteq S
  <2> HIDE DEF S
  <2> QED
    BY <1>4, <1>5, Induction
<1>7. \A k \in 0 .. FrameCount + 2 : Nth[k] = NULL
  BY <1>6
<1>8. DOMAIN Nth = 0 .. FrameCount + 2
  BY <1>3, Zenon
<1> QED
  BY <1>1, <1>7, <1>8 DEF Listed, Ends

\* What is listed is what is on the path.
LEMMA ListedIsPath ==
  ASSUME NEW L, Path(L)
  PROVE  Listed = ToSet(L) /\ Ends
<1>1. /\ DOMAIN Nth = 0 .. FrameCount + 2 /\ Len(L) \in 1 .. FrameCount
      /\ \A k \in 0 .. FrameCount + 2 : Nth[k] = IF k < Len(L) THEN L[k + 1] ELSE NULL
  BY NthOfPath
<1>2. L \in Seq(Frames) /\ FrameCount \in Nat
  BY VmaAssumption DEF Path
<1>3. ASSUME NEW k \in 1 .. Len(L) PROVE L[k] \in Listed
  <2>1. k - 1 \in 0 .. FrameCount + 2 /\ k - 1 < Len(L) /\ (k - 1) + 1 = k
    BY <1>1, <1>2
  <2>2. Nth[k - 1] = L[k] /\ L[k] # NULL
    BY <1>1, <1>2, <2>1, NullIsNone
  <2> QED
    BY <1>1, <2>1, <2>2 DEF Listed
<1>4. ASSUME NEW k \in 0 .. FrameCount + 2, Nth[k] # NULL PROVE Nth[k] \in ToSet(L)
  BY <1>1, <1>2, <1>4 DEF ToSet
<1>5. Ends
  BY <1>1, <1>2 DEF Ends
<1> QED
  BY <1>1, <1>2, <1>3, <1>4, <1>5 DEF Listed, ToSet

\* The first of a set that the path meets.
LEMMA FirstOnPath ==
  ASSUME NEW L, Path(L), NEW S, NULL \notin S,
         NEW m \in 1 .. Len(L), L[m] \in S, \A j \in 1 .. m - 1 : L[j] \notin S
  PROVE  FirstIn(S) = L[m]
<1> DEFINE First(k) == Nth[k] \in S /\ \A j \in 0 .. k - 1 : Nth[j] \notin S
           c == CHOOSE k \in DOMAIN Nth : First(k)
<1>1. /\ DOMAIN Nth = 0 .. FrameCount + 2 /\ Len(L) \in 1 .. FrameCount
      /\ \A k \in 0 .. FrameCount + 2 : Nth[k] = IF k < Len(L) THEN L[k + 1] ELSE NULL
  BY NthOfPath
<1>2. FrameCount \in Nat /\ m - 1 \in DOMAIN Nth /\ Nth[m - 1] = L[m]
  BY <1>1, VmaAssumption
<1>3. \A j \in 0 .. m - 2 : Nth[j] \notin S
  <2>1. TAKE j \in 0 .. m - 2
  <2>2. Nth[j] = L[j + 1] /\ j + 1 \in 1 .. m - 1
    BY <1>1, <1>2
  <2> QED
    BY <2>2
<1>4. First(m - 1)
  BY <1>2, <1>3
<1>5. c \in DOMAIN Nth /\ First(c)
  <2> HIDE DEF First
  <2> QED
    BY <1>2, <1>4
<1>6. c = m - 1
  BY <1>1, <1>2, <1>4, <1>5
<1> QED
  BY <1>2, <1>6 DEF FirstIn

-----------------------------------------------------------------------------
(* What a sequence keeps *)

\* What the definition in Kept says, of any function and of n elements.
Keeps(f, pages, S, n) ==
  f = [i \in 0 .. n |->
         IF i = 0 THEN <<>>
         ELSE IF pages[i] \in S THEN Append(f[i - 1], pages[i]) ELSE f[i - 1]]

LEMMA KeepsExists ==
  ASSUME NEW pages, NEW S, NEW n \in Nat
  PROVE  \E f : Keeps(f, pages, S, n)
<1> DEFINE T == {m \in Nat : \E f : Keeps(f, pages, S, m)}
<1>1. 0 \in T
  <2>1. Keeps([i \in 0 .. 0 |-> <<>>], pages, S, 0)
    BY DEF Keeps
  <2> QED
    BY <2>1
<1>2. ASSUME NEW m \in Nat, m \in T
      PROVE  m + 1 \in T
  <2>1. PICK f : Keeps(f, pages, S, m)
    BY <1>2
  <2> DEFINE g == [i \in 0 .. m + 1 |->
                     IF i <= m THEN f[i]
                     ELSE IF pages[i] \in S THEN Append(f[m], pages[i]) ELSE f[m]]
  <2>2. \A i \in 0 .. m :
          f[i] = IF i = 0 THEN <<>>
                 ELSE IF pages[i] \in S THEN Append(f[i - 1], pages[i]) ELSE f[i - 1]
    BY <2>1 DEF Keeps
  <2>3. \A i \in 0 .. m : g[i] = f[i]
    OBVIOUS
  <2>4. g[m + 1] = IF pages[m + 1] \in S THEN Append(f[m], pages[m + 1]) ELSE f[m]
    OBVIOUS
  <2>5. DOMAIN g = 0 .. m + 1 /\ g = [i \in 0 .. m + 1 |-> g[i]]
    OBVIOUS
  <2> HIDE DEF g
  <2>6. ASSUME NEW i \in 0 .. m + 1
        PROVE  g[i] = IF i = 0 THEN <<>>
                      ELSE IF pages[i] \in S THEN Append(g[i - 1], pages[i]) ELSE g[i - 1]
    <3>1. CASE i <= m
      <4>1. i \in 0 .. m /\ (i # 0 => i - 1 \in 0 .. m)
        BY <3>1
      <4> QED
        BY <2>2, <2>3, <4>1
    <3>2. CASE i = m + 1
      <4>1. i - 1 = m /\ m \in 0 .. m /\ i # 0
        BY <3>2
      <4> QED
        BY <2>3, <2>4, <3>2, <4>1
    <3> QED
      BY <3>1, <3>2
  <2>7. Keeps(g, pages, S, m + 1)
    BY <2>5, <2>6 DEF Keeps
  <2> QED
    BY <2>7
<1>3. Nat \subseteq T
  <2> HIDE DEF T
  <2> QED
    BY <1>1, <1>2, Induction
<1> QED
  BY <1>3

\* Kept has the members that are in S, none twice that was there once.
LEMMA KeptFacts ==
  ASSUME NEW T, NEW pages \in Seq(T), NEW S
  PROVE  /\ Kept(pages, S) \in Seq(T)
         /\ ToSet(Kept(pages, S)) = ToSet(pages) \cap S
         /\ IsInjective(pages) => IsInjective(Kept(pages, S))
<1>1. Len(pages) \in Nat /\ \A i \in 1 .. Len(pages) : pages[i] \in T
  OBVIOUS
<1>2. PICK f : Keeps(f, pages, S, Len(pages)) /\ Kept(pages, S) = f[Len(pages)]
  <2> DEFINE g == CHOOSE g : Keeps(g, pages, S, Len(pages))
  <2>1. Kept(pages, S) = g[Len(pages)]
    BY DEF Kept, Keeps
  <2>2. \E h : Keeps(h, pages, S, Len(pages))
    BY <1>1, KeepsExists
  <2>3. Keeps(g, pages, S, Len(pages))
    BY <2>2
  <2> QED
    BY <2>1, <2>3
<1>3. \A i \in 0 .. Len(pages) :
        f[i] = IF i = 0 THEN <<>>
               ELSE IF pages[i] \in S THEN Append(f[i - 1], pages[i]) ELSE f[i - 1]
  BY <1>2 DEF Keeps
<1> DEFINE Good(i) ==
      /\ f[i] \in Seq(T)
      /\ \A x : (\E j \in 1 .. Len(f[i]) : f[i][j] = x) <=>
                (\E j \in 1 .. i : pages[j] = x /\ x \in S)
      /\ IsInjective(pages) => IsInjective(f[i])
    G == {i \in Nat : i <= Len(pages) => Good(i)}
<1>4. 0 \in G
  <2>1. f[0] = <<>>
    BY <1>1, <1>3
  <2>2. Len(<<>>) = 0 /\ <<>> \in Seq(T) /\ DOMAIN <<>> = 1 .. 0
    OBVIOUS
  <2>3. IsInjective(<<>>)
    BY <2>2 DEF IsInjective
  <2>4. Good(0)
    BY <2>1, <2>2, <2>3
  <2> HIDE DEF Good
  <2> QED
    BY <2>4
<1>5. ASSUME NEW n \in Nat, n \in G
      PROVE  n + 1 \in G
  <2> SUFFICES ASSUME n + 1 <= Len(pages) PROVE Good(n + 1)
    OBVIOUS
  <2>1. Good(n) /\ n + 1 \in 1 .. Len(pages) /\ pages[n + 1] \in T
    BY <1>1, <1>5
  <2>2. f[n + 1] = IF pages[n + 1] \in S THEN Append(f[n], pages[n + 1]) ELSE f[n]
    <3>1. n + 1 \in 0 .. Len(pages) /\ n + 1 # 0 /\ (n + 1) - 1 = n
      BY <1>1, <2>1
    <3> QED
      BY <1>3, <3>1
  <2>3. \A x : (\E j \in 1 .. n + 1 : pages[j] = x /\ x \in S) <=>
               (\E j \in 1 .. n : pages[j] = x /\ x \in S) \/ (pages[n + 1] = x /\ x \in S)
    OBVIOUS
  <2>4. CASE pages[n + 1] \notin S
    <3>1. f[n + 1] = f[n]
      BY <2>2, <2>4
    <3>2. \A x : (\E j \in 1 .. n + 1 : pages[j] = x /\ x \in S) <=>
                 (\E j \in 1 .. n : pages[j] = x /\ x \in S)
      BY <2>3, <2>4
    <3> QED
      BY <2>1, <3>1, <3>2
  <2>5. CASE pages[n + 1] \in S
    <3> DEFINE t == f[n]
               u == f[n + 1]
    <3>1. /\ t \in Seq(T) /\ u = Append(t, pages[n + 1])
          /\ u \in Seq(T) /\ Len(u) = Len(t) + 1 /\ Len(t) \in Nat
          /\ \A j \in 1 .. Len(t) : u[j] = t[j]
          /\ u[Len(t) + 1] = pages[n + 1]
      BY <2>1, <2>2, <2>5
    <3>2. \A x : (\E j \in 1 .. Len(t) : t[j] = x) <=>
                 (\E j \in 1 .. n : pages[j] = x /\ x \in S)
      BY <2>1
    <3>3. IsInjective(pages) => \A j \in 1 .. n : pages[j] # pages[n + 1]
      BY <1>1, <2>1 DEF IsInjective
    <3>4. IsInjective(pages) => IsInjective(t)
      BY <2>1
    <3> HIDE DEF t, u
    <3>5. \A x : (\E j \in 1 .. Len(u) : u[j] = x) <=>
                 (\E j \in 1 .. Len(t) : t[j] = x) \/ x = pages[n + 1]
      BY <3>1
    <3>6. \A x : (\E j \in 1 .. Len(u) : u[j] = x) <=>
                 (\E j \in 1 .. n + 1 : pages[j] = x /\ x \in S)
      BY <2>3, <2>5, <3>2, <3>5
    <3>7. ASSUME IsInjective(pages) PROVE IsInjective(u)
      <4>1. \A j \in 1 .. Len(t) : t[j] # pages[n + 1]
        BY <3>2, <3>3, <3>7
      <4>2. DOMAIN u = 1 .. Len(t) + 1 /\ DOMAIN t = 1 .. Len(t)
        BY <3>1
      <4> QED
        BY <3>1, <3>4, <3>7, <4>1, <4>2 DEF IsInjective
    <3> QED
      BY <3>1, <3>6, <3>7 DEF u
  <2> QED
    BY <2>4, <2>5
<1>6. Good(Len(pages))
  <2>1. Nat \subseteq G
    <3> HIDE DEF G
    <3> QED
      BY <1>4, <1>5, Induction
  <2>2. Len(pages) \in G
    BY <1>1, <2>1
  <2> HIDE DEF Good
  <2> QED
    BY <1>1, <2>2
<1>7. PICK t : t = Kept(pages, S)
  OBVIOUS
<1>8. /\ t \in Seq(T) /\ DOMAIN t = 1 .. Len(t) /\ DOMAIN pages = 1 .. Len(pages)
      /\ \A x : (\E j \in 1 .. Len(t) : t[j] = x) <=>
                (\E j \in 1 .. Len(pages) : pages[j] = x /\ x \in S)
      /\ IsInjective(pages) => IsInjective(t)
  BY <1>2, <1>6, <1>7
<1>9. ToSet(t) = ToSet(pages) \cap S
  BY <1>8 DEF ToSet
<1> QED
  BY <1>7, <1>8, <1>9

-----------------------------------------------------------------------------
(* Pools *)

LEMMA FrontFacts ==
  ASSUME NEW T, NEW s \in Seq(T), IsInjective(s), s # <<>>
  PROVE  /\ Front(s) \in Seq(T) /\ IsInjective(Front(s))
         /\ Last(s) \in T /\ Last(s) \notin ToSet(Front(s))
         /\ ToSet(s) = ToSet(Front(s)) \cup {Last(s)}
         /\ Len(Front(s)) = Len(s) - 1 /\ Len(s) \in Nat \ {0}
<1>1. Len(s) \in Nat \ {0} /\ DOMAIN s = 1 .. Len(s)
  BY EmptySeq
<1>2. PICK f : f = Front(s)
  OBVIOUS
<1>3. /\ f \in Seq(T) /\ Len(f) = Len(s) - 1 /\ DOMAIN f = 1 .. Len(s) - 1
      /\ \A i \in 1 .. Len(s) - 1 : f[i] = s[i]
  BY <1>1, <1>2 DEF Front
<1>4. Last(s) = s[Len(s)] /\ Last(s) \in T
  BY <1>1 DEF Last
<1>5. IsInjective(f) /\ Last(s) \notin ToSet(f)
  BY <1>1, <1>3, <1>4 DEF IsInjective, ToSet
<1>6. ToSet(s) = ToSet(f) \cup {Last(s)}
  BY <1>1, <1>3, <1>4 DEF ToSet
<1> QED
  BY <1>1, <1>2, <1>3, <1>4, <1>5, <1>6

LEMMA ConcatFacts ==
  ASSUME NEW T, NEW s \in Seq(T), NEW t \in Seq(T)
  PROVE  /\ s \o t \in Seq(T)
         /\ ToSet(s \o t) = ToSet(s) \cup ToSet(t)
         /\ IsInjective(s) /\ IsInjective(t) /\ ToSet(s) \cap ToSet(t) = {}
              => IsInjective(s \o t)
<1>1. PICK u : u = s \o t
  OBVIOUS
<1>2. /\ u \in Seq(T) /\ DOMAIN u = 1 .. Len(s) + Len(t)
      /\ DOMAIN s = 1 .. Len(s) /\ DOMAIN t = 1 .. Len(t)
      /\ Len(s) \in Nat /\ Len(t) \in Nat
      /\ \A i \in 1 .. Len(s) : u[i] = s[i]
      /\ \A i \in 1 .. Len(t) : u[Len(s) + i] = t[i]
  BY <1>1
<1>3. \A i \in DOMAIN u : i \notin 1 .. Len(s) =>
        i - Len(s) \in 1 .. Len(t) /\ u[i] = t[i - Len(s)]
  BY <1>2
<1>4. ToSet(u) = ToSet(s) \cup ToSet(t)
  <2>1. \A x \in ToSet(u) : x \in ToSet(s) \cup ToSet(t)
    BY <1>2, <1>3 DEF ToSet
  <2>2. \A x \in ToSet(s) : x \in ToSet(u)
    BY <1>2 DEF ToSet
  <2>3. \A x \in ToSet(t) : x \in ToSet(u)
    <3>1. \A i \in 1 .. Len(t) : Len(s) + i \in DOMAIN u
      BY <1>2
    <3> QED
      BY <1>2, <3>1 DEF ToSet
  <2> QED
    BY <2>1, <2>2, <2>3
<1>5. ASSUME IsInjective(s), IsInjective(t), ToSet(s) \cap ToSet(t) = {}
      PROVE  IsInjective(u)
  <2> SUFFICES ASSUME NEW a \in DOMAIN u, NEW b \in DOMAIN u, u[a] = u[b]
               PROVE  a = b
    BY DEF IsInjective
  <2>1. CASE a \in 1 .. Len(s) /\ b \in 1 .. Len(s)
    BY <1>2, <1>5, <2>1 DEF IsInjective
  <2>2. CASE a \notin 1 .. Len(s) /\ b \notin 1 .. Len(s)
    <3>1. a - Len(s) = b - Len(s)
      BY <1>2, <1>3, <1>5, <2>2 DEF IsInjective
    <3> QED
      BY <1>2, <3>1
  <2>3. CASE a \in 1 .. Len(s) /\ b \notin 1 .. Len(s)
    BY ZenonT(60), <1>2, <1>3, <1>5, <2>3 DEF ToSet
  <2>4. CASE a \notin 1 .. Len(s) /\ b \in 1 .. Len(s)
    BY ZenonT(60), <1>2, <1>3, <1>5, <2>4 DEF ToSet
  <2> QED
    BY <2>1, <2>2, <2>3, <2>4
<1> QED
  BY <1>1, <1>2, <1>4, <1>5

LEMMA OneMemberSeq ==
  ASSUME NEW T, NEW x \in T
  PROVE  <<x>> \in Seq(T) /\ ToSet(<<x>>) = {x} /\ IsInjective(<<x>>)
<1>1. PICK s : s = <<x>>
  OBVIOUS
<1>2. s \in Seq(T) /\ DOMAIN s = 1 .. 1 /\ s[1] = x
  BY <1>1
<1> QED
  BY <1>1, <1>2 DEF ToSet, IsInjective

-----------------------------------------------------------------------------
(* The context *)

LEMMA InvInit == Init => VmaInv
<1> SUFFICES ASSUME Init PROVE VmaInv
  OBVIOUS
<1> USE DEF Init
<1>1. FrameCount \in Nat /\ MaxPage \in Nat
  BY VmaAssumption
<1>2. /\ pool \in Seq(Frames) /\ Len(pool) = FrameCount /\ DOMAIN pool = 1 .. FrameCount
  <2>1. pool \in [1 .. FrameCount -> Frames]
    BY <1>1 DEF Frames
  <2> QED
    BY <1>1, <2>1
<1>3. IsInjective(pool)
  BY <1>1, <1>2 DEF IsInjective
<1>4. Mapped = {}
  BY DEF Mapped
<1>5. Blank \in [start : Nat, pages : Nat, next : Frames \cup {NoPage, NULL},
                 prev : Frames \cup {NoPage, NULL}]
  BY DEF Blank
<1>6. TypeOK
  <2>1. owned \in Seq([ptr : Nat, pages : Nat])
    OBVIOUS
  <2> QED
    BY <1>2, <1>3, <1>5, <2>1 DEF TypeOK
<1>7. OnePage
  BY <1>4 DEF OnePage
<1> QED
  BY <1>4, <1>6, <1>7 DEF VmaInv

LEMMA StepCreate == VmaInv /\ Create => VmaInv'
<1> SUFFICES ASSUME VmaInv, Create PROVE VmaInv'
  OBVIOUS
<1>1. /\ TypeOK /\ OnePage /\ context = "none" /\ owned = <<>>
      /\ region = [f \in Frames \cup {NoPage} |-> Blank] /\ Mapped = {}
  BY DEF VmaInv, Create
<1>2. pool \in Seq(Frames) /\ IsInjective(pool) /\ Len(pool) >= 2
  BY <1>1 DEF Create, TypeOK
<1>3. PICK f : f = Front(pool)
  OBVIOUS
<1>4. /\ f \in Seq(Frames) /\ IsInjective(f) /\ Len(f) = Len(pool) - 1 /\ f # <<>>
      /\ Last(pool) \in Frames /\ Last(pool) \notin ToSet(f)
  <2>1. pool # <<>>
    BY <1>2
  <2>2. /\ f \in Seq(Frames) /\ IsInjective(f) /\ Len(f) = Len(pool) - 1
        /\ Last(pool) \in Frames /\ Last(pool) \notin ToSet(f)
    BY <1>2, <1>3, <2>1, FrontFacts
  <2> QED
    BY <1>2, <2>2
<1>5. /\ Front(f) \in Seq(Frames) /\ IsInjective(Front(f))
      /\ Last(f) \in Frames /\ Last(f) \notin ToSet(Front(f))
      /\ ToSet(f) = ToSet(Front(f)) \cup {Last(f)}
  BY <1>4, FrontFacts
<1>6. /\ context_page' = Last(pool) /\ root' = Last(f) /\ pool' = Front(f)
      /\ region' = [region EXCEPT ![root'].start = VMA_MIN_ADDRESS, ![root'].pages = 0]
      /\ context' = "live" /\ mapping' = mapping /\ owned' = <<>>
  BY <1>1, <1>3 DEF Create
<1>7. PICK r \in Frames : r = root'
  BY <1>5, <1>6
<1>8. region' = [region EXCEPT ![r] = [start |-> PageSize, pages |-> 0,
                                       next |-> NULL, prev |-> NULL]]
  <2>1. region' = [region EXCEPT ![r] = [[@ EXCEPT !.start = VMA_MIN_ADDRESS] EXCEPT !.pages = 0]]
    BY <1>1, <1>6, <1>7
  <2>2. region[r] = Blank
    BY <1>1
  <2>3. [[Blank EXCEPT !.start = VMA_MIN_ADDRESS] EXCEPT !.pages = 0] =
          [start |-> PageSize, pages |-> 0, next |-> NULL, prev |-> NULL]
    <3>1. [Blank EXCEPT !.start = VMA_MIN_ADDRESS] =
            [start |-> PageSize, pages |-> 0, next |-> NULL, prev |-> NULL]
      BY DEF Blank, VMA_MIN_ADDRESS
    <3> QED
      BY <3>1
  <2> QED
    BY <2>1, <2>2, <2>3
<1>9. TypeOK'
  <2>1. region' \in [Frames \cup {NoPage} ->
                      [start : Nat, pages : Nat,
                       next : Frames \cup {NoPage, NULL},
                       prev : Frames \cup {NoPage, NULL}]]
    BY <1>1, <1>8, VmaAssumption DEF TypeOK
  <2>2. owned' \in Seq([ptr : Nat, pages : Nat])
    BY <1>6
  <2> QED
    BY <1>1, <1>5, <1>6, <2>1, <2>2 DEF TypeOK
<1>10. Mapped' = {}
  BY <1>1, <1>6 DEF Mapped
<1>11. OnePage'
  BY <1>1, <1>6, <1>10 DEF OnePage
<1> DEFINE L == <<r>>
<1>12. L \in Seq(Frames) /\ Len(L) = 1 /\ L[1] = r /\ ToSet(L) = {r} /\ IsInjective(L)
  BY OneMemberSeq
<1> HIDE DEF L
<1>13. region'[r] = [start |-> PageSize, pages |-> 0, next |-> NULL, prev |-> NULL]
  BY <1>1, <1>8
<1>14. Path(L)'
  BY <1>7, <1>12, <1>13 DEF Path
<1>15. Addresses(L)'
  BY <1>12, <1>13 DEF Addresses
<1>16. OwnPages(L)'
  BY <1>4, <1>5, <1>6, <1>7, <1>10, <1>12 DEF OwnPages
<1>17. \E at : OwnedAt(L, at)'
  <2>1. Len(owned') = 0
    BY <1>6
  <2>2. [k \in 1 .. 0 |-> 2] \in [1 .. 0 -> 2 .. Len(L)]
    OBVIOUS
  <2>3. OwnedAt(L, [k \in 1 .. 0 |-> 2])'
    BY <2>1, <2>2 DEF OwnedAt
  <2> QED
    BY <2>3
<1>18. Listing(L)'
  BY <1>14, <1>15, <1>16, <1>17 DEF Listing
<1> QED
  BY <1>6, <1>9, <1>11, <1>18 DEF VmaInv

LEMMA StepDestroy == VmaInv /\ Destroy => VmaInv'
<1> SUFFICES ASSUME VmaInv, Destroy PROVE VmaInv'
  OBVIOUS
<1>0. PICK c : c = <<context_page>>
  OBVIOUS
<1>1. TypeOK /\ OnePage /\ context = "live"
  BY DEF VmaInv, Destroy
<1>2. PICK L : Path(L) /\ OwnPages(L)
  BY <1>1 DEF VmaInv, Listing
<1>3. L \in Seq(Frames) /\ IsInjective(L) /\ Len(L) \in 1 .. FrameCount /\ DOMAIN L = 1 .. Len(L)
  BY <1>2, NthOfPath DEF Path
<1>4. Cardinality(Listed) = Len(L)
  <2>1. Listed = ToSet(L)
    BY <1>2, ListedIsPath
  <2>2. L \in Bijection(1 .. Len(L), ToSet(L))
    BY <1>3 DEF Bijection, Injection, Surjection, ToSet
  <2>3. IsFiniteSet(1 .. Len(L)) /\ Cardinality(1 .. Len(L)) = Len(L)
    BY <1>3, FS_Interval
  <2>4. Cardinality(ToSet(L)) = Cardinality(1 .. Len(L))
    BY <2>2, <2>3, FS_Bijection DEF ExistsBijection
  <2> QED
    BY <2>1, <2>3, <2>4
<1>5. ReleasedByDestroy = L \o <<context_page>>
  <2>1. \A k \in 1 .. Len(L) : k - 1 \in 0 .. FrameCount + 2 /\ k - 1 < Len(L) /\ (k - 1) + 1 = k
    BY <1>3, VmaAssumption
  <2>2. \A k \in 1 .. Len(L) : Nth[k - 1] = L[k]
    BY <1>2, <2>1, NthOfPath
  <2>3. [k \in 1 .. Len(L) |-> Nth[k - 1]] = L
    BY <1>3, <2>2
  <2> QED
    BY <1>4, <2>3 DEF ReleasedByDestroy
<1>6. context_page \in Frames /\ context_page \notin ToSet(L)
  BY <1>2 DEF OwnPages
<1> DEFINE s == L \o c
           t == Kept(s, Frames)
<1>7. s \in Seq(Frames) /\ IsInjective(s) /\ ToSet(s) = ToSet(L) \cup {context_page}
  <2>1. c \in Seq(Frames) /\ ToSet(c) = {context_page} /\ IsInjective(c)
    BY <1>0, <1>6, OneMemberSeq
  <2>2. ToSet(L) \cap ToSet(c) = {}
    BY <1>6, <2>1
  <2> QED
    BY <1>3, <2>1, <2>2, ConcatFacts
<1> HIDE DEF s
<1>8. /\ t \in Seq(Frames) /\ IsInjective(t)
      /\ ToSet(t) \subseteq ToSet(L) \cup {context_page}
  BY <1>7, KeptFacts
<1>9. pool' = pool \o t
  BY <1>0, <1>5 DEF Destroy, s
<1> HIDE DEF t
<1>10. ToSet(t) \cap (ToSet(pool) \cup Mapped) = {}
  BY <1>2, <1>8 DEF OwnPages
<1>11. /\ pool' \in Seq(Frames) /\ IsInjective(pool')
       /\ ToSet(pool') = ToSet(pool) \cup ToSet(t)
  <2>1. pool \in Seq(Frames) /\ IsInjective(pool)
    BY <1>1 DEF TypeOK
  <2>2. ToSet(pool) \cap ToSet(t) = {}
    BY <1>10
  <2> QED
    BY <1>8, <1>9, <2>1, <2>2, ConcatFacts
<1>12. /\ mapping' = mapping /\ region' = region /\ context' = "destroyed"
       /\ root' = NULL /\ owned' = <<>>
  BY DEF Destroy
<1>13. Mapped' = Mapped
  BY <1>12 DEF Mapped
<1>14. TypeOK'
  <2>1. owned' \in Seq([ptr : Nat, pages : Nat])
    BY <1>12
  <2> QED
    BY <1>1, <1>11, <1>12, <2>1 DEF TypeOK
<1>15. OnePage'
  BY <1>1, <1>10, <1>11, <1>12, <1>13 DEF OnePage
<1> QED
  BY <1>12, <1>14, <1>15 DEF VmaInv

-----------------------------------------------------------------------------
(* vma_alloc *)

Region == [start : Nat, pages : Nat, next : Frames \cup {NoPage, NULL},
           prev : Frames \cup {NoPage, NULL}]

\* A region of the list with room behind it: the end of what is in the list up
\* to there.
LEMMA EndsBehind ==
  ASSUME TypeOK, NEW L, Path(L), Addresses(L), NEW m \in 1 .. Len(L)
  PROVE  /\ EndOf(L[m]) \in Nat
         /\ \A j \in 1 .. m :
              \/ region[L[j]].start < EndOf(L[m])
              \/ region[L[j]].pages = 0 /\ region[L[j]].start = EndOf(L[m])
         /\ HasRoom(L[m]) => \A j \in m + 1 .. Len(L) : EndOf(L[m]) < region[L[j]].start
<1>1. /\ Len(L) \in Nat /\ \A j \in 1 .. Len(L) : L[j] \in Frames
      /\ \A j \in 1 .. Len(L) : region[L[j]].start \in Nat /\ region[L[j]].pages \in Nat
  BY DEF Path, TypeOK
<1>2. EndOf(L[m]) = region[L[m]].start + region[L[m]].pages
  BY DEF EndOf
<1>3. \A j, k \in 1 .. Len(L) : j < k =>
       \/ region[L[j]].start < region[L[k]].start
       \/ region[L[j]].pages = 0 /\ region[L[j]].start = region[L[k]].start
  BY DEF Addresses
<1>4. \A k \in 1 .. Len(L) : region[L[k]].pages = 0 => k = 1
  BY DEF Addresses
<1>5. ASSUME NEW j \in 1 .. m
      PROVE  \/ region[L[j]].start < EndOf(L[m])
             \/ region[L[j]].pages = 0 /\ region[L[j]].start = EndOf(L[m])
  <2>1. j \in 1 .. Len(L)
    BY <1>1
  <2>2. CASE j = m
    BY <1>1, <1>2, <2>1, <2>2
  <2>3. CASE j < m
    BY <1>1, <1>2, <1>3, <2>1, <2>3
  <2> QED
    BY <2>2, <2>3
<1>6. ASSUME HasRoom(L[m]), NEW j \in m + 1 .. Len(L)
      PROVE  EndOf(L[m]) < region[L[j]].start
  <2>1. /\ m + 1 \in 1 .. Len(L) /\ m # Len(L) /\ j \in 1 .. Len(L)
        /\ L[m + 1] # NULL /\ region[L[m]].next = L[m + 1]
    <3>1. m + 1 \in 1 .. Len(L) /\ m # Len(L) /\ j \in 1 .. Len(L)
      BY <1>1
    <3> QED
      BY <1>1, <3>1, NullIsNone DEF Path
  <2>2. EndOf(L[m]) < region[L[m + 1]].start
    BY <1>6, <2>1 DEF HasRoom
  <2>3. CASE j = m + 1
    BY <2>2, <2>3
  <2>4. CASE m + 1 < j
    <3>1. region[L[m + 1]].start < region[L[j]].start
      BY <1>1, <1>3, <1>4, <2>1, <2>4
    <3>2. \A x, y, z \in Int : x < y /\ y < z => x < z
      OBVIOUS
    <3>3. /\ EndOf(L[m]) \in Int /\ region[L[m + 1]].start \in Int
          /\ region[L[j]].start \in Int
      BY <1>1, <1>2, <2>1
    <3> QED
      BY <2>2, <3>1, <3>2, <3>3
  <2> QED
    BY <2>1, <2>3, <2>4
<1> QED
  BY <1>1, <1>2, <1>5, <1>6

\* The list with a new region r of n pages behind its first region with room.
LEMMA ListWithNew ==
  ASSUME TypeOK, NEW L, Path(L), Addresses(L), NEW at, OwnedAt(L, at),
         NEW m \in 1 .. Len(L), HasRoom(L[m]), \A j \in 1 .. m - 1 : ~HasRoom(L[j]),
         NEW r \in Frames \ ToSet(L), NEW n \in Nat \ {0},
         PageOf(EndOf(L[m])) + n <= MaxPage,
         region' \in [Frames \cup {NoPage} -> Region],
         region'[r] = [start |-> EndOf(L[m]), pages |-> n,
                       next |-> region[L[m]].next, prev |-> L[m]],
         region'[L[m]] = [region[L[m]] EXCEPT !.next = r],
         \A f \in Frames : f # r /\ f # L[m] => region'[f] = region[f],
         root' = root,
         \/ owned' = owned
         \/ owned' = Append(owned, [ptr |-> EndOf(L[m]), pages |-> n])
  PROVE  \E M : /\ Path(M)' /\ Addresses(M)' /\ ToSet(M) = ToSet(L) \cup {r}
                /\ \E bt : OwnedAt(M, bt)'
<1>1. /\ L \in Seq(Frames) /\ Len(L) \in Nat /\ DOMAIN L = 1 .. Len(L)
      /\ \A j \in 1 .. Len(L) : L[j] \in Frames /\ L[j] # r
      /\ \A j, k \in 1 .. Len(L) : L[j] = L[k] => j = k
  BY DEF Path, ToSet, IsInjective
<1>2. PICK M : M = [k \in 1 .. Len(L) + 1 |-> IF k <= m THEN L[k]
                                              ELSE IF k = m + 1 THEN r ELSE L[k - 1]]
  OBVIOUS
<1>3. /\ M \in Seq(Frames) /\ Len(M) = Len(L) + 1 /\ DOMAIN M = 1 .. Len(M)
      /\ \A k \in 1 .. m : M[k] = L[k]
      /\ M[m + 1] = r
      /\ \A k \in m + 1 .. Len(L) : M[k + 1] = L[k]
  <2>1. \A k \in 1 .. Len(L) + 1 : ~(k <= m) /\ k # m + 1 => k - 1 \in 1 .. Len(L)
    BY <1>1
  <2>2. M \in [1 .. Len(L) + 1 -> Frames]
    BY <1>1, <1>2, <2>1
  <2>3. M \in Seq(Frames) /\ Len(M) = Len(L) + 1
    BY <1>1, <2>2
  <2>4. \A k \in m + 1 .. Len(L) : k + 1 \in 1 .. Len(L) + 1 /\ ~(k + 1 <= m) /\ k + 1 # m + 1
    BY <1>1
  <2> QED
    BY <1>1, <1>2, <2>2, <2>3, <2>4
\* Each place of M but that of r is one of L.
<1>4. \A k \in 1 .. Len(M) : \/ k \in 1 .. m
                             \/ k = m + 1
                             \/ k - 1 \in m + 1 .. Len(L) /\ M[k] = L[k - 1]
  <2>1. TAKE k \in 1 .. Len(M)
  <2>2. CASE k > m + 1
    <3>1. k - 1 \in m + 1 .. Len(L) /\ (k - 1) + 1 = k
      BY <1>1, <1>3, <2>2
    <3> QED
      BY <1>3, <3>1
  <2> QED
    BY <1>1, <1>3, <2>2
<1>5. ToSet(M) = ToSet(L) \cup {r}
  <2>1. ASSUME NEW k \in 1 .. Len(M) PROVE M[k] \in ToSet(L) \cup {r}
    <3>1. CASE k \in 1 .. m
      <4>1. k \in DOMAIN L /\ M[k] = L[k]
        BY <1>1, <1>3, <3>1
      <4> QED
        BY <4>1 DEF ToSet
    <3>2. CASE k - 1 \in m + 1 .. Len(L) /\ M[k] = L[k - 1]
      <4>1. k - 1 \in DOMAIN L
        BY <1>1, <3>2
      <4> QED
        BY <3>2, <4>1 DEF ToSet
    <3> QED
      BY <1>3, <1>4, <3>1, <3>2
  <2>2. \A k \in 1 .. Len(L) : L[k] \in ToSet(M)
    <3>1. TAKE k \in 1 .. Len(L)
    <3>2. CASE k \in 1 .. m
      <4>1. k \in DOMAIN M /\ M[k] = L[k]
        BY <1>1, <1>3, <3>2
      <4> QED
        BY <4>1 DEF ToSet
    <3>3. CASE k \in m + 1 .. Len(L)
      <4>1. k + 1 \in DOMAIN M /\ M[k + 1] = L[k]
        BY <1>1, <1>3, <3>3
      <4> QED
        BY <4>1 DEF ToSet
    <3> QED
      BY <1>1, <3>2, <3>3
  <2>3. r \in ToSet(M)
    <3>1. m + 1 \in DOMAIN M
      BY <1>1, <1>3
    <3> QED
      BY <1>3, <3>1 DEF ToSet
  <2> QED
    BY <1>1, <1>3, <2>1, <2>2, <2>3 DEF ToSet
<1>6. IsInjective(M)
  <2> SUFFICES ASSUME NEW j \in 1 .. Len(M), NEW k \in 1 .. Len(M), j < k, M[j] = M[k]
               PROVE  FALSE
    BY <1>3 DEF IsInjective
  <2>1. CASE k \in 1 .. m
    BY <1>1, <1>3, <2>1
  <2>2. CASE k = m + 1
    BY <1>1, <1>3, <2>2
  <2>3. CASE k - 1 \in m + 1 .. Len(L) /\ M[k] = L[k - 1]
    <3>1. k - 1 \in 1 .. Len(L)
      BY <1>1, <2>3
    <3>2. CASE j \in 1 .. m
      <4>1. j \in 1 .. Len(L) /\ j # k - 1 /\ M[j] = L[j]
        BY <1>1, <1>3, <2>3, <3>2
      <4> QED
        BY <1>1, <2>3, <3>1, <4>1
    <3>3. CASE j = m + 1
      BY <1>1, <1>3, <2>3, <3>1, <3>3
    <3>4. CASE j - 1 \in m + 1 .. Len(L) /\ M[j] = L[j - 1]
      <4>1. j - 1 \in 1 .. Len(L) /\ j - 1 # k - 1
        BY <1>1, <3>4
      <4> QED
        BY <1>1, <2>3, <3>1, <3>4, <4>1
    <3> QED
      BY <1>4, <3>2, <3>3, <3>4
  <2> QED
    BY <1>4, <2>1, <2>2, <2>3
<1>7. /\ \A k \in 1 .. Len(L) : region'[L[k]].start = region[L[k]].start
      /\ \A k \in 1 .. Len(L) : region'[L[k]].pages = region[L[k]].pages
      /\ \A k \in 1 .. Len(L) : region'[L[k]].prev = region[L[k]].prev
      /\ \A k \in 1 .. Len(L) : k # m => region'[L[k]].next = region[L[k]].next
      /\ region'[L[m]].next = r
  <2>1. \A k \in 1 .. Len(L) : k # m => region'[L[k]] = region[L[k]]
    BY <1>1
  <2>2. region[L[m]] \in Region
    BY <1>1 DEF TypeOK, Region
  <2>3. /\ region'[L[m]].start = region[L[m]].start
        /\ region'[L[m]].pages = region[L[m]].pages
        /\ region'[L[m]].prev = region[L[m]].prev
        /\ region'[L[m]].next = r
    BY <2>2 DEF Region
  <2> QED
    BY <2>1, <2>3
<1>8. /\ region'[r].start = EndOf(L[m]) /\ region'[r].pages = n
      /\ region'[r].next = region[L[m]].next /\ region'[r].prev = L[m]
  OBVIOUS
<1> DEFINE Next1(k) == IF k = Len(L) THEN NULL ELSE L[k + 1]
<1>9. \A k \in 1 .. Len(L) : region[L[k]].next = Next1(k)
  BY DEF Path
<1>10. Path(M)'
  <2>1. M[1] = L[1] /\ root' = M[1] /\ region'[M[1]].prev = NULL
    BY <1>1, <1>3, <1>7 DEF Path
  <2>2. \A k \in 1 .. Len(M) : region'[M[k]].next = IF k = Len(M) THEN NULL ELSE M[k + 1]
    <3>1. TAKE k \in 1 .. Len(M)
    <3>2. CASE k \in 1 .. m - 1
      <4>1. /\ k \in 1 .. Len(L) /\ k # m /\ k # Len(L) /\ k # Len(M)
            /\ M[k] = L[k] /\ M[k + 1] = L[k + 1]
        BY <1>1, <1>3, <3>2
      <4> QED
        BY <1>7, <1>9, <4>1
    <3>3. CASE k = m
      <4>1. m # Len(M) /\ m \in 1 .. m
        BY <1>1, <1>3
      <4>2. M[m] = L[m] /\ region'[L[m]].next = r /\ M[m + 1] = r
        BY <1>3, <1>7, <4>1
      <4> QED
        BY <3>3, <4>1, <4>2
    <3>4. CASE k = m + 1
      <4>1. region'[M[k]].next = Next1(m)
        BY <1>3, <1>8, <1>9, <3>4
      <4>2. CASE m = Len(L)
        BY <1>1, <1>3, <3>4, <4>1, <4>2
      <4>3. CASE m # Len(L)
        <5>1. m + 1 \in m + 1 .. Len(L) /\ M[(m + 1) + 1] = L[m + 1]
          BY <1>1, <1>3, <4>3
        <5> QED
          BY <1>1, <1>3, <3>4, <4>1, <4>3, <5>1
      <4> QED
        BY <4>2, <4>3
    <3>5. CASE k - 1 \in m + 1 .. Len(L) /\ M[k] = L[k - 1]
      <4>1. k - 1 \in 1 .. Len(L) /\ k - 1 # m /\ (k - 1 = Len(L) <=> k = Len(M))
        BY <1>1, <1>3, <3>5
      <4>2. region'[M[k]].next = Next1(k - 1)
        BY <1>7, <1>9, <3>5, <4>1
      <4>3. k # Len(M) => k \in m + 1 .. Len(L) /\ M[k + 1] = L[k] /\ (k - 1) + 1 = k
        BY <1>1, <1>3, <3>5
      <4> QED
        BY <4>1, <4>2, <4>3
    <3> QED
      BY <1>1, <1>4, <3>2, <3>3, <3>4, <3>5
  <2> QED
    BY <1>1, <1>3, <1>6, <2>1, <2>2 DEF Path
<1> DEFINE Start(k) == region[L[k]].start
           Pages(k) == region[L[k]].pages
<1>11. /\ EndOf(L[m]) \in Nat
       /\ \A j \in 1 .. m :
            \/ Start(j) < EndOf(L[m])
            \/ Pages(j) = 0 /\ Start(j) = EndOf(L[m])
       /\ \A j \in m + 1 .. Len(L) : EndOf(L[m]) < Start(j)
  BY EndsBehind
<1>12. Addresses(M)'
  <2>1. ASSUME NEW k \in 1 .. Len(M)
        PROVE  IF region'[M[k]].pages = 0 THEN k = 1
               ELSE PageOf(region'[M[k]].start) + region'[M[k]].pages <= MaxPage
    <3>0. \A j \in 1 .. Len(L) :
            IF Pages(j) = 0 THEN j = 1 ELSE PageOf(Start(j)) + Pages(j) <= MaxPage
      BY DEF Addresses
    <3>1. CASE k \in 1 .. m
      BY <1>1, <1>3, <1>7, <3>0, <3>1
    <3>2. CASE k = m + 1
      BY <1>3, <1>8, <3>2
    <3>3. CASE k - 1 \in m + 1 .. Len(L) /\ M[k] = L[k - 1]
      <4>1. k - 1 \in 1 .. Len(L) /\ k - 1 # 1
        BY <1>1, <3>3
      <4> QED
        BY <1>7, <3>0, <3>3, <4>1
    <3> QED
      BY <1>4, <3>1, <3>2, <3>3
  <2>2. ASSUME NEW j \in 1 .. Len(M), NEW k \in 1 .. Len(M), j < k
        PROVE  \/ region'[M[j]].start < region'[M[k]].start
               \/ region'[M[j]].pages = 0 /\ region'[M[j]].start = region'[M[k]].start
    <3>0. \A a, b \in 1 .. Len(L) : a < b =>
            \/ Start(a) < Start(b)
            \/ Pages(a) = 0 /\ Start(a) = Start(b)
      BY DEF Addresses
    <3>00. \A a \in 1 .. Len(L) : region'[L[a]].start = Start(a) /\ region'[L[a]].pages = Pages(a)
      BY <1>7
    <3> HIDE DEF Start, Pages
    <3>1. CASE k \in 1 .. m
      <4>1. j \in 1 .. m /\ j \in 1 .. Len(L) /\ k \in 1 .. Len(L) /\ M[j] = L[j] /\ M[k] = L[k]
        BY <1>1, <1>3, <2>2, <3>1
      <4> QED
        BY <2>2, <3>0, <3>00, <4>1
    <3>2. CASE k = m + 1
      <4>1. j \in 1 .. m /\ j \in 1 .. Len(L) /\ M[j] = L[j] /\ M[k] = r
        BY <1>1, <1>3, <2>2, <3>2
      <4> QED
        BY <1>8, <1>11, <3>00, <4>1
    <3>3. CASE k - 1 \in m + 1 .. Len(L) /\ M[k] = L[k - 1]
      <4>1. k - 1 \in 1 .. Len(L)
        BY <1>1, <3>3
      <4>2. CASE j \in 1 .. m
        <5>1. j \in 1 .. Len(L) /\ j < k - 1 /\ M[j] = L[j]
          BY <1>1, <1>3, <3>3, <4>2
        <5> QED
          BY <3>0, <3>00, <3>3, <4>1, <5>1
      <4>3. CASE j = m + 1
        BY <1>3, <1>8, <1>11, <3>00, <3>3, <4>1, <4>3
      <4>4. CASE j - 1 \in m + 1 .. Len(L) /\ M[j] = L[j - 1]
        <5>1. j - 1 \in 1 .. Len(L) /\ j - 1 < k - 1
          BY <1>1, <2>2, <4>4
        <5> QED
          BY <3>0, <3>00, <3>3, <4>1, <4>4, <5>1
      <4> QED
        BY <1>4, <4>2, <4>3, <4>4
    <3> QED
      BY <1>4, <3>1, <3>2, <3>3
  <2> QED
    BY <2>1, <2>2 DEF Addresses
\* Nothing that is owned lies behind the room that is filled.
<1>13. ASSUME NEW k \in 1 .. Len(owned) PROVE at[k] \in 2 .. Len(L) /\ at[k] <= m
  <2>1. at[k] \in 2 .. Len(L) /\ \A j \in 1 .. at[k] - 1 : ~HasRoom(L[j])
    BY DEF OwnedAt
  <2>2. m \notin 1 .. at[k] - 1
    BY <2>1
  <2> QED
    BY <2>1, <2>2
<1>14. /\ \A j \in 1 .. m - 1 : HasRoom(M[j])' = HasRoom(L[j])
       /\ ~HasRoom(M[m])'
  <2>1. ASSUME NEW j \in 1 .. m - 1 PROVE HasRoom(M[j])' = HasRoom(L[j])
    <3>1. /\ j \in 1 .. Len(L) /\ j # m /\ j # Len(L) /\ M[j] = L[j] /\ j + 1 \in 1 .. Len(L)
      BY <1>1, <1>3
    <3>2. region[L[j]].next = L[j + 1]
      BY <1>9, <3>1
    <3>3. /\ region'[L[j]].next = L[j + 1] /\ region'[L[j]].start = region[L[j]].start
          /\ region'[L[j]].pages = region[L[j]].pages
          /\ region'[L[j + 1]].start = region[L[j + 1]].start
      BY <1>7, <3>1, <3>2
    <3>4. L[j + 1] # NULL
      BY <1>1, <3>1, NullIsNone
    <3> QED
      BY <3>1, <3>2, <3>3, <3>4 DEF HasRoom, EndOf
  <2>2. region'[M[m]].next = r /\ r # NULL /\ M[m] = L[m]
    <3>1. m \in 1 .. m /\ r \in Frames
      OBVIOUS
    <3>2. M[m] = L[m] /\ r # NULL
      BY <1>3, <3>1, NullIsNone
    <3> QED
      BY <1>7, <3>2
  <2>3. EndOf(M[m])' = EndOf(L[m]) /\ region'[r].start = EndOf(L[m])
    BY <1>7, <1>8, <2>2 DEF EndOf
  <2> QED
    BY <1>11, <2>1, <2>2, <2>3 DEF HasRoom
<1>15. ASSUME NEW k \in 1 .. Len(owned)
       PROVE  /\ owned[k].ptr = region'[M[at[k]]].start
              /\ region'[M[at[k]]].prev = M[at[k] - 1]
              /\ \A j \in 1 .. at[k] - 1 : ~HasRoom(M[j])'
  <2>1. at[k] \in 1 .. m /\ at[k] - 1 \in 1 .. m /\ at[k] \in 1 .. Len(L)
    BY <1>1, <1>13
  <2>2. M[at[k]] = L[at[k]] /\ M[at[k] - 1] = L[at[k] - 1]
    BY <1>3, <2>1
  <2>3. owned[k].ptr = region[L[at[k]]].start /\ region[L[at[k]]].prev = L[at[k] - 1]
    BY DEF OwnedAt
  <2>4. \A j \in 1 .. at[k] - 1 : j \in 1 .. m - 1 /\ ~HasRoom(L[j])
    BY <2>1 DEF OwnedAt
  <2> QED
    BY <1>7, <1>14, <2>1, <2>2, <2>3, <2>4
<1>16. Len(owned) \in Nat /\ owned \in Seq([ptr : Nat, pages : Nat])
  BY DEF TypeOK
<1>17. \A j, k \in 1 .. Len(owned) : j < k => at[j] < at[k]
  BY DEF OwnedAt
<1>18. \E bt : OwnedAt(M, bt)'
  <2>1. CASE owned' = owned
    <3>1. at \in [1 .. Len(owned) -> 2 .. Len(M)]
      BY <1>1, <1>3 DEF OwnedAt
    <3>2. OwnedAt(M, at)'
      BY <1>15, <1>17, <2>1, <3>1 DEF OwnedAt
    <3> QED
      BY <3>2
  <2>2. CASE owned' = Append(owned, [ptr |-> EndOf(L[m]), pages |-> n])
    <3>1. /\ Len(owned') = Len(owned) + 1
          /\ \A k \in 1 .. Len(owned) : owned'[k] = owned[k]
          /\ owned'[Len(owned) + 1].ptr = EndOf(L[m])
      BY <1>16, <2>2
    <3>2. PICK bt : bt = [k \in 1 .. Len(owned) + 1 |-> IF k <= Len(owned) THEN at[k] ELSE m + 1]
      OBVIOUS
    <3>3. /\ \A k \in 1 .. Len(owned) : bt[k] = at[k]
          /\ bt[Len(owned) + 1] = m + 1
          /\ \A k \in 1 .. Len(owned) + 1 : k \in 1 .. Len(owned) \/ k = Len(owned) + 1
      BY <1>16, <3>2
    <3>4. bt \in [1 .. Len(owned) + 1 -> 2 .. Len(M)]
      <4>1. \A k \in 1 .. Len(owned) + 1 : bt[k] \in 2 .. Len(M)
        BY <1>1, <1>3, <1>13, <3>3
      <4> QED
        BY <3>2, <4>1
    <3>5. \A j, k \in 1 .. Len(owned) + 1 : j < k => bt[j] < bt[k]
      <4> SUFFICES ASSUME NEW j \in 1 .. Len(owned) + 1, NEW k \in 1 .. Len(owned) + 1, j < k
                   PROVE  bt[j] < bt[k]
        OBVIOUS
      <4>1. j \in 1 .. Len(owned)
        BY <1>16
      <4>2. CASE k \in 1 .. Len(owned)
        BY <1>17, <3>3, <4>1, <4>2
      <4>3. CASE k = Len(owned) + 1
        BY <1>13, <3>3, <4>1, <4>3
      <4> QED
        BY <3>3, <4>2, <4>3
    <3>6. ASSUME NEW k \in 1 .. Len(owned) + 1
          PROVE  /\ owned'[k].ptr = region'[M[bt[k]]].start
                 /\ region'[M[bt[k]]].prev = M[bt[k] - 1]
                 /\ \A j \in 1 .. bt[k] - 1 : ~HasRoom(M[j])'
      <4>1. CASE k \in 1 .. Len(owned)
        BY <1>15, <3>1, <3>3, <4>1
      <4>2. CASE k = Len(owned) + 1
        <5>1. bt[k] = m + 1 /\ bt[k] - 1 = m /\ M[m + 1] = r /\ M[m] = L[m]
          BY <1>3, <3>3, <4>2
        <5>2. \A j \in 1 .. m : ~HasRoom(M[j])'
          <6>1. \A j \in 1 .. m : j = m \/ j \in 1 .. m - 1
            OBVIOUS
          <6> QED
            BY <1>14, <6>1
        <5> QED
          BY <1>8, <3>1, <4>2, <5>1, <5>2
      <4> QED
        BY <3>3, <4>1, <4>2
    <3>7. OwnedAt(M, bt)'
      BY <3>1, <3>4, <3>5, <3>6 DEF OwnedAt
    <3> QED
      BY <3>7
  <2> QED
    BY <2>1, <2>2
<1> QED
  BY <1>5, <1>10, <1>12, <1>18

\* The fields of the new region and of the one it is linked behind.
LEMMA LinkedFacts ==
  ASSUME region \in [Frames \cup {NoPage} -> Region],
         NEW after \in Frames, NEW r \in Frames, r # after, NEW n \in Nat,
         region[after].next \in Frames \cup {NULL}
  PROVE  /\ Linked(after, r, n) \in [Frames \cup {NoPage} -> Region]
         /\ Linked(after, r, n)[r] = [start |-> EndOf(after), pages |-> n,
                                      next |-> region[after].next, prev |-> after]
         /\ Linked(after, r, n)[after] = [region[after] EXCEPT !.next = r]
         /\ \A f \in Frames : f # r /\ f # after => Linked(after, r, n)[f] = region[f]
<1> DEFINE blank == [Blank EXCEPT !.pages = n]
           cleared == [region EXCEPT ![r] = blank]
           new == [start |-> EndOf(after), pages |-> n,
                   next |-> region[after].next, prev |-> after]
           joined == [region[after] EXCEPT !.next = r]
<1>1. blank = [start |-> 0, pages |-> n, next |-> NULL, prev |-> NULL] /\ blank \in Region
  BY DEF Blank, Region
<1>2. /\ DOMAIN region = Frames \cup {NoPage} /\ region[after] \in Region
      /\ cleared[after] = region[after] /\ cleared[r] = blank
      /\ DOMAIN cleared = Frames \cup {NoPage}
      /\ \A f \in Frames \cup {NoPage} : f # r => cleared[f] = region[f]
  <2> HIDE DEF blank
  <2> QED
    OBVIOUS
<1>3. EndOf(after) = region[after].start + region[after].pages /\ EndOf(after) \in Nat
  BY <1>2 DEF EndOf, Region
<1>4. new \in Region /\ joined \in Region
  BY <1>2, <1>3 DEF Region
<1>5. [[[blank EXCEPT !.start = EndOf(after)] EXCEPT !.next = region[after].next]
         EXCEPT !.prev = after] = new
  <2> DEFINE one == [blank EXCEPT !.start = EndOf(after)]
             two == [one EXCEPT !.next = region[after].next]
  <2> HIDE DEF blank
  <2>1. one = [start |-> EndOf(after), pages |-> n, next |-> NULL, prev |-> NULL]
    BY <1>1
  <2> HIDE DEF one
  <2>2. two = [start |-> EndOf(after), pages |-> n, next |-> region[after].next, prev |-> NULL]
    BY <2>1
  <2> HIDE DEF two
  <2>3. [two EXCEPT !.prev = after] = new
    BY <2>2
  <2> QED
    BY <2>3 DEF one, two
<1>6. Linked(after, r, n) = [[region EXCEPT ![r] = new] EXCEPT ![after] = joined]
  <2> DEFINE three == [cleared EXCEPT
                         ![r].start = cleared[after].start + cleared[after].pages,
                         ![r].next = cleared[after].next,
                         ![r].prev = after]
  <2>1. three = [region EXCEPT ![r] = new]
    <3>1. three = [cleared EXCEPT ![r] =
             [[[cleared[r] EXCEPT !.start = cleared[after].start + cleared[after].pages]
                EXCEPT !.next = cleared[after].next] EXCEPT !.prev = after]]
      <4> HIDE DEF cleared
      <4> QED
        BY <1>2
    <3>2. three = [cleared EXCEPT ![r] = new]
      <4> HIDE DEF new, cleared, blank, three
      <4> QED
        BY <1>2, <1>3, <1>5, <3>1
    <3> HIDE DEF three, new, blank
    <3> QED
      BY <3>2, <1>2
  <2>2. three[after] = region[after]
    <3> HIDE DEF three, new
    <3> QED
      BY <1>2, <2>1
  <2>3. Linked(after, r, n) = [three EXCEPT ![after].next = r]
    BY Zenon DEF Linked
  <2>4. [three EXCEPT ![after].next = r] = [three EXCEPT ![after] = joined]
    <3>1. DOMAIN three = Frames \cup {NoPage}
      <4> HIDE DEF three, new
      <4> QED
        BY <1>2, <2>1
    <3> HIDE DEF three
    <3> QED
      BY <2>2, <3>1
  <2> HIDE DEF three, new, joined
  <2> QED
    BY <2>1, <2>3, <2>4
<1> HIDE DEF new, joined
<1> SUFFICES /\ Linked(after, r, n) \in [Frames \cup {NoPage} -> Region]
             /\ Linked(after, r, n)[r] = new
             /\ Linked(after, r, n)[after] = joined
             /\ \A f \in Frames : f # r /\ f # after => Linked(after, r, n)[f] = region[f]
  BY DEF new, joined
<1> QED
  BY <1>2, <1>4, <1>6

\* The pages from the pool that vma_alloc maps at count pages from b on.
MappedFrom(left, b, count) ==
  [p \in DOMAIN mapping |-> IF p \in b .. b + count - 1 THEN left[Len(left) - (p - b)]
                                                        ELSE mapping[p]]

LEMMA TakenIsMapped ==
  ASSUME TypeOK, OnePage, pool # <<>>,
         NEW left, left = Front(pool), NEW b \in Nat, NEW count \in 0 .. Len(left),
         mapping' = MappedFrom(left, b, count),
         pool' = SubSeq(left, 1, Len(left) - count)
  PROVE  /\ pool' \in Seq(Frames) /\ IsInjective(pool')
         /\ mapping' \in [0 .. MaxPage -> Frames \cup {NoPage}]
         /\ OnePage'
         /\ Last(pool) \in Frames \cap ToSet(pool)
         /\ Last(pool) \notin ToSet(pool') \cup Mapped'
         /\ ToSet(pool') \cup Mapped' \subseteq ToSet(pool) \cup Mapped
<1>1. /\ left \in Seq(Frames) /\ IsInjective(left)
      /\ Last(pool) \in Frames /\ Last(pool) \notin ToSet(left)
      /\ ToSet(pool) = ToSet(left) \cup {Last(pool)}
  BY FrontFacts DEF TypeOK
<1>2. /\ Len(left) \in Nat /\ count \in Nat /\ count <= Len(left) /\ DOMAIN left = 1 .. Len(left)
      /\ mapping \in [0 .. MaxPage -> Frames \cup {NoPage}]
      /\ \A i \in 1 .. Len(left) : left[i] \in Frames /\ left[i] \in ToSet(left)
      /\ \A i, j \in 1 .. Len(left) : left[i] = left[j] => i = j
  BY <1>1 DEF TypeOK, ToSet, IsInjective
<1>3. PICK rest : rest = pool'
  OBVIOUS
<1>4. /\ rest \in Seq(Frames) /\ DOMAIN rest = 1 .. Len(left) - count
      /\ \A i \in 1 .. Len(left) - count : rest[i] = left[i]
  BY <1>1, <1>2, <1>3
<1>5. IsInjective(rest)
  BY <1>2, <1>4 DEF IsInjective
<1>6. ToSet(rest) \subseteq ToSet(left)
  BY SMTT(30), <1>2, <1>4 DEF ToSet
\* Where a page p is newly mapped, and from where in the pool.
<1> DEFINE Taken(p) == p \in b .. b + count - 1
           From(p) == Len(left) - (p - b)
<1>7. ASSUME NEW p \in 0 .. MaxPage, Taken(p)
      PROVE  /\ mapping'[p] = left[From(p)] /\ From(p) \in 1 .. Len(left)
             /\ From(p) \notin 1 .. Len(left) - count
  <2>1. mapping'[p] = left[From(p)]
    BY <1>2, <1>7 DEF MappedFrom
  <2> QED
    BY <1>2, <1>7, <2>1
<1>8. ASSUME NEW p \in 0 .. MaxPage, ~Taken(p) PROVE mapping'[p] = mapping[p]
  BY <1>2, <1>8 DEF MappedFrom
<1>9. ASSUME NEW p \in 0 .. MaxPage, Taken(p)
      PROVE  mapping'[p] \in ToSet(left) /\ mapping'[p] \notin ToSet(rest)
  <2>1. /\ mapping'[p] = left[From(p)] /\ From(p) \in 1 .. Len(left)
        /\ From(p) \notin 1 .. Len(left) - count
    BY <1>7, <1>9
  <2> HIDE DEF From
  <2>2. PICK x : x = mapping'[p]
    OBVIOUS
  <2>3. x \in ToSet(left)
    BY <1>2, <2>1, <2>2
  <2>4. \A i \in 1 .. Len(left) - count : i \in 1 .. Len(left) /\ i # From(p)
    BY <1>2, <2>1
  <2>5. \A i \in 1 .. Len(left) - count : rest[i] # x
    BY <1>2, <1>4, <2>1, <2>2, <2>4
  <2>6. x \notin ToSet(rest)
    BY <1>4, <2>5 DEF ToSet
  <2> QED
    BY <2>2, <2>3, <2>6
<1>10. /\ DOMAIN mapping' = 0 .. MaxPage /\ DOMAIN mapping = 0 .. MaxPage
       /\ mapping' = [p \in DOMAIN mapping' |-> mapping'[p]]
  BY <1>2 DEF MappedFrom
<1>11. mapping' \in [0 .. MaxPage -> Frames \cup {NoPage}]
  <2>1. \A p \in 0 .. MaxPage : mapping'[p] \in Frames \cup {NoPage}
    <3>1. TAKE p \in 0 .. MaxPage
    <3>2. CASE Taken(p)
      <4>1. mapping'[p] = left[From(p)] /\ From(p) \in 1 .. Len(left)
        BY <1>7, <3>2
      <4> QED
        BY <1>2, <4>1
    <3>3. CASE ~Taken(p)
      BY <1>2, <1>8, <3>3
    <3> QED
      BY <3>2, <3>3
  <2> QED
    BY <1>10, <2>1
<1> HIDE DEF Taken, From
<1>12. /\ ToSet(pool) \cap Mapped = {}
       /\ \A p, q \in 0 .. MaxPage : mapping[p] = mapping[q] /\ mapping[p] # NoPage => p = q
       /\ \A p \in 0 .. MaxPage : mapping[p] # NoPage => mapping[p] \in Mapped
  BY <1>10 DEF OnePage, Mapped
<1>13. \A x \in Mapped' : \/ x \in ToSet(left) /\ x \notin ToSet(rest)
                          \/ x \in Mapped
  <2> SUFFICES ASSUME NEW p \in 0 .. MaxPage, mapping'[p] # NoPage
               PROVE  \/ mapping'[p] \in ToSet(left) /\ mapping'[p] \notin ToSet(rest)
                      \/ mapping'[p] \in Mapped
    BY <1>10 DEF Mapped
  <2>1. CASE Taken(p)
    BY <1>9, <2>1
  <2>2. CASE ~Taken(p)
    BY <1>8, <1>12, <2>2
  <2> QED
    BY <2>1, <2>2
<1>14. ASSUME NEW p \in 0 .. MaxPage, NEW q \in 0 .. MaxPage,
              mapping'[p] = mapping'[q], mapping'[p] # NoPage
       PROVE  p = q
  <2>1. CASE Taken(p) /\ Taken(q)
    <3>1. From(p) \in 1 .. Len(left) /\ From(q) \in 1 .. Len(left) /\ left[From(p)] = left[From(q)]
      BY <1>7, <1>14, <2>1
    <3>2. From(p) = From(q)
      BY <1>2, <3>1
    <3> QED
      BY <1>2, <3>2 DEF From
  <2>2. CASE Taken(p) /\ ~Taken(q)
    <3>1. mapping'[p] \in ToSet(pool)
      BY <1>1, <1>9, <2>2
    <3>2. mapping'[q] \in Mapped
      BY <1>8, <1>12, <1>14, <2>2
    <3> QED
      BY <1>12, <1>14, <3>1, <3>2
  <2>3. CASE ~Taken(p) /\ Taken(q)
    <3>1. mapping'[q] \in ToSet(pool)
      BY <1>1, <1>9, <2>3
    <3>2. mapping'[p] \in Mapped
      BY <1>8, <1>12, <1>14, <2>3
    <3> QED
      BY <1>12, <1>14, <3>1, <3>2
  <2>4. CASE ~Taken(p) /\ ~Taken(q)
    BY <1>8, <1>12, <1>14, <2>4
  <2> QED
    BY <2>1, <2>2, <2>3, <2>4
<1>15. OnePage'
  <2>1. ToSet(rest) \cap Mapped' = {}
    BY <1>1, <1>6, <1>12, <1>13
  <2> QED
    BY <1>3, <1>10, <1>14, <2>1 DEF OnePage
<1> QED
  BY <1>1, <1>3, <1>4, <1>5, <1>6, <1>11, <1>12, <1>13, <1>15

\* A caller is never refused the page of the region.
LEMMA StepAlloc ==
  ASSUME Shortage # "any", VmaInv, NEW pages \in Sizes, vma_alloc(pages)
  PROVE  VmaInv'
<1>1. TypeOK /\ OnePage /\ context = "live" /\ pages \in Nat \ {0}
  BY VmaAssumption DEF VmaInv, vma_alloc
<1>2. pool \in Seq(Frames) /\ IsInjective(pool) /\ pool # <<>>
  <2>1. Len(pool) >= 1
    <3>1. Len(pool) \in Nat /\ Len(pool) >= LeastPool(pages)
      BY <1>1 DEF TypeOK, vma_alloc
    <3>2. Shortage = "none" \/ Shortage = "data"
      BY VmaAssumption
    <3>3. LeastPool(pages) = pages + 1 \/ LeastPool(pages) = 1
      BY <3>2 DEF LeastPool
    <3> QED
      BY <1>1, <3>1, <3>3
  <2> QED
    BY <1>1, <2>1 DEF TypeOK
<1>3. PICK r, left : r = Last(pool) /\ left = Front(pool)
  OBVIOUS
<1>4. r \in Frames /\ left \in Seq(Frames) /\ Len(left) \in Nat
  BY <1>2, <1>3, FrontFacts
<1>5. PICK L, at : Path(L) /\ Addresses(L) /\ OwnPages(L) /\ OwnedAt(L, at)
  BY <1>1 DEF VmaInv, Listing
<1>6. /\ L \in Seq(Frames) /\ Len(L) \in Nat /\ Listed = ToSet(L)
      /\ \A j \in 1 .. Len(L) : L[j] \in ToSet(L) /\ L[j] \in Frames
  BY <1>5, ListedIsPath DEF Path, ToSet
<1> DEFINE S == {q \in Listed : HasRoom(q)}
           T == {j \in 1 .. Len(L) : HasRoom(L[j])}
<1>7. S # {}
  BY DEF vma_alloc
<1>8. PICK m \in T : \A j \in T : m <= j
  <2>1. T \in SUBSET Nat /\ T # {}
    BY <1>6, <1>7 DEF ToSet
  <2> HIDE DEF T
  <2> QED
    BY <2>1, LeastMember
<1>9. /\ m \in 1 .. Len(L) /\ HasRoom(L[m])
      /\ \A j \in 1 .. m - 1 : ~HasRoom(L[j])
  <2>1. \A j \in 1 .. m - 1 : j \in 1 .. Len(L) /\ ~(m <= j)
    BY <1>6, <1>8
  <2> QED
    BY <1>8, <2>1
<1>10. FirstIn(S) = L[m]
  <2>1. NULL \notin S /\ L[m] \in S /\ \A j \in 1 .. m - 1 : L[j] \notin S
    BY <1>6, <1>9 DEF Listed
  <2> HIDE DEF S
  <2> QED
    BY <1>5, <1>9, <2>1, FirstOnPath
<1> HIDE DEF S, T
<1>11. PICK e : e = EndOf(L[m])
  OBVIOUS
<1>12. e \in Nat
  BY <1>1, <1>5, <1>9, <1>11, EndsBehind
<1>13. PICK b \in Nat : /\ b = PageOf(e)
                        /\ \A i \in Nat : PageOf(e + i * PageSize) = b + i
  BY <1>12, PageBehind
<1>14. PICK count : count = IF Len(left) < pages THEN Len(left) ELSE pages
  OBVIOUS
<1>15. count \in 0 .. Len(left)
  BY <1>1, <1>4, <1>14
<1>16. TopOf(pool) = r /\ Pop(pool) = left
  BY <1>2, <1>3 DEF TopOf, Pop
<1>17. PICK new : new = Linked(L[m], r, pages)
  OBVIOUS
<1>18. r \notin ToSet(L) /\ r # L[m] /\ context_page # r
  <2>1. r \in ToSet(pool)
    BY <1>2, <1>3, FrontFacts
  <2> QED
    BY <1>5, <1>6, <1>9, <2>1 DEF OwnPages
<1>19. /\ new \in [Frames \cup {NoPage} -> Region]
       /\ new[r] = [start |-> e, pages |-> pages, next |-> region[L[m]].next, prev |-> L[m]]
       /\ new[L[m]] = [region[L[m]] EXCEPT !.next = r]
       /\ \A f \in Frames : f # r /\ f # L[m] => new[f] = region[f]
  <2>1. region \in [Frames \cup {NoPage} -> Region] /\ L[m] \in Frames
    BY <1>1, <1>6, <1>9 DEF TypeOK, Region
  <2>2. region[L[m]].next \in Frames \cup {NULL}
    <3>1. region[L[m]].next = IF m = Len(L) THEN NULL ELSE L[m + 1]
      BY <1>5, <1>9 DEF Path
    <3>2. m # Len(L) => m + 1 \in 1 .. Len(L)
      BY <1>6, <1>9
    <3> QED
      BY <1>6, <3>1, <3>2
  <2> QED
    BY <1>1, <1>4, <1>11, <1>17, <1>18, <2>1, <2>2, LinkedFacts
<1> DEFINE PageAt(i) == PageOf(new[r].start + i * PageSize)
<1>20. \A i \in Nat : PageAt(i) = b + i
  BY <1>13, <1>19
<1>21. /\ b + pages <= MaxPage
       /\ region' = new
       /\ mapping' = [p \in DOMAIN mapping |->
                        IF \E i \in 0 .. count - 1 : p = PageAt(i)
                          THEN left[Len(left) - (p - PageAt(0))]
                          ELSE mapping[p]]
       /\ pool' = SubSeq(left, 1, Len(left) - count)
       /\ owned' = IF count = pages
                     THEN Append(owned, [ptr |-> new[r].start, pages |-> pages])
                     ELSE owned
       /\ context' = context /\ context_page' = context_page /\ root' = root
  <2>1. PageOf(e + pages * PageSize) <= MaxPage
    BY <1>10, <1>11 DEF vma_alloc, S
  <2>2. b + pages <= MaxPage
    BY <1>1, <1>13, <2>1
  <2> HIDE DEF PageAt
  <2> QED
    BY <1>10, <1>14, <1>16, <1>17, <2>2 DEF vma_alloc, S, PageAt
<1>22. mapping' = MappedFrom(left, b, count)
  <2>1. PageAt(0) = b
    BY <1>13, <1>20
  <2>2. \A p \in 0 .. MaxPage :
          (\E i \in 0 .. count - 1 : p = PageAt(i)) <=> p \in b .. b + count - 1
    <3> SUFFICES ASSUME NEW p \in 0 .. MaxPage
                 PROVE  (\E i \in 0 .. count - 1 : p = PageAt(i)) <=> p \in b .. b + count - 1
      OBVIOUS
    <3>1. \A i \in 0 .. count - 1 : i \in Nat /\ PageAt(i) = b + i
      BY <1>4, <1>15, <1>20
    <3> HIDE DEF PageAt
    <3>2. ASSUME NEW i \in 0 .. count - 1, p = PageAt(i) PROVE p \in b .. b + count - 1
      BY <1>4, <1>15, <3>1, <3>2
    <3>3. ASSUME p \in b .. b + count - 1 PROVE \E i \in 0 .. count - 1 : p = PageAt(i)
      <4>1. p - b \in 0 .. count - 1 /\ b + (p - b) = p
        BY <1>4, <1>15, <3>3
      <4> QED
        BY <3>1, <4>1
    <3> QED
      BY <3>2, <3>3
  <2>3. DOMAIN mapping = 0 .. MaxPage
    BY <1>1 DEF TypeOK
  <2> HIDE DEF PageAt
  <2> QED
    BY <1>21, <2>1, <2>2, <2>3 DEF MappedFrom
<1>23. /\ pool' \in Seq(Frames) /\ IsInjective(pool')
       /\ mapping' \in [0 .. MaxPage -> Frames \cup {NoPage}]
       /\ OnePage'
       /\ r \notin ToSet(pool') \cup Mapped'
       /\ ToSet(pool') \cup Mapped' \subseteq ToSet(pool) \cup Mapped
  <2>1. left = Front(pool) /\ pool # <<>> /\ TypeOK /\ OnePage
    BY <1>1, <1>2, <1>3
  <2>2. pool' = SubSeq(left, 1, Len(left) - count)
    BY <1>21
  <2>3. /\ pool' \in Seq(Frames) /\ IsInjective(pool')
        /\ mapping' \in [0 .. MaxPage -> Frames \cup {NoPage}]
        /\ OnePage'
        /\ Last(pool) \notin ToSet(pool') \cup Mapped'
        /\ ToSet(pool') \cup Mapped' \subseteq ToSet(pool) \cup Mapped
    BY <1>15, <1>22, <2>1, <2>2, TakenIsMapped
  <2> QED
    BY <1>3, <2>3
<1>24. \/ owned' = owned
       \/ owned' = Append(owned, [ptr |-> e, pages |-> pages])
  BY <1>19, <1>21
<1>25. TypeOK'
  <2>1. owned' \in Seq([ptr : Nat, pages : Nat])
    <3>1. owned \in Seq([ptr : Nat, pages : Nat])
      BY <1>1 DEF TypeOK
    <3>2. PICK o \in [ptr : Nat, pages : Nat] : o = [ptr |-> e, pages |-> pages]
      BY <1>1, <1>12
    <3>3. Append(owned, o) \in Seq([ptr : Nat, pages : Nat])
      BY <3>1
    <3> QED
      BY <1>24, <3>1, <3>2, <3>3
  <2> QED
    BY <1>1, <1>19, <1>21, <1>23, <2>1 DEF TypeOK, Region
<1>26. PICK M : /\ Path(M)' /\ Addresses(M)' /\ ToSet(M) = ToSet(L) \cup {r}
                /\ \E bt : OwnedAt(M, bt)'
  <2>1. r \in Frames \ ToSet(L)
    BY <1>4, <1>18
  <2>2. PageOf(EndOf(L[m])) + pages <= MaxPage
    BY <1>11, <1>13, <1>21
  <2>3. region' \in [Frames \cup {NoPage} -> Region]
    BY <1>19, <1>21
  <2>4. region'[r] = [start |-> EndOf(L[m]), pages |-> pages,
                      next |-> region[L[m]].next, prev |-> L[m]]
    BY <1>11, <1>19, <1>21
  <2>5. region'[L[m]] = [region[L[m]] EXCEPT !.next = r]
    BY <1>19, <1>21
  <2>6. \A f \in Frames : f # r /\ f # L[m] => region'[f] = region[f]
    BY <1>19, <1>21
  <2>7. \/ owned' = owned
        \/ owned' = Append(owned, [ptr |-> EndOf(L[m]), pages |-> pages])
    BY <1>11, <1>24
  <2>8. root' = root
    BY <1>21
  <2> QED
    BY <1>1, <1>5, <1>9, <2>1, <2>2, <2>3, <2>4, <2>5, <2>6, <2>7, <2>8, ListWithNew
<1>27. OwnPages(M)'
  BY <1>5, <1>18, <1>21, <1>23, <1>26 DEF OwnPages
<1>28. Listing(M)'
  BY <1>26, <1>27 DEF Listing
<1> QED
  BY <1>1, <1>21, <1>23, <1>25, <1>28 DEF VmaInv

-----------------------------------------------------------------------------
(* vma_free *)

\* The neighbours of a region that is unlinked are told of each other.
LEMMA UnlinkedFacts ==
  ASSUME region \in [Frames \cup {NoPage} -> Region], NEW r \in Frames,
         NEW prev, prev = region[r].prev, NEW next, next = region[r].next
  PROVE  /\ Unlinked(r) \in [Frames \cup {NoPage} -> Region]
         /\ \A f \in Frames :
              /\ Unlinked(r)[f].start = region[f].start
              /\ Unlinked(r)[f].pages = region[f].pages
              /\ Unlinked(r)[f].next = IF f = prev THEN next ELSE region[f].next
              /\ Unlinked(r)[f].prev = IF f = next THEN prev ELSE region[f].prev
<1>1. prev \in Frames \cup {NoPage, NULL} /\ next \in Frames \cup {NoPage, NULL}
  BY DEF Region
<1>2. PICK forward : forward = IF prev = NULL THEN region
                               ELSE [region EXCEPT ![prev].next = next]
  OBVIOUS
<1>3. Unlinked(r) = IF next = NULL THEN forward ELSE [forward EXCEPT ![next].prev = prev]
  BY <1>2 DEF Unlinked
<1>4. /\ forward \in [Frames \cup {NoPage} -> Region]
      /\ \A f \in Frames :
           /\ forward[f].start = region[f].start
           /\ forward[f].pages = region[f].pages
           /\ forward[f].next = IF f = prev THEN next ELSE region[f].next
           /\ forward[f].prev = region[f].prev
  <2>1. CASE prev = NULL
    BY <1>2, <2>1, NullIsNone
  <2>2. CASE prev # NULL
    <3>1. prev \in Frames \cup {NoPage} /\ region[prev] \in Region
      BY <1>1, <2>2
    <3>2. PICK joined : joined = [region[prev] EXCEPT !.next = next]
      OBVIOUS
    <3>3. /\ joined \in Region /\ joined.next = next
          /\ joined.start = region[prev].start /\ joined.pages = region[prev].pages
          /\ joined.prev = region[prev].prev
      BY <1>1, <3>1, <3>2 DEF Region
    <3>4. forward = [region EXCEPT ![prev] = joined]
      BY <1>2, <2>2, <3>2
    <3> QED
      BY <3>1, <3>3, <3>4
  <2> QED
    BY <2>1, <2>2
<1>5. CASE next = NULL
  BY <1>3, <1>4, <1>5, NullIsNone
<1>6. CASE next # NULL
  <2>1. next \in Frames \cup {NoPage} /\ forward[next] \in Region
    BY <1>1, <1>4, <1>6
  <2>2. PICK joined : joined = [forward[next] EXCEPT !.prev = prev]
    OBVIOUS
  <2>3. /\ joined \in Region /\ joined.prev = prev
        /\ joined.start = forward[next].start /\ joined.pages = forward[next].pages
        /\ joined.next = forward[next].next
    BY <1>1, <2>1, <2>2 DEF Region
  <2>4. Unlinked(r) = [forward EXCEPT ![next] = joined]
    BY <1>3, <1>6, <2>2
  <2>5. Unlinked(r) \in [Frames \cup {NoPage} -> Region]
    BY <1>4, <2>1, <2>3, <2>4
  <2>6. \A f \in Frames : Unlinked(r)[f] = IF f = next THEN joined ELSE forward[f]
    BY <1>4, <2>1, <2>4
  <2> QED
    BY <1>4, <2>1, <2>3, <2>5, <2>6
<1> QED
  BY <1>5, <1>6

\* The list without its region at c.
LEMMA ListWithout ==
  ASSUME TypeOK, NEW L, Path(L), Addresses(L), Len(L) >= 2, NEW c \in 1 .. Len(L),
         region[L[c]].prev = IF c = 1 THEN NULL ELSE L[c - 1],
         region' = Unlinked(L[c]),
         root' = IF L[c] = root THEN region[L[c]].next ELSE root
  PROVE  /\ region' \in [Frames \cup {NoPage} -> Region]
         /\ \A j \in 1 .. Len(L) : region'[L[j]].start = region[L[j]].start
         /\ \A j \in 1 .. Len(L) : region'[L[j]].pages = region[L[j]].pages
         /\ \A j \in 1 .. Len(L) : j < c => region'[L[j]].prev = region[L[j]].prev
         /\ \A j \in 1 .. Len(L) : j < c - 1 => region'[L[j]].next = region[L[j]].next
         /\ \E M : /\ Path(M)' /\ Addresses(M)'
                   /\ ToSet(M) = ToSet(L) \ {L[c]} /\ Len(M) = Len(L) - 1
                   /\ \A j \in 1 .. c - 1 : M[j] = L[j]
<1>1. /\ L \in Seq(Frames) /\ Len(L) \in Nat /\ DOMAIN L = 1 .. Len(L)
      /\ \A j \in 1 .. Len(L) : L[j] \in Frames /\ L[j] # NULL
      /\ \A j, k \in 1 .. Len(L) : L[j] = L[k] => j = k
  BY NullIsNone DEF Path, IsInjective
<1>2. \A k \in 1 .. Len(L) : region[L[k]].next = IF k = Len(L) THEN NULL ELSE L[k + 1]
  BY DEF Path
<1>3. PICK prev, next : prev = region[L[c]].prev /\ next = region[L[c]].next
  OBVIOUS
<1>0. /\ prev = IF c = 1 THEN NULL ELSE L[c - 1]
      /\ next = IF c = Len(L) THEN NULL ELSE L[c + 1]
  BY <1>2, <1>3
<1>4. /\ region' \in [Frames \cup {NoPage} -> Region]
      /\ \A f \in Frames :
           /\ region'[f].start = region[f].start
           /\ region'[f].pages = region[f].pages
           /\ region'[f].next = IF f = prev THEN next ELSE region[f].next
           /\ region'[f].prev = IF f = next THEN prev ELSE region[f].prev
  <2>1. region \in [Frames \cup {NoPage} -> Region] /\ L[c] \in Frames
    BY <1>1 DEF TypeOK, Region
  <2> QED
    BY <1>3, <2>1, UnlinkedFacts
\* The region at j is in front of c, at c or behind it.
<1>5. ASSUME NEW j \in 1 .. Len(L)
      PROVE  /\ L[j] = prev <=> j = c - 1
             /\ L[j] = next <=> j = c + 1
  <2>1. L[j] = prev <=> j = c - 1
    <3>1. CASE c = 1
      BY <1>0, <1>1, <3>1
    <3>2. CASE c # 1
      <4>1. c - 1 \in 1 .. Len(L)
        <5>1. Len(L) \in Nat
          BY <1>1
        <5> QED
          BY <3>2, <5>1
      <4>2. prev = L[c - 1]
        BY <1>0, <3>2
      <4> QED
        BY <1>1, <4>1, <4>2
    <3> QED
      BY <3>1, <3>2
  <2>2. L[j] = next <=> j = c + 1
    <3>1. CASE c = Len(L)
      BY <1>0, <1>1, <3>1
    <3>2. CASE c # Len(L)
      <4>1. c + 1 \in 1 .. Len(L)
        <5>1. Len(L) \in Nat
          BY <1>1
        <5> QED
          BY <3>2, <5>1
      <4>2. next = L[c + 1]
        BY <1>0, <3>2
      <4> QED
        BY <1>1, <4>1, <4>2
    <3> QED
      BY <3>1, <3>2
  <2> QED
    BY <2>1, <2>2
<1>6. /\ \A j \in 1 .. Len(L) : /\ region'[L[j]].start = region[L[j]].start
                                /\ region'[L[j]].pages = region[L[j]].pages
      /\ \A j \in 1 .. Len(L) : j # c - 1 => region'[L[j]].next = region[L[j]].next
      /\ \A j \in 1 .. Len(L) : j # c + 1 => region'[L[j]].prev = region[L[j]].prev
      /\ \A j \in 1 .. Len(L) : j = c - 1 => region'[L[j]].next = next
      /\ \A j \in 1 .. Len(L) : j = c + 1 => region'[L[j]].prev = prev
  BY <1>1, <1>4, <1>5
<1>7. PICK M : M = [k \in 1 .. Len(L) - 1 |-> IF k < c THEN L[k] ELSE L[k + 1]]
  OBVIOUS
<1>8. /\ M \in Seq(Frames) /\ Len(M) = Len(L) - 1 /\ DOMAIN M = 1 .. Len(M)
      /\ Len(M) \in Nat /\ Len(M) >= 1
      /\ \A k \in 1 .. Len(M) : M[k] = IF k < c THEN L[k] ELSE L[k + 1]
  <2>1. \A k \in 1 .. Len(L) - 1 : k \in 1 .. Len(L) /\ k + 1 \in 1 .. Len(L)
    BY <1>1
  <2>2. M \in [1 .. Len(L) - 1 -> Frames] /\ Len(L) - 1 \in Nat
    BY <1>1, <1>7, <2>1
  <2>3. M \in Seq(Frames) /\ Len(M) = Len(L) - 1
    BY <2>2
  <2> QED
    BY <1>1, <1>7, <2>2, <2>3
\* Each place k of M is one of L.
<1>9. ASSUME NEW k \in 1 .. Len(M)
      PROVE  \E i \in 1 .. Len(L) : /\ M[k] = L[i] /\ i # c
                                    /\ i = IF k < c THEN k ELSE k + 1
  BY <1>1, <1>8
<1>10. ToSet(M) = ToSet(L) \ {L[c]}
  <2>1. \A k \in 1 .. Len(M) : M[k] \in ToSet(L) \ {L[c]}
    BY <1>1, <1>9 DEF ToSet
  <2>2. ASSUME NEW i \in 1 .. Len(L), i # c PROVE L[i] \in ToSet(M)
    <3>1. CASE i < c
      <4>1. i \in DOMAIN M /\ M[i] = L[i]
        BY <1>1, <1>8, <3>1
      <4> QED
        BY <4>1 DEF ToSet
    <3>2. CASE i > c
      <4>1. i - 1 \in DOMAIN M /\ M[i - 1] = L[i]
        BY <1>1, <1>8, <3>2
      <4> QED
        BY <4>1 DEF ToSet
    <3> QED
      BY <2>2, <3>1, <3>2
  <2>3. \A x \in ToSet(M) : x \in ToSet(L) \ {L[c]}
    BY <1>8, <2>1 DEF ToSet
  <2>4. \A x \in ToSet(L) \ {L[c]} : x \in ToSet(M)
    BY <1>1, <2>2 DEF ToSet
  <2> QED
    BY <2>3, <2>4
<1>11. IsInjective(M)
  <2> SUFFICES ASSUME NEW j \in 1 .. Len(M), NEW k \in 1 .. Len(M), M[j] = M[k]
               PROVE  j = k
    BY <1>8 DEF IsInjective
  <2>1. PICK x \in 1 .. Len(L) : M[j] = L[x] /\ x = IF j < c THEN j ELSE j + 1
    BY <1>9
  <2>2. PICK y \in 1 .. Len(L) : M[k] = L[y] /\ y = IF k < c THEN k ELSE k + 1
    BY <1>9
  <2>3. x = y
    BY <1>1, <2>1, <2>2
  <2> QED
    BY <1>8, <2>1, <2>2, <2>3
<1>12. root' = M[1] /\ region'[M[1]].prev = NULL
  <2>1. root = L[1] /\ region[L[1]].prev = NULL /\ 1 \in 1 .. Len(L) /\ 2 \in 1 .. Len(L)
    <3>1. root = L[1] /\ region[L[1]].prev = NULL
      BY DEF Path
    <3> QED
      BY <1>1, <3>1
  <2>2. CASE c = 1
    <3>1. 1 \in 1 .. Len(M) /\ ~(1 < c) /\ M[1] = L[2]
      BY <1>8, <2>2
    <3>2. next = L[2] /\ prev = NULL /\ region[L[1]].next = next
      BY <1>0, <1>1, <1>3, <2>2
    <3> QED
      BY <1>6, <2>1, <2>2, <3>1, <3>2
  <2>3. CASE c # 1
    <3>1. M[1] = L[1] /\ 1 # c + 1 /\ L[c] # root
      BY <1>1, <1>8, <2>1, <2>3
    <3> QED
      BY <1>6, <2>1, <3>1
  <2> QED
    BY <2>2, <2>3
<1>13. ASSUME NEW k \in 1 .. Len(M)
       PROVE  region'[M[k]].next = IF k = Len(M) THEN NULL ELSE M[k + 1]
  <2>1. CASE k < c - 1
    <3>1. /\ k \in 1 .. Len(L) /\ k # Len(L) /\ k # c - 1
          /\ k # Len(M) /\ k + 1 \in 1 .. Len(M) /\ k < c /\ k + 1 < c
      <4>1. Len(L) \in Nat /\ Len(M) = Len(L) - 1
        BY <1>1, <1>8
      <4> QED
        BY <2>1, <4>1
    <3>2. M[k] = L[k] /\ M[k + 1] = L[k + 1]
      BY <1>8, <3>1
    <3> QED
      BY <1>2, <1>6, <3>1, <3>2
  <2>2. CASE k = c - 1
    <3>1. k \in 1 .. Len(L) /\ M[k] = L[k] /\ (k = Len(M) <=> c = Len(L)) /\ k + 1 = c
      BY <1>1, <1>8, <2>2
    <3>2. region'[M[k]].next = IF c = Len(L) THEN NULL ELSE L[c + 1]
      BY <1>2, <1>3, <1>6, <2>2, <3>1
    <3>3. k # Len(M) => M[k + 1] = L[c + 1]
      BY <1>8, <3>1
    <3> QED
      BY <3>1, <3>2, <3>3
  <2>3. CASE k >= c
    <3>1. /\ k + 1 \in 1 .. Len(L) /\ k + 1 # c - 1 /\ M[k] = L[k + 1]
          /\ (k = Len(M) <=> k + 1 = Len(L))
      BY <1>1, <1>8, <2>3
    <3>2. region'[M[k]].next = IF k + 1 = Len(L) THEN NULL ELSE L[(k + 1) + 1]
      BY <1>2, <1>6, <3>1
    <3>3. k # Len(M) => M[k + 1] = L[(k + 1) + 1]
      BY <1>8, <2>3
    <3> QED
      BY <3>1, <3>2, <3>3
  <2> QED
    BY <1>8, <2>1, <2>2, <2>3
<1>14. Path(M)'
  BY <1>8, <1>11, <1>12, <1>13 DEF Path
<1>15. Addresses(M)'
  <2>1. ASSUME NEW k \in 1 .. Len(M)
        PROVE  IF region'[M[k]].pages = 0 THEN k = 1
               ELSE PageOf(region'[M[k]].start) + region'[M[k]].pages <= MaxPage
    <3>1. PICK i \in 1 .. Len(L) : M[k] = L[i] /\ i # c /\ i = IF k < c THEN k ELSE k + 1
      BY <1>9
    <3>2. IF region[L[i]].pages = 0 THEN i = 1
          ELSE PageOf(region[L[i]].start) + region[L[i]].pages <= MaxPage
      BY DEF Addresses
    <3>3. i = 1 => k = 1
      BY <3>1
    <3> QED
      BY <1>6, <3>1, <3>2, <3>3
  <2>2. ASSUME NEW j \in 1 .. Len(M), NEW k \in 1 .. Len(M), j < k
        PROVE  \/ region'[M[j]].start < region'[M[k]].start
               \/ region'[M[j]].pages = 0 /\ region'[M[j]].start = region'[M[k]].start
    <3>1. PICK x \in 1 .. Len(L) : M[j] = L[x] /\ x = IF j < c THEN j ELSE j + 1
      BY <1>9
    <3>2. PICK y \in 1 .. Len(L) : M[k] = L[y] /\ y = IF k < c THEN k ELSE k + 1
      BY <1>9
    <3>3. x < y
      BY <2>2, <3>1, <3>2
    <3>4. \/ region[L[x]].start < region[L[y]].start
          \/ region[L[x]].pages = 0 /\ region[L[x]].start = region[L[y]].start
      BY <3>3 DEF Addresses
    <3> QED
      BY SMTT(30), <1>6, <3>1, <3>2, <3>4
  <2> QED
    BY <2>1, <2>2 DEF Addresses
<1>16. \A j \in 1 .. c - 1 : M[j] = L[j]
  BY <1>1, <1>8
<1>17. /\ \A j \in 1 .. Len(L) : region'[L[j]].start = region[L[j]].start
       /\ \A j \in 1 .. Len(L) : region'[L[j]].pages = region[L[j]].pages
       /\ \A j \in 1 .. Len(L) : j < c => region'[L[j]].prev = region[L[j]].prev
       /\ \A j \in 1 .. Len(L) : j < c - 1 => region'[L[j]].next = region[L[j]].next
  BY <1>6
<1> QED
  BY <1>4, <1>8, <1>10, <1>14, <1>15, <1>16, <1>17

\* The pages mapped for a region, each once.
LEMMA BackingFacts ==
  ASSUME TypeOK, NEW r \in Frames
  PROVE  /\ Backing(r) \in Seq(Nat) /\ IsInjective(Backing(r))
         /\ ToSet(Backing(r)) =
              {PageOf(region[r].start) + i : i \in 0 .. region[r].pages - 1}
                \cap {p \in DOMAIN mapping : mapping[p] # NoPage}
<1>1. PICK a \in Nat, n \in Nat : a = region[r].start /\ n = region[r].pages
  BY DEF TypeOK
<1>2. PICK b \in Nat : b = PageOf(a)
  BY PageBehind
<1>3. \A i \in Nat : PageOf(a + i * PageSize) = b + i
  BY <1>2, PageBehind
<1> DEFINE pages == [i \in 1 .. n |-> PageOf(a + (i - 1) * PageSize)]
<1>4. \A i \in 1 .. n : pages[i] = b + (i - 1)
  <2>1. TAKE i \in 1 .. n
  <2>2. i - 1 \in Nat
    OBVIOUS
  <2> QED
    BY <1>3, <2>2
<1>5. DOMAIN pages = 1 .. n /\ pages = [i \in 1 .. n |-> pages[i]]
  OBVIOUS
<1>6. PICK S : S = {p \in DOMAIN mapping : mapping[p] # NoPage}
  OBVIOUS
<1>7. Backing(r) = Kept(pages, S)
  BY <1>1, <1>6, Zenon DEF Backing
<1> HIDE DEF pages
<1>8. pages \in Seq(Nat) /\ Len(pages) = n
  <2>1. \A i \in 1 .. n : pages[i] \in Nat
    BY <1>4
  <2>2. pages \in [1 .. n -> Nat]
    BY <1>5, <2>1
  <2> QED
    BY <2>2
<1>9. IsInjective(pages)
  BY <1>4, <1>5 DEF IsInjective
<1>10. ToSet(pages) = {b + i : i \in 0 .. n - 1}
  <2>1. \A x \in ToSet(pages) : x \in {b + i : i \in 0 .. n - 1}
    <3>1. \A i \in 1 .. n : i - 1 \in 0 .. n - 1
      OBVIOUS
    <3> QED
      BY <1>4, <1>5, <3>1 DEF ToSet
  <2>2. ASSUME NEW i \in 0 .. n - 1 PROVE b + i \in ToSet(pages)
    <3>1. i + 1 \in 1 .. n /\ (i + 1) - 1 = i
      OBVIOUS
    <3>2. pages[i + 1] = b + i
      BY <1>4, <3>1
    <3> QED
      BY <1>5, <3>1, <3>2 DEF ToSet
  <2> QED
    BY <2>1, <2>2
<1>11. /\ Kept(pages, S) \in Seq(Nat) /\ IsInjective(Kept(pages, S))
       /\ ToSet(Kept(pages, S)) = ToSet(pages) \cap S
  BY <1>8, <1>9, KeptFacts
<1> QED
  BY <1>1, <1>2, <1>6, <1>7, <1>10, <1>11

\* What vma_free unmaps goes back to the pool, with the page of the region.
LEMMA ReleasedIsFree ==
  ASSUME TypeOK, OnePage, NEW r \in Frames, r \notin ToSet(pool) \cup Mapped, Free(r)
  PROVE  /\ pool' \in Seq(Frames) /\ IsInjective(pool')
         /\ mapping' \in [0 .. MaxPage -> Frames \cup {NoPage}]
         /\ OnePage'
         /\ ToSet(pool') \cup Mapped' \subseteq ToSet(pool) \cup Mapped \cup {r}
<1>1. PICK pages : pages = Backing(r)
  OBVIOUS
<1>2. /\ pages \in Seq(Nat) /\ IsInjective(pages)
      /\ ToSet(pages) \subseteq {p \in DOMAIN mapping : mapping[p] # NoPage}
  BY <1>1, BackingFacts
<1>3. /\ DOMAIN mapping = 0 .. MaxPage /\ mapping \in [0 .. MaxPage -> Frames \cup {NoPage}]
      /\ pool \in Seq(Frames) /\ IsInjective(pool)
  BY DEF TypeOK
<1>4. PICK freed : freed = [i \in DOMAIN pages |-> mapping[pages[i]]]
  OBVIOUS
<1>5. PICK last : last = <<r>>
  OBVIOUS
<1>6. /\ mapping' = Unmap(pages)
      /\ pool' = (pool \o freed) \o last
  BY <1>1, <1>4, <1>5, NullIsNone DEF Free
<1>7. /\ DOMAIN pages = 1 .. Len(pages) /\ Len(pages) \in Nat
      /\ \A i \in 1 .. Len(pages) : /\ pages[i] \in 0 .. MaxPage /\ mapping[pages[i]] # NoPage
                                    /\ pages[i] \in ToSet(pages)
  BY <1>2, <1>3 DEF ToSet
<1>8. \A p, q \in 0 .. MaxPage : mapping[p] = mapping[q] /\ mapping[p] # NoPage => p = q
  BY <1>3 DEF OnePage
<1>9. freed \in Seq(Frames) /\ DOMAIN freed = 1 .. Len(pages)
  <2>1. \A i \in 1 .. Len(pages) : mapping[pages[i]] \in Frames
    BY <1>3, <1>7
  <2>2. freed \in [1 .. Len(pages) -> Frames]
    BY <1>4, <1>7, <2>1
  <2> QED
    BY <1>7, <2>2
<1>10. \A i \in 1 .. Len(pages) : freed[i] = mapping[pages[i]]
  BY <1>4, <1>7
<1>11. IsInjective(freed)
  BY <1>2, <1>7, <1>8, <1>9, <1>10 DEF IsInjective
<1>12. ToSet(freed) \subseteq Mapped
  BY <1>3, <1>7, <1>9, <1>10 DEF ToSet, Mapped
<1>13. last \in Seq(Frames) /\ ToSet(last) = {r} /\ IsInjective(last)
  BY <1>5, OneMemberSeq
<1>14. ToSet(pool) \cap Mapped = {}
  BY DEF OnePage
<1>15. PICK both : both = pool \o freed
  OBVIOUS
<1>16. /\ both \in Seq(Frames) /\ IsInjective(both)
       /\ ToSet(both) = ToSet(pool) \cup ToSet(freed)
  BY <1>3, <1>9, <1>11, <1>12, <1>14, <1>15, ConcatFacts
<1>17. /\ pool' \in Seq(Frames) /\ IsInjective(pool')
       /\ ToSet(pool') = ToSet(pool) \cup ToSet(freed) \cup {r}
  <2>1. ToSet(both) \cap ToSet(last) = {}
    BY <1>12, <1>13, <1>16
  <2>2. pool' = both \o last
    BY <1>6, <1>15
  <2> QED
    BY <1>13, <1>16, <2>1, <2>2, ConcatFacts
<1>18. /\ DOMAIN mapping' = 0 .. MaxPage
       /\ mapping' \in [0 .. MaxPage -> Frames \cup {NoPage}]
       /\ \A p \in 0 .. MaxPage :
            mapping'[p] = IF p \in ToSet(pages) THEN NoPage ELSE mapping[p]
  BY <1>3, <1>6 DEF Unmap
<1>19. \A p \in 0 .. MaxPage : mapping'[p] # NoPage =>
         mapping'[p] = mapping[p] /\ mapping[p] \in Mapped /\ mapping[p] \notin ToSet(freed)
  <2> SUFFICES ASSUME NEW p \in 0 .. MaxPage, mapping'[p] # NoPage
               PROVE  mapping'[p] = mapping[p] /\ mapping[p] \in Mapped /\ mapping[p] \notin ToSet(freed)
    OBVIOUS
  <2>1. p \notin ToSet(pages) /\ mapping'[p] = mapping[p] /\ mapping[p] # NoPage
    BY <1>18
  <2>2. mapping[p] \in Mapped
    BY <1>3, <2>1 DEF Mapped
  <2>3. \A i \in 1 .. Len(pages) : freed[i] # mapping[p]
    BY <1>7, <1>8, <1>10, <2>1
  <2> QED
    BY <1>9, <2>1, <2>2, <2>3 DEF ToSet
<1>20. Mapped' \subseteq Mapped /\ Mapped' \cap ToSet(freed) = {}
  BY <1>18, <1>19 DEF Mapped
<1>21. OnePage'
  <2>1. ToSet(pool') \cap Mapped' = {}
    BY <1>14, <1>17, <1>20
  <2>2. \A p, q \in 0 .. MaxPage : mapping'[p] = mapping'[q] /\ mapping'[p] # NoPage => p = q
    BY <1>8, <1>19
  <2> QED
    BY <1>18, <2>1, <2>2 DEF OnePage
<1> QED
  BY <1>12, <1>17, <1>18, <1>20, <1>21

\* The latest allocation goes, or in place of the first one the empty region
\* at its address.
LEMMA WhatIsFreed ==
  ASSUME Order = "lifo", TypeOK, NEW L, NEW at, Path(L), Addresses(L), OwnedAt(L, at),
         NEW k \in 1 .. Len(owned), vma_free(k)
  PROVE  /\ k = Len(owned)
         /\ \E c \in 1 .. Len(L) :
              /\ Free(L[c])
              /\ region[L[c]].start = owned[k].ptr
              /\ \/ c = at[k]
                 \/ c = 1 /\ at[k] = 2 /\ Len(owned) = 1 /\ region[L[1]].pages = 0
<1>1. /\ Len(L) \in Nat /\ Listed = ToSet(L)
      /\ \A j \in 1 .. Len(L) : L[j] \in Listed
      /\ \A j \in 1 .. Len(L) : L[j] \in Frames /\ region[L[j]].start \in Nat
  <2>1. /\ Listed = ToSet(L) /\ Len(L) \in Nat /\ DOMAIN L = 1 .. Len(L)
        /\ \A j \in 1 .. Len(L) : L[j] \in Frames
    BY ListedIsPath DEF Path
  <2> QED
    BY <2>1 DEF ToSet, TypeOK
<1>2. k = Len(owned) /\ Len(owned) \in Nat
  BY DEF vma_free, TypeOK
<1>3. PICK a \in 2 .. Len(L) : a = at[k] /\ region[L[a]].start = owned[k].ptr
  BY DEF OwnedAt
<1> DEFINE Matches == {r \in Listed : region[r].start = owned[k].ptr}
           T == {j \in 1 .. Len(L) : L[j] \in Matches}
<1>4. a \in T
  BY <1>1, <1>3
<1>5. PICK c \in T : \A j \in T : c <= j
  <2>1. T \in SUBSET Nat /\ T # {}
    BY <1>1, <1>4
  <2> HIDE DEF T
  <2> QED
    BY <2>1, LeastMember
<1>6. c \in 1 .. Len(L) /\ L[c] \in Matches /\ \A j \in 1 .. c - 1 : L[j] \notin Matches
  <2>1. \A j \in 1 .. c - 1 : j \in 1 .. Len(L) /\ ~(c <= j)
    BY <1>1, <1>5
  <2> QED
    BY <1>5, <2>1
<1>7. Free(L[c])
  <2>1. NULL \notin Matches
    BY DEF Listed
  <2>2. Matches # {} => Free(FirstIn(Matches))
    BY DEF vma_free
  <2> HIDE DEF Matches
  <2>3. FirstIn(Matches) = L[c]
    BY <1>6, <2>1, FirstOnPath
  <2> QED
    BY <1>6, <2>2, <2>3
<1>8. region[L[c]].start = region[L[a]].start /\ c <= a
  BY <1>3, <1>4, <1>5
<1>9. \A i, j \in 1 .. Len(L) : i < j =>
        \/ region[L[i]].start < region[L[j]].start
        \/ region[L[i]].pages = 0 /\ region[L[i]].start = region[L[j]].start
  BY DEF Addresses
<1>10. \A j \in 1 .. Len(L) : region[L[j]].pages = 0 => j = 1
  BY DEF Addresses
<1> HIDE DEF T, Matches
<1>11. ASSUME c # a
       PROVE  c = 1 /\ a = 2 /\ Len(owned) = 1 /\ region[L[1]].pages = 0
  <2>1. c < a /\ a \in 1 .. Len(L)
    BY <1>1, <1>6, <1>8, <1>11
  <2>2. region[L[c]].pages = 0 /\ c = 1
    BY <1>1, <1>6, <1>8, <1>9, <1>10, <2>1
  <2>3. a = 2
    <3> SUFFICES ASSUME a # 2 PROVE FALSE
      OBVIOUS
    <3>1. 1 \in 1 .. Len(L) /\ 2 \in 1 .. Len(L) /\ 2 < a
      BY <1>1, <2>1
    <3>2. region[L[1]].start <= region[L[2]].start
      BY <1>1, <1>9, <3>1
    <3>3. region[L[2]].start < region[L[a]].start
      BY <1>9, <1>10, <2>1, <3>1
    <3> QED
      BY <1>1, <1>8, <2>1, <2>2, <3>1, <3>2, <3>3
  <2>4. Len(owned) = 1
    <3> SUFFICES ASSUME Len(owned) # 1 PROVE FALSE
      OBVIOUS
    <3>1. 1 \in 1 .. Len(owned) /\ 1 < k
      BY <1>2
    <3>2. at[1] \in 2 .. Len(L) /\ at[1] < at[k]
      BY <3>1 DEF OwnedAt
    <3> QED
      BY <1>3, <2>3, <3>2
  <2> QED
    BY <2>2, <2>3, <2>4
<1> QED
  BY <1>2, <1>3, <1>6, <1>7, <1>8, <1>11

LEMMA RemoveAtFacts ==
  ASSUME NEW T, NEW s \in Seq(T), NEW k \in 1 .. Len(s)
  PROVE  /\ RemoveAt(s, k) \in Seq(T) /\ Len(RemoveAt(s, k)) = Len(s) - 1
         /\ \A i \in 1 .. Len(s) - 1 : RemoveAt(s, k)[i] = IF i < k THEN s[i] ELSE s[i + 1]
<1>1. PICK n \in Nat : n = Len(s)
  OBVIOUS
<1>2. PICK a : a = SubSeq(s, 1, k - 1)
  OBVIOUS
<1>3. PICK b : b = SubSeq(s, k + 1, n)
  OBVIOUS
<1>4. PICK u : u = a \o b
  OBVIOUS
<1>5. RemoveAt(s, k) = u
  BY <1>1, <1>2, <1>3, <1>4 DEF RemoveAt
<1>6. a \in Seq(T) /\ Len(a) = k - 1 /\ \A i \in 1 .. k - 1 : a[i] = s[i]
  BY <1>1, <1>2
<1>7. b \in Seq(T) /\ Len(b) = n - k /\ \A i \in 1 .. n - k : b[i] = s[k + i]
  <2>1. k + 1 \in 1 .. n + 1 /\ n - (k + 1) + 1 = n - k
    BY <1>1
  <2>2. b \in Seq(T) /\ Len(b) = n - k
    <3>1. CASE k = n
      BY <1>1, <1>3, <3>1, EmptySeq
    <3>2. CASE k # n
      BY <1>1, <1>3, <2>1, <3>2
    <3> QED
      BY <3>1, <3>2
  <2>3. \A i \in 1 .. n - k : b[i] = s[k + i]
    BY <1>1, <1>3, <2>1
  <2> QED
    BY <2>2, <2>3
<1>8. /\ u \in Seq(T) /\ Len(u) = n - 1
      /\ \A i \in 1 .. k - 1 : u[i] = s[i]
      /\ \A i \in 1 .. n - k : u[(k - 1) + i] = s[k + i]
  <2>1. u \in Seq(T) /\ Len(u) = (k - 1) + (n - k)
    <3>1. a \in Seq(T) /\ b \in Seq(T) /\ Len(a) = k - 1 /\ Len(b) = n - k
      BY <1>6, <1>7, Zenon
    <3>2. u \in Seq(T) /\ Len(u) = Len(a) + Len(b)
      BY <1>4, <3>1, ConcatProperties
    <3> QED
      BY <3>1, <3>2
  <2>2. \A i \in 1 .. k - 1 : u[i] = s[i]
    <3>1. \A i \in 1 .. Len(a) : u[i] = a[i]
      BY <1>4, <1>6, <1>7
    <3> QED
      BY <1>6, <3>1
  <2>3. \A i \in 1 .. n - k : u[(k - 1) + i] = s[k + i]
    <3>1. \A i \in 1 .. Len(b) : u[Len(a) + i] = b[i]
      BY SMTT(30), <1>4, <1>6, <1>7
    <3> QED
      BY <1>6, <1>7, <3>1
  <2>4. (k - 1) + (n - k) = n - 1
    BY <1>1
  <2> QED
    BY <2>1, <2>2, <2>3, <2>4
<1>9. \A i \in 1 .. n - 1 : u[i] = IF i < k THEN s[i] ELSE s[i + 1]
  <2>1. TAKE i \in 1 .. n - 1
  <2>2. CASE i < k
    BY <1>8, <2>2
  <2>3. CASE i >= k
    <3>1. PICK j \in 1 .. n - k : (k - 1) + j = i /\ k + j = i + 1
      <4>1. i - (k - 1) \in 1 .. n - k /\ (k - 1) + (i - (k - 1)) = i /\ k + (i - (k - 1)) = i + 1
        BY <1>1, <2>3
      <4> QED
        BY <4>1
    <3>2. u[(k - 1) + j] = s[k + j]
      BY <1>8
    <3>3. ~(i < k)
      BY <2>3
    <3> QED
      BY <3>1, <3>2, <3>3
  <2> QED
    BY <2>2, <2>3
<1> QED
  BY <1>1, <1>5, <1>8, <1>9

LEMMA StepFree ==
  ASSUME Order = "lifo", VmaInv, NEW k \in 1 .. Len(owned), vma_free(k)
  PROVE  VmaInv'
<1>1. TypeOK /\ OnePage /\ context = "live"
  BY DEF VmaInv, vma_free
<1>2. PICK L, at : Path(L) /\ Addresses(L) /\ OwnPages(L) /\ OwnedAt(L, at)
  BY <1>1 DEF VmaInv, Listing
<1>3. /\ L \in Seq(Frames) /\ Len(L) \in Nat
      /\ \A j \in 1 .. Len(L) : L[j] \in Frames /\ L[j] \in ToSet(L)
  BY <1>2 DEF Path, ToSet
<1>4. PICK n \in Nat : n = Len(owned) /\ n >= 1
  BY <1>1 DEF TypeOK
<1>5. k = n
  BY <1>1, <1>2, <1>4, WhatIsFreed
<1>6. PICK c \in 1 .. Len(L) :
        /\ Free(L[c])
        /\ \/ c = at[k]
           \/ c = 1 /\ at[k] = 2 /\ n = 1 /\ region[L[1]].pages = 0
  BY <1>1, <1>2, <1>4, WhatIsFreed
<1>7. /\ at \in [1 .. n -> 2 .. Len(L)] /\ \A j \in 1 .. n : at[j] \in 2 .. Len(L)
      /\ \A i, j \in 1 .. n : i < j => at[i] < at[j]
      /\ \A j \in 1 .. n : /\ owned[j].ptr = region[L[at[j]]].start
                           /\ region[L[at[j]]].prev = L[at[j] - 1]
                           /\ \A i \in 1 .. at[j] - 1 : ~HasRoom(L[i])
  BY <1>2, <1>4 DEF OwnedAt
<1>8. Len(L) >= 2 /\ n \in 1 .. n
  <2>1. n \in 1 .. n
    BY <1>4
  <2> QED
    BY <1>3, <1>7, <2>1
<1>9. region[L[c]].prev = IF c = 1 THEN NULL ELSE L[c - 1]
  <2>1. region[L[1]].prev = NULL
    BY <1>2 DEF Path
  <2>2. CASE c = at[k]
    BY <1>5, <1>7, <1>8, <2>2
  <2>3. CASE c = 1
    BY <2>1, <2>3
  <2> QED
    BY <1>6, <2>2, <2>3
<1>10. /\ region' = Unlinked(L[c])
       /\ root' = IF L[c] = root THEN region[L[c]].next ELSE root
  BY <1>6 DEF Free
<1>11. /\ owned' = RemoveAt(owned, n) /\ context' = "live" /\ context_page' = context_page
  BY <1>1, <1>5 DEF vma_free
<1>12. /\ owned' \in Seq([ptr : Nat, pages : Nat]) /\ Len(owned') = n - 1
       /\ \A j \in 1 .. n - 1 : owned'[j] = owned[j]
  <2>1. owned \in Seq([ptr : Nat, pages : Nat])
    BY <1>1 DEF TypeOK
  <2>2. n \in 1 .. Len(owned)
    BY <1>4
  <2>3. /\ owned' \in Seq([ptr : Nat, pages : Nat]) /\ Len(owned') = n - 1
        /\ \A j \in 1 .. n - 1 : owned'[j] = IF j < n THEN owned[j] ELSE owned[j + 1]
    BY <1>4, <1>11, <2>1, <2>2, RemoveAtFacts
  <2> QED
    BY <1>4, <2>3
<1>13. /\ region' \in [Frames \cup {NoPage} -> Region]
       /\ \A j \in 1 .. Len(L) : region'[L[j]].start = region[L[j]].start
       /\ \A j \in 1 .. Len(L) : region'[L[j]].pages = region[L[j]].pages
       /\ \A j \in 1 .. Len(L) : j < c => region'[L[j]].prev = region[L[j]].prev
       /\ \A j \in 1 .. Len(L) : j < c - 1 => region'[L[j]].next = region[L[j]].next
  <2>1. TypeOK /\ Path(L) /\ Addresses(L)
    BY <1>1, <1>2
  <2> QED
    BY <1>8, <1>9, <1>10, <2>1, ListWithout
<1>14. PICK M : /\ Path(M)' /\ Addresses(M)'
                /\ ToSet(M) = ToSet(L) \ {L[c]} /\ Len(M) = Len(L) - 1
                /\ \A j \in 1 .. c - 1 : M[j] = L[j]
  BY <1>1, <1>2, <1>8, <1>9, <1>10, ListWithout
<1>15. L[c] \in Frames /\ L[c] \notin ToSet(pool) \cup Mapped /\ L[c] # context_page
  BY <1>2, <1>3 DEF OwnPages
<1>16. /\ pool' \in Seq(Frames) /\ IsInjective(pool')
       /\ mapping' \in [0 .. MaxPage -> Frames \cup {NoPage}]
       /\ OnePage'
       /\ ToSet(pool') \cup Mapped' \subseteq ToSet(pool) \cup Mapped \cup {L[c]}
  BY <1>1, <1>6, <1>15, ReleasedIsFree
<1>17. TypeOK'
  <2>1. root' \in Frames \cup {NULL}
    <3>1. root \in Frames \cup {NULL}
      BY <1>1 DEF TypeOK
    <3>2. region[L[c]].next = IF c = Len(L) THEN NULL ELSE L[c + 1]
      BY <1>2 DEF Path
    <3>3. c # Len(L) => c + 1 \in 1 .. Len(L)
      BY <1>3
    <3> QED
      BY <1>3, <1>10, <3>1, <3>2, <3>3
  <2> QED
    BY <1>11, <1>12, <1>13, <1>16, <2>1 DEF TypeOK, Region
<1>18. OwnPages(M)'
  BY <1>2, <1>11, <1>14, <1>15, <1>16 DEF OwnPages
\* What is still owned lies in front of c.
<1>19. ASSUME NEW j \in 1 .. n - 1 PROVE j \in 1 .. n /\ c = at[n] /\ at[j] < c
  <2>1. j \in 1 .. n /\ j < n /\ n # 1
    BY <1>4
  <2>2. c = at[n]
    BY <1>5, <1>6, <2>1
  <2> QED
    BY <1>7, <1>8, <2>1, <2>2
<1>20. \E bt : OwnedAt(M, bt)'
  <2>1. PICK bt : bt = [j \in 1 .. n - 1 |-> at[j]]
    OBVIOUS
  <2>2. DOMAIN bt = 1 .. n - 1 /\ \A j \in 1 .. n - 1 : bt[j] = at[j]
    BY <2>1
  <2>3. bt \in [1 .. n - 1 -> 2 .. Len(M)]
    <3>1. \A j \in 1 .. n - 1 : at[j] \in 2 .. Len(M)
      <4>1. TAKE j \in 1 .. n - 1
      <4>2. at[j] \in 2 .. Len(L) /\ at[j] < c
        BY <1>7, <1>19
      <4>3. Len(M) = Len(L) - 1
        BY <1>14
      <4> QED
        BY <1>3, <4>2, <4>3
    <3> QED
      BY <2>1, <3>1
  <2>4. \A i, j \in 1 .. n - 1 : i < j => bt[i] < bt[j]
    BY <1>7, <1>19, <2>2
  <2>5. ASSUME NEW j \in 1 .. n - 1
        PROVE  /\ owned'[j].ptr = region'[M[bt[j]]].start
               /\ region'[M[bt[j]]].prev = M[bt[j] - 1]
               /\ \A i \in 1 .. bt[j] - 1 : ~HasRoom(M[i])'
    <3>1. PICK a \in 2 .. Len(L) : a = at[j] /\ a = bt[j] /\ a < c
      BY <1>7, <1>19, <2>2
    <3>2. a \in 1 .. Len(L) /\ a \in 1 .. c - 1 /\ a - 1 \in 1 .. c - 1
      BY <1>3, <3>1
    <3>3. M[a] = L[a] /\ M[a - 1] = L[a - 1]
      BY <1>14, <3>2
    <3>4. /\ owned[j].ptr = region[L[a]].start /\ region[L[a]].prev = L[a - 1]
          /\ \A i \in 1 .. a - 1 : ~HasRoom(L[i])
      BY <1>7, <1>19, <3>1
    <3>5. owned'[j].ptr = region'[M[a]].start /\ region'[M[a]].prev = M[a - 1]
      BY <1>12, <1>13, <3>1, <3>2, <3>3, <3>4
    <3>6. ASSUME NEW i \in 1 .. a - 1 PROVE ~HasRoom(M[i])'
      <4>1. /\ i \in 1 .. Len(L) /\ i + 1 \in 1 .. Len(L) /\ i # Len(L)
            /\ i \in 1 .. c - 1 /\ i < c - 1
        BY <1>3, <3>1
      <4>2. region[L[i]].next = L[i + 1]
        BY <1>2, <4>1 DEF Path
      <4>3. /\ M[i] = L[i] /\ region'[L[i]].next = L[i + 1]
            /\ region'[L[i]].start = region[L[i]].start
            /\ region'[L[i]].pages = region[L[i]].pages
            /\ region'[L[i + 1]].start = region[L[i + 1]].start
        BY <1>13, <1>14, <4>1, <4>2
      <4>4. ~HasRoom(L[i])
        BY <3>4
      <4> QED
        BY <4>2, <4>3, <4>4 DEF HasRoom, EndOf
    <3> QED
      BY <3>1, <3>5, <3>6
  <2>6. OwnedAt(M, bt)'
    BY <1>12, <2>3, <2>4, <2>5 DEF OwnedAt
  <2> QED
    BY <2>6
<1>21. Listing(M)'
  BY <1>14, <1>18, <1>20 DEF Listing
<1> QED
  BY <1>11, <1>16, <1>17, <1>21 DEF VmaInv

-----------------------------------------------------------------------------
(* Theorems *)

LEMMA InvStep ==
  ASSUME Order = "lifo", Shortage # "any"
  PROVE  VmaInv /\ [Next]_vars => VmaInv'
<1> SUFFICES ASSUME VmaInv, [Next]_vars PROVE VmaInv'
  OBVIOUS
<1>1. CASE Create
  BY <1>1, StepCreate
<1>2. CASE Destroy
  BY <1>2, StepDestroy
<1>3. ASSUME NEW pages \in Sizes, vma_alloc(pages) PROVE VmaInv'
  BY <1>3, StepAlloc
<1>4. ASSUME NEW k \in 1 .. Len(owned), vma_free(k) PROVE VmaInv'
  BY <1>4, StepFree
<1>5. CASE UNCHANGED vars
  <2>1. /\ pool' = pool /\ region' = region /\ context' = context
        /\ context_page' = context_page /\ root' = root /\ mapping' = mapping
        /\ owned' = owned
    BY <1>5 DEF vars
  <2>2. TypeOK' /\ OnePage' /\ Mapped' = Mapped
    BY <2>1 DEF VmaInv, TypeOK, OnePage, Mapped
  <2>3. ASSUME NEW L, Listing(L) PROVE Listing(L)'
    <3>1. PICK at : OwnedAt(L, at)
      BY <2>3 DEF Listing
    <3>2. OwnedAt(L, at)'
      BY <2>1, <3>1 DEF OwnedAt, HasRoom, EndOf
    <3>3. Path(L)' /\ Addresses(L)'
      BY <2>1, <2>3 DEF Listing, Path, Addresses
    <3>4. OwnPages(L)'
      BY <2>1, <2>2, <2>3 DEF Listing, OwnPages
    <3> QED
      BY <3>2, <3>3, <3>4 DEF Listing
  <2> QED
    BY <2>1, <2>2, <2>3 DEF VmaInv
<1> QED
  BY <1>1, <1>2, <1>3, <1>4, <1>5 DEF Next

\* Neither hypothesis can be left out: with callers that free in any order, or
\* a region in page 0, the invariant does not hold.
LEMMA InvHolds ==
  ASSUME Order = "lifo", Shortage # "any"
  PROVE  Spec => []VmaInv
<1>1. Init => VmaInv
  BY InvInit
<1>2. VmaInv /\ [Next]_vars => VmaInv'
  BY InvStep
<1> QED
  BY <1>1, <1>2, PTL DEF Spec

\* A physical page is free, holds a region of the list or is mapped once: what
\* vma.c takes from the physical memory manager it neither uses twice nor
\* gives back while it is in use.
THEOREM PagesAlwaysHaveOneUse ==
  ASSUME Order = "lifo", Shortage # "any"
  PROVE  Spec => []PagesHaveOneUse
<1>1. VmaInv => PagesHaveOneUse
  <2> SUFFICES ASSUME VmaInv PROVE PagesHaveOneUse
    OBVIOUS
  <2>1. TypeOK /\ OnePage
    BY DEF VmaInv
  <2>2. CASE context = "live"
    <3>1. PICK L : Path(L) /\ OwnPages(L)
      BY <2>2 DEF VmaInv, Listing
    <3>2. Listed = ToSet(L)
      BY <3>1, ListedIsPath
    <3> QED
      BY <2>1, <3>1, <3>2 DEF PagesHaveOneUse, OnePage, OwnPages
  <2>3. CASE context # "live"
    <3>1. Listed = {}
      BY <2>3, NthOfNone DEF VmaInv
    <3> QED
      BY <2>1, <3>1 DEF PagesHaveOneUse, OnePage
  <2> QED
    BY <2>2, <2>3
<1>2. Spec => []VmaInv
  BY InvHolds
<1> QED
  BY <1>1, <1>2, PTL

\* The list ends, and the region behind another one knows it if a caller owns
\* it: vma_free never walks for ever, and unlinks what it frees on both sides.
THEOREM OwnedAlwaysLinked ==
  ASSUME Order = "lifo", Shortage # "any"
  PROVE  Spec => []OwnedIsLinked
<1>1. VmaInv => OwnedIsLinked
  <2> SUFFICES ASSUME VmaInv PROVE OwnedIsLinked
    OBVIOUS
  <2>1. CASE context = "live"
    <3>1. PICK L, at : Path(L) /\ Addresses(L) /\ OwnedAt(L, at)
      BY <2>1 DEF VmaInv, Listing
    <3>2. Listed = ToSet(L) /\ Ends /\ DOMAIN L = 1 .. Len(L) /\ Len(L) \in Nat
      BY <3>1, ListedIsPath DEF Path
    <3>3. ASSUME NEW i \in 1 .. Len(L), region[L[i]].next # NULL,
                 NEW k \in 1 .. Len(owned),
                 region[region[L[i]].next].start = owned[k].ptr
          PROVE  region[region[L[i]].next].prev = L[i]
      <4>1. i # Len(L) /\ i + 1 \in 1 .. Len(L) /\ region[L[i]].next = L[i + 1]
        <5>1. region[L[i]].next = IF i = Len(L) THEN NULL ELSE L[i + 1]
          BY <3>1 DEF Path
        <5>2. i # Len(L)
          BY <3>3, <5>1
        <5>3. i + 1 \in 1 .. Len(L)
          <6>1. Len(L) \in Nat
            BY <3>2
          <6> QED
            BY <5>2, <6>1
        <5> QED
          BY <5>1, <5>2, <5>3
      <4>2. PICK a \in 2 .. Len(L) : /\ region[L[a]].start = owned[k].ptr
                                     /\ region[L[a]].prev = L[a - 1]
        BY <3>1 DEF OwnedAt
      \* Only the first region may have the address of another one.
      <4>3. i + 1 = a
        <5>1. \A x, y \in 1 .. Len(L) : x < y =>
                \/ region[L[x]].start < region[L[y]].start
                \/ x = 1
          BY <3>1 DEF Addresses
        <5>2. a \in 1 .. Len(L) /\ a # 1 /\ i + 1 # 1 /\ region[L[i + 1]].start = region[L[a]].start
          BY <3>2, <3>3, <4>1, <4>2
        <5>3. region[L[a]].start \in Nat
          BY <3>1, <5>2 DEF VmaInv, TypeOK, Path
        <5> QED
          BY <4>1, <5>1, <5>2, <5>3
      <4> QED
        BY <4>1, <4>2, <4>3
    <3>4. DOMAIN owned = 1 .. Len(owned)
      BY DEF VmaInv, TypeOK
    <3> QED
      BY <3>2, <3>3, <3>4 DEF OwnedIsLinked, ToSet
  <2>2. CASE context # "live"
    <3>1. Listed = {} /\ Ends
      BY <2>2, NthOfNone DEF VmaInv
    <3> QED
      BY <3>1 DEF OwnedIsLinked
  <2> QED
    BY <2>1, <2>2
<1>2. Spec => []VmaInv
  BY InvHolds
<1> QED
  BY <1>1, <1>2, PTL

\* What a call takes off is what FreedIsUnmapped says of it.
UnmapsFreed ==
  \A k \in 1 .. Len(owned) :
    /\ context' = "live" /\ owned' = RemoveAt(owned, k)
    /\ \A r \in Listed : r = root => region[r].start # owned[k].ptr
    => mapping'[PageOf(owned[k].ptr)] = NoPage

\* Pointers of callers differ, so that it is seen which one is gone.
LEMMA LatestIsGone ==
  ASSUME Order = "lifo", VmaInv, context = "live", NEW j \in 1 .. Len(owned), vma_free(j),
         NEW k \in 1 .. Len(owned), owned' = RemoveAt(owned, k)
  PROVE  k = j
<1>1. TypeOK
  BY DEF VmaInv
<1>2. PICK L, at : Path(L) /\ Addresses(L) /\ OwnedAt(L, at)
  BY DEF VmaInv, Listing
<1>3. j = Len(owned)
  BY <1>1, <1>2, WhatIsFreed
<1>4. PICK n \in Nat : n = Len(owned) /\ owned' = RemoveAt(owned, n)
  <2>1. owned' = RemoveAt(owned, j)
    BY Zenon DEF vma_free
  <2>2. Len(owned) \in Nat
    BY <1>1 DEF TypeOK
  <2> QED
    BY <1>3, <2>1, <2>2
<1>5. owned \in Seq([ptr : Nat, pages : Nat])
  BY <1>1 DEF TypeOK
<1> SUFFICES ASSUME k < n PROVE FALSE
  BY <1>3, <1>4
<1>6. k \in 1 .. n - 1 /\ k + 1 \in 1 .. n /\ n \in 1 .. Len(owned) /\ k \in 1 .. n
  BY <1>4
<1>7. owned'[k] = owned[k + 1] /\ owned'[k] = owned[k]
  <2>1. \A i \in 1 .. n - 1 : RemoveAt(owned, k)[i] = IF i < k THEN owned[i] ELSE owned[i + 1]
    BY <1>4, <1>5, RemoveAtFacts
  <2>2. \A i \in 1 .. n - 1 : RemoveAt(owned, n)[i] = IF i < n THEN owned[i] ELSE owned[i + 1]
    BY <1>4, <1>5, <1>6, RemoveAtFacts
  <2> QED
    BY <1>4, <1>6, <2>1, <2>2
<1>8. PICK a, b \in 2 .. Len(L) : /\ a < b /\ owned[k].ptr = region[L[a]].start
                                  /\ owned[k + 1].ptr = region[L[b]].start
  <2>1. \A i \in 1 .. n : at[i] \in 2 .. Len(L) /\ owned[i].ptr = region[L[at[i]]].start
    BY <1>2, <1>4 DEF OwnedAt
  <2>2. at[k] < at[k + 1]
    BY <1>2, <1>4, <1>6 DEF OwnedAt
  <2> QED
    BY <1>6, <2>1, <2>2
<1>9. a \in 1 .. Len(L) /\ b \in 1 .. Len(L) /\ a # 1
  OBVIOUS
<1>10. region[L[a]].start < region[L[b]].start
  BY <1>2, <1>8, <1>9 DEF Addresses
<1>11. region[L[a]].start \in Nat
  BY SMTT(30), <1>1, <1>2, <1>9 DEF TypeOK, Path
<1> QED
  BY <1>7, <1>8, <1>10, <1>11

\* What vma_free takes from a caller is no longer mapped at the address the
\* caller had.  The exception is the code's: the first allocation has the
\* address of the empty root region, which goes in its place.
THEOREM FreedAlwaysUnmapped ==
  ASSUME Order = "lifo", Shortage # "any"
  PROVE  Spec => FreedIsUnmapped
<1>1. VmaInv /\ [Next]_vars => [UnmapsFreed]_vars
  <2> SUFFICES ASSUME VmaInv, Next, NEW k \in 1 .. Len(owned),
                      context' = "live", owned' = RemoveAt(owned, k),
                      \A r \in Listed : r = root => region[r].start # owned[k].ptr
               PROVE  mapping'[PageOf(owned[k].ptr)] = NoPage
    BY DEF UnmapsFreed
  <2>1. TypeOK /\ owned \in Seq([ptr : Nat, pages : Nat])
    BY DEF VmaInv, TypeOK
  <2>2. Len(owned') = Len(owned) - 1 /\ Len(owned) \in Nat
    BY <2>1, RemoveAtFacts
  <2>3. context = "live"
    <3>1. owned # <<>>
      BY <2>2
    <3> QED
      BY <3>1 DEF VmaInv
  <2>4. PICK j \in 1 .. Len(owned) : vma_free(j)
    <3>1. ~Create /\ ~Destroy
      BY <2>3 DEF Create, Destroy
    <3>2. ASSUME NEW pages \in Sizes, vma_alloc(pages) PROVE FALSE
      <4>1. PICK o : owned' = owned \/ owned' = Append(owned, o)
        BY <3>2, Zenon DEF vma_alloc
      <4>2. Len(Append(owned, o)) = Len(owned) + 1
        BY <2>1
      <4> QED
        BY <2>2, <4>1, <4>2
    <3> QED
      BY <3>1, <3>2 DEF Next
  <2>5. k = j
    BY <2>3, <2>4, LatestIsGone
  <2>6. PICK L, at : Path(L) /\ Addresses(L) /\ OwnedAt(L, at)
    BY <2>3 DEF VmaInv, Listing
  <2>7. PICK c \in 1 .. Len(L) : /\ Free(L[c]) /\ region[L[c]].start = owned[k].ptr
                                 /\ c = at[k] \/ c = 1
    BY <2>1, <2>4, <2>5, <2>6, WhatIsFreed
  <2>8. L[c] \in Frames /\ c # 1
    <3>1. L[1] \in Listed /\ root = L[1] /\ L[c] \in Frames
      BY <2>6, ListedIsPath DEF Path, ToSet
    <3> QED
      BY <2>7, <3>1
  <2>9. PICK a \in Nat, n \in Nat : a = region[L[c]].start /\ n = region[L[c]].pages
    BY <2>1, <2>8 DEF TypeOK
  <2>10. n # 0 /\ PageOf(a) + n <= MaxPage
    <3>1. IF region[L[c]].pages = 0 THEN c = 1
          ELSE PageOf(region[L[c]].start) + region[L[c]].pages <= MaxPage
      BY <2>6 DEF Addresses
    <3> QED
      BY <2>8, <2>9, <3>1
  <2>11. PICK b \in Nat : b = PageOf(a)
    BY <2>9, PageBehind
  <2>12. b \in 0 .. MaxPage /\ DOMAIN mapping = 0 .. MaxPage
    BY <2>1, <2>10, <2>11, VmaAssumption DEF TypeOK
  <2>13. mapping' = Unmap(Backing(L[c]))
    BY <2>7 DEF Free
  <2>14. mapping[b] # NoPage => b \in ToSet(Backing(L[c]))
    <3>1. 0 \in 0 .. n - 1 /\ b + 0 = b
      BY <2>10
    <3>2. b \in {b + i : i \in 0 .. n - 1}
      BY <3>1
    <3>3. ToSet(Backing(L[c])) = {b + i : i \in 0 .. n - 1}
                                   \cap {p \in DOMAIN mapping : mapping[p] # NoPage}
      BY <2>1, <2>8, <2>9, <2>11, BackingFacts
    <3> QED
      BY <2>12, <3>2, <3>3
  <2>15. mapping'[b] = NoPage
    BY <2>12, <2>13, <2>14 DEF Unmap
  <2> QED
    BY <2>7, <2>9, <2>11, <2>15
<1>2. Spec => []VmaInv
  BY InvHolds
<1>3. Spec => [][UnmapsFreed]_vars
  BY <1>1, <1>2, PTL DEF Spec
<1> QED
  BY <1>3 DEF FreedIsUnmapped, UnmapsFreed
=============================================================================
