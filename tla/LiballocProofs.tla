--------------------------- MODULE LiballocProofs ---------------------------
(***************************************************************************)
(* The heap, for any number of cores, blocks and runs of pages and for     *)
(* requests of any size, over a source that grants runs of pages which are *)
(* not in use (OutOfUse) or refuses: the blocks stay apart, the books stay *)
(* exact, no run is lost and what a core has written stays.                *)
(***************************************************************************)
EXTENDS Liballoc, FiniteSetTheorems, WellFoundedInduction, TLAPS

-----------------------------------------------------------------------------
(* The inductive invariant *)

\* L is the list that starts at an address.
Path(L, start, link) ==
  /\ L \in Seq(DOMAIN link) /\ IsInjective(L)
  /\ start = IF L = << >> THEN NULL ELSE L[1]
  /\ \A k \in 1 .. Len(L) : link[L[k]] = IF k = Len(L) THEN NULL ELSE L[k + 1]

NextRuns == [x \in DOMAIN major |-> major[x].next]
NextBlocks == [x \in DOMAIN minor |-> minor[x].next]

Runs == [prev : Nat, next : Nat, pages : Nat, size : Nat, usage : Nat, first : Nat]
Blocks ==
  [prev : Nat, next : Nat, block : DOMAIN major,
   magic : {LIBALLOC_MAGIC, LIBALLOC_DEAD}, size : Nat, req_size : Nat,
   data : Cores \cup {Junk}]

Typed ==
  /\ IsFiniteSet(DOMAIN major) /\ DOMAIN major \subseteq Nat \ {NULL}
  /\ major \in [DOMAIN major -> Runs]
  /\ IsFiniteSet(DOMAIN minor) /\ DOMAIN minor \subseteq Nat \ {NULL}
  /\ minor \in [DOMAIN minor -> Blocks]
  /\ l_bestBet \in DOMAIN major \cup {NULL}

RunsDisjoint ==
  \A a, b \in DOMAIN major :
    a # b => a + major[a].size <= b \/ b + major[b].size <= a

\* Headers, what is left of them too, lie in their run and do not overlap, and
\* a live block has the room that its pointer may need.
Headers ==
  /\ \A m \in DOMAIN minor :
       /\ minor[m].block + MajorHeader <= m
       /\ m + Need(minor[m].size) <= minor[m].block + major[minor[m].block].size
       /\ Padded(minor[m].req_size) <= minor[m].size
  /\ \A m, n \in DOMAIN minor : m < n => m + MinorHeader <= n

\* The blocks of run a are L: linked both ways, one behind the other.
BlocksOf(a, L) ==
  /\ Path(L, major[a].first, NextBlocks)
  /\ L # << >>
  /\ \A k \in 1 .. Len(L) :
       /\ minor[L[k]].block = a /\ minor[L[k]].magic = LIBALLOC_MAGIC
       /\ minor[L[k]].prev = IF k = 1 THEN NULL ELSE L[k - 1]
  /\ \A j, k \in 1 .. Len(L) : j < k => L[j] + Need(minor[L[j]].size) <= L[k]
  /\ \A m \in Live : minor[m].block = a => \E k \in 1 .. Len(L) : L[k] = m
  /\ major[a].usage = MajorHeader + Taken(L)
  /\ major[a].usage <= major[a].size

\* The runs are R, linked both ways.
RunsAre(R) ==
  /\ Path(R, l_memRoot, NextRuns)
  /\ \A k \in 1 .. Len(R) : major[R[k]].prev = IF k = 1 THEN NULL ELSE R[k - 1]
  /\ \A a \in DOMAIN major : \E k \in 1 .. Len(R) : R[k] = a

HeapInv ==
  /\ Typed
  /\ RunsDisjoint
  /\ Headers
  /\ \A a \in DOMAIN major : \E L : BlocksOf(a, L)
  /\ \E R : RunsAre(R)

\* A pointer to a live block that holds what d has written.
Holds(p, d) == \E m \in Live : PointerTo(m) = p /\ minor[m].data = d

\* What krealloc and kcalloc have got and not yet handed out.
InFlight(c) == IF call[c].at \in {"fill", "free"} THEN {call[c].new} \ {NULL} ELSE {}

\* Where a core is in a call.
CallSound(c) ==
  \/ call[c] = Idle
  \/ call[c] = [at |-> "panic"]
  \/ \E old \in DOMAIN owned \cup {NULL}, size \in Requests :
       /\ call[c] = [at |-> "malloc", old |-> old, size |-> size]
       /\ old # NULL => owned[old] = c
  \/ \E old \in DOMAIN owned \cup {NULL}, new \in Nat :
       /\ call[c] = [at |-> "fill", old |-> old, new |-> new]
       /\ old # NULL => owned[old] = c
       /\ new # NULL => \E d : Holds(new, d)
  \/ \E old \in DOMAIN owned, new \in Nat \ {NULL} :
       /\ call[c] = [at |-> "free", old |-> old, new |-> new]
       /\ owned[old] = c
       /\ Holds(new, c)

CallersInv ==
  /\ \A p \in DOMAIN owned : p # NULL /\ owned[p] \in Cores /\ Holds(p, owned[p])
  /\ call = [c \in Cores |-> call[c]]
  /\ \A c \in Cores : CallSound(c) /\ InFlight(c) \cap DOMAIN owned = {}
  /\ \A c, d \in Cores : c # d => InFlight(c) \cap InFlight(d) = {}

AllocInv == HeapInv /\ CallersInv

-----------------------------------------------------------------------------
(* Natural numbers *)

\* Every set of natural numbers that is not empty has a least member.
LEMMA LeastMember ==
  ASSUME NEW T \in SUBSET Nat, T # {}
  PROVE  \E n \in T : \A m \in T : n <= m
<1>1. PICK b \in T : TRUE
  OBVIOUS
<1> DEFINE S == 0 .. b
           R == StrictSubsetOrdering(S)
           F == {0 .. k : k \in T \cap S}
<1>2. IsFiniteSet(S)
  BY FS_Interval
<1>3. IsWellFoundedOn(R, FiniteSubsetsOf(S))
  BY FS_StrictSubsetOrderingWellFounded
<1>4. F \subseteq FiniteSubsetsOf(S) /\ F # {}
  <2>1. \A k \in T \cap S : 0 .. k \subseteq S /\ IsFiniteSet(0 .. k)
    BY FS_Interval
  <2> QED
    BY <1>1, <2>1 DEF FiniteSubsetsOf
<1>5. PICK x \in F : \A y \in F : ~(<< y, x >> \in R)
  <2> HIDE DEF F, R
  <2> QED
    BY <1>3, <1>4, WFMin
<1>6. PICK n \in T \cap S : x = 0 .. n
  OBVIOUS
<1>7. ASSUME NEW m \in T, m < n
      PROVE  FALSE
  <2>1. m \in T \cap S /\ 0 .. m \in F
    BY <1>6, <1>7
  <2>2. 0 .. m \subseteq 0 .. n /\ 0 .. m # 0 .. n /\ 0 .. m \subseteq S /\ 0 .. n \subseteq S
    BY <1>6, <1>7
  <2>3. << 0 .. m, 0 .. n >> \in R
    BY <2>2 DEF StrictSubsetOrdering
  <2> QED
    BY <1>5, <1>6, <2>1, <2>3
<1> QED
  BY <1>6, <1>7

\* Induction, for a set in place of a property.
LEMMA Induction ==
  ASSUME NEW S, 0 \in S, \A n \in Nat : n \in S => n + 1 \in S
  PROVE  Nat \subseteq S
<1> DEFINE T == Nat \ S
<1> SUFFICES ASSUME T # {} PROVE FALSE
  OBVIOUS
<1>1. PICK n \in T : \A m \in T : n <= m
  BY LeastMember
<1>2. n # 0 /\ n - 1 \in Nat
  BY <1>1
<1>3. n - 1 \in S
  BY <1>1, <1>2
<1> QED
  BY <1>1, <1>2, <1>3
-----------------------------------------------------------------------------
(* Lists *)

LEMMA Constants ==
  /\ PageSize \in Nat /\ PageSize > 0 /\ PageCount \in Nat
  /\ MajorHeader \in Nat /\ MajorHeader > 0
  /\ MinorHeader \in Nat /\ MinorHeader > 0
  /\ ALIGNMENT \in Nat /\ ALIGNMENT > 0 /\ ALIGN_INFO \in Nat
  /\ MinorHeader >= ALIGNMENT
  /\ \A r \in Requests : r \in Nat /\ r > 0
  /\ \A a \in Bases : a \in Nat /\ a # NULL
BY LiballocAssumption DEF NULL

LEMMA IntervalSize ==
  ASSUME NEW n \in Nat
  PROVE  IsFiniteSet(1 .. n) /\ Cardinality(1 .. n) = n
BY FS_Interval

\* Different members of a finite set are no more than it has.
LEMMA PathLength ==
  ASSUME NEW L, NEW start, NEW link, Path(L, start, link), IsFiniteSet(DOMAIN link)
  PROVE  /\ Cardinality(DOMAIN link) \in Nat
         /\ Len(L) \in Nat /\ Len(L) <= Cardinality(DOMAIN link)
<1>1. Cardinality(DOMAIN link) \in Nat
  BY FS_CardinalityType
<1>2. L \in Seq(DOMAIN link) /\ IsInjective(L)
  BY DEF Path
<1>3. Len(L) \in Nat
  BY <1>2
<1>4. IsFiniteSet(1 .. Len(L)) /\ Cardinality(1 .. Len(L)) = Len(L)
  BY <1>3, IntervalSize
<1>5. L \in Injection(1 .. Len(L), DOMAIN link)
  BY <1>2 DEF Injection, IsInjective
<1>6. Cardinality(1 .. Len(L)) <= Cardinality(DOMAIN link)
  BY <1>4, <1>5, FS_Injection
<1> QED
  BY <1>1, <1>3, <1>4, <1>6

\* What the definition in Walk says, of any function.
Walks(f, start, link) ==
  f = [k \in 1 .. Cardinality(DOMAIN link) + 1 |->
         IF k = 1 THEN start
         ELSE IF f[k - 1] \in DOMAIN link THEN link[f[k - 1]] ELSE NULL]

\* Walk finds the path that there is.
LEMMA WalkOfPath ==
  ASSUME NEW link, IsFiniteSet(DOMAIN link), NULL \notin DOMAIN link,
         NEW start, NEW L, Path(L, start, link)
  PROVE  Walk(start, link) = L
<1> DEFINE N == Cardinality(DOMAIN link)
           f == [k \in 1 .. N + 1 |-> IF k <= Len(L) THEN L[k] ELSE NULL]
           nth == CHOOSE g : Walks(g, start, link)
<1>1. N \in Nat /\ Len(L) \in Nat /\ Len(L) <= N
  BY PathLength
<1>2. /\ \A k \in 1 .. Len(L) : L[k] \in DOMAIN link /\ L[k] # NULL
      /\ \A k \in 1 .. Len(L) : link[L[k]] = IF k = Len(L) THEN NULL ELSE L[k + 1]
      /\ start = IF Len(L) = 0 THEN NULL ELSE L[1]
      /\ L = [k \in 1 .. Len(L) |-> L[k]]
  BY DEF Path
<1> HIDE DEF N
<1>3. \A k \in 1 .. N + 1 :
        f[k] = IF k = 1 THEN start
               ELSE IF f[k - 1] \in DOMAIN link THEN link[f[k - 1]] ELSE NULL
  <2>1. TAKE k \in 1 .. N + 1
  <2>2. CASE k = 1
    BY <1>1, <1>2, <2>2
  <2>3. CASE k # 1 /\ k - 1 <= Len(L)
    <3>1. k - 1 \in 1 .. N + 1 /\ k - 1 \in 1 .. Len(L) /\ (k - 1) + 1 = k
      BY <1>1, <2>3
    <3>2. f[k - 1] = L[k - 1] /\ L[k - 1] \in DOMAIN link
      BY <1>2, <2>3, <3>1
    <3>3. link[L[k - 1]] = f[k]
      BY <1>1, <1>2, <2>3, <3>1
    <3> HIDE DEF f
    <3> QED
      BY <2>3, <3>2, <3>3
  <2>4. CASE k # 1 /\ k - 1 > Len(L)
    <3>1. k - 1 \in 1 .. N + 1 /\ f[k - 1] = NULL /\ f[k] = NULL
      BY <1>1, <2>4
    <3> HIDE DEF f
    <3> QED
      BY <2>4, <3>1
  <2> QED
    BY <1>1, <2>2, <2>3, <2>4
<1>4. Walks(f, start, link)
  BY <1>3 DEF Walks, N
<1>5. Walks(nth, start, link)
  <2> HIDE DEF f
  <2> QED
    BY <1>4
<1>6. Walk(start, link) = [k \in {k \in DOMAIN nth : nth[k] # NULL} |-> nth[k]]
  BY DEF Walk, Walks
<1> HIDE DEF nth
<1>7. /\ DOMAIN nth = 1 .. N + 1
      /\ \A k \in 1 .. N + 1 :
           nth[k] = IF k = 1 THEN start
                    ELSE IF nth[k - 1] \in DOMAIN link THEN link[nth[k - 1]] ELSE NULL
  <2>1. nth = [k \in 1 .. N + 1 |->
                 IF k = 1 THEN start
                 ELSE IF nth[k - 1] \in DOMAIN link THEN link[nth[k - 1]] ELSE NULL]
    BY <1>5 DEF Walks, N
  <2>2. DOMAIN nth = 1 .. N + 1
    BY <2>1, Zenon
  <2> QED
    BY <2>1, <2>2, Zenon
<1> DEFINE S == {k \in Nat : k + 1 <= N + 1 => nth[k + 1] = f[k + 1]}
<1>8. 0 \in S
  <2>1. 1 \in 1 .. N + 1
    BY <1>1
  <2>2. nth[1] = f[1]
    <3> HIDE DEF f
    <3> QED
      BY <1>3, <1>7, <2>1
  <2> QED
    BY <2>2
<1>9. ASSUME NEW n \in Nat, n \in S
      PROVE  n + 1 \in S
  <2> SUFFICES ASSUME n + 2 <= N + 1 PROVE nth[n + 2] = f[n + 2]
    BY <1>1
  <2>1. n + 2 \in 1 .. N + 1 /\ n + 2 # 1 /\ (n + 2) - 1 = n + 1
    BY <1>1
  <2>2. nth[n + 1] = f[n + 1]
    BY <1>1, <1>9
  <2> HIDE DEF f
  <2>3. nth[n + 2] = IF nth[n + 1] \in DOMAIN link THEN link[nth[n + 1]] ELSE NULL
    BY <1>7, <2>1
  <2>4. f[n + 2] = IF f[n + 1] \in DOMAIN link THEN link[f[n + 1]] ELSE NULL
    BY <1>3, <2>1
  <2> QED
    BY <2>2, <2>3, <2>4
<1>10. Nat \subseteq S
  <2> HIDE DEF S
  <2> QED
    BY <1>8, <1>9, Induction
<1>11. \A k \in 1 .. N + 1 : nth[k] = IF k <= Len(L) THEN L[k] ELSE NULL
  <2>1. TAKE k \in 1 .. N + 1
  <2>2. k - 1 \in Nat /\ (k - 1) + 1 = k
    BY <1>1
  <2>3. nth[k] = f[k]
    <3> HIDE DEF f
    <3> QED
      BY <1>1, <1>10, <2>2
  <2> QED
    BY <2>3
<1>12. {k \in DOMAIN nth : nth[k] # NULL} = 1 .. Len(L)
  BY <1>1, <1>2, <1>7, <1>11
<1>13. [k \in 1 .. Len(L) |-> nth[k]] = [k \in 1 .. Len(L) |-> L[k]]
  BY <1>1, <1>11
<1> QED
  BY <1>2, <1>6, <1>12, <1>13

\* Part of a path is the path from there.
LEMMA PathFrom ==
  ASSUME NEW link, NEW start, NEW L, Path(L, start, link), NEW j \in 1 .. Len(L)
  PROVE  Path(SubSeq(L, j, Len(L)), L[j], link)
<1> DEFINE T == SubSeq(L, j, Len(L))
           n == Len(L) - j + 1
<1>1. /\ L \in Seq(DOMAIN link) /\ IsInjective(L) /\ Len(L) \in Nat
      /\ \A k \in 1 .. Len(L) : L[k] \in DOMAIN link
      /\ \A k \in 1 .. Len(L) : link[L[k]] = IF k = Len(L) THEN NULL ELSE L[k + 1]
  BY DEF Path
<1>2. n \in Nat /\ n >= 1
  BY <1>1
<1>3. T \in Seq(DOMAIN link) /\ Len(T) = n /\ \A k \in 1 .. n : T[k] = L[k + j - 1]
  BY <1>1
<1> HIDE DEF T
<1>4. \A k \in 1 .. n : k + j - 1 \in 1 .. Len(L)
  BY <1>1
<1>5. IsInjective(T)
  <2>1. \A k, m \in 1 .. Len(L) : L[k] = L[m] => k = m
    BY <1>1 DEF IsInjective
  <2>2. DOMAIN T = 1 .. n
    BY <1>3
  <2>3. ASSUME NEW k \in 1 .. n, NEW m \in 1 .. n, T[k] = T[m] PROVE k = m
    <3>1. k + j - 1 = m + j - 1
      BY <1>3, <1>4, <2>1, <2>3
    <3> QED
      BY <3>1
  <2> QED
    BY <2>2, <2>3 DEF IsInjective
<1>6. ASSUME NEW k \in 1 .. n
      PROVE  link[T[k]] = IF k = n THEN NULL ELSE T[k + 1]
  <2>1. T[k] = L[k + j - 1] /\ k + j - 1 \in 1 .. Len(L)
    BY <1>3, <1>4
  <2>2. CASE k = n
    <3>1. k + j - 1 = Len(L)
      BY <1>1, <2>2
    <3> QED
      BY <1>1, <2>1, <2>2, <3>1
  <2>3. CASE k # n
    <3>1. k + j - 1 # Len(L) /\ k + 1 \in 1 .. n /\ (k + j - 1) + 1 = (k + 1) + j - 1
      <4>1. Len(L) \in Nat
        BY <1>1
      <4> QED
        BY <2>3, <4>1
    <3>2. T[k + 1] = L[(k + 1) + j - 1]
      BY <1>3, <3>1
    <3> QED
      BY <1>1, <2>1, <2>3, <3>1, <3>2
  <2> QED
    BY <2>2, <2>3
<1>7. T # << >> /\ T[1] = L[j]
  <2>1. 1 \in 1 .. n /\ 1 + j - 1 = j
    BY <1>2
  <2> QED
    BY <1>2, <1>3, <2>1
<1> QED
  BY <1>3, <1>5, <1>6, <1>7 DEF Path, T
-----------------------------------------------------------------------------
(* Sums *)

\* What the definition in Total says, of any function and of m numbers.
Sums(f, s, m) == f = [k \in 0 .. m |-> IF k = 0 THEN 0 ELSE f[k - 1] + s[k]]

LEMMA SumsExist ==
  ASSUME NEW s, NEW m \in Nat
  PROVE  \E f : Sums(f, s, m)
<1> DEFINE T == {n \in Nat : \E f : Sums(f, s, n)}
<1>1. 0 \in T
  <2>1. Sums([k \in 0 .. 0 |-> 0], s, 0)
    BY DEF Sums
  <2> QED
    BY <2>1
<1>2. ASSUME NEW n \in Nat, n \in T
      PROVE  n + 1 \in T
  <2>1. PICK f : Sums(f, s, n)
    BY <1>2
  <2> DEFINE g == [k \in 0 .. n + 1 |-> IF k <= n THEN f[k] ELSE f[n] + s[n + 1]]
  <2>2. \A k \in 0 .. n : f[k] = IF k = 0 THEN 0 ELSE f[k - 1] + s[k]
    BY <2>1 DEF Sums
  <2>3. /\ \A k \in 0 .. n : g[k] = f[k]
        /\ g[n + 1] = f[n] + s[n + 1]
        /\ g = [k \in 0 .. n + 1 |-> g[k]]
    OBVIOUS
  <2> HIDE DEF g
  <2>4. ASSUME NEW k \in 0 .. n + 1
        PROVE  g[k] = IF k = 0 THEN 0 ELSE g[k - 1] + s[k]
    <3>1. CASE k <= n
      <4>1. k \in 0 .. n /\ (k # 0 => k - 1 \in 0 .. n)
        BY <3>1
      <4> QED
        BY <2>2, <2>3, <4>1
    <3>2. CASE k = n + 1
      <4>1. k - 1 = n /\ n \in 0 .. n /\ k # 0
        BY <3>2
      <4> QED
        BY <2>3, <3>2, <4>1
    <3> QED
      BY <3>1, <3>2
  <2>5. Sums(g, s, n + 1)
    BY <2>3, <2>4 DEF Sums
  <2> QED
    BY <2>5
<1>3. Nat \subseteq T
  <2> HIDE DEF T
  <2> QED
    BY <1>1, <1>2, Induction
<1> QED
  BY <1>3

\* The sums of the beginnings of a sequence.
LEMMA TotalBySums ==
  ASSUME NEW s \in Seq(Nat)
  PROVE  \E f : /\ f[0] = 0
                /\ \A k \in 1 .. Len(s) : f[k] = f[k - 1] + s[k]
                /\ \A k \in 0 .. Len(s) : f[k] \in Nat
                /\ Total(s) = f[Len(s)]
<1> DEFINE sum == CHOOSE f : Sums(f, s, Len(s))
<1>1. Len(s) \in Nat /\ \A k \in 1 .. Len(s) : s[k] \in Nat
  OBVIOUS
<1>2. Sums(sum, s, Len(s))
  BY <1>1, SumsExist
<1>3. Total(s) = sum[Len(s)]
  BY DEF Total, Sums
<1> HIDE DEF sum
<1>4. \A k \in 0 .. Len(s) : sum[k] = IF k = 0 THEN 0 ELSE sum[k - 1] + s[k]
  BY <1>2 DEF Sums
<1>5. sum[0] = 0
  BY <1>1, <1>4
<1>6. \A k \in 1 .. Len(s) : sum[k] = sum[k - 1] + s[k]
  BY <1>1, <1>4
<1> DEFINE S == {k \in Nat : k <= Len(s) => sum[k] \in Nat}
<1>7. 0 \in S
  BY <1>5
<1>8. ASSUME NEW n \in Nat, n \in S
      PROVE  n + 1 \in S
  <2> SUFFICES ASSUME n + 1 <= Len(s) PROVE sum[n + 1] \in Nat
    OBVIOUS
  <2>1. n + 1 \in 1 .. Len(s) /\ (n + 1) - 1 = n /\ sum[n] \in Nat
    BY <1>1, <1>8
  <2>2. sum[n + 1] = sum[n] + s[n + 1] /\ s[n + 1] \in Nat
    BY <1>1, <1>6, <2>1
  <2> QED
    BY <2>1, <2>2
<1>9. Nat \subseteq S
  <2> HIDE DEF S
  <2> QED
    BY <1>7, <1>8, Induction
<1>10. \A k \in 0 .. Len(s) : sum[k] \in Nat
  BY <1>1, <1>9
<1> QED
  BY <1>3, <1>5, <1>6, <1>10

LEMMA TotalNat == ASSUME NEW s \in Seq(Nat) PROVE Total(s) \in Nat
<1>1. Len(s) \in 0 .. Len(s)
  <2>1. Len(s) \in Nat
    OBVIOUS
  <2> QED
    BY <2>1
<1> QED
  BY <1>1, TotalBySums

\* t is s with x behind its first p numbers.
Inserted(s, t, p, x) ==
  /\ s \in Seq(Nat) /\ t \in Seq(Nat) /\ p \in 0 .. Len(s) /\ x \in Nat
  /\ Len(t) = Len(s) + 1
  /\ \A k \in 1 .. p : t[k] = s[k]
  /\ t[p + 1] = x
  /\ \A k \in p + 1 .. Len(s) : t[k + 1] = s[k]

LEMMA TotalOfInserted ==
  ASSUME NEW s, NEW t, NEW p, NEW x, Inserted(s, t, p, x)
  PROVE  Total(t) = Total(s) + x
<1>1. /\ s \in Seq(Nat) /\ t \in Seq(Nat) /\ Len(s) \in Nat
      /\ Len(t) = Len(s) + 1 /\ p \in Nat /\ p <= Len(s) /\ x \in Nat
  BY DEF Inserted
<1>2. PICK f : /\ f[0] = 0
               /\ \A k \in 1 .. Len(s) : f[k] = f[k - 1] + s[k]
               /\ \A k \in 0 .. Len(s) : f[k] \in Nat
               /\ Total(s) = f[Len(s)]
  BY <1>1, TotalBySums
<1>3. PICK g : /\ g[0] = 0
               /\ \A k \in 1 .. Len(t) : g[k] = g[k - 1] + t[k]
               /\ \A k \in 0 .. Len(t) : g[k] \in Nat
               /\ Total(t) = g[Len(t)]
  BY <1>1, TotalBySums
<1> DEFINE S == {k \in Nat : /\ k <= p => g[k] = f[k]
                             /\ p <= k /\ k <= Len(s) => g[k + 1] = f[k] + x}
<1>4. \A k \in Nat : k <= Len(s) => f[k] \in Nat
  BY <1>1, <1>2
<1>5. \A k \in Nat : k + 1 <= Len(s) => f[k + 1] = f[k] + s[k + 1]
  <2>1. TAKE k \in Nat
  <2>2. HAVE k + 1 <= Len(s)
  <2>3. k + 1 \in 1 .. Len(s) /\ (k + 1) - 1 = k
    BY <1>1, <2>2
  <2> QED
    BY <1>2, <2>3
<1>6. \A k \in Nat : k + 1 <= Len(s) + 1 => g[k + 1] = g[k] + t[k + 1]
  <2>1. TAKE k \in Nat
  <2>2. HAVE k + 1 <= Len(s) + 1
  <2>3. k + 1 \in 1 .. Len(t) /\ (k + 1) - 1 = k
    BY <1>1, <2>2
  <2> QED
    BY <1>3, <2>3
<1>7. /\ \A k \in Nat : k + 1 <= p => t[k + 1] = s[k + 1]
      /\ t[p + 1] = x
      /\ \A k \in Nat : p <= k /\ k + 1 <= Len(s) => t[k + 2] = s[k + 1]
  <2>1. ASSUME NEW k \in Nat, k + 1 <= p PROVE t[k + 1] = s[k + 1]
    <3>1. k + 1 \in 1 .. p
      BY <1>1, <2>1
    <3> QED
      BY <3>1 DEF Inserted
  <2>2. ASSUME NEW k \in Nat, p <= k, k + 1 <= Len(s) PROVE t[k + 2] = s[k + 1]
    <3>1. k + 1 \in p + 1 .. Len(s) /\ (k + 1) + 1 = k + 2
      BY <1>1, <2>2
    <3> QED
      BY <3>1 DEF Inserted
  <2> QED
    BY <2>1, <2>2 DEF Inserted
<1>8. g[p] = f[p] => g[p + 1] = f[p] + x
  BY <1>1, <1>6, <1>7
<1>9. 0 \in S
  <2>1. p = 0 => g[0 + 1] = f[0] + x
    BY <1>2, <1>3, <1>8
  <2> QED
    BY <1>1, <1>2, <1>3, <2>1
<1>10. ASSUME NEW n \in Nat, n \in S
       PROVE  n + 1 \in S
  <2>1. CASE n + 1 <= p
    <3>1. g[n + 1] = f[n + 1]
      BY <1>1, <1>5, <1>6, <1>7, <1>10, <2>1
    <3>2. p <= n + 1 => g[(n + 1) + 1] = f[n + 1] + x
      BY <1>1, <1>8, <2>1, <3>1
    <3> QED
      BY <3>1, <3>2
  <2>2. CASE p <= n
    <3>1. SUFFICES ASSUME n + 1 <= Len(s) PROVE g[n + 2] = f[n + 1] + x
      BY <1>1, <2>2
    <3>2. g[n + 1] = f[n] + x
      BY <1>10, <2>2, <3>1
    <3>3. g[n + 2] = g[n + 1] + t[n + 2]
      <4>1. n + 1 \in Nat /\ (n + 1) + 1 = n + 2 /\ (n + 1) + 1 <= Len(s) + 1
        BY <1>1, <3>1
      <4> QED
        BY <1>6, <4>1
    <3>4. t[n + 2] = s[n + 1] /\ f[n + 1] = f[n] + s[n + 1]
      BY <1>5, <1>7, <2>2, <3>1
    <3>5. f[n] \in Nat /\ s[n + 1] \in Nat
      <4>1. n <= Len(s) /\ n + 1 \in 1 .. Len(s)
        BY <1>1, <3>1
      <4> QED
        BY <1>1, <1>4, <4>1
    <3> QED
      BY <1>1, <3>2, <3>3, <3>4, <3>5
  <2> QED
    BY <1>1, <2>1, <2>2
<1>11. Nat \subseteq S
  <2> HIDE DEF S
  <2> QED
    BY <1>9, <1>10, Induction
<1>12. g[Len(s) + 1] = f[Len(s)] + x
  BY <1>1, <1>11
<1> QED
  BY <1>1, <1>2, <1>3, <1>12

\* The total of one number.
LEMMA TotalOfOne == ASSUME NEW x \in Nat PROVE Total([k \in 1 .. 1 |-> x]) = x
<1> DEFINE s == [k \in 1 .. 1 |-> x]
<1>1. s \in Seq(Nat) /\ Len(s) = 1 /\ s[1] = x
  OBVIOUS
<1> HIDE DEF s
<1>2. PICK f : /\ f[0] = 0
               /\ \A k \in 1 .. Len(s) : f[k] = f[k - 1] + s[k]
               /\ Total(s) = f[Len(s)]
  BY <1>1, TotalBySums
<1>3. f[1] = f[1 - 1] + s[1] /\ 1 - 1 = 0
  BY <1>1, <1>2
<1> QED
  BY <1>1, <1>2, <1>3 DEF s

-----------------------------------------------------------------------------
(* The best bet *)

\* What the definition in BestBet says, of any function and of m runs.
Bets(f, looked, spare, m) ==
  f = [k \in 0 .. m |->
         IF k = 0 THEN l_bestBet ELSE Better(spare, f[k - 1], looked[k])]

LEMMA BetsExist ==
  ASSUME NEW looked, NEW spare, NEW m \in Nat
  PROVE  \E f : Bets(f, looked, spare, m)
<1> DEFINE T == {n \in Nat : \E f : Bets(f, looked, spare, n)}
<1>1. 0 \in T
  <2>1. Bets([k \in 0 .. 0 |-> l_bestBet], looked, spare, 0)
    BY DEF Bets
  <2> QED
    BY <2>1
<1>2. ASSUME NEW n \in Nat, n \in T
      PROVE  n + 1 \in T
  <2>1. PICK f : Bets(f, looked, spare, n)
    BY <1>2
  <2> DEFINE g == [k \in 0 .. n + 1 |->
                     IF k <= n THEN f[k] ELSE Better(spare, f[n], looked[n + 1])]
  <2>2. \A k \in 0 .. n :
          f[k] = IF k = 0 THEN l_bestBet ELSE Better(spare, f[k - 1], looked[k])
    BY <2>1 DEF Bets
  <2>3. /\ \A k \in 0 .. n : g[k] = f[k]
        /\ g[n + 1] = Better(spare, f[n], looked[n + 1])
        /\ g = [k \in 0 .. n + 1 |-> g[k]]
    OBVIOUS
  <2> HIDE DEF g
  <2>4. ASSUME NEW k \in 0 .. n + 1
        PROVE  g[k] = IF k = 0 THEN l_bestBet ELSE Better(spare, g[k - 1], looked[k])
    <3>1. CASE k <= n
      <4>1. k \in 0 .. n /\ (k # 0 => k - 1 \in 0 .. n)
        BY <3>1
      <4> QED
        BY <2>2, <2>3, <4>1
    <3>2. CASE k = n + 1
      <4>1. k - 1 = n /\ n \in 0 .. n /\ k # 0
        BY <3>2
      <4> QED
        BY <2>3, <3>2, <4>1
    <3> QED
      BY <3>1, <3>2
  <2>5. Bets(g, looked, spare, n + 1)
    BY <2>3, <2>4 DEF Bets
  <2> QED
    BY <2>5
<1>3. Nat \subseteq T
  <2> HIDE DEF T
  <2> QED
    BY <1>1, <1>2, Induction
<1> QED
  BY <1>3

\* The best bet is the one there was or one of the runs looked at.
LEMMA BetIsLooked ==
  ASSUME NEW A, l_bestBet \in A, NEW looked \in Seq(A), NEW spare
  PROVE  BestBet(looked, spare) \in A
<1> DEFINE bet == CHOOSE f : Bets(f, looked, spare, Len(looked))
<1>1. Len(looked) \in Nat /\ \A k \in 1 .. Len(looked) : looked[k] \in A
  OBVIOUS
<1>2. Bets(bet, looked, spare, Len(looked))
  BY <1>1, BetsExist
<1>3. BestBet(looked, spare) = bet[Len(looked)]
  BY DEF BestBet, Bets
<1> HIDE DEF bet
<1>4. \A k \in 0 .. Len(looked) :
        bet[k] = IF k = 0 THEN l_bestBet ELSE Better(spare, bet[k - 1], looked[k])
  BY <1>2 DEF Bets
<1> DEFINE S == {k \in Nat : k <= Len(looked) => bet[k] \in A}
<1>5. 0 \in S
  BY <1>1, <1>4
<1>6. ASSUME NEW n \in Nat, n \in S
      PROVE  n + 1 \in S
  <2> SUFFICES ASSUME n + 1 <= Len(looked) PROVE bet[n + 1] \in A
    OBVIOUS
  <2>1. /\ n + 1 \in 0 .. Len(looked) /\ n + 1 \in 1 .. Len(looked)
        /\ n + 1 # 0 /\ (n + 1) - 1 = n
    BY <1>1
  <2>2. bet[n] \in A /\ looked[n + 1] \in A
    BY <1>1, <1>6, <2>1
  <2>3. bet[n + 1] = Better(spare, bet[n], looked[n + 1])
    BY <1>4, <2>1
  <2> QED
    BY <2>2, <2>3 DEF Better
<1>7. Nat \subseteq S
  <2> HIDE DEF S
  <2> QED
    BY <1>5, <1>6, Induction
<1> QED
  BY <1>1, <1>3, <1>7
-----------------------------------------------------------------------------
(* Addresses *)

LEMMA DivisionBy ==
  ASSUME NEW d \in Nat, d > 0, NEW a \in Nat
  PROVE  /\ a \div d \in Nat /\ a % d \in Nat /\ a % d < d
         /\ a = d * (a \div d) + (a % d)
OBVIOUS

LEMMA RemainderOf ==
  ASSUME NEW d \in Nat, d > 0, NEW q \in Nat, NEW r \in Nat, r < d
  PROVE  (d * q + r) % d = r
OBVIOUS

\* ALIGN moves a pointer up to the next multiple, by less than ALIGNMENT.
LEMMA PointerBehind ==
  ASSUME NEW m \in Nat
  PROVE  /\ PointerTo(m) \in Nat /\ PointerTo(m) % ALIGNMENT = 0
         /\ m + MinorHeader + ALIGN_INFO <= PointerTo(m)
         /\ PointerTo(m) < m + MinorHeader + ALIGN_INFO + ALIGNMENT
<1> DEFINE A == ALIGNMENT
           p == m + MinorHeader + ALIGN_INFO
           q == p \div A
           r == p % A
<1>1. A \in Nat /\ A > 0 /\ p \in Nat
  BY Constants
<1>2. PointerTo(m) = p + ((A - r) % A)
  BY DEF PointerTo
<1> HIDE DEF A, p
<1>3. q \in Nat /\ r \in Nat /\ r < A /\ p = A * q + r
  BY <1>1, DivisionBy
<1> HIDE DEF q, r
<1>4. CASE r = 0
  <2>1. A * 1 + 0 = A /\ (A * 1 + 0) % A = 0
    BY <1>1, RemainderOf
  <2>2. PointerTo(m) = p /\ p = A * q + 0
    BY <1>1, <1>2, <1>3, <1>4, <2>1
  <2>3. p % A = 0
    BY <1>1, <1>3, <2>2, RemainderOf
  <2> QED
    BY <1>1, <2>2, <2>3 DEF A, p
<1>5. CASE r # 0
  <2>1. A - r \in Nat /\ A - r < A /\ A * 0 + (A - r) = A - r
    BY <1>1, <1>3, <1>5
  <2>2. (A - r) % A = A - r
    <3>1. (A * 0 + (A - r)) % A = A - r
      BY <1>1, <2>1, RemainderOf
    <3> QED
      BY <2>1, <3>1
  <2>3. PointerTo(m) = p + (A - r) /\ p + (A - r) = A * (q + 1) + 0 /\ q + 1 \in Nat
    BY <1>1, <1>2, <1>3, <2>2
  <2>4. PointerTo(m) % A = 0
    <3>1. (A * (q + 1) + 0) % A = 0
      BY <1>1, <2>3, RemainderOf
    <3> QED
      BY <2>3, <3>1
  <2> QED
    BY <1>1, <1>3, <1>5, <2>3, <2>4 DEF A, p
<1> QED
  BY <1>4, <1>5

\* The run is not shorter than what is put into it.
LEMMA RunLongEnough ==
  ASSUME NEW size \in Nat
  PROVE  /\ PagesFor(size) \in Nat
         /\ PagesFor(size) * PageSize \in Nat
         /\ MajorHeader + Need(size) <= PagesFor(size) * PageSize
<1> DEFINE x == size + MajorHeader + MinorHeader
           b == x + PageSize - 1
           st == b \div PageSize
           rest == b % PageSize
<1>1. PageSize \in Nat /\ PageSize > 0 /\ PageCount \in Nat /\ x \in Nat /\ b \in Nat
  BY Constants
<1>2. st \in Nat /\ rest \in Nat /\ rest < PageSize /\ b = PageSize * st + rest
  BY <1>1, DivisionBy
<1>3. PagesFor(size) = IF st < PageCount THEN PageCount ELSE st
  BY DEF PagesFor
<1>4. x = MajorHeader + Need(size) /\ b = x + PageSize - 1
  BY Constants DEF Need
<1> HIDE DEF x, b, st, rest
<1>5. x <= st * PageSize
  BY <1>1, <1>2, <1>4
<1>6. PagesFor(size) \in Nat /\ PagesFor(size) >= st
  BY <1>1, <1>2, <1>3
<1>7. PICK d \in Nat : PagesFor(size) = st + d
  BY <1>2, <1>6, PagesFor(size) - st \in Nat, PagesFor(size) = st + (PagesFor(size) - st)
<1>8. PagesFor(size) * PageSize = st * PageSize + d * PageSize
  BY <1>1, <1>2, <1>7
<1>9. st * PageSize \in Nat /\ d * PageSize \in Nat
  BY <1>1, <1>2, <1>7
<1> QED
  BY <1>1, <1>4, <1>5, <1>6, <1>8, <1>9

LEMMA SizeOfRequest ==
  ASSUME NEW req \in Requests
  PROVE  req \in Nat /\ Padded(req) \in Nat /\ Need(Padded(req)) \in Nat
         /\ Need(Padded(req)) >= MinorHeader
BY Constants DEF Padded, Need

-----------------------------------------------------------------------------
(* What the invariant says of pointers and lists *)

LEMMA PointersDiffer ==
  ASSUME Typed, Headers, NEW m \in DOMAIN minor, NEW n \in DOMAIN minor,
         PointerTo(m) = PointerTo(n)
  PROVE  m = n
<1>1. m \in Nat /\ n \in Nat
  BY DEF Typed
<1>2. /\ m + MinorHeader + ALIGN_INFO <= PointerTo(m)
      /\ PointerTo(m) < m + MinorHeader + ALIGN_INFO + ALIGNMENT
      /\ n + MinorHeader + ALIGN_INFO <= PointerTo(n)
      /\ PointerTo(n) < n + MinorHeader + ALIGN_INFO + ALIGNMENT
      /\ PointerTo(m) \in Nat
  BY <1>1, PointerBehind
<1>3. (m < n => m + MinorHeader <= n) /\ (n < m => n + MinorHeader <= m)
  BY DEF Headers
<1> QED
  BY <1>1, <1>2, <1>3, Constants

LEMMA MinorAtPointer ==
  ASSUME Typed, Headers, NEW m \in DOMAIN minor
  PROVE  MinorAt(PointerTo(m)) = m
BY PointersDiffer DEF MinorAt

LEMMA MinorFields ==
  ASSUME Typed, NEW m \in DOMAIN minor
  PROVE  /\ m \in Nat /\ m # NULL /\ minor[m] \in Blocks
         /\ minor[m].prev \in Nat /\ minor[m].next \in Nat
         /\ minor[m].block \in DOMAIN major
         /\ minor[m].size \in Nat /\ minor[m].req_size \in Nat
         /\ Need(minor[m].size) \in Nat /\ Need(minor[m].size) >= MinorHeader
         /\ minor[m].magic \in {LIBALLOC_MAGIC, LIBALLOC_DEAD}
         /\ minor[m].data \in Cores \cup {Junk}
<1>1. m \in Nat /\ m # NULL /\ minor[m] \in Blocks
  BY DEF Typed
<1>2. minor[m].size \in Nat
  BY <1>1 DEF Blocks
<1> QED
  BY <1>1, <1>2, Constants DEF Blocks, Need

LEMMA MajorFields ==
  ASSUME Typed, NEW a \in DOMAIN major
  PROVE  /\ a \in Nat /\ a # NULL /\ major[a] \in Runs
         /\ major[a].prev \in Nat /\ major[a].next \in Nat
         /\ major[a].pages \in Nat /\ major[a].size \in Nat
         /\ major[a].usage \in Nat /\ major[a].first \in Nat
<1>1. a \in Nat /\ a # NULL /\ major[a] \in Runs
  BY DEF Typed
<1> QED
  BY <1>1 DEF Runs

\* The lists that the code walks are the ones the invariant speaks of.
LEMMA BlocksWalked ==
  ASSUME Typed, NEW a, NEW L, BlocksOf(a, L)
  PROVE  MinorsOf(a) = L
<1>1. DOMAIN NextBlocks = DOMAIN minor /\ NextBlocks = [x \in DOMAIN minor |-> minor[x].next]
  BY DEF NextBlocks
<1>2. Path(L, major[a].first, NextBlocks)
  BY DEF BlocksOf
<1>3. Walk(major[a].first, NextBlocks) = L
  BY <1>1, <1>2, WalkOfPath DEF Typed
<1> QED
  BY <1>1, <1>3 DEF MinorsOf

LEMMA RunsWalked ==
  ASSUME Typed, NEW R, RunsAre(R)
  PROVE  /\ MajorsFrom(l_memRoot) = R
         /\ \A j \in 1 .. Len(R) : MajorsFrom(R[j]) = SubSeq(R, j, Len(R))
<1>1. DOMAIN NextRuns = DOMAIN major /\ NextRuns = [x \in DOMAIN major |-> major[x].next]
  BY DEF NextRuns
<1>2. Path(R, l_memRoot, NextRuns)
  BY DEF RunsAre
<1>3. Walk(l_memRoot, NextRuns) = R
  BY <1>1, <1>2, WalkOfPath DEF Typed
<1>4. ASSUME NEW j \in 1 .. Len(R)
      PROVE  Walk(R[j], NextRuns) = SubSeq(R, j, Len(R))
  <2>1. Path(SubSeq(R, j, Len(R)), R[j], NextRuns)
    BY <1>2, PathFrom
  <2> QED
    BY <1>1, <2>1, WalkOfPath DEF Typed
<1> QED
  BY <1>1, <1>3, <1>4 DEF MajorsFrom

-----------------------------------------------------------------------------
(* Where malloc looks *)

LEMMA MinIsMember ==
  ASSUME NEW S \in SUBSET Nat, S # {}
  PROVE  Min(S) \in S
BY LeastMember DEF Min

LEMMA SearchedRuns ==
  ASSUME Typed, NEW R, RunsAre(R), NEW size
  PROVE  /\ Searched(size) \in Seq(DOMAIN major)
         /\ R = << >> => Searched(size) = << >>
         /\ R # << >> => /\ Searched(size) # << >>
                         /\ Last(Searched(size)) = R[Len(R)]
<1>1. R \in Seq(DOMAIN major) /\ MajorsFrom(l_memRoot) = R
  <2>1. DOMAIN NextRuns = DOMAIN major
    BY DEF NextRuns
  <2> QED
    BY <2>1, RunsWalked DEF RunsAre, Path
<1> DEFINE B == IF l_bestBet # NULL /\ Spare(l_bestBet) > Need(size)
                  THEN MajorsFrom(l_bestBet) ELSE << >>
<1>2. B \in Seq(DOMAIN major) /\ (R = << >> => B = << >>)
  <2>1. CASE l_bestBet = NULL
    BY <2>1
  <2>2. CASE l_bestBet # NULL
    <3>1. l_bestBet \in DOMAIN major
      BY <2>2 DEF Typed
    <3>2. PICK j \in 1 .. Len(R) : R[j] = l_bestBet
      BY <3>1 DEF RunsAre
    <3>3. MajorsFrom(l_bestBet) = SubSeq(R, j, Len(R))
      BY <3>2, RunsWalked
    <3>4. SubSeq(R, j, Len(R)) \in Seq(DOMAIN major) /\ R # << >>
      BY <1>1
    <3>5. B \in {MajorsFrom(l_bestBet), << >>} /\ << >> \in Seq(DOMAIN major)
      OBVIOUS
    <3> HIDE DEF B
    <3> QED
      BY <3>3, <3>4, <3>5
  <2> QED
    BY <2>1, <2>2
<1>3. Searched(size) = B \o R
  BY <1>1 DEF Searched
<1> HIDE DEF B
<1>4. Searched(size) \in Seq(DOMAIN major)
  BY <1>1, <1>2, <1>3
<1>5. CASE R = << >>
  BY <1>2, <1>3, <1>4, <1>5
<1>6. CASE R # << >>
  <2>1. /\ Len(B) \in Nat /\ Len(R) \in Nat /\ Len(R) >= 1
        /\ Len(Searched(size)) = Len(B) + Len(R)
    BY <1>1, <1>2, <1>3, <1>6
  <2>2. Searched(size)[Len(B) + Len(R)] = R[Len(R)]
    BY <1>1, <1>2, <1>3, <2>1
  <2>3. Searched(size) # << >>
    BY <2>1
  <2> QED
    BY <1>4, <1>6, <2>1, <2>2, <2>3 DEF Last
<1> QED
  BY <1>5, <1>6

\* Where it is found to fit there is a gap for it, and the run has the space.
LEMMA FoundPlace ==
  ASSUME HeapInv, NEW size \in Nat, Fit(size) # 0
  PROVE  /\ Target(size) \in DOMAIN major
         /\ Spare(Target(size)) >= Need(size)
         /\ SubSeq(Searched(size), 1, Fit(size)) \in Seq(DOMAIN major)
         /\ \A L : BlocksOf(Target(size), L) =>
              \E k \in 0 .. Len(L) :
                /\ IsRoom(GapEnd(Target(size), L, k) - GapStart(Target(size), L, k), size)
                /\ Place(size) =
                     [at |-> GapStart(Target(size), L, k),
                      prev |-> IF k = 0 THEN NULL ELSE L[k],
                      next |-> IF k = Len(L) THEN NULL ELSE L[k + 1]]
<1> DEFINE runs == Searched(size)
           fitting == {k \in DOMAIN runs : Fits(runs[k], size)}
           a == Target(size)
<1>1. Typed /\ \E R : RunsAre(R)
  BY DEF HeapInv
<1>2. runs \in Seq(DOMAIN major)
  BY <1>1, SearchedRuns
<1>3. Fit(size) = (IF fitting = {} THEN 0 ELSE Min(fitting)) /\ a = runs[Fit(size)]
  BY DEF Fit, Target
<1> HIDE DEF runs, a
<1>4. fitting \in SUBSET Nat /\ fitting # {}
  BY <1>2, <1>3
<1>5. Fit(size) \in fitting
  BY <1>3, <1>4, MinIsMember
<1>6. /\ Fit(size) \in 1 .. Len(runs) /\ a \in DOMAIN major
      /\ Fits(a, size)
  BY <1>2, <1>3, <1>5
<1>7. SubSeq(runs, 1, Fit(size)) \in Seq(DOMAIN major)
  BY <1>2, <1>6
<1>8. Spare(a) >= Need(size) /\ Gaps(a, MinorsOf(a), size) # {}
  BY <1>6 DEF Fits
<1>9. ASSUME NEW L, BlocksOf(a, L)
      PROVE  \E k \in 0 .. Len(L) :
                /\ IsRoom(GapEnd(a, L, k) - GapStart(a, L, k), size)
                /\ Place(size) =
                     [at |-> GapStart(a, L, k),
                      prev |-> IF k = 0 THEN NULL ELSE L[k],
                      next |-> IF k = Len(L) THEN NULL ELSE L[k + 1]]
  <2> DEFINE G == Gaps(a, L, size)
             k == Min(G)
  <2>1. MinorsOf(a) = L
    BY <1>1, <1>9, BlocksWalked
  <2>2. Len(L) \in Nat
    BY <1>9 DEF BlocksOf, Path
  <2>3. G \in SUBSET Nat /\ G # {}
    BY <1>8, <2>1, <2>2 DEF Gaps
  <2>4. k \in G
    BY <2>3, MinIsMember
  <2>5. k \in 0 .. Len(L) /\ IsRoom(GapEnd(a, L, k) - GapStart(a, L, k), size)
    BY <2>4 DEF Gaps
  <2>6. Place(size) = [at |-> GapStart(a, L, k),
                       prev |-> IF k = 0 THEN NULL ELSE L[k],
                       next |-> IF k = Len(L) THEN NULL ELSE L[k + 1]]
    BY <2>1 DEF Place, a
  <2> HIDE DEF k
  <2> QED
    BY <2>5, <2>6
<1> QED
  BY <1>6, <1>7, <1>8, <1>9 DEF runs, a

-----------------------------------------------------------------------------
(* Lists that a step leaves alone *)

\* What a header says of its place and its list.
SameHeader(m) ==
  /\ minor'[m].next = minor[m].next /\ minor'[m].prev = minor[m].prev
  /\ minor'[m].block = minor[m].block /\ minor'[m].magic = minor[m].magic
  /\ minor'[m].size = minor[m].size

LEMMA ListKept ==
  ASSUME NEW a, NEW L, BlocksOf(a, L),
         \A k \in 1 .. Len(L) : L[k] \in DOMAIN minor' /\ SameHeader(L[k]),
         major'[a].first = major[a].first, major'[a].usage = major[a].usage,
         major'[a].size = major[a].size,
         \A m \in Live' : minor'[m].block = a => m \in Live /\ minor[m].block = a
  PROVE  BlocksOf(a, L)'
<1>1. /\ L \in Seq(DOMAIN NextBlocks) /\ IsInjective(L) /\ Len(L) \in Nat
      /\ DOMAIN NextBlocks = DOMAIN minor
      /\ major[a].first = IF L = << >> THEN NULL ELSE L[1]
      /\ \A k \in 1 .. Len(L) :
           L[k] \in DOMAIN minor
           /\ NextBlocks[L[k]] = IF k = Len(L) THEN NULL ELSE L[k + 1]
  BY DEF BlocksOf, Path, NextBlocks
<1>2. Path(L, major'[a].first, NextBlocks')
  <2>1. DOMAIN NextBlocks' = DOMAIN minor'
        /\ \A x \in DOMAIN minor' : NextBlocks'[x] = minor'[x].next
    BY DEF NextBlocks
  <2>2. L \in Seq(DOMAIN NextBlocks')
    BY <1>1, <2>1
  <2>3. \A k \in 1 .. Len(L) : NextBlocks'[L[k]] = NextBlocks[L[k]]
    BY <1>1, <2>1 DEF SameHeader, NextBlocks
  <2> QED
    BY <1>1, <2>2, <2>3 DEF Path
<1>3. \A k \in 1 .. Len(L) :
        /\ minor'[L[k]].block = a /\ minor'[L[k]].magic = LIBALLOC_MAGIC
        /\ minor'[L[k]].prev = IF k = 1 THEN NULL ELSE L[k - 1]
  BY DEF BlocksOf, SameHeader
<1>4. \A k \in 1 .. Len(L) : minor'[L[k]].size = minor[L[k]].size
  BY DEF SameHeader
<1>5. \A j, k \in 1 .. Len(L) : j < k => L[j] + Need(minor'[L[j]].size) <= L[k]
  BY <1>4 DEF BlocksOf
<1>6. [k \in 1 .. Len(L) |-> Need(minor'[L[k]].size)]
        = [k \in 1 .. Len(L) |-> Need(minor[L[k]].size)]
  BY <1>4
<1>7. Taken(L)' = Taken(L)
  BY <1>6 DEF Taken
<1>8. /\ L # << >>
      /\ major'[a].usage = MajorHeader + Taken(L)' /\ major'[a].usage <= major'[a].size
  BY <1>7 DEF BlocksOf
<1>9. \A m \in Live' : minor'[m].block = a => \E k \in 1 .. Len(L) : L[k] = m
  BY DEF BlocksOf
<1> QED
  BY <1>2, <1>3, <1>5, <1>8, <1>9 DEF BlocksOf

\* What a list says of its blocks.
LEMMA BlockFields ==
  ASSUME Typed, NEW a, NEW L, BlocksOf(a, L)
  PROVE  /\ Len(L) \in Nat /\ Len(L) >= 1
         /\ \A k \in 1 .. Len(L) :
              /\ L[k] \in DOMAIN minor /\ L[k] \in Live /\ L[k] \in Nat /\ L[k] # NULL
              /\ minor[L[k]].block = a
              /\ minor[L[k]].prev = (IF k = 1 THEN NULL ELSE L[k - 1])
              /\ minor[L[k]].next = (IF k = Len(L) THEN NULL ELSE L[k + 1])
              /\ minor[L[k]].size \in Nat /\ Need(minor[L[k]].size) \in Nat
         /\ \A j, k \in 1 .. Len(L) : L[j] = L[k] => j = k
         /\ major[a].first = L[1]
         /\ L \in Seq(DOMAIN minor)
<1>1. /\ L \in Seq(DOMAIN NextBlocks) /\ IsInjective(L) /\ L # << >>
      /\ DOMAIN NextBlocks = DOMAIN minor
      /\ major[a].first = IF L = << >> THEN NULL ELSE L[1]
      /\ \A k \in 1 .. Len(L) :
           NextBlocks[L[k]] = IF k = Len(L) THEN NULL ELSE L[k + 1]
  BY DEF BlocksOf, Path, NextBlocks
<1>2. L \in Seq(DOMAIN minor) /\ Len(L) \in Nat /\ Len(L) >= 1
  BY <1>1
<1>3. \A k \in 1 .. Len(L) : L[k] \in DOMAIN minor
  BY <1>2
<1>4. \A k \in 1 .. Len(L) :
        /\ minor[L[k]].block = a /\ minor[L[k]].magic = LIBALLOC_MAGIC
        /\ minor[L[k]].prev = IF k = 1 THEN NULL ELSE L[k - 1]
  BY DEF BlocksOf
<1>5. \A k \in 1 .. Len(L) : minor[L[k]].next = IF k = Len(L) THEN NULL ELSE L[k + 1]
  BY <1>1, <1>3 DEF NextBlocks
<1>6. \A k \in 1 .. Len(L) : L[k] \in Nat /\ L[k] # NULL /\ minor[L[k]].size \in Nat
                             /\ Need(minor[L[k]].size) \in Nat
  BY <1>3, MinorFields
<1>7. \A k \in 1 .. Len(L) : L[k] \in Live
  BY <1>3, <1>4 DEF Live
<1>8. \A j, k \in 1 .. Len(L) : L[j] = L[k] => j = k
  BY <1>1, <1>2 DEF IsInjective
<1> QED
  BY <1>1, <1>2, <1>3, <1>4, <1>5, <1>6, <1>7, <1>8

-----------------------------------------------------------------------------
(* A new block *)

Overwritten(at, size) ==
  {m \in DOMAIN minor : m + MinorHeader > at /\ m < at + Need(size)}

\* What stays of a header that is linked to a new one at an address.
Linked(m, at, prev, next) ==
  /\ minor'[m] \in Blocks
  /\ minor'[m].next = (IF m = prev THEN at ELSE minor[m].next)
  /\ minor'[m].prev = (IF m = next THEN at ELSE minor[m].prev)
  /\ minor'[m].block = minor[m].block /\ minor'[m].magic = minor[m].magic
  /\ minor'[m].size = minor[m].size /\ minor'[m].req_size = minor[m].req_size
  /\ minor'[m].data = minor[m].data

\* What Insert does, header by header.
Effect(a, at, prev, next, size, req, data) ==
  /\ DOMAIN minor' = (DOMAIN minor \ Overwritten(at, size)) \cup {at}
  /\ minor' = [m \in DOMAIN minor' |-> minor'[m]]
  /\ minor'[at] = [prev |-> prev, next |-> next, block |-> a,
                   magic |-> LIBALLOC_MAGIC, size |-> size, req_size |-> req,
                   data |-> data]
  /\ minor'[at].prev = prev /\ minor'[at].next = next /\ minor'[at].block = a
  /\ minor'[at].magic = LIBALLOC_MAGIC /\ minor'[at].size = size
  /\ minor'[at].req_size = req /\ minor'[at].data = data
  /\ \A m \in DOMAIN minor' : m # at =>
       /\ m \in DOMAIN minor /\ m \notin Overwritten(at, size)
       /\ Linked(m, at, prev, next)

LEMMA InsertEffect ==
  ASSUME Typed, NEW a, NEW at \in Nat, NEW prev, NEW next, NEW size, NEW req, NEW data,
         Insert(a, at, prev, next, size, req, data)
  PROVE  Effect(a, at, prev, next, size, req, data)
<1> DEFINE header == [prev |-> prev, next |-> next, block |-> a,
                      magic |-> LIBALLOC_MAGIC, size |-> size, req_size |-> req,
                      data |-> data]
           D == (DOMAIN minor \ Overwritten(at, size)) \cup {at}
<1>1. minor' = [m \in D |-> NewMinor(m, at, prev, next, header)]
  BY DEF Insert, Overwritten
<1> HIDE DEF header, D
<1>2. DOMAIN minor' = D /\ minor' = [m \in DOMAIN minor' |-> minor'[m]]
  BY <1>1
<1>3. minor'[at] = header
  BY <1>1, <1>2 DEF NewMinor, D
<1>5. /\ minor'[at].prev = prev /\ minor'[at].next = next /\ minor'[at].block = a
      /\ minor'[at].magic = LIBALLOC_MAGIC /\ minor'[at].size = size
      /\ minor'[at].req_size = req /\ minor'[at].data = data
  BY <1>3 DEF header
<1>4. ASSUME NEW m \in D, m # at
      PROVE  m \in DOMAIN minor /\ m \notin Overwritten(at, size) /\ Linked(m, at, prev, next)
  <2>1. m \in DOMAIN minor /\ m \notin Overwritten(at, size)
    BY <1>4 DEF D
  <2>2. minor[m] \in Blocks
    BY <2>1 DEF Typed
  <2>3. minor'[m] = [minor[m] EXCEPT !.next = IF m = prev THEN at ELSE @,
                                     !.prev = IF m = next THEN at ELSE @]
    BY <1>1, <1>4 DEF NewMinor
  <2>4. minor'[m] = [prev |-> IF m = next THEN at ELSE minor[m].prev,
                     next |-> IF m = prev THEN at ELSE minor[m].next,
                     block |-> minor[m].block, magic |-> minor[m].magic,
                     size |-> minor[m].size, req_size |-> minor[m].req_size,
                     data |-> minor[m].data]
    BY <2>2, <2>3 DEF Blocks
  <2>5. minor'[m] \in Blocks
    BY <2>2, <2>4 DEF Blocks
  <2> QED
    BY <2>1, <2>4, <2>5 DEF Linked
<1> QED
  BY <1>2, <1>3, <1>4, <1>5 DEF D, header, Effect

\* A new block of run a between two blocks, the room for it, and runs that are
\* no other than before.
Placed(a, at, prev, next, size, req, data) ==
  /\ a \in DOMAIN major' /\ a \in Nat
  /\ at \in Nat \ {NULL} /\ size \in Nat /\ req \in Nat /\ data \in Cores \cup {Junk}
  /\ prev \in Nat /\ next \in Nat
  /\ Insert(a, at, prev, next, size, req, data)
  /\ Padded(req) <= size
  /\ a + MajorHeader <= at /\ at + Need(size) <= a + major'[a].size
  /\ Live \cap Overwritten(at, size) = {}
  /\ at \notin Live
  /\ \A b \in DOMAIN major : b \in DOMAIN major' /\ major'[b].size = major[b].size

LEMMA HeadersAfterInsert ==
  ASSUME Typed, Headers, NEW a, NEW at, NEW prev, NEW next, NEW size, NEW req, NEW data,
         Placed(a, at, prev, next, size, req, data)
  PROVE  Headers'
<1>1. /\ at \in Nat /\ size \in Nat /\ a \in Nat
      /\ Insert(a, at, prev, next, size, req, data)
      /\ a + MajorHeader <= at /\ at + Need(size) <= a + major'[a].size
      /\ Padded(req) <= size
      /\ \A b \in DOMAIN major : major'[b].size = major[b].size
  BY DEF Placed
<1>2. /\ minor'[at].block = a /\ minor'[at].size = size /\ minor'[at].req_size = req
      /\ \A m \in DOMAIN minor' : m # at =>
           /\ m \in DOMAIN minor /\ m \notin Overwritten(at, size)
           /\ Linked(m, at, prev, next)
  <2>1. Effect(a, at, prev, next, size, req, data)
    BY <1>1, InsertEffect
  <2> QED
    BY <2>1 DEF Effect
<1>3. ASSUME NEW m \in DOMAIN minor'
      PROVE  /\ minor'[m].block + MajorHeader <= m
             /\ m + Need(minor'[m].size) <= minor'[m].block + major'[minor'[m].block].size
             /\ Padded(minor'[m].req_size) <= minor'[m].size
  <2>1. CASE m = at
    BY <1>1, <1>2, <2>1
  <2>2. CASE m # at
    <3>1. /\ m \in DOMAIN minor /\ minor'[m].block = minor[m].block
          /\ minor'[m].size = minor[m].size /\ minor'[m].req_size = minor[m].req_size
      BY <1>2, <2>2 DEF Linked
    <3>2. minor[m].block \in DOMAIN major
      BY <3>1, MinorFields
    <3>3. major'[minor'[m].block].size = major[minor[m].block].size
      BY <1>1, <3>1, <3>2
    <3> QED
      BY <3>1, <3>3 DEF Headers
  <2> QED
    BY <2>1, <2>2
<1>4. ASSUME NEW m \in DOMAIN minor', NEW n \in DOMAIN minor', m < n
      PROVE  m + MinorHeader <= n
  <2>1. Need(size) \in Nat /\ Need(size) >= MinorHeader
    BY <1>1, Constants DEF Need
  <2>2. \A x \in DOMAIN minor' : x # at =>
          /\ x \in Nat /\ x \in DOMAIN minor
          /\ x + MinorHeader <= at \/ x >= at + Need(size)
    <3>1. TAKE x \in DOMAIN minor'
    <3>2. HAVE x # at
    <3>3. x \in DOMAIN minor /\ x \notin Overwritten(at, size)
      BY <1>2, <3>2
    <3>4. x \in Nat
      BY <3>3 DEF Typed
    <3> QED
      BY <1>1, <2>1, <3>3, <3>4, Constants DEF Overwritten
  <2>3. CASE m # at /\ n # at
    BY <1>4, <2>2, <2>3 DEF Headers
  <2>4. CASE m = at
    BY <1>1, <1>4, <2>1, <2>2, <2>4, Constants
  <2>5. CASE n = at
    BY <1>1, <1>4, <2>1, <2>2, <2>5, Constants
  <2> QED
    BY <2>3, <2>4, <2>5
<1> QED
  BY <1>3, <1>4 DEF Headers

\* Live blocks stay what they are, and there is one more.
LiveKept ==
  \A m \in Live : /\ m \in Live' /\ minor'[m].data = minor[m].data
                  /\ minor'[m].req_size = minor[m].req_size

LEMMA LiveAfterInsert ==
  ASSUME Typed, NEW a, NEW at, NEW prev, NEW next, NEW size, NEW req, NEW data,
         Placed(a, at, prev, next, size, req, data)
  PROVE  /\ LiveKept /\ at \in Live' /\ at \notin Live /\ minor'[at].data = data
         /\ Live' = Live \cup {at}
         /\ \A m \in Live : m \in DOMAIN minor' /\ Linked(m, at, prev, next)
<1>1. /\ at \in Nat /\ at \notin Live /\ Live \cap Overwritten(at, size) = {}
      /\ Insert(a, at, prev, next, size, req, data)
  BY DEF Placed
<1>2. /\ DOMAIN minor' = (DOMAIN minor \ Overwritten(at, size)) \cup {at}
      /\ minor'[at].magic = LIBALLOC_MAGIC /\ minor'[at].data = data
      /\ \A m \in DOMAIN minor' : m # at =>
           /\ m \in DOMAIN minor /\ m \notin Overwritten(at, size)
           /\ Linked(m, at, prev, next)
  <2>1. Effect(a, at, prev, next, size, req, data)
    BY <1>1, InsertEffect
  <2> QED
    BY <2>1 DEF Effect
<1>3. at \in Live'
  BY <1>2 DEF Live
<1>4. ASSUME NEW m \in Live
      PROVE  /\ m \in DOMAIN minor' /\ m # at /\ Linked(m, at, prev, next)
             /\ m \in Live' /\ minor'[m].data = minor[m].data
             /\ minor'[m].req_size = minor[m].req_size
  <2>1. m \in DOMAIN minor /\ m # at /\ minor[m].magic = LIBALLOC_MAGIC
    BY <1>1 DEF Live
  <2>2. m \in DOMAIN minor' /\ Linked(m, at, prev, next)
    BY <1>1, <1>2, <2>1
  <2> QED
    BY <2>1, <2>2 DEF Linked, Live
<1>5. ASSUME NEW m \in Live', m # at
      PROVE  m \in Live
  <2>1. m \in DOMAIN minor' /\ minor'[m].magic = LIBALLOC_MAGIC
    BY DEF Live
  <2>2. m \in DOMAIN minor /\ Linked(m, at, prev, next)
    BY <1>2, <1>5, <2>1
  <2> QED
    BY <2>1, <2>2 DEF Linked, Live
<1>6. Live' = Live \cup {at}
  BY <1>3, <1>4, <1>5
<1> QED
  BY <1>1, <1>2, <1>3, <1>4, <1>6 DEF LiveKept

\* The lists of the other runs.
LEMMA OthersAfterInsert ==
  ASSUME Typed, NEW a, NEW at, NEW prev, NEW next, NEW size, NEW req, NEW data,
         Placed(a, at, prev, next, size, req, data),
         NEW b \in DOMAIN major, b # a, NEW L, BlocksOf(b, L),
         prev = NULL \/ minor[prev].block = a,
         next = NULL \/ minor[next].block = a,
         major'[b].first = major[b].first, major'[b].usage = major[b].usage
  PROVE  BlocksOf(b, L)'
<1>1. major'[b].size = major[b].size
  BY DEF Placed
<1>2. /\ Live' = Live \cup {at}
      /\ \A m \in Live : m \in DOMAIN minor' /\ Linked(m, at, prev, next)
  BY LiveAfterInsert
<1>3. ASSUME NEW k \in 1 .. Len(L)
      PROVE  L[k] \in DOMAIN minor' /\ SameHeader(L[k])
  <2>1. L[k] \in Live /\ L[k] # NULL /\ minor[L[k]].block = b
    BY BlockFields
  <2>2. L[k] # prev /\ L[k] # next
    BY <2>1
  <2> QED
    BY <1>2, <2>1, <2>2 DEF Linked, SameHeader
<1>4. ASSUME NEW m \in Live', minor'[m].block = b
      PROVE  m \in Live /\ minor[m].block = b
  <2>1. minor'[at].block = a
    <3>1. at \in Nat /\ Insert(a, at, prev, next, size, req, data)
      BY DEF Placed
    <3> QED
      BY ZenonT(60), <3>1, InsertEffect DEF Effect
  <2>2. m \in Live
    BY <1>2, <1>4, <2>1
  <2> QED
    BY <1>2, <1>4, <2>2 DEF Linked
<1> QED
  BY <1>1, <1>3, <1>4, ListKept

\* A gap begins and ends in the run, behind the blocks up to the k-th and in
\* front of the others.
LEMMA GapBetween ==
  ASSUME Typed, Headers, NEW a \in DOMAIN major, NEW L, BlocksOf(a, L),
         NEW k \in 0 .. Len(L), NEW size, Need(size) \in Nat,
         IsRoom(GapEnd(a, L, k) - GapStart(a, L, k), size)
  PROVE  /\ GapStart(a, L, k) \in Nat
         /\ a + MajorHeader <= GapStart(a, L, k)
         /\ GapStart(a, L, k) + Need(size) <= a + major[a].size
         /\ \A j \in 1 .. Len(L) :
              j <= k => L[j] + Need(minor[L[j]].size) <= GapStart(a, L, k)
         /\ \A j \in 1 .. Len(L) : j > k => GapStart(a, L, k) + Need(size) <= L[j]
<1> DEFINE n == Len(L)
           at == GapStart(a, L, k)
<1>1. /\ n \in Nat /\ n >= 1
      /\ \A j \in 1 .. n : /\ L[j] \in DOMAIN minor /\ L[j] \in Nat /\ minor[L[j]].block = a
                           /\ minor[L[j]].size \in Nat /\ Need(minor[L[j]].size) \in Nat
  BY BlockFields
<1>2. k \in Nat /\ k <= n
  BY <1>1
<1>3. a \in Nat /\ major[a].size \in Nat
  BY MajorFields
<1>4. \A j \in 1 .. n : /\ a + MajorHeader <= L[j]
                        /\ L[j] + Need(minor[L[j]].size) <= a + major[a].size
  BY <1>1 DEF Headers
<1>5. \A i, j \in 1 .. n : i < j => L[i] + Need(minor[L[i]].size) <= L[j]
  BY DEF BlocksOf
<1>6. GapEnd(a, L, k) - at >= Need(size)
  BY DEF IsRoom
<1> HIDE DEF n, at
<1>7. k # 0 => k \in 1 .. n /\ at = L[k] + Need(minor[L[k]].size)
  <2>1. HAVE k # 0
  <2>2. k \in 1 .. n /\ at = L[k] + MinorHeader + minor[L[k]].size
    BY <1>1, <1>2, <2>1 DEF GapStart, at
  <2> QED
    BY <1>1, <2>2, Constants DEF Need
<1>8. at \in Nat /\ a + MajorHeader <= at
  <2>1. CASE k = 0
    BY <1>3, <2>1, Constants DEF GapStart, at
  <2>2. CASE k # 0
    BY <1>1, <1>3, <1>4, <1>7, <2>2, Constants
  <2> QED
    BY <2>1, <2>2
<1>9. ASSUME NEW j \in 1 .. n, j <= k
      PROVE  L[j] + Need(minor[L[j]].size) <= at
  <2>1. k \in 1 .. n /\ at = L[k] + Need(minor[L[k]].size)
    BY <1>2, <1>7, <1>9
  <2>2. j = k \/ j < k
    BY <1>2, <1>9
  <2>3. L[j] \in Nat /\ L[k] \in Nat /\ Need(minor[L[j]].size) \in Nat
        /\ Need(minor[L[k]].size) \in Nat
    BY <1>1, <2>1
  <2>4. j < k => L[j] + Need(minor[L[j]].size) <= L[k]
    BY <1>5, <2>1
  <2> QED
    BY <2>1, <2>2, <2>3, <2>4
<1>10. k # n => k + 1 \in 1 .. n /\ at + Need(size) <= L[k + 1]
  <2>1. HAVE k # n
  <2>2. k + 1 \in 1 .. n
    BY <1>1, <1>2, <2>1
  <2>3. GapEnd(a, L, k) = L[k + 1]
    BY <2>1 DEF GapEnd, n
  <2>4. L[k + 1] \in Nat
    BY <1>1, <2>2
  <2> QED
    BY <1>6, <1>8, <2>2, <2>3, <2>4
<1>11. ASSUME NEW j \in 1 .. n, j > k
       PROVE  at + Need(size) <= L[j]
  <2>1. k + 1 \in 1 .. n /\ at + Need(size) <= L[k + 1]
    BY <1>1, <1>2, <1>10, <1>11
  <2>2. L[k + 1] \in Nat /\ L[j] \in Nat /\ Need(minor[L[k + 1]].size) \in Nat
    BY <1>1, <2>1
  <2>3. k + 1 = j \/ k + 1 < j
    BY <1>2, <1>11
  <2>4. k + 1 < j => L[k + 1] + Need(minor[L[k + 1]].size) <= L[j]
    BY <1>5, <2>1
  <2> QED
    BY <1>8, <2>1, <2>2, <2>3, <2>4
<1>12. at + Need(size) <= a + major[a].size
  <2>1. CASE k = n
    <3>1. GapEnd(a, L, k) = a + major[a].size
      BY <2>1 DEF GapEnd, n
    <3> QED
      BY <1>3, <1>6, <1>8, <3>1
  <2>2. CASE k # n
    <3>1. k + 1 \in 1 .. n /\ at + Need(size) <= L[k + 1]
      BY <1>10, <2>2
    <3>2. /\ L[k + 1] + Need(minor[L[k + 1]].size) <= a + major[a].size
          /\ L[k + 1] \in Nat /\ Need(minor[L[k + 1]].size) \in Nat
      BY <1>1, <1>4, <3>1
    <3> QED
      BY <1>3, <1>8, <3>1, <3>2
  <2> QED
    BY <2>1, <2>2
<1> QED
  BY <1>8, <1>9, <1>11, <1>12 DEF n, at

\* The list of the run that the block is in: it follows the k-th block.
LEMMA OwnAfterInsert ==
  ASSUME Typed, Headers, NEW a, NEW at, NEW prev, NEW next, NEW size, NEW req, NEW data,
         Placed(a, at, prev, next, size, req, data),
         a \in DOMAIN major, NEW L, BlocksOf(a, L), NEW k \in 0 .. Len(L),
         at = GapStart(a, L, k),
         prev = (IF k = 0 THEN NULL ELSE L[k]),
         next = (IF k = Len(L) THEN NULL ELSE L[k + 1]),
         IsRoom(GapEnd(a, L, k) - GapStart(a, L, k), size),
         major'[a].first = (IF prev = NULL THEN at ELSE major[a].first),
         major'[a].usage = major[a].usage + Need(size),
         major'[a].usage <= major'[a].size
  PROVE  \E T : BlocksOf(a, T)'
<1> DEFINE n == Len(L)
           T == [j \in 1 .. n + 1 |-> IF j <= k THEN L[j]
                                      ELSE IF j = k + 1 THEN at ELSE L[j - 1]]
<1>1. /\ n \in Nat /\ n >= 1
      /\ \A j \in 1 .. n :
           /\ L[j] \in DOMAIN minor /\ L[j] \in Live /\ L[j] \in Nat /\ L[j] # NULL
           /\ minor[L[j]].block = a
           /\ minor[L[j]].prev = (IF j = 1 THEN NULL ELSE L[j - 1])
           /\ minor[L[j]].next = (IF j = n THEN NULL ELSE L[j + 1])
           /\ minor[L[j]].size \in Nat /\ Need(minor[L[j]].size) \in Nat
      /\ \A i, j \in 1 .. n : L[i] = L[j] => i = j
      /\ major[a].first = L[1]
  BY BlockFields
<1>2. k \in Nat /\ k <= n
  BY <1>1
<1>3. /\ at \in Nat /\ at # NULL /\ size \in Nat /\ Need(size) \in Nat /\ at \notin Live
      /\ Insert(a, at, prev, next, size, req, data)
  BY Constants DEF Placed, Need
<1>4. Effect(a, at, prev, next, size, req, data)
  BY <1>3, InsertEffect
<1>5. /\ minor'[at].prev = prev /\ minor'[at].next = next /\ minor'[at].block = a
      /\ minor'[at].magic = LIBALLOC_MAGIC /\ minor'[at].size = size
      /\ at \in DOMAIN minor'
  BY <1>4 DEF Effect
<1>6. /\ Live' = Live \cup {at}
      /\ \A m \in Live : m \in DOMAIN minor' /\ Linked(m, at, prev, next)
  BY LiveAfterInsert
<1>7. \A j \in 1 .. n :
        /\ L[j] \in DOMAIN minor' /\ L[j] # at
        /\ minor'[L[j]].next = (IF j = k THEN at ELSE IF j = n THEN NULL ELSE L[j + 1])
        /\ minor'[L[j]].prev = (IF j = k + 1 THEN at ELSE IF j = 1 THEN NULL ELSE L[j - 1])
        /\ minor'[L[j]].block = a /\ minor'[L[j]].magic = LIBALLOC_MAGIC
        /\ minor'[L[j]].size = minor[L[j]].size
  <2>1. TAKE j \in 1 .. n
  <2>2. L[j] \in Live /\ L[j] \in DOMAIN minor' /\ Linked(L[j], at, prev, next)
    BY <1>1, <1>6
  <2>3. L[j] # at /\ minor[L[j]].magic = LIBALLOC_MAGIC /\ minor[L[j]].block = a
    BY <1>1, <1>3, <2>2 DEF Live
  <2>4. L[j] = prev <=> j = k
    BY <1>1, <1>2
  <2>5. L[j] = next <=> j = k + 1
    BY <1>1, <1>2
  <2> QED
    BY <1>1, <2>2, <2>3, <2>4, <2>5 DEF Linked
<1>8. /\ \A j \in 1 .. n : j <= k => L[j] + Need(minor[L[j]].size) <= at
      /\ \A j \in 1 .. n : j > k => at + Need(size) <= L[j]
  BY <1>3, GapBetween
<1>9. /\ DOMAIN T = 1 .. n + 1 /\ n + 1 \in Nat
      /\ \A j \in 1 .. n : j <= k => T[j] = L[j]
      /\ T[k + 1] = at
      /\ \A j \in 1 .. n : j > k => T[j + 1] = L[j]
      /\ k + 1 \in 1 .. n + 1
  BY <1>1, <1>2
<1>10. \A j \in 1 .. n + 1 : \/ j \in 1 .. n /\ j <= k /\ T[j] = L[j]
                             \/ j = k + 1 /\ T[j] = at
                             \/ j - 1 \in 1 .. n /\ j - 1 > k /\ T[j] = L[j - 1]
  BY <1>1, <1>2
<1>11. T \in Seq(DOMAIN minor') /\ Len(T) = n + 1
  <2>1. \A j \in 1 .. n + 1 : T[j] \in DOMAIN minor'
    <3> HIDE DEF T
    <3> QED
      BY <1>5, <1>7, <1>10
  <2>2. T = [j \in 1 .. n + 1 |-> T[j]]
    BY <1>9
  <2> HIDE DEF T
  <2> QED
    BY <1>9, <2>1, <2>2
<1> HIDE DEF T, n
<1>12. \A i, j \in 1 .. n + 1 : i < j =>
         T[i] + Need(minor'[T[i]].size) <= T[j]
  <2>1. TAKE i, j \in 1 .. n + 1
  <2>2. HAVE i < j
  <2>3. \A x, y \in 1 .. n : x < y => L[x] + Need(minor'[L[x]].size) <= L[y]
    BY <1>7 DEF BlocksOf, n
  <2>4. \A x \in 1 .. n : x <= k => L[x] + Need(minor'[L[x]].size) <= at
    BY <1>7, <1>8
  <2>5. CASE i \in 1 .. n /\ i <= k /\ T[i] = L[i]
    <3>1. CASE j \in 1 .. n /\ j <= k /\ T[j] = L[j]
      BY <2>2, <2>3, <2>5, <3>1
    <3>2. CASE j = k + 1 /\ T[j] = at
      BY <2>4, <2>5, <3>2
    <3>3. CASE j - 1 \in 1 .. n /\ j - 1 > k /\ T[j] = L[j - 1]
      <4>1. i < j - 1
        BY <1>2, <2>5, <3>3
      <4> QED
        BY <2>3, <2>5, <3>3, <4>1
    <3> QED
      BY <1>10, <3>1, <3>2, <3>3
  <2>6. CASE i = k + 1 /\ T[i] = at
    <3>1. j - 1 \in 1 .. n /\ j - 1 > k /\ T[j] = L[j - 1]
      BY <1>2, <1>10, <2>2, <2>6
    <3>2. at + Need(size) <= L[j - 1]
      BY <1>8, <3>1
    <3> QED
      BY <1>5, <2>6, <3>1, <3>2
  <2>7. CASE i - 1 \in 1 .. n /\ i - 1 > k /\ T[i] = L[i - 1]
    <3>1. j - 1 \in 1 .. n /\ j - 1 > k /\ T[j] = L[j - 1]
      BY <1>2, <1>10, <2>2, <2>7
    <3>2. i - 1 < j - 1
      BY <2>2
    <3> QED
      BY <2>3, <2>7, <3>1, <3>2
  <2> QED
    BY <1>10, <2>5, <2>6, <2>7
<1>13. IsInjective(T)
  <2>1. \A j \in 1 .. n + 1 : T[j] \in Nat /\ Need(minor'[T[j]].size) \in Nat
                              /\ Need(minor'[T[j]].size) >= MinorHeader
    <3>1. TAKE j \in 1 .. n + 1
    <3>2. \A x \in 1 .. n : L[x] \in Nat /\ minor'[L[x]].size \in Nat
      BY <1>1, <1>7
    <3>3. T[j] \in Nat /\ minor'[T[j]].size \in Nat
      BY <1>3, <1>5, <1>10, <3>2
    <3> QED
      BY <3>3, Constants DEF Need
  <2>2. \A i, j \in 1 .. n + 1 : i < j => T[i] # T[j]
    <3>1. TAKE i, j \in 1 .. n + 1
    <3>2. HAVE i < j
    <3>3. T[i] + Need(minor'[T[i]].size) <= T[j]
      BY <1>12, <3>2
    <3> QED
      BY <2>1, <3>3, Constants
  <2>3. \A i, j \in 1 .. n + 1 : T[i] = T[j] => i = j
    BY <1>9, <2>2
  <2> QED
    BY <1>9, <2>3 DEF IsInjective
<1>14. ASSUME NEW j \in 1 .. n + 1
       PROVE  /\ minor'[T[j]].block = a /\ minor'[T[j]].magic = LIBALLOC_MAGIC
              /\ minor'[T[j]].prev = (IF j = 1 THEN NULL ELSE T[j - 1])
              /\ minor'[T[j]].next = (IF j = n + 1 THEN NULL ELSE T[j + 1])
  <2>1. CASE j \in 1 .. n /\ j <= k /\ T[j] = L[j]
    <3>1. j # k + 1 /\ (j # 1 => j - 1 \in 1 .. n /\ j - 1 <= k) /\ j # n + 1
      BY <1>1, <1>2, <2>1
    <3>2. minor'[T[j]].prev = (IF j = 1 THEN NULL ELSE L[j - 1])
      BY <1>7, <2>1, <3>1
    <3>3. minor'[T[j]].prev = (IF j = 1 THEN NULL ELSE T[j - 1])
      BY <1>9, <3>1, <3>2
    <3>4. CASE j = k
      BY <1>7, <1>9, <2>1, <3>1, <3>3, <3>4
    <3>5. CASE j # k
      <4>1. j + 1 \in 1 .. n /\ j + 1 <= k /\ j # n
        <5>1. n \in Nat
          BY <1>1
        <5> QED
          BY <1>2, <2>1, <3>5, <5>1
      <4>2. T[j + 1] = L[j + 1]
        BY <1>9, <4>1
      <4> QED
        BY <1>7, <2>1, <3>1, <3>3, <3>5, <4>1, <4>2
    <3> QED
      BY <3>4, <3>5
  <2>2. CASE j = k + 1 /\ T[j] = at
    <3>1. minor'[at].prev = (IF j = 1 THEN NULL ELSE T[j - 1])
      <4>1. CASE k = 0
        BY <1>5, <2>2, <4>1
      <4>2. CASE k # 0
        <5>1. k \in 1 .. n /\ j # 1 /\ j - 1 = k
          BY <1>1, <1>2, <2>2, <4>2
        <5> QED
          BY <1>2, <1>5, <1>9, <4>2, <5>1
      <4> QED
        BY <4>1, <4>2
    <3>2. minor'[at].next = (IF j = n + 1 THEN NULL ELSE T[j + 1])
      <4>1. CASE k = n
        BY <1>5, <2>2, <4>1 DEF n
      <4>2. CASE k # n
        <5>1. k + 1 \in 1 .. n /\ k + 1 > k /\ j # n + 1
          BY <1>1, <1>2, <2>2, <4>2
        <5>2. T[(k + 1) + 1] = L[k + 1]
          BY <1>9, <5>1
        <5> QED
          BY <1>5, <2>2, <4>2, <5>1, <5>2 DEF n
      <4> QED
        BY <4>1, <4>2
    <3> QED
      BY <1>5, <2>2, <3>1, <3>2
  <2>3. CASE j - 1 \in 1 .. n /\ j - 1 > k /\ T[j] = L[j - 1]
    <3> DEFINE i == j - 1
    <3>1. i \in 1 .. n /\ i > k /\ T[j] = L[i] /\ i # k /\ j = i + 1 /\ j # 1
      BY <1>2, <2>3
    <3> HIDE DEF i
    <3>2. minor'[L[i]].next = (IF j = n + 1 THEN NULL ELSE T[j + 1])
      <4>1. CASE i = n
        BY <1>7, <3>1, <4>1
      <4>2. CASE i # n
        <5>1. i + 1 \in 1 .. n /\ i + 1 > k /\ j # n + 1
          BY <1>1, <1>2, <3>1, <4>2
        <5>2. T[(i + 1) + 1] = L[i + 1]
          BY <1>9, <5>1
        <5> QED
          BY <1>7, <3>1, <4>2, <5>1, <5>2
      <4> QED
        BY <4>1, <4>2
    <3>3. minor'[L[i]].prev = T[i]
      <4>1. CASE i = k + 1
        BY <1>7, <1>9, <3>1, <4>1
      <4>2. CASE i # k + 1
        <5>1. i # 1 /\ i - 1 \in 1 .. n /\ i - 1 > k /\ (i - 1) + 1 = i
          BY <1>1, <1>2, <3>1, <4>2
        <5>2. T[i] = L[i - 1]
          BY <1>9, <5>1
        <5> QED
          BY <1>7, <3>1, <4>2, <5>1, <5>2
      <4> QED
        BY <4>1, <4>2
    <3>4. j - 1 = i
      BY DEF i
    <3> QED
      BY <1>7, <3>1, <3>2, <3>3, <3>4
  <2> QED
    BY <1>10, <2>1, <2>2, <2>3
<1>15. Path(T, major'[a].first, NextBlocks')
  <2>1. DOMAIN NextBlocks' = DOMAIN minor'
        /\ \A x \in DOMAIN minor' : NextBlocks'[x] = minor'[x].next
    BY DEF NextBlocks
  <2>2. \A j \in 1 .. n + 1 : T[j] \in DOMAIN minor'
    BY <1>11
  <2>3. \A j \in 1 .. n + 1 : NextBlocks'[T[j]] = IF j = n + 1 THEN NULL ELSE T[j + 1]
    BY <1>14, <2>1, <2>2
  <2>4. T # << >> /\ major'[a].first = T[1]
    <3>1. CASE k = 0
      BY <1>1, <1>9, <1>11, <3>1
    <3>2. CASE k # 0
      <4>1. k \in 1 .. n /\ 1 \in 1 .. n /\ 1 <= k
        BY <1>1, <1>2, <3>2
      <4>2. prev # NULL
        BY <1>1, <3>2, <4>1
      <4> QED
        BY <1>1, <1>9, <1>11, <4>1, <4>2
    <3> QED
      BY <3>1, <3>2
  <2> QED
    BY <1>11, <1>13, <2>1, <2>3, <2>4 DEF Path
<1>16. ASSUME NEW m \in Live', minor'[m].block = a
       PROVE  \E j \in 1 .. Len(T) : T[j] = m
  <2>1. CASE m = at
    BY <1>9, <1>11, <2>1
  <2>2. CASE m # at
    <3>1. m \in Live /\ minor[m].block = a
      BY <1>6, <1>16, <2>2 DEF Linked
    <3>2. PICK j \in 1 .. n : L[j] = m
      BY <3>1 DEF BlocksOf, n
    <3>3. CASE j <= k
      <4>1. j \in 1 .. n + 1
        BY <1>1
      <4> QED
        BY <1>9, <1>11, <3>2, <3>3, <4>1
    <3>4. CASE j > k
      <4>1. j + 1 \in 1 .. n + 1
        BY <1>1
      <4> QED
        BY <1>9, <1>11, <3>2, <3>4, <4>1
    <3> QED
      BY <1>2, <3>3, <3>4
  <2> QED
    BY <2>1, <2>2
<1>17. Taken(T)' = Taken(L) + Need(size)
  <2> DEFINE s == [j \in 1 .. Len(L) |-> Need(minor[L[j]].size)]
             t == [j \in 1 .. Len(T) |-> Need(minor'[T[j]].size)]
  <2>1. Taken(L) = Total(s) /\ Taken(T)' = Total(t)
    BY DEF Taken
  <2>2. s \in Seq(Nat) /\ Len(s) = n /\ \A j \in 1 .. n : s[j] = Need(minor[L[j]].size)
    BY <1>1 DEF n
  <2>3. \A j \in 1 .. n + 1 : Need(minor'[T[j]].size) \in Nat
    <3>1. TAKE j \in 1 .. n + 1
    <3>2. \A x \in 1 .. n : Need(minor'[L[x]].size) \in Nat
      BY <1>1, <1>7
    <3> QED
      BY <1>3, <1>5, <1>10, <3>2
  <2>4. t \in Seq(Nat) /\ Len(t) = n + 1
        /\ \A j \in 1 .. n + 1 : t[j] = Need(minor'[T[j]].size)
    <3>1. n + 1 \in Nat /\ t = [j \in 1 .. n + 1 |-> Need(minor'[T[j]].size)]
      BY <1>9, <1>11
    <3> HIDE DEF t
    <3> QED
      BY <2>3, <3>1
  <2> HIDE DEF s, t
  <2>5. \A j \in 1 .. k : t[j] = s[j]
    <3>1. TAKE j \in 1 .. k
    <3>2. j \in 1 .. n /\ j \in 1 .. n + 1 /\ j <= k
      BY <1>1, <1>2
    <3>3. T[j] = L[j] /\ minor'[L[j]].size = minor[L[j]].size
      BY <1>7, <1>9, <3>2
    <3> QED
      BY <2>2, <2>4, <3>2, <3>3
  <2>6. t[k + 1] = Need(size)
    BY <1>5, <1>9, <2>4
  <2>7. \A j \in k + 1 .. Len(s) : t[j + 1] = s[j]
    <3>1. TAKE j \in k + 1 .. Len(s)
    <3>2. j \in 1 .. n /\ j + 1 \in 1 .. n + 1 /\ j > k
      BY <1>1, <1>2, <2>2
    <3>3. minor'[L[j]].size = minor[L[j]].size
      BY <1>7, <3>2
    <3>4. T[j + 1] = L[j]
      BY <1>9, <3>2
    <3> QED
      BY <2>2, <2>4, <3>2, <3>3, <3>4
  <2>8. Inserted(s, t, k, Need(size))
    BY <1>2, <1>3, <2>2, <2>4, <2>5, <2>6, <2>7 DEF Inserted
  <2> QED
    BY <2>1, <2>8, TotalOfInserted
<1>18. major'[a].usage = MajorHeader + Taken(T)'
  <2>1. major[a].usage = MajorHeader + Taken(L)
    BY DEF BlocksOf
  <2>2. Taken(L) \in Nat
    <3>1. [j \in 1 .. Len(L) |-> Need(minor[L[j]].size)] \in Seq(Nat)
      BY <1>1 DEF n
    <3> QED
      BY <3>1, TotalNat DEF Taken
  <2> QED
    BY <1>3, <1>17, <2>1, <2>2, Constants
<1>19. T # << >>
  BY <1>1, <1>11
<1> QED
  <2>1. \A j \in 1 .. Len(T) :
          /\ minor'[T[j]].block = a /\ minor'[T[j]].magic = LIBALLOC_MAGIC
          /\ minor'[T[j]].prev = IF j = 1 THEN NULL ELSE T[j - 1]
    BY <1>11, <1>14
  <2>2. \A i, j \in 1 .. Len(T) : i < j => T[i] + Need(minor'[T[i]].size) <= T[j]
    BY <1>11, <1>12
  <2>3. BlocksOf(a, T)'
    BY <1>15, <1>16, <1>18, <1>19, <2>1, <2>2 DEF BlocksOf
  <2> QED
    BY <2>3

\* The bytes of a gap are of no live block.
LEMMA NobodyThere ==
  ASSUME HeapInv, NEW a \in DOMAIN major, NEW L, BlocksOf(a, L),
         NEW k \in 0 .. Len(L), NEW size, Need(size) \in Nat, Need(size) >= MinorHeader,
         IsRoom(GapEnd(a, L, k) - GapStart(a, L, k), size)
  PROVE  /\ Live \cap Overwritten(GapStart(a, L, k), size) = {}
         /\ GapStart(a, L, k) \notin Live
<1> DEFINE at == GapStart(a, L, k)
<1>0. Typed /\ Headers /\ RunsDisjoint
  BY DEF HeapInv
<1>1. /\ at \in Nat /\ a + MajorHeader <= at /\ at + Need(size) <= a + major[a].size
      /\ \A j \in 1 .. Len(L) : j <= k => L[j] + Need(minor[L[j]].size) <= at
      /\ \A j \in 1 .. Len(L) : j > k => at + Need(size) <= L[j]
  BY <1>0, GapBetween
<1>2. a \in Nat /\ major[a].size \in Nat /\ k \in Nat
  BY <1>0, MajorFields
<1> HIDE DEF at
<1>3. ASSUME NEW m \in Live
      PROVE  m \in Nat /\ (m + MinorHeader <= at \/ at + Need(size) <= m)
  <2> DEFINE b == minor[m].block
  <2>1. m \in DOMAIN minor
    BY DEF Live
  <2>2. /\ m \in Nat /\ b \in DOMAIN major
        /\ Need(minor[m].size) \in Nat /\ Need(minor[m].size) >= MinorHeader
    BY <1>0, <2>1, MinorFields
  <2>3. b \in Nat /\ major[b].size \in Nat
    BY <1>0, <2>2, MajorFields
  <2>4. b + MajorHeader <= m /\ m + Need(minor[m].size) <= b + major[b].size
    BY <1>0, <2>1 DEF Headers
  <2>5. CASE b = a
    <3>1. PICK j \in 1 .. Len(L) : L[j] = m
      BY <2>5 DEF BlocksOf
    <3>2. Len(L) \in Nat
      BY DEF BlocksOf, Path
    <3>3. j <= k => m + Need(minor[m].size) <= at
      BY <1>1, <3>1
    <3>4. j > k => at + Need(size) <= m
      BY <1>1, <3>1
    <3>5. j <= k \/ j > k
      BY <1>2, <3>2
    <3> QED
      BY <1>1, <2>2, <3>3, <3>4, <3>5, Constants
  <2>6. CASE b # a
    <3>1. a + major[a].size <= b \/ b + major[b].size <= a
      BY <1>0, <2>2, <2>6 DEF RunsDisjoint
    <3> HIDE DEF b
    <3> QED
      BY SMTT(30), <1>1, <1>2, <2>2, <2>3, <2>4, <3>1, Constants
  <2> QED
    BY <2>2, <2>5, <2>6
<1>4. Live \cap Overwritten(at, size) = {}
  <2>1. ASSUME NEW m \in Live, m \in Overwritten(at, size) PROVE FALSE
    <3>1. m + MinorHeader > at /\ m < at + Need(size)
      BY <2>1 DEF Overwritten
    <3> QED
      BY <1>1, <1>3, <3>1, Constants
  <2> QED
    BY <2>1
<1>5. at \notin Live
  <2>1. ASSUME at \in Live PROVE FALSE
    BY <1>1, <1>3, <2>1, Constants
  <2> QED
    BY <2>1
<1> QED
  BY <1>4, <1>5 DEF at

LEMMA TypedAfterInsert ==
  ASSUME Typed, NEW a, NEW at, NEW prev, NEW next, NEW size, NEW req, NEW data,
         Placed(a, at, prev, next, size, req, data)
  PROVE  /\ IsFiniteSet(DOMAIN minor') /\ DOMAIN minor' \subseteq Nat \ {NULL}
         /\ minor' \in [DOMAIN minor' -> Blocks']
<1>1. /\ at \in Nat \ {NULL} /\ size \in Nat /\ req \in Nat /\ data \in Cores \cup {Junk}
      /\ prev \in Nat /\ next \in Nat /\ a \in DOMAIN major'
      /\ Insert(a, at, prev, next, size, req, data)
      /\ DOMAIN major \subseteq DOMAIN major'
  BY DEF Placed
<1>2. Effect(a, at, prev, next, size, req, data)
  BY <1>1, InsertEffect
<1>3. DOMAIN minor' = (DOMAIN minor \ Overwritten(at, size)) \cup {at}
      /\ minor' = [m \in DOMAIN minor' |-> minor'[m]]
  BY <1>2 DEF Effect
<1>4. IsFiniteSet(DOMAIN minor) /\ DOMAIN minor \subseteq Nat \ {NULL}
  BY DEF Typed
<1>5. IsFiniteSet(DOMAIN minor \ Overwritten(at, size))
  BY <1>4, FS_Subset
<1>6. IsFiniteSet(DOMAIN minor')
  BY <1>3, <1>5, FS_AddElement
<1>7. DOMAIN minor' \subseteq Nat \ {NULL}
  BY <1>1, <1>3, <1>4
<1>8. Blocks \subseteq Blocks'
  BY <1>1 DEF Blocks
<1>9. minor'[at] \in Blocks'
  <2>1. minor'[at] = [prev |-> prev, next |-> next, block |-> a,
                      magic |-> LIBALLOC_MAGIC, size |-> size, req_size |-> req,
                      data |-> data]
    BY <1>2 DEF Effect
  <2> QED
    BY <1>1, <2>1 DEF Blocks
<1>10. \A m \in DOMAIN minor' : minor'[m] \in Blocks'
  <2>1. TAKE m \in DOMAIN minor'
  <2>2. m # at => minor'[m] \in Blocks
    BY <1>2 DEF Effect, Linked
  <2> QED
    BY <1>8, <1>9, <2>2
<1> QED
  BY <1>3, <1>6, <1>7, <1>10

\* malloc in a run that there is.
LEMMA InRunKeeps ==
  ASSUME HeapInv, NEW req \in Requests, NEW data \in Cores \cup {Junk},
         PlaceInRun(req, data)
  PROVE  /\ HeapInv' /\ LiveKept
         /\ \E at \in Live' : /\ at \notin Live /\ Live' = Live \cup {at}
                              /\ PointerTo(at) = PointerTo(Place(Padded(req)).at)
                              /\ minor'[at].data = data
<1>0. PICK size, a, at, prev, next :
        /\ size = Padded(req) /\ a = Target(size)
        /\ at = Place(size).at /\ prev = Place(size).prev /\ next = Place(size).next
  OBVIOUS
<1>1. Typed /\ Headers /\ RunsDisjoint
  BY DEF HeapInv
<1>2. req \in Nat /\ size \in Nat /\ Need(size) \in Nat /\ Need(size) >= MinorHeader
  BY <1>0, SizeOfRequest
<1>3. /\ Fit(size) # 0
      /\ Insert(a, at, prev, next, size, req, data)
      /\ major' = [major EXCEPT ![a].first = IF prev = NULL THEN at ELSE @,
                                ![a].usage = @ + Need(size)]
      /\ l_bestBet' = BestBet(SubSeq(Searched(size), 1, Fit(size)),
                              [b \in DOMAIN major |-> Spare(b)])
      /\ UNCHANGED l_memRoot
  BY <1>0 DEF PlaceInRun
<1>4. /\ a \in DOMAIN major /\ Spare(a) >= Need(size)
      /\ SubSeq(Searched(size), 1, Fit(size)) \in Seq(DOMAIN major)
      /\ \A L : BlocksOf(a, L) =>
           \E k \in 0 .. Len(L) :
             /\ IsRoom(GapEnd(a, L, k) - GapStart(a, L, k), size)
             /\ Place(size) = [at |-> GapStart(a, L, k),
                               prev |-> IF k = 0 THEN NULL ELSE L[k],
                               next |-> IF k = Len(L) THEN NULL ELSE L[k + 1]]
  BY <1>0, <1>2, <1>3, FoundPlace
<1>5. PICK L : BlocksOf(a, L)
  BY <1>4 DEF HeapInv
<1>6. PICK k \in 0 .. Len(L) :
        /\ IsRoom(GapEnd(a, L, k) - GapStart(a, L, k), size)
        /\ Place(size) = [at |-> GapStart(a, L, k),
                          prev |-> IF k = 0 THEN NULL ELSE L[k],
                          next |-> IF k = Len(L) THEN NULL ELSE L[k + 1]]
  BY <1>4, <1>5
<1>7. /\ at = GapStart(a, L, k)
      /\ prev = (IF k = 0 THEN NULL ELSE L[k])
      /\ next = (IF k = Len(L) THEN NULL ELSE L[k + 1])
  BY <1>0, <1>6
<1>8. /\ a \in Nat /\ major[a] \in Runs /\ major[a].size \in Nat
      /\ major[a].usage \in Nat /\ major[a].first \in Nat /\ a # NULL
  BY <1>1, <1>4, MajorFields
<1>9. /\ DOMAIN major' = DOMAIN major
      /\ \A b \in DOMAIN major : b # a => major'[b] = major[b]
      /\ major'[a] = [major[a] EXCEPT !.first = IF prev = NULL THEN at ELSE @,
                                      !.usage = @ + Need(size)]
      /\ major' = [b \in DOMAIN major |-> major'[b]]
  BY <1>3, <1>4 DEF Typed
<1>10. major'[a] = [prev |-> major[a].prev, next |-> major[a].next,
                    pages |-> major[a].pages, size |-> major[a].size,
                    usage |-> major[a].usage + Need(size),
                    first |-> IF prev = NULL THEN at ELSE major[a].first]
  BY <1>8, <1>9 DEF Runs
<1>11. /\ at \in Nat /\ a + MajorHeader <= at
       /\ at + Need(size) <= a + major[a].size
  BY <1>1, <1>2, <1>4, <1>5, <1>6, <1>7, GapBetween
<1>12. Live \cap Overwritten(at, size) = {} /\ at \notin Live
  BY <1>2, <1>4, <1>5, <1>6, <1>7, NobodyThere
<1>13. /\ Len(L) \in Nat
       /\ \A j \in 1 .. Len(L) : L[j] \in Nat /\ minor[L[j]].block = a
  BY <1>1, <1>5, BlockFields
<1>14. /\ prev \in Nat /\ next \in Nat
       /\ prev = NULL \/ minor[prev].block = a
       /\ next = NULL \/ minor[next].block = a
  <2>1. CASE k = 0
    <3>1. prev = NULL
      BY <1>7, <2>1
    <3>2. 1 \in 1 .. Len(L) \/ k = Len(L)
      BY <1>13, <2>1
    <3> QED
      BY <1>7, <1>13, <2>1, <3>1, <3>2 DEF NULL
  <2>2. CASE k # 0
    <3>1. k \in 1 .. Len(L) /\ (k = Len(L) \/ k + 1 \in 1 .. Len(L))
      BY <1>13, <2>2
    <3> QED
      BY <1>7, <1>13, <2>2, <3>1 DEF NULL
  <2> QED
    BY <2>1, <2>2
<1>15. Placed(a, at, prev, next, size, req, data)
  <2>1. at # NULL
    BY <1>8, <1>11, Constants DEF NULL
  <2>2. major'[a].size = major[a].size
    BY <1>10
  <2>3. \A b \in DOMAIN major : b \in DOMAIN major' /\ major'[b].size = major[b].size
    BY <1>9, <2>2
  <2>4. Padded(req) <= size
    BY <1>0, <1>2
  <2> QED
    BY <1>2, <1>3, <1>4, <1>8, <1>9, <1>11, <1>12, <1>14, <2>1, <2>2, <2>3, <2>4 DEF Placed
<1>16. Headers'
  BY <1>1, <1>15, HeadersAfterInsert
<1>17. Typed'
  <2>1. /\ IsFiniteSet(DOMAIN minor') /\ DOMAIN minor' \subseteq Nat \ {NULL}
        /\ minor' \in [DOMAIN minor' -> Blocks']
    BY <1>1, <1>15, TypedAfterInsert
  <2>2. major'[a] \in Runs
    BY SMTT(30), <1>2, <1>8, <1>10, <1>11 DEF Runs
  <2>3. major' \in [DOMAIN major' -> Runs]
    BY <1>1, <1>9, <2>2 DEF Typed
  <2>4. l_bestBet' \in DOMAIN major'
                       \cup {NULL}
    <3> DEFINE A == DOMAIN major \cup {NULL}
    <3>1. l_bestBet \in A /\ SubSeq(Searched(size), 1, Fit(size)) \in Seq(A)
      BY <1>1, <1>4 DEF Typed
    <3>2. BestBet(SubSeq(Searched(size), 1, Fit(size)), [b \in DOMAIN major |-> Spare(b)]) \in A
      <4> HIDE DEF A
      <4> QED
        BY <3>1, BetIsLooked
    <3> QED
      BY <1>3, <1>9, <3>2
  <2>5. IsFiniteSet(DOMAIN major') /\ DOMAIN major' \subseteq Nat \ {NULL}
    BY <1>1, <1>9 DEF Typed
  <2> QED
    BY <2>1, <2>3, <2>4, <2>5 DEF Typed
<1>18. RunsDisjoint'
  BY <1>1, <1>9, <1>10 DEF RunsDisjoint
<1>19. ASSUME NEW b \in DOMAIN major'
       PROVE  \E T : BlocksOf(b, T)'
  <2>1. CASE b = a
    <3>1. major[a].usage + Need(size) <= major[a].size
      BY <1>2, <1>4, <1>8 DEF Spare
    <3>2. /\ major'[a].first = (IF prev = NULL THEN at ELSE major[a].first)
          /\ major'[a].usage = major[a].usage + Need(size)
          /\ major'[a].usage <= major'[a].size
      BY <1>10, <3>1
    <3>3. \E T : BlocksOf(a, T)'
      BY <1>1, <1>4, <1>5, <1>6, <1>7, <1>15, <3>2, OwnAfterInsert
    <3> QED
      BY <2>1, <3>3
  <2>2. CASE b # a
    <3>1. b \in DOMAIN major /\ major'[b] = major[b]
      BY <1>9, <2>2
    <3>2. PICK T : BlocksOf(b, T)
      BY <3>1 DEF HeapInv
    <3>3. BlocksOf(b, T)'
      BY <1>1, <1>14, <1>15, <2>2, <3>1, <3>2, OthersAfterInsert
    <3> QED
      BY <3>3
  <2> QED
    BY <2>1, <2>2
<1>20. \E R : RunsAre(R)'
  <2>1. PICK R : RunsAre(R)
    BY DEF HeapInv
  <2>2. \A b \in DOMAIN major : major'[b].next = major[b].next
                                /\ major'[b].prev = major[b].prev
    BY <1>9, <1>10
  <2>3. NextRuns' = NextRuns
    BY <1>9, <2>2 DEF NextRuns
  <2>4. \A j \in 1 .. Len(R) : R[j] \in DOMAIN major
    BY <2>1 DEF RunsAre, Path, NextRuns
  <2>5. RunsAre(R)'
    BY <1>3, <1>9, <2>1, <2>2, <2>3, <2>4 DEF RunsAre, Path
  <2> QED
    BY <2>5
<1>21. HeapInv'
  BY <1>16, <1>17, <1>18, <1>19, <1>20 DEF HeapInv
<1>22. /\ LiveKept /\ at \in Live' /\ at \notin Live /\ minor'[at].data = data
       /\ Live' = Live \cup {at}
  BY <1>1, <1>15, LiveAfterInsert
<1>23. PointerTo(at) = PointerTo(Place(Padded(req)).at)
  BY <1>0
<1> QED
  BY <1>21, <1>22, <1>23

\* A new run behind the last, if there is one.
LEMMA RunAppended ==
  ASSUME Typed, NEW R, RunsAre(R), NEW new \in Nat \ {NULL}, new \notin DOMAIN major,
         DOMAIN major' = DOMAIN major \cup {new},
         NEW last, last = (IF R = << >> THEN NULL ELSE R[Len(R)]),
         major'[new].prev = last, major'[new].next = NULL,
         \A b \in DOMAIN major :
           /\ major'[b].prev = major[b].prev
           /\ major'[b].next = (IF b = last THEN new ELSE major[b].next),
         l_memRoot' = (IF last = NULL THEN new ELSE l_memRoot)
  PROVE  RunsAre(Append(R, new))'
<1> DEFINE n == Len(R)
           T == Append(R, new)
<1>1. /\ R \in Seq(DOMAIN major) /\ n \in Nat /\ (R = << >> <=> n = 0)
      /\ \A j \in 1 .. n : R[j] \in DOMAIN major /\ R[j] # NULL /\ R[j] # new
      /\ \A i, j \in 1 .. n : R[i] = R[j] => i = j
      /\ l_memRoot = IF n = 0 THEN NULL ELSE R[1]
      /\ \A j \in 1 .. n : major[R[j]].next = IF j = n THEN NULL ELSE R[j + 1]
      /\ \A j \in 1 .. n : major[R[j]].prev = IF j = 1 THEN NULL ELSE R[j - 1]
      /\ \A a \in DOMAIN major : \E j \in 1 .. n : R[j] = a
  <2>1. DOMAIN NextRuns = DOMAIN major /\ \A x \in DOMAIN major : NextRuns[x] = major[x].next
    BY DEF NextRuns
  <2>2. R \in Seq(DOMAIN major) /\ IsInjective(R)
        /\ l_memRoot = IF R = << >> THEN NULL ELSE R[1]
    BY <2>1 DEF RunsAre, Path
  <2>3. n \in Nat /\ (R = << >> <=> n = 0) /\ \A j \in 1 .. n : R[j] \in DOMAIN major
    BY <2>2
  <2>4. \A i, j \in 1 .. n : R[i] = R[j] => i = j
    BY <2>2 DEF IsInjective
  <2>5. \A j \in 1 .. n : NextRuns[R[j]] = IF j = n THEN NULL ELSE R[j + 1]
    BY DEF RunsAre, Path
  <2>6. \A j \in 1 .. n : R[j] # NULL /\ R[j] # new
    BY <2>3 DEF Typed
  <2>7. \A j \in 1 .. n : major[R[j]].next = IF j = n THEN NULL ELSE R[j + 1]
    BY <2>1, <2>3, <2>5
  <2> QED
    BY <2>2, <2>3, <2>4, <2>6, <2>7 DEF RunsAre
<1>2. /\ T \in Seq(DOMAIN major') /\ Len(T) = n + 1 /\ T # << >>
      /\ T[n + 1] = new /\ \A j \in 1 .. n : T[j] = R[j]
  <2>1. R \in Seq(DOMAIN major') /\ new \in DOMAIN major'
    BY <1>1
  <2>2. T \in Seq(DOMAIN major') /\ Len(T) = n + 1 /\ T[n + 1] = new
    BY <2>1
  <2>3. \A j \in 1 .. n : T[j] = R[j]
    BY <2>1
  <2>4. n \in Nat
    BY <1>1
  <2> QED
    BY <2>2, <2>3, <2>4
<1>3. last = (IF n = 0 THEN NULL ELSE R[n])
  BY <1>1
<1> HIDE DEF T, n
<1>4. IsInjective(T)
  <2>1. \A i, j \in 1 .. n + 1 : T[i] = T[j] => i = j
    <3>1. TAKE i, j \in 1 .. n + 1
    <3>2. HAVE T[i] = T[j]
    <3>3. (i \in 1 .. n \/ i = n + 1) /\ (j \in 1 .. n \/ j = n + 1)
      BY <1>1
    <3> QED
      BY <1>1, <1>2, <3>2, <3>3
  <2>2. DOMAIN T = 1 .. n + 1
    BY <1>2
  <2> QED
    BY <2>1, <2>2 DEF IsInjective
<1>5. ASSUME NEW j \in 1 .. n + 1
      PROVE  /\ T[j] \in DOMAIN major'
             /\ major'[T[j]].next = (IF j = n + 1 THEN NULL ELSE T[j + 1])
             /\ major'[T[j]].prev = (IF j = 1 THEN NULL ELSE T[j - 1])
  <2>1. CASE j = n + 1
    <3>1. T[j] = new
      BY <1>2, <2>1
    <3>2. CASE n = 0
      BY <1>3, <2>1, <3>1, <3>2
    <3>3. CASE n # 0
      <4>1. n \in 1 .. n /\ j - 1 = n /\ j # 1
        BY <1>1, <2>1, <3>3
      <4> QED
        BY <1>2, <1>3, <2>1, <3>1, <3>3, <4>1
    <3> QED
      BY <3>2, <3>3
  <2>2. CASE j # n + 1
    <3>1. j \in 1 .. n /\ n # 0 /\ n \in 1 .. n
      BY <1>1, <2>2
    <3>2. T[j] = R[j] /\ R[j] \in DOMAIN major /\ last = R[n]
      BY <1>1, <1>2, <1>3, <3>1
    <3>3. major'[T[j]].prev = (IF j = 1 THEN NULL ELSE T[j - 1])
      <4>1. major'[T[j]].prev = IF j = 1 THEN NULL ELSE R[j - 1]
        BY <1>1, <3>1, <3>2
      <4>2. CASE j = 1
        BY <4>1, <4>2
      <4>3. CASE j # 1
        <5>1. j - 1 \in 1 .. n
          BY <3>1, <4>3
        <5>2. T[j - 1] = R[j - 1]
          BY <1>2, <5>1
        <5> QED
          BY <4>1, <4>3, <5>2
      <4> QED
        BY <4>2, <4>3
    <3>4. CASE j = n
      <4>1. major'[T[j]].next = new /\ T[j + 1] = new
        BY <1>2, <3>2, <3>4
      <4> QED
        BY <2>2, <3>2, <3>3, <4>1
    <3>5. CASE j # n
      <4>1. j + 1 \in 1 .. n
        <5>1. n \in Nat
          BY <1>1
        <5> QED
          BY <3>1, <3>5, <5>1
      <4>2. R[j] # R[n]
        BY <1>1, <3>1, <3>5
      <4>3. major[R[j]].next = R[j + 1]
        BY <1>1, <3>1, <3>5
      <4>4. major'[T[j]].next = R[j + 1] /\ T[j + 1] = R[j + 1]
        BY <1>2, <3>2, <4>1, <4>2, <4>3
      <4>5. T[j] \in DOMAIN major'
        BY <3>2
      <4> QED
        BY <2>2, <3>3, <4>4, <4>5
    <3> QED
      BY <3>4, <3>5
  <2> QED
    BY <2>1, <2>2
<1>6. l_memRoot' = T[1]
  <2>1. CASE n = 0
    BY <1>2, <1>3, <2>1
  <2>2. CASE n # 0
    <3>1. 1 \in 1 .. n /\ n \in 1 .. n
      BY <1>1, <2>2
    <3> QED
      BY ZenonT(60), <1>1, <1>2, <1>3, <2>2, <3>1
  <2> QED
    BY <2>1, <2>2
<1>7. Path(T, l_memRoot', NextRuns')
  <2>1. DOMAIN NextRuns' = DOMAIN major'
        /\ \A x \in DOMAIN major' : NextRuns'[x] = major'[x].next
    BY DEF NextRuns
  <2>2. \A j \in 1 .. n + 1 : NextRuns'[T[j]] = IF j = n + 1 THEN NULL ELSE T[j + 1]
    BY <1>5, <2>1
  <2> QED
    BY <1>2, <1>4, <1>6, <2>1, <2>2 DEF Path
<1>8. \A j \in 1 .. Len(T) : major'[T[j]].prev = IF j = 1 THEN NULL ELSE T[j - 1]
  BY <1>2, <1>5
<1>9. ASSUME NEW a \in DOMAIN major'
      PROVE  \E j \in 1 .. Len(T) : T[j] = a
  <2>1. CASE a = new
    <3>1. n + 1 \in 1 .. Len(T)
      BY <1>1, <1>2
    <3> QED
      BY <1>2, <2>1, <3>1
  <2>2. CASE a # new
    <3>1. PICK j \in 1 .. n : R[j] = a
      BY <1>1, <2>2
    <3>2. j \in 1 .. Len(T)
      BY <1>1, <1>2
    <3> QED
      BY <1>2, <3>1, <3>2
  <2> QED
    BY <2>1, <2>2
<1> QED
  BY <1>7, <1>8, <1>9 DEF RunsAre, T

\* The only block of a new run.
LEMMA FirstBlock ==
  ASSUME Typed, NEW a, NEW at, NEW size, NEW req, NEW data,
         Placed(a, at, NULL, NULL, size, req, data), a \notin DOMAIN major,
         major'[a].first = at, major'[a].usage = MajorHeader + Need(size),
         major'[a].usage <= major'[a].size
  PROVE  BlocksOf(a, << at >>)'
<1> DEFINE T == << at >>
<1>1. /\ at \in Nat /\ size \in Nat /\ Need(size) \in Nat
      /\ Insert(a, at, NULL, NULL, size, req, data)
  BY Constants DEF Placed, Need
<1>2. Effect(a, at, NULL, NULL, size, req, data)
  BY <1>1, InsertEffect
<1>3. /\ at \in DOMAIN minor' /\ minor'[at].prev = NULL /\ minor'[at].next = NULL
      /\ minor'[at].block = a /\ minor'[at].magic = LIBALLOC_MAGIC /\ minor'[at].size = size
  BY <1>2 DEF Effect
<1>4. T \in Seq(DOMAIN minor') /\ Len(T) = 1 /\ T[1] = at /\ T # << >> /\ DOMAIN T = 1 .. 1
  BY <1>3
<1>5. \A j \in 1 .. 1 : j = 1
  OBVIOUS
<1> HIDE DEF T
<1>6. Path(T, major'[a].first, NextBlocks')
  <2>1. DOMAIN NextBlocks' = DOMAIN minor' /\ NextBlocks'[at] = NULL
    BY <1>3 DEF NextBlocks
  <2>2. IsInjective(T)
    BY <1>4, <1>5 DEF IsInjective
  <2> QED
    BY <1>4, <1>5, <2>1, <2>2 DEF Path
<1>7. \A j \in 1 .. Len(T) :
        /\ minor'[T[j]].block = a /\ minor'[T[j]].magic = LIBALLOC_MAGIC
        /\ minor'[T[j]].prev = IF j = 1 THEN NULL ELSE T[j - 1]
  BY <1>3, <1>4, <1>5
<1>8. \A i, j \in 1 .. Len(T) : i < j => T[i] + Need(minor'[T[i]].size) <= T[j]
  BY <1>4, <1>5
<1>9. ASSUME NEW m \in Live', minor'[m].block = a
      PROVE  \E j \in 1 .. Len(T) : T[j] = m
  <2>1. CASE m = at
    BY <1>4, <2>1
  <2>2. CASE m # at
    <3>1. m \in DOMAIN minor'
      BY DEF Live
    <3>2. m \in DOMAIN minor /\ Linked(m, at, NULL, NULL)
      BY <1>2, <2>2, <3>1 DEF Effect
    <3>3. minor[m].block \in DOMAIN major /\ minor[m].block = a
      BY <1>9, <3>2, MinorFields DEF Linked
    <3> QED
      BY <3>3
  <2> QED
    BY <2>1, <2>2
<1>10. Taken(T)' = Need(size)
  <2>1. [j \in 1 .. Len(T) |-> Need(minor'[T[j]].size)] = [j \in 1 .. 1 |-> Need(size)]
    BY <1>3, <1>4, <1>5
  <2> QED
    BY <1>1, <2>1, TotalOfOne DEF Taken
<1> QED
  BY <1>4, <1>6, <1>7, <1>8, <1>9, <1>10 DEF BlocksOf, T

\* malloc in a new run.
LEMMA NewRunKeeps ==
  ASSUME HeapInv, NEW req \in Requests, NEW new \in Bases \ DOMAIN major,
         NEW data \in Cores \cup {Junk}, PlaceInNewRun(req, new, data), OutOfUse
  PROVE  /\ HeapInv' /\ LiveKept
         /\ \E at \in Live' : /\ at \notin Live /\ Live' = Live \cup {at}
                              /\ at = new + MajorHeader
                              /\ minor'[at].data = data
<1>0. PICK size, runs, last, bytes, at :
        /\ size = Padded(req) /\ runs = Searched(size)
        /\ last = (IF runs = << >> THEN NULL ELSE Last(runs))
        /\ bytes = PagesFor(size) * PageSize /\ at = new + MajorHeader
  OBVIOUS
<1>1. Typed /\ Headers /\ RunsDisjoint
  BY DEF HeapInv
<1>2. req \in Nat /\ size \in Nat /\ Need(size) \in Nat /\ Need(size) >= MinorHeader
  BY <1>0, SizeOfRequest
<1>3. PICK R : RunsAre(R)
  BY DEF HeapInv
<1>4. /\ runs \in Seq(DOMAIN major)
      /\ last = (IF R = << >> THEN NULL ELSE R[Len(R)])
  BY <1>0, <1>1, <1>3, SearchedRuns
<1>5. /\ new \in Nat \ {NULL} /\ new \notin DOMAIN major
      /\ at \in Nat \ {NULL} /\ MajorHeader \in Nat
  BY <1>0, Constants DEF NULL
<1>6. /\ PagesFor(size) \in Nat /\ bytes \in Nat /\ MajorHeader + Need(size) <= bytes
  BY <1>0, <1>2, RunLongEnough
<1>7. PICK spare, looked :
        /\ spare = [b \in DOMAIN major \cup {new} |->
                      IF b = new THEN bytes - MajorHeader ELSE Spare(b)]
        /\ looked = (IF last = NULL THEN << new >>
                     ELSE IF Spare(last) >= Need(size) THEN Append(runs, new)
                     ELSE runs)
  OBVIOUS
<1>8. /\ Insert(new, at, NULL, NULL, size, req, data)
      /\ major' = [b \in DOMAIN major \cup {new} |->
                     IF b = new
                       THEN [prev |-> last, next |-> NULL,
                             pages |-> PagesFor(size), size |-> bytes,
                             usage |-> MajorHeader + Need(size), first |-> at]
                       ELSE [major[b] EXCEPT !.next = IF b = last THEN new ELSE @]]
      /\ l_memRoot' = (IF last = NULL THEN new ELSE l_memRoot)
      /\ l_bestBet' = BestBet(looked, spare)
  BY <1>0, <1>7 DEF PlaceInNewRun
<1>9. /\ DOMAIN major' = DOMAIN major \cup {new}
      /\ major' = [b \in DOMAIN major' |-> major'[b]]
      /\ major'[new] = [prev |-> last, next |-> NULL,
                        pages |-> PagesFor(size), size |-> bytes,
                        usage |-> MajorHeader + Need(size), first |-> at]
      /\ \A b \in DOMAIN major :
           major'[b] = [major[b] EXCEPT !.next = IF b = last THEN new ELSE @]
  BY <1>5, <1>8
<1>10. /\ major'[new].prev = last /\ major'[new].next = NULL /\ major'[new].size = bytes
       /\ major'[new].usage = MajorHeader + Need(size) /\ major'[new].first = at
  BY <1>9
<1>11. ASSUME NEW b \in DOMAIN major
       PROVE  /\ major'[b] \in Runs /\ b \in Nat
              /\ major'[b].prev = major[b].prev /\ major'[b].size = major[b].size
              /\ major'[b].usage = major[b].usage /\ major'[b].first = major[b].first
              /\ major'[b].next = (IF b = last THEN new ELSE major[b].next)
  <2>1. b \in Nat /\ major[b] \in Runs
    BY <1>1, MajorFields
  <2>2. major'[b] = [prev |-> major[b].prev,
                     next |-> IF b = last THEN new ELSE major[b].next,
                     pages |-> major[b].pages, size |-> major[b].size,
                     usage |-> major[b].usage, first |-> major[b].first]
    BY <1>9, <2>1 DEF Runs
  <2> QED
    BY <1>5, <2>1, <2>2 DEF Runs
<1>12. \A b \in DOMAIN major : b + major[b].size <= new \/ new + bytes <= b
  BY <1>5, <1>9, <1>10 DEF OutOfUse
<1>13. Live \cap Overwritten(at, size) = {} /\ at \notin Live
  <2>1. ASSUME NEW m \in Live
        PROVE  /\ ~ (m + MinorHeader > at /\ m < at + Need(size))
               /\ m # at
    <3>1. m \in DOMAIN minor
      BY DEF Live
    <3>2. /\ m \in Nat /\ minor[m].block \in DOMAIN major
          /\ Need(minor[m].size) \in Nat /\ Need(minor[m].size) >= MinorHeader
      BY <1>1, <3>1, MinorFields
    <3>3. PICK b, z, u : b = minor[m].block /\ z = major[b].size /\ u = Need(minor[m].size)
      OBVIOUS
    <3>4. /\ b \in DOMAIN major /\ b \in Nat /\ z \in Nat
          /\ b + MajorHeader <= m /\ m + u <= b + z /\ u \in Nat /\ u >= MinorHeader
      BY <1>1, <3>1, <3>2, <3>3, MajorFields DEF Headers
    <3>5. b + z <= new \/ new + bytes <= b
      BY <1>12, <3>3, <3>4
    <3>6. m \in Nat
      BY <3>2
    <3>7. PICK h, e, w : h = MajorHeader /\ e = MinorHeader /\ w = Need(size)
      OBVIOUS
    <3>8. /\ h \in Nat /\ e \in Nat /\ e > 0 /\ w \in Nat /\ w >= e /\ h > 0
          /\ new \in Nat /\ at = new + h /\ bytes \in Nat /\ h + w <= bytes
      BY <1>0, <1>2, <1>5, <1>6, <3>7, Constants
    <3>9. b \in Nat /\ z \in Nat /\ u \in Nat /\ b + h <= m /\ m + u <= b + z /\ u >= e
      BY <3>4, <3>7
    <3>10. ~ (m + e > at /\ m < at + w) /\ m # at
      <4>1. CASE b + z <= new
        BY <3>6, <3>8, <3>9, <4>1
      <4>2. CASE new + bytes <= b
        BY <3>6, <3>8, <3>9, <4>2
      <4> QED
        BY <3>5, <4>1, <4>2
    <3> QED
      BY <3>7, <3>10
  <2> QED
    BY <2>1 DEF Overwritten
<1>14. Placed(new, at, NULL, NULL, size, req, data)
  <2>1. Padded(req) <= size
    BY <1>0, <1>2
  <2>2. new + MajorHeader <= at
    BY <1>0, <1>5
  <2>3. at + Need(size) <= new + major'[new].size
    BY <1>0, <1>2, <1>5, <1>6, <1>10
  <2>4. NULL \in Nat
    BY DEF NULL
  <2> QED
    BY <1>2, <1>5, <1>8, <1>9, <1>11, <1>13, <2>1, <2>2, <2>3, <2>4 DEF Placed
<1>15. Headers'
  BY <1>1, <1>14, HeadersAfterInsert
<1>16. Typed'
  <2>1. /\ IsFiniteSet(DOMAIN minor') /\ DOMAIN minor' \subseteq Nat \ {NULL}
        /\ minor' \in [DOMAIN minor' -> Blocks']
    BY <1>1, <1>14, TypedAfterInsert
  <2>2. last \in Nat
    <3>1. DOMAIN NextRuns = DOMAIN major
      BY DEF NextRuns
    <3>2. R \in Seq(DOMAIN major)
      BY <1>3, <3>1 DEF RunsAre, Path
    <3>3. R # << >> => R[Len(R)] \in DOMAIN major
      BY <3>2
    <3> QED
      BY <1>1, <1>4, <3>3 DEF Typed, NULL
  <2>3. major'[new] \in Runs
    BY <1>2, <1>5, <1>6, <1>9, <2>2 DEF Runs, NULL
  <2>4. major' \in [DOMAIN major' -> Runs]
    BY <1>9, <1>11, <2>3
  <2>5. l_bestBet' \in DOMAIN major' \cup {NULL}
    <3>1. PICK A : A = DOMAIN major \cup {new} \cup {NULL}
      OBVIOUS
    <3>2. l_bestBet \in A /\ runs \in Seq(A) /\ new \in A
      BY <1>1, <1>4, <3>1 DEF Typed
    <3>3. looked \in Seq(A)
      BY <1>7, <3>2
    <3>4. BestBet(looked, spare) \in A
      BY <3>2, <3>3, BetIsLooked
    <3> QED
      BY <1>8, <1>9, <3>1, <3>4
  <2>6. IsFiniteSet(DOMAIN major') /\ DOMAIN major' \subseteq Nat \ {NULL}
    <3>1. IsFiniteSet(DOMAIN major \cup {new})
      BY <1>1, FS_AddElement DEF Typed
    <3> QED
      BY <1>1, <1>5, <1>9, <3>1 DEF Typed
  <2> QED
    BY <2>1, <2>4, <2>5, <2>6 DEF Typed
<1>17. RunsDisjoint'
  <2>1. SUFFICES ASSUME NEW b \in DOMAIN major', NEW c \in DOMAIN major', b # c
                 PROVE  \/ b + major'[b].size <= c
                        \/ c + major'[c].size <= b
    BY DEF RunsDisjoint
  <2>2. b # c
    BY <2>1
  <2>3. CASE b = new
    <3>1. c \in DOMAIN major
      BY <1>9, <2>2, <2>3
    <3> QED
      BY <1>10, <1>11, <1>12, <2>3, <3>1
  <2>4. CASE c = new
    <3>1. b \in DOMAIN major
      BY <1>9, <2>2, <2>4
    <3> QED
      BY <1>10, <1>11, <1>12, <2>4, <3>1
  <2>5. CASE b # new /\ c # new
    <3>1. b \in DOMAIN major /\ c \in DOMAIN major
      BY <1>9, <2>5
    <3> QED
      BY <1>1, <1>11, <2>2, <3>1 DEF RunsDisjoint
  <2> QED
    BY <2>3, <2>4, <2>5
<1>18. ASSUME NEW b \in DOMAIN major'
       PROVE  \E T : BlocksOf(b, T)'
  <2>1. CASE b = new
    <3>1. major'[new].usage <= major'[new].size
      BY <1>6, <1>10
    <3>2. BlocksOf(new, << at >>)'
      BY <1>1, <1>5, <1>10, <1>14, <3>1, FirstBlock
    <3> QED
      BY <2>1, <3>2
  <2>2. CASE b # new
    <3>1. b \in DOMAIN major
      BY <1>9, <2>2
    <3>2. PICK T : BlocksOf(b, T)
      BY <3>1 DEF HeapInv
    <3>3. BlocksOf(b, T)'
      BY <1>1, <1>11, <1>14, <2>2, <3>1, <3>2, OthersAfterInsert
    <3> QED
      BY <3>3
  <2> QED
    BY <2>1, <2>2
<1>19. RunsAre(Append(R, new))'
  <2>1. \A b \in DOMAIN major :
          /\ major'[b].prev = major[b].prev
          /\ major'[b].next = (IF b = last THEN new ELSE major[b].next)
    BY <1>11
  <2>2. l_memRoot' = (IF last = NULL THEN new ELSE l_memRoot)
    BY <1>8
  <2>3. DOMAIN major' = DOMAIN major \cup {new}
    BY <1>9
  <2> QED
    BY <1>1, <1>3, <1>4, <1>5, <1>10, <2>1, <2>2, <2>3, RunAppended
<1>20. HeapInv'
  BY <1>15, <1>16, <1>17, <1>18, <1>19 DEF HeapInv
<1>21. /\ LiveKept /\ at \in Live' /\ at \notin Live /\ minor'[at].data = data
       /\ Live' = Live \cup {at}
  BY <1>1, <1>14, LiveAfterInsert
<1> QED
  BY <1>0, <1>20, <1>21

\* A step that leaves the runs and the lists alone.
LEMMA ContentsChange ==
  ASSUME HeapInv, UNCHANGED <<major, l_memRoot>>, l_bestBet' \in DOMAIN major \cup {NULL},
         DOMAIN minor' = DOMAIN minor, minor' = [x \in DOMAIN minor |-> minor'[x]],
         \A x \in DOMAIN minor : /\ SameHeader(x) /\ minor'[x] \in Blocks
                                 /\ Padded(minor'[x].req_size) <= minor'[x].size
  PROVE  HeapInv' /\ Live' = Live
<1>1. Typed /\ Headers /\ RunsDisjoint
  BY DEF HeapInv
<1>2. Typed'
  <2>1. Blocks' = Blocks
    BY DEF Blocks
  <2>2. minor' \in [DOMAIN minor' -> Blocks']
    BY <2>1
  <2> QED
    BY <1>1, <2>2 DEF Typed
<1>3. Headers'
  BY <1>1 DEF Headers, SameHeader
<1>4. RunsDisjoint'
  BY <1>1 DEF RunsDisjoint
<1>5. Live' = Live
  BY DEF Live, SameHeader
<1>6. ASSUME NEW a \in DOMAIN major, NEW L, BlocksOf(a, L)
      PROVE  BlocksOf(a, L)'
  <2>1. \A k \in 1 .. Len(L) : L[k] \in DOMAIN minor' /\ SameHeader(L[k])
    BY <1>1, <1>6, BlockFields
  <2>2. \A m \in Live' : minor'[m].block = a => m \in Live /\ minor[m].block = a
    BY <1>5 DEF Live, SameHeader
  <2> QED
    BY <1>6, <2>1, <2>2, ListKept
<1>7. \A a \in DOMAIN major' : \E L : BlocksOf(a, L)'
  BY <1>6 DEF HeapInv
<1>8. \E R : RunsAre(R)'
  BY DEF HeapInv, RunsAre, NextRuns
<1> QED
  BY <1>2, <1>3, <1>4, <1>5, <1>7, <1>8 DEF HeapInv

LEMMA NothingChanges ==
  ASSUME HeapInv, UNCHANGED <<major, minor, l_memRoot, l_bestBet>>
  PROVE  HeapInv' /\ Live' = Live
<1>1. Typed /\ Headers
  BY DEF HeapInv
<1>2. /\ DOMAIN minor' = DOMAIN minor /\ minor' = [x \in DOMAIN minor |-> minor'[x]]
      /\ l_bestBet' \in DOMAIN major \cup {NULL}
  BY <1>1 DEF Typed
<1>3. \A x \in DOMAIN minor :
        /\ SameHeader(x) /\ minor'[x] \in Blocks
        /\ Padded(minor'[x].req_size) <= minor'[x].size
  BY <1>1, MinorFields DEF Headers, SameHeader
<1> QED
  BY <1>2, <1>3, ContentsChange

\* malloc where nothing is found.
LEMMA NowhereKeeps ==
  ASSUME HeapInv, NEW req \in Requests, PlaceNowhere(req)
  PROVE  HeapInv' /\ UNCHANGED <<major, minor>>
<1>1. PICK size, spare : size = Padded(req) /\ spare = [b \in DOMAIN major |-> Spare(b)]
  OBVIOUS
<1>2. /\ l_bestBet' = BestBet(Searched(size), spare)
      /\ major' = major /\ minor' = minor /\ l_memRoot' = l_memRoot
  BY <1>1 DEF PlaceNowhere
<1>3. l_bestBet' \in DOMAIN major \cup {NULL}
  <2>1. PICK A : A = DOMAIN major \cup {NULL}
    OBVIOUS
  <2>2. PICK R : RunsAre(R)
    BY DEF HeapInv
  <2>3. Searched(size) \in Seq(DOMAIN major)
    BY <2>2, SearchedRuns DEF HeapInv
  <2>4. l_bestBet \in A /\ Searched(size) \in Seq(A)
    BY <2>1, <2>3 DEF HeapInv, Typed
  <2>5. BestBet(Searched(size), spare) \in A
    BY <2>4, BetIsLooked
  <2> QED
    BY <1>2, <2>1, <2>5
<1>4. Typed /\ Headers
  BY DEF HeapInv
<1>5. DOMAIN minor' = DOMAIN minor /\ minor' = [x \in DOMAIN minor |-> minor'[x]]
  BY <1>2, <1>4 DEF Typed
<1>6. \A x \in DOMAIN minor : /\ SameHeader(x) /\ minor'[x] \in Blocks
                              /\ Padded(minor'[x].req_size) <= minor'[x].size
  BY <1>2, <1>4, MinorFields DEF Headers, SameHeader
<1>7. HeapInv'
  BY <1>2, <1>3, <1>5, <1>6, ContentsChange
<1> QED
  BY <1>2, <1>7

\* Every malloc: a pointer to a block that was not there, or nothing.
LEMMA MallocKeeps ==
  ASSUME HeapInv, NEW req \in Requests, NEW new \in Grants,
         NEW data \in Cores \cup {Junk}, malloc(req, new, data), OutOfUse
  PROVE  /\ HeapInv' /\ LiveKept
         /\ \E p \in Nat : /\ p = Returned(req, new)
                           /\ p # NULL => Holds(p, data)' /\ \A d : ~ Holds(p, d)
<1>1. ASSUME HeapInv',
             NEW at \in Live', at \notin Live, Live' = Live \cup {at}, minor'[at].data = data,
             LiveKept, NEW p, p = PointerTo(at)
      PROVE  p \in Nat /\ Holds(p, data)' /\ \A d : ~ Holds(p, d)
  <2>1. Holds(p, data)'
    BY <1>1 DEF Holds
  <2>2. at \in Nat
    BY <1>1 DEF HeapInv, Typed, Live
  <2>3. p \in Nat
    BY <1>1, <2>2, PointerBehind
  <2>4. ASSUME NEW m \in Live, PointerTo(m) = p
        PROVE  FALSE
    <3>1. m \in Live' /\ m # at
      BY <1>1
    <3>2. m \in Nat /\ Typed' /\ Headers' /\ m \in DOMAIN minor' /\ at \in DOMAIN minor'
      BY <1>1, <3>1 DEF HeapInv, Typed, Live
    <3>3. m + MinorHeader <= at \/ at + MinorHeader <= m
      <4>1. m < at \/ at < m
        BY <2>2, <3>1, <3>2
      <4> QED
        BY <3>2, <4>1 DEF Headers
    <3>4. /\ m + MinorHeader + ALIGN_INFO <= p
          /\ p < m + MinorHeader + ALIGN_INFO + ALIGNMENT
          /\ at + MinorHeader + ALIGN_INFO <= p
          /\ p < at + MinorHeader + ALIGN_INFO + ALIGNMENT
      BY <1>1, <2>2, <2>4, <3>2, PointerBehind
    <3>5. m \in Nat
      BY <3>2
    <3> QED
      BY <2>2, <2>3, <3>3, <3>4, <3>5, Constants
  <2> QED
    BY <2>1, <2>3, <2>4 DEF Holds
<1>2. CASE PlaceInRun(req, data) /\ new = NULL
  <2>1. Fit(Padded(req)) # 0
    BY <1>2 DEF PlaceInRun
  <2>2. Returned(req, new) = PointerTo(Place(Padded(req)).at)
    BY <2>1 DEF Returned
  <2>3. HeapInv' /\ LiveKept
    BY <1>2, InRunKeeps
  <2>4. PICK at \in Live' : /\ at \notin Live /\ Live' = Live \cup {at}
                            /\ PointerTo(at) = PointerTo(Place(Padded(req)).at)
                            /\ minor'[at].data = data
    BY <1>2, InRunKeeps
  <2>5. PICK p : p = PointerTo(at)
    OBVIOUS
  <2>6. p \in Nat /\ Holds(p, data)' /\ \A d : ~ Holds(p, d)
    BY <1>1, <2>3, <2>4, <2>5
  <2>7. Returned(req, new) = p
    BY <2>2, <2>4, <2>5
  <2> QED
    BY <2>3, <2>6, <2>7
<1>3. CASE new # NULL /\ PlaceInNewRun(req, new, data)
  <2>1. Fit(Padded(req)) = 0
    BY <1>3 DEF PlaceInNewRun
  <2>2. Returned(req, new) = PointerTo(new + MajorHeader)
    BY <1>3, <2>1 DEF Returned
  <2>3. new \in Bases \ DOMAIN major
    BY <1>3 DEF Grants
  <2>4. HeapInv' /\ LiveKept
    BY <1>3, <2>3, NewRunKeeps
  <2>5. PICK at \in Live' : /\ at \notin Live /\ Live' = Live \cup {at}
                            /\ at = new + MajorHeader
                            /\ minor'[at].data = data
    BY <1>3, <2>3, NewRunKeeps
  <2>6. PICK p : p = PointerTo(at)
    OBVIOUS
  <2>7. p \in Nat /\ Holds(p, data)' /\ \A d : ~ Holds(p, d)
    BY <1>1, <2>4, <2>5, <2>6
  <2>8. Returned(req, new) = p
    BY <2>2, <2>5, <2>6
  <2> QED
    BY <2>4, <2>7, <2>8
<1>4. CASE new = NULL /\ PlaceNowhere(req)
  <2>1. Fit(Padded(req)) = 0
    BY <1>4 DEF PlaceNowhere
  <2>2. Returned(req, new) = NULL
    BY <1>4, <2>1 DEF Returned
  <2>3. HeapInv' /\ minor' = minor
    BY <1>4, NowhereKeeps
  <2>4. LiveKept
    BY <2>3 DEF LiveKept, Live
  <2>5. PICK p : p = NULL
    OBVIOUS
  <2>6. p \in Nat /\ p = Returned(req, new)
    BY <2>2, <2>5 DEF NULL
  <2> QED
    BY <2>3, <2>4, <2>5, <2>6
<1> QED
  BY <1>2, <1>3, <1>4 DEF malloc

-----------------------------------------------------------------------------
(* free *)

\* L without its j-th member.
Shorter(L, j) == [k \in 1 .. Len(L) - 1 |-> IF k < j THEN L[k] ELSE L[k + 1]]

LEMMA ShorterMembers ==
  ASSUME NEW S, NEW L \in Seq(S), NEW j \in 1 .. Len(L)
  PROVE  /\ Shorter(L, j) \in Seq(S) /\ Len(Shorter(L, j)) = Len(L) - 1
         /\ \A k \in 1 .. Len(L) - 1 :
              /\ k < j => k \in 1 .. Len(L) /\ Shorter(L, j)[k] = L[k]
              /\ k >= j => k + 1 \in 1 .. Len(L) /\ Shorter(L, j)[k] = L[k + 1]
         /\ \A i \in 1 .. Len(L) :
              i # j => \E k \in 1 .. Len(L) - 1 : Shorter(L, j)[k] = L[i]
<1>1. PICK n : n = Len(L)
  OBVIOUS
<1>2. n \in Nat /\ n - 1 \in Nat /\ j \in 1 .. n
  BY <1>1
<1>3. \A k \in 1 .. n - 1 : k \in 1 .. n /\ k + 1 \in 1 .. n
  BY <1>2
<1>4. \A k \in 1 .. n - 1 : Shorter(L, j)[k] = IF k < j THEN L[k] ELSE L[k + 1]
  BY <1>1 DEF Shorter
<1>5. Shorter(L, j) \in Seq(S) /\ Len(Shorter(L, j)) = n - 1
  <2>1. \A k \in 1 .. n - 1 : (IF k < j THEN L[k] ELSE L[k + 1]) \in S
    BY <1>1, <1>3
  <2>2. Shorter(L, j) = [k \in 1 .. n - 1 |-> IF k < j THEN L[k] ELSE L[k + 1]]
    BY <1>1 DEF Shorter
  <2> QED
    BY <1>2, <2>1, <2>2
<1>6. ASSUME NEW i \in 1 .. n, i # j
      PROVE  \E k \in 1 .. n - 1 : Shorter(L, j)[k] = L[i]
  <2>1. CASE i < j
    <3>1. i \in 1 .. n - 1
      BY <1>2, <2>1
    <3> QED
      BY <1>4, <2>1, <3>1
  <2>2. CASE i > j
    <3>1. i - 1 \in 1 .. n - 1 /\ ~ (i - 1 < j) /\ (i - 1) + 1 = i
      BY <1>2, <2>2
    <3> QED
      BY <1>4, <3>1
  <2> QED
    BY <1>2, <1>6, <2>1, <2>2
<1>7. \A k \in 1 .. n - 1 : k < j => Shorter(L, j)[k] = L[k]
  BY <1>4
<1>8. \A k \in 1 .. n - 1 : k >= j => Shorter(L, j)[k] = L[k + 1]
  BY <1>2, <1>4
<1> QED
  BY <1>1, <1>3, <1>5, <1>6, <1>7, <1>8

\* Taking a member out: the one in front is linked to the one behind.
TakenOut(L, j, link, back, link2, back2) ==
  \A k \in 1 .. Len(L) : k # j =>
    /\ L[k] \in DOMAIN link2
    /\ link2[L[k]] = (IF L[k] = back[L[j]] THEN link[L[j]] ELSE link[L[k]])
    /\ back2[L[k]] = (IF L[k] = link[L[j]] THEN back[L[j]] ELSE back[L[k]])

LEMMA ShorterPath ==
  ASSUME NEW start, NEW link, NEW L, Path(L, start, link), NULL \notin DOMAIN link,
         NEW j \in 1 .. Len(L), NEW back, NEW link2, NEW back2,
         \A k \in 1 .. Len(L) : back[L[k]] = IF k = 1 THEN NULL ELSE L[k - 1],
         TakenOut(L, j, link, back, link2, back2),
         NEW start2, start2 = (IF j = 1 THEN link[L[j]] ELSE start)
  PROVE  /\ Path(Shorter(L, j), start2, link2)
         /\ \A k \in 1 .. Len(Shorter(L, j)) :
              back2[Shorter(L, j)[k]] = IF k = 1 THEN NULL ELSE Shorter(L, j)[k - 1]
<1>0. PICK n, T : n = Len(L) /\ T = Shorter(L, j)
  OBVIOUS
<1>1. /\ L \in Seq(DOMAIN link) /\ n \in Nat /\ n - 1 \in Nat /\ j \in 1 .. n
      /\ L # << >> /\ start = L[1]
      /\ \A k \in 1 .. n : L[k] \in DOMAIN link /\ L[k] # NULL
      /\ \A k \in 1 .. n : link[L[k]] = IF k = n THEN NULL ELSE L[k + 1]
      /\ \A k \in 1 .. n : back[L[k]] = IF k = 1 THEN NULL ELSE L[k - 1]
      /\ \A i, k \in 1 .. n : L[i] = L[k] => i = k
  <2>1. L \in Seq(DOMAIN link) /\ IsInjective(L)
    BY DEF Path
  <2>2. n \in Nat /\ j \in 1 .. n /\ n - 1 \in Nat /\ L # << >>
    BY <1>0, <2>1
  <2>3. \A k \in 1 .. n : L[k] \in DOMAIN link /\ L[k] # NULL
    BY <1>0, <2>1
  <2>4. \A i, k \in 1 .. n : L[i] = L[k] => i = k
    BY <1>0, <2>1 DEF IsInjective
  <2> QED
    BY <1>0, <2>1, <2>2, <2>3, <2>4 DEF Path
<1>2. /\ T \in Seq(DOMAIN link) /\ Len(T) = n - 1
      /\ \A k \in 1 .. n - 1 : k < j => k \in 1 .. n /\ T[k] = L[k]
      /\ \A k \in 1 .. n - 1 : k >= j => k + 1 \in 1 .. n /\ T[k] = L[k + 1]
  <2>1. /\ Shorter(L, j) \in Seq(DOMAIN link) /\ Len(Shorter(L, j)) = Len(L) - 1
        /\ \A k \in 1 .. Len(L) - 1 :
             /\ k < j => k \in 1 .. Len(L) /\ Shorter(L, j)[k] = L[k]
             /\ k >= j => k + 1 \in 1 .. Len(L) /\ Shorter(L, j)[k] = L[k + 1]
    BY <1>1, ShorterMembers
  <2> QED
    BY <1>0, <2>1
<1>3. \A k \in 1 .. n : k # j =>
        /\ L[k] \in DOMAIN link2
        /\ link2[L[k]] = (IF L[k] = back[L[j]] THEN link[L[j]] ELSE link[L[k]])
        /\ back2[L[k]] = (IF L[k] = link[L[j]] THEN back[L[j]] ELSE back[L[k]])
  BY <1>0 DEF TakenOut
\* Links of the members that stay, by their place.
<1>4. ASSUME NEW k \in 1 .. n, k # j
      PROVE  link2[L[k]] = (IF k + 1 = j THEN IF j = n THEN NULL ELSE L[j + 1]
                            ELSE IF k = n THEN NULL ELSE L[k + 1])
  <2>1. link2[L[k]] = (IF L[k] = back[L[j]] THEN link[L[j]] ELSE link[L[k]])
    BY <1>3, <1>4
  <2>2. back[L[j]] = IF j = 1 THEN NULL ELSE L[j - 1]
    BY <1>1
  <2>3. L[k] = back[L[j]] <=> k + 1 = j
    <3>1. CASE j = 1
      <4>1. k + 1 # j
        BY <3>1
      <4> QED
        BY <1>1, <2>2, <3>1, <4>1
    <3>2. CASE j # 1
      <4>1. j - 1 \in 1 .. n /\ (k = j - 1 <=> k + 1 = j)
        BY <1>1, <3>2
      <4>2. L[k] = L[j - 1] <=> k = j - 1
        BY <1>1, <4>1
      <4> QED
        BY <2>2, <3>2, <4>1, <4>2
    <3> QED
      BY <3>1, <3>2
  <2>4. /\ link[L[j]] = IF j = n THEN NULL ELSE L[j + 1]
        /\ link[L[k]] = IF k = n THEN NULL ELSE L[k + 1]
    BY <1>1
  <2> QED
    BY <2>1, <2>3, <2>4
<1>5. ASSUME NEW k \in 1 .. n, k # j
      PROVE  back2[L[k]] = (IF k = j + 1 THEN IF j = 1 THEN NULL ELSE L[j - 1]
                            ELSE IF k = 1 THEN NULL ELSE L[k - 1])
  <2>1. back2[L[k]] = (IF L[k] = link[L[j]] THEN back[L[j]] ELSE back[L[k]])
    BY <1>3, <1>5
  <2>2. link[L[j]] = IF j = n THEN NULL ELSE L[j + 1]
    BY <1>1
  <2>3. L[k] = link[L[j]] <=> k = j + 1
    <3>1. CASE j = n
      <4>1. k # j + 1
        BY <1>1, <3>1
      <4> QED
        BY <1>1, <2>2, <3>1, <4>1
    <3>2. CASE j # n
      <4>1. j + 1 \in 1 .. n
        BY <1>1, <3>2
      <4>2. L[k] = L[j + 1] <=> k = j + 1
        BY <1>1, <4>1
      <4> QED
        BY <2>2, <3>2, <4>2
    <3> QED
      BY <3>1, <3>2
  <2>4. /\ back[L[j]] = IF j = 1 THEN NULL ELSE L[j - 1]
        /\ back[L[k]] = IF k = 1 THEN NULL ELSE L[k - 1]
    BY <1>1
  <2> QED
    BY <2>1, <2>3, <2>4
<1>6. ASSUME NEW k \in 1 .. n - 1
      PROVE  /\ T[k] \in DOMAIN link2
             /\ link2[T[k]] = (IF k = n - 1 THEN NULL ELSE T[k + 1])
             /\ back2[T[k]] = (IF k = 1 THEN NULL ELSE T[k - 1])
  <2>0. k \in Nat /\ k >= 1 /\ k <= n - 1 /\ k \in 1 .. n /\ k + 1 \in 1 .. n
        /\ j \in Nat /\ n \in Nat /\ j >= 1 /\ j <= n
    BY <1>1
  <2>1. CASE k < j
    <3>1. T[k] = L[k] /\ k # j /\ L[k] \in DOMAIN link2
      BY <1>2, <1>3, <2>0, <2>1
    <3>2. link2[T[k]] = (IF k = n - 1 THEN NULL ELSE T[k + 1])
      <4>1. CASE k + 1 = j
        <5>1. link2[T[k]] = IF j = n THEN NULL ELSE L[j + 1]
          BY <1>4, <3>1, <2>0, <4>1
        <5>2. j = n <=> k = n - 1
          BY <2>0, <4>1
        <5>3. k # n - 1 => T[k + 1] = L[j + 1]
          <6>1. k # n - 1 => k + 1 \in 1 .. n - 1 /\ k + 1 >= j
            BY <2>0, <4>1
          <6> QED
            BY <1>2, <4>1, <6>1
        <5> QED
          BY <5>1, <5>2, <5>3
      <4>2. CASE k + 1 # j
        <5>1. k + 1 < j /\ k + 1 \in 1 .. n - 1 /\ k # n /\ k # n - 1
          BY <2>0, <2>1, <4>2
        <5>2. link2[T[k]] = L[k + 1]
          BY <1>4, <2>0, <3>1, <4>2, <5>1
        <5>3. T[k + 1] = L[k + 1]
          BY <1>2, <5>1
        <5> QED
          BY <5>1, <5>2, <5>3
      <4> QED
        BY <4>1, <4>2
    <3>3. back2[T[k]] = (IF k = 1 THEN NULL ELSE T[k - 1])
      <4>1. k # j + 1
        BY <2>0, <2>1
      <4>2. back2[T[k]] = (IF k = 1 THEN NULL ELSE L[k - 1])
        BY <1>5, <2>0, <3>1, <4>1
      <4>3. k # 1 => T[k - 1] = L[k - 1]
        <5>1. k # 1 => k - 1 \in 1 .. n - 1 /\ k - 1 < j
          BY <2>0, <2>1
        <5> QED
          BY <1>2, <5>1
      <4> QED
        BY <4>2, <4>3
    <3> QED
      BY <3>1, <3>2, <3>3
  <2>2. CASE k >= j
    <3>1. T[k] = L[k + 1] /\ k + 1 # j /\ L[k + 1] \in DOMAIN link2
      <4>1. k + 1 # j
        BY <2>0, <2>2
      <4> QED
        BY <1>2, <1>3, <2>0, <2>2, <4>1
    <3>2. link2[T[k]] = (IF k = n - 1 THEN NULL ELSE T[k + 1])
      <4>1. (k + 1) + 1 # j /\ (k + 1 = n <=> k = n - 1)
        BY <2>0, <2>2
      <4>2. link2[T[k]] = (IF k + 1 = n THEN NULL ELSE L[(k + 1) + 1])
        BY <1>4, <2>0, <3>1, <4>1
      <4>3. k # n - 1 => T[k + 1] = L[(k + 1) + 1]
        <5>1. k # n - 1 => k + 1 \in 1 .. n - 1 /\ k + 1 >= j
          BY <2>0, <2>2
        <5> QED
          BY <1>2, <5>1
      <4> QED
        BY <4>1, <4>2, <4>3
    <3>3. back2[T[k]] = (IF k = 1 THEN NULL ELSE T[k - 1])
      <4>1. CASE k = j
        <5>1. back2[T[k]] = IF j = 1 THEN NULL ELSE L[j - 1]
          BY <1>5, <2>0, <3>1, <4>1
        <5>2. k # 1 => T[k - 1] = L[k - 1]
          <6>1. k # 1 => k - 1 \in 1 .. n - 1 /\ k - 1 < j
            BY <2>0, <4>1
          <6> QED
            BY <1>2, <6>1
        <5> QED
          BY <4>1, <5>1, <5>2
      <4>2. CASE k # j
        <5>1. /\ k + 1 # j + 1 /\ k + 1 # 1 /\ (k + 1) - 1 = k /\ k # 1
              /\ k - 1 \in 1 .. n - 1 /\ k - 1 >= j /\ (k - 1) + 1 = k
          BY <2>0, <2>2, <4>2
        <5>2. back2[T[k]] = L[k]
          <6>1. back2[L[k + 1]] = L[(k + 1) - 1]
            BY <1>5, <2>0, <3>1, <5>1
          <6> QED
            BY <3>1, <5>1, <6>1
        <5>3. T[k - 1] = L[k]
          BY <1>2, <5>1
        <5> QED
          BY <5>1, <5>2, <5>3
      <4> QED
        BY <4>1, <4>2
    <3> QED
      BY <3>1, <3>2, <3>3
  <2> QED
    BY <2>0, <2>1, <2>2
<1>7. IsInjective(T)
  <2>1. ASSUME NEW i \in 1 .. n - 1, NEW k \in 1 .. n - 1, T[i] = T[k]
        PROVE  i = k
    <3>1. i \in Nat /\ k \in Nat /\ j \in Nat
      BY <1>1
    <3>2. \/ i < j /\ T[i] = L[i] /\ i \in 1 .. n
          \/ i >= j /\ T[i] = L[i + 1] /\ i + 1 \in 1 .. n
      BY <1>2, <3>1
    <3>3. \/ k < j /\ T[k] = L[k] /\ k \in 1 .. n
          \/ k >= j /\ T[k] = L[k + 1] /\ k + 1 \in 1 .. n
      BY <1>2, <3>1
    <3>4. \/ i < j /\ k < j /\ i = k
          \/ i < j /\ k >= j /\ i = k + 1
          \/ i >= j /\ k < j /\ i + 1 = k
          \/ i >= j /\ k >= j /\ i + 1 = k + 1
      BY <1>1, <2>1, <3>2, <3>3
    <3> QED
      BY <3>1, <3>4
  <2>2. DOMAIN T = 1 .. n - 1
    BY <1>2
  <2> QED
    BY <2>1, <2>2 DEF IsInjective
<1>8. start2 = IF T = << >> THEN NULL ELSE T[1]
  <2>1. CASE n = 1
    <3>1. j = 1 /\ T = << >>
      BY <1>1, <1>2, <2>1
    <3> QED
      BY <1>1, <2>1, <3>1
  <2>2. CASE n # 1
    <3>1. 1 \in 1 .. n - 1 /\ T # << >>
      BY <1>1, <1>2, <2>2
    <3>2. CASE j = 1
      <4>1. T[1] = L[1 + 1] /\ link[L[1]] = L[1 + 1]
        <5>1. 1 \in 1 .. n /\ 1 >= j
          BY <1>1, <3>2
        <5> QED
          BY <1>1, <1>2, <2>2, <3>1, <5>1
      <4> QED
        BY <3>1, <3>2, <4>1
    <3>3. CASE j # 1
      <4>1. 1 < j
        BY <1>1, <3>3
      <4>2. T[1] = L[1]
        BY <1>2, <3>1, <4>1
      <4> QED
        BY <1>1, <3>1, <3>3, <4>2
    <3> QED
      BY <3>2, <3>3
  <2> QED
    BY <2>1, <2>2
<1>9. T \in Seq(DOMAIN link2)
  <2>1. \A k \in 1 .. n - 1 : T[k] \in DOMAIN link2
    BY <1>6
  <2>2. T \in Seq(DOMAIN link) /\ Len(T) = n - 1
    BY <1>2
  <2> QED
    BY <2>1, <2>2
<1> QED
  BY <1>0, <1>2, <1>6, <1>7, <1>8, <1>9 DEF Path

\* One live block less.
LiveBut(m) ==
  /\ Live' = Live \ {m}
  /\ \A x \in Live' : minor'[x].data = minor[x].data

\* What ReleaseBlock does to the header of a block.
Unlinked(x, m) ==
  /\ minor'[x] \in Blocks
  /\ minor'[x].magic = (IF x = m THEN LIBALLOC_DEAD ELSE minor[x].magic)
  /\ minor'[x].next = (IF x = minor[m].prev THEN minor[m].next ELSE minor[x].next)
  /\ minor'[x].prev = (IF x = minor[m].next THEN minor[m].prev ELSE minor[x].prev)
  /\ minor'[x].block = minor[x].block /\ minor'[x].size = minor[x].size
  /\ minor'[x].req_size = minor[x].req_size /\ minor'[x].data = minor[x].data

\* The list of the run without the block.
LEMMA BlockTakenOut ==
  ASSUME Typed, NEW a \in DOMAIN major, NEW L, BlocksOf(a, L), NEW j \in 1 .. Len(L),
         Len(L) # 1,
         DOMAIN minor' = DOMAIN minor, \A x \in DOMAIN minor : Unlinked(x, L[j]),
         major'[a].first = (IF j = 1 THEN minor[L[j]].next ELSE major[a].first),
         major'[a].usage = major[a].usage - Need(minor[L[j]].size),
         major'[a].size = major[a].size
  PROVE  BlocksOf(a, Shorter(L, j))'
<1>0. PICK n, T, m : n = Len(L) /\ T = Shorter(L, j) /\ m = L[j]
  OBVIOUS
<1>1. /\ n \in Nat /\ n - 1 \in Nat /\ n > 1 /\ j \in 1 .. n /\ n - 1 >= 1
      /\ L \in Seq(DOMAIN minor)
      /\ \A k \in 1 .. n :
           /\ L[k] \in DOMAIN minor /\ L[k] \in Live /\ L[k] \in Nat /\ L[k] # NULL
           /\ minor[L[k]].block = a
           /\ minor[L[k]].prev = (IF k = 1 THEN NULL ELSE L[k - 1])
           /\ minor[L[k]].size \in Nat /\ Need(minor[L[k]].size) \in Nat
      /\ \A i, k \in 1 .. n : L[i] = L[k] => i = k
  <2>1. n \in Nat /\ n >= 1 /\ n # 1
    BY <1>0, BlockFields
  <2>2. n - 1 \in Nat /\ n > 1 /\ n - 1 >= 1
    BY <2>1
  <2>3. /\ L \in Seq(DOMAIN minor)
        /\ \A k \in 1 .. Len(L) :
             /\ L[k] \in DOMAIN minor /\ L[k] \in Live /\ L[k] \in Nat /\ L[k] # NULL
             /\ minor[L[k]].block = a
             /\ minor[L[k]].prev = (IF k = 1 THEN NULL ELSE L[k - 1])
             /\ minor[L[k]].size \in Nat /\ Need(minor[L[k]].size) \in Nat
        /\ \A i, k \in 1 .. Len(L) : L[i] = L[k] => i = k
    BY BlockFields
  <2> QED
    BY <1>0, <2>1, <2>2, <2>3
<1>2. /\ T \in Seq(DOMAIN minor) /\ Len(T) = n - 1 /\ T # << >>
      /\ \A k \in 1 .. n - 1 :
           /\ k < j => k \in 1 .. n /\ T[k] = L[k]
           /\ k >= j => k + 1 \in 1 .. n /\ T[k] = L[k + 1]
      /\ \A i \in 1 .. n : i # j => \E k \in 1 .. n - 1 : T[k] = L[i]
  <2>1. /\ Shorter(L, j) \in Seq(DOMAIN minor) /\ Len(Shorter(L, j)) = Len(L) - 1
        /\ \A k \in 1 .. Len(L) - 1 :
             /\ k < j => k \in 1 .. Len(L) /\ Shorter(L, j)[k] = L[k]
             /\ k >= j => k + 1 \in 1 .. Len(L) /\ Shorter(L, j)[k] = L[k + 1]
        /\ \A i \in 1 .. Len(L) :
             i # j => \E k \in 1 .. Len(L) - 1 : Shorter(L, j)[k] = L[i]
    BY SMTT(30), <1>1, ShorterMembers
  <2>2. Len(T) # 0
    BY <1>0, <1>1, <2>1
  <2> QED
    BY <1>0, <2>1, <2>2
<1>a. n \in Nat /\ j \in Nat
  BY <1>1
<1>b. \A k \in 1 .. n - 1 : k < j => k \in 1 .. n /\ T[k] = L[k]
  BY <1>2
<1>c. \A k \in 1 .. n - 1 : k >= j => k + 1 \in 1 .. n /\ T[k] = L[k + 1]
  BY <1>2
<1>3. \A k \in 1 .. n - 1 : \E i \in 1 .. n : i # j /\ T[k] = L[i]
  <2>1. ASSUME NEW k \in 1 .. n - 1
        PROVE  \E i \in 1 .. n : i # j /\ T[k] = L[i]
    <3>1. CASE k < j
      <4>1. k \in 1 .. n /\ T[k] = L[k] /\ k # j
        BY <1>a, <1>b, <3>1
      <4> QED
        BY <4>1
    <3>2. CASE k >= j
      <4>1. k + 1 \in 1 .. n /\ T[k] = L[k + 1] /\ k + 1 # j
        BY <1>a, <1>c, <3>2
      <4> QED
        BY <4>1
    <3> QED
      BY <1>1, <3>1, <3>2
  <2> QED
    BY <2>1
<1>4. \A x \in DOMAIN minor :
        /\ minor'[x].magic = (IF x = m THEN LIBALLOC_DEAD ELSE minor[x].magic)
        /\ minor'[x].next = (IF x = minor[m].prev THEN minor[m].next ELSE minor[x].next)
        /\ minor'[x].prev = (IF x = minor[m].next THEN minor[m].prev ELSE minor[x].prev)
        /\ minor'[x].block = minor[x].block /\ minor'[x].size = minor[x].size
  BY <1>0 DEF Unlinked
<1>5. PICK back, back2 : /\ back = [x \in DOMAIN minor |-> minor[x].prev]
                         /\ back2 = [x \in DOMAIN minor |-> minor'[x].prev]
  OBVIOUS
<1>6. /\ Path(T, major'[a].first, NextBlocks')
      /\ \A k \in 1 .. n - 1 : minor'[T[k]].prev = IF k = 1 THEN NULL ELSE T[k - 1]
  <2>0. PICK link2 : link2 = NextBlocks'
    OBVIOUS
  <2>1. /\ Path(L, major[a].first, NextBlocks) /\ NULL \notin DOMAIN NextBlocks
        /\ \A x \in DOMAIN minor : NextBlocks[x] = minor[x].next
    BY DEF BlocksOf, NextBlocks, Typed
  <2>2. DOMAIN link2 = DOMAIN minor /\ \A x \in DOMAIN minor : link2[x] = minor'[x].next
    BY <2>0 DEF NextBlocks
  <2>3. \A k \in 1 .. Len(L) : back[L[k]] = IF k = 1 THEN NULL ELSE L[k - 1]
    BY <1>0, <1>1, <1>5
  <2>4. TakenOut(L, j, NextBlocks, back, link2, back2)
    <3>1. m \in DOMAIN minor
      BY <1>0, <1>1
    <3>2. /\ back[m] = minor[m].prev /\ NextBlocks[m] = minor[m].next
          /\ \A x \in DOMAIN minor :
               /\ back[x] = minor[x].prev /\ back2[x] = minor'[x].prev
               /\ NextBlocks[x] = minor[x].next /\ link2[x] = minor'[x].next
      BY <1>5, <2>1, <2>2, <3>1
    <3>3. \A x \in DOMAIN minor :
            /\ x \in DOMAIN link2
            /\ link2[x] = (IF x = back[m] THEN NextBlocks[m] ELSE NextBlocks[x])
            /\ back2[x] = (IF x = NextBlocks[m] THEN back[m] ELSE back[x])
      BY <1>4, <2>2, <3>2
    <3> QED
      BY <1>0, <1>1, <3>3 DEF TakenOut
  <2>5. major'[a].first = (IF j = 1 THEN NextBlocks[L[j]] ELSE major[a].first)
    BY <1>0, <1>1, <2>1
  <2>6. /\ Path(Shorter(L, j), major'[a].first, link2)
        /\ \A k \in 1 .. Len(Shorter(L, j)) :
             back2[Shorter(L, j)[k]] = IF k = 1 THEN NULL ELSE Shorter(L, j)[k - 1]
    BY <2>1, <2>3, <2>4, <2>5, ShorterPath
  <2>7. \A k \in 1 .. n - 1 : T[k] \in DOMAIN minor
    BY <1>2
  <2>8. \A k \in 1 .. n - 1 : minor'[T[k]].prev = back2[T[k]]
    BY <1>5, <2>7
  <2> QED
    BY <1>0, <1>2, <2>0, <2>6, <2>8
<1>7. \A k \in 1 .. n - 1 :
        minor'[T[k]].block = a /\ minor'[T[k]].magic = LIBALLOC_MAGIC
  <2>1. \A i \in 1 .. n : minor[L[i]].magic = LIBALLOC_MAGIC
    BY <1>1 DEF Live
  <2>2. \A i \in 1 .. n : i # j => L[i] # m
    BY <1>0, <1>1
  <2>3. \A i \in 1 .. n : L[i] \in DOMAIN minor /\ minor[L[i]].block = a
    BY <1>1
  <2>4. \A i \in 1 .. n : i # j => /\ minor'[L[i]].block = a
                                   /\ minor'[L[i]].magic = LIBALLOC_MAGIC
    BY <1>4, <2>1, <2>2, <2>3
  <2> QED
    BY <1>3, <2>4
<1>8. \A i, k \in 1 .. n - 1 : i < k => T[i] + Need(minor'[T[i]].size) <= T[k]
  <2>1. ASSUME NEW i \in 1 .. n - 1, NEW k \in 1 .. n - 1, i < k
        PROVE  T[i] + Need(minor'[T[i]].size) <= T[k]
    <3>1. i \in Nat /\ k \in Nat /\ j \in Nat /\ n \in Nat
      BY <1>1
    <3>2. \A x, y \in 1 .. n : x < y => L[x] + Need(minor[L[x]].size) <= L[y]
      BY <1>0 DEF BlocksOf
    <3>3. \E x, y \in 1 .. n : x < y /\ T[i] = L[x] /\ T[k] = L[y]
      <4>1. CASE k < j
        <5>1. i < j
          BY <2>1, <3>1, <4>1
        <5>2. i \in 1 .. n /\ k \in 1 .. n /\ T[i] = L[i] /\ T[k] = L[k]
          BY <1>b, <4>1, <5>1
        <5> QED
          BY <2>1, <5>2
      <4>2. CASE i < j /\ k >= j
        <5>1. i < k + 1 /\ i \in 1 .. n /\ k + 1 \in 1 .. n /\ T[i] = L[i] /\ T[k] = L[k + 1]
          BY <1>b, <1>c, <2>1, <3>1, <4>2
        <5> QED
          BY <5>1
      <4>3. CASE i >= j
        <5>1. /\ i + 1 < k + 1 /\ i + 1 \in 1 .. n /\ k + 1 \in 1 .. n
              /\ T[i] = L[i + 1] /\ T[k] = L[k + 1]
          <6>1. k >= j /\ i + 1 < k + 1
            BY <2>1, <3>1, <4>3
          <6> QED
            BY <1>c, <4>3, <6>1
        <5> QED
          BY <5>1
      <4> QED
        BY <2>1, <3>1, <4>1, <4>2, <4>3
    <3>4. minor'[T[i]].size = minor[T[i]].size
      BY <1>2, <1>4
    <3> QED
      BY <3>2, <3>3, <3>4
  <2> QED
    BY <2>1
<1>9. ASSUME NEW x \in Live', minor'[x].block = a
      PROVE  \E k \in 1 .. Len(T) : T[k] = x
  <2>1. x \in DOMAIN minor /\ minor'[x].magic = LIBALLOC_MAGIC
    BY DEF Live
  <2>2. x # m /\ minor[x].magic = LIBALLOC_MAGIC /\ minor[x].block = a
    BY <1>4, <1>9, <2>1 DEF LIBALLOC_MAGIC, LIBALLOC_DEAD
  <2>3. x \in Live
    BY <2>1, <2>2 DEF Live
  <2>4. PICK i \in 1 .. n : L[i] = x
    BY <1>0, <2>2, <2>3 DEF BlocksOf
  <2>5. i # j
    BY <1>0, <2>2, <2>4
  <2> QED
    BY <1>2, <2>4, <2>5
<1>10. major'[a].usage = MajorHeader + Taken(T)' /\ major'[a].usage <= major'[a].size
  <2>1. PICK s, t, x : /\ s = [k \in 1 .. n - 1 |-> Need(minor'[T[k]].size)]
                       /\ t = [k \in 1 .. n |-> Need(minor[L[k]].size)]
                       /\ x = Need(minor[m].size)
    OBVIOUS
  <2>2. /\ \A k \in 1 .. n - 1 : s[k] = Need(minor[T[k]].size) /\ s[k] \in Nat
        /\ \A k \in 1 .. n : t[k] = Need(minor[L[k]].size) /\ t[k] \in Nat
        /\ x \in Nat /\ t[j] = x
    <3>1. \A k \in 1 .. n - 1 : s[k] = Need(minor[T[k]].size)
      BY <1>2, <1>4, <2>1
    <3>2. \A k \in 1 .. n : t[k] = Need(minor[L[k]].size) /\ t[k] \in Nat
      BY <1>1, <2>1
    <3>3. \A k \in 1 .. n - 1 : s[k] \in Nat
      <4>1. \A i \in 1 .. n : Need(minor[L[i]].size) \in Nat
        BY <1>1
      <4> QED
        BY <1>3, <3>1, <4>1
    <3> QED
      BY <1>0, <1>1, <2>1, <3>1, <3>2, <3>3
  <2>3. s \in Seq(Nat) /\ Len(s) = n - 1 /\ t \in Seq(Nat) /\ Len(t) = n
    BY <1>1, <2>1, <2>2
  <2>4. PICK p : p = j - 1
    OBVIOUS
  <2>5. p \in 0 .. n - 1 /\ p + 1 = j /\ p \in Nat
    BY <1>1, <2>4
  <2>6. \A k \in 1 .. p : t[k] = s[k]
    <3>1. ASSUME NEW k \in 1 .. p
          PROVE  t[k] = s[k]
      <4>1. k \in 1 .. n - 1 /\ k < j
        BY <1>1, <2>5
      <4>2. k \in 1 .. n /\ T[k] = L[k]
        BY <1>b, <4>1
      <4> QED
        BY <2>2, <4>1, <4>2
    <3> QED
      BY <3>1
  <2>7. \A k \in p + 1 .. n - 1 : t[k + 1] = s[k]
    <3>1. ASSUME NEW k \in p + 1 .. n - 1
          PROVE  t[k + 1] = s[k]
      <4>1. k \in 1 .. n - 1 /\ k >= j
        BY <1>1, <2>5
      <4>2. k + 1 \in 1 .. n /\ T[k] = L[k + 1]
        BY <1>c, <4>1
      <4> QED
        BY <2>2, <4>1, <4>2
    <3> QED
      BY <3>1
  <2>8. Inserted(s, t, p, x)
    <3>1. n = (n - 1) + 1
      BY <1>1
    <3> QED
      BY <2>2, <2>3, <2>5, <2>6, <2>7, <3>1 DEF Inserted
  <2>9. Total(t) = Total(s) + x
    BY <2>8, TotalOfInserted
  <2>10. Total(s) \in Nat /\ Total(t) \in Nat
    BY <2>3, TotalNat
  <2>11. Taken(L) = Total(t) /\ Taken(T)' = Total(s)
    BY <1>0, <1>2, <2>1 DEF Taken
  <2>12. /\ major[a].usage = MajorHeader + Total(t) /\ major[a].usage <= major[a].size
         /\ major[a].size \in Nat
    BY <2>11, MajorFields DEF BlocksOf
  <2>13. major'[a].usage = (MajorHeader + Total(t)) - x
    BY <1>0, <2>1, <2>12
  <2>14. major'[a].usage = MajorHeader + Total(s)
    BY <2>2, <2>9, <2>10, <2>13, Constants
  <2>15. major'[a].usage <= major'[a].size
    BY <2>2, <2>9, <2>10, <2>12, <2>14, Constants
  <2> QED
    BY <2>11, <2>14, <2>15
<1> QED
  BY <1>0, <1>2, <1>6, <1>7, <1>8, <1>9, <1>10 DEF BlocksOf

\* free of a block that has others with it in its run.
LEMMA ReleaseBlockKeeps ==
  ASSUME HeapInv, NEW m \in Live, ~ Alone(m), ReleaseBlock(m)
  PROVE  HeapInv' /\ LiveBut(m)
<1>0. PICK a, prev, next :
        a = minor[m].block /\ prev = minor[m].prev /\ next = minor[m].next
  OBVIOUS
<1>1. Typed /\ Headers /\ RunsDisjoint
  BY DEF HeapInv
<1>2. /\ m \in DOMAIN minor /\ m \in Nat /\ minor[m].magic = LIBALLOC_MAGIC
      /\ a \in DOMAIN major /\ prev \in Nat /\ next \in Nat
      /\ Need(minor[m].size) \in Nat
  BY <1>0, <1>1, MinorFields DEF Live
<1>3. /\ major' = [major EXCEPT ![a].usage = @ - Need(minor[m].size),
                                ![a].first = IF prev = NULL THEN next ELSE @]
      /\ minor' = [x \in DOMAIN minor |->
                     [minor[x] EXCEPT
                        !.magic = IF x = m THEN LIBALLOC_DEAD ELSE @,
                        !.next = IF x = prev THEN next ELSE @,
                        !.prev = IF x = next THEN prev ELSE @]]
      /\ l_bestBet' \in {a, l_bestBet}
      /\ l_memRoot' = l_memRoot
  BY <1>0 DEF ReleaseBlock, UsageOf
<1>4. /\ DOMAIN minor' = DOMAIN minor
      /\ minor' = [x \in DOMAIN minor' |-> minor'[x]]
      /\ \A x \in DOMAIN minor : Unlinked(x, m)
  <2>1. ASSUME NEW x \in DOMAIN minor
        PROVE  Unlinked(x, m)
    <3>1. minor[x] \in Blocks
      BY <1>1, MinorFields
    <3>2. minor'[x] = [minor[x] EXCEPT
                        !.magic = IF x = m THEN LIBALLOC_DEAD ELSE @,
                        !.next = IF x = prev THEN next ELSE @,
                        !.prev = IF x = next THEN prev ELSE @]
      BY <1>3
    <3>3. minor'[x] = [prev |-> IF x = next THEN prev ELSE minor[x].prev,
                       next |-> IF x = prev THEN next ELSE minor[x].next,
                       block |-> minor[x].block,
                       magic |-> IF x = m THEN LIBALLOC_DEAD ELSE minor[x].magic,
                       size |-> minor[x].size, req_size |-> minor[x].req_size,
                       data |-> minor[x].data]
      BY <3>1, <3>2 DEF Blocks
    <3>4. minor'[x] \in Blocks
      BY <1>2, <3>1, <3>3 DEF Blocks
    <3>5. /\ minor'[x].magic = (IF x = m THEN LIBALLOC_DEAD ELSE minor[x].magic)
          /\ minor'[x].next = (IF x = prev THEN next ELSE minor[x].next)
          /\ minor'[x].prev = (IF x = next THEN prev ELSE minor[x].prev)
          /\ minor'[x].block = minor[x].block /\ minor'[x].size = minor[x].size
          /\ minor'[x].req_size = minor[x].req_size /\ minor'[x].data = minor[x].data
      BY <3>3
    <3> QED
      BY <1>0, <3>4, <3>5 DEF Unlinked
  <2> QED
    BY <1>3, <2>1
<1>5. /\ DOMAIN major' = DOMAIN major
      /\ major' = [b \in DOMAIN major' |-> major'[b]]
      /\ \A b \in DOMAIN major : b # a => major'[b] = major[b]
      /\ major'[a] = [major[a] EXCEPT !.usage = @ - Need(minor[m].size),
                                      !.first = IF prev = NULL THEN next ELSE @]
  BY <1>2, <1>3 DEF Typed
<1>6. /\ major[a] \in Runs /\ major[a].prev \in Nat /\ major[a].next \in Nat
      /\ major[a].pages \in Nat /\ major[a].size \in Nat
      /\ major[a].usage \in Nat /\ major[a].first \in Nat
  BY <1>1, <1>2, MajorFields
<1>7. major'[a] = [prev |-> major[a].prev, next |-> major[a].next,
                   pages |-> major[a].pages, size |-> major[a].size,
                   usage |-> major[a].usage - Need(minor[m].size),
                   first |-> IF prev = NULL THEN next ELSE major[a].first]
  BY <1>5, <1>6 DEF Runs
<1>8. /\ major'[a].prev = major[a].prev /\ major'[a].next = major[a].next
      /\ major'[a].size = major[a].size
      /\ major'[a].usage = major[a].usage - Need(minor[m].size)
      /\ major'[a].first = (IF prev = NULL THEN next ELSE major[a].first)
  BY <1>7
<1>9. \A b \in DOMAIN major : major'[b].next = major[b].next
                              /\ major'[b].prev = major[b].prev
                              /\ major'[b].size = major[b].size
  BY <1>5, <1>8
<1>10. PICK L : BlocksOf(a, L)
  BY <1>2 DEF HeapInv
<1>11. PICK j \in 1 .. Len(L) : L[j] = m
  BY <1>0, <1>10 DEF BlocksOf
<1>12. /\ Len(L) \in Nat
       /\ \A k \in 1 .. Len(L) :
            /\ L[k] \in DOMAIN minor /\ L[k] # NULL /\ minor[L[k]].block = a
            /\ minor[L[k]].prev = (IF k = 1 THEN NULL ELSE L[k - 1])
            /\ minor[L[k]].next = (IF k = Len(L) THEN NULL ELSE L[k + 1])
  BY <1>1, <1>10, BlockFields
<1>13. /\ prev = (IF j = 1 THEN NULL ELSE L[j - 1])
       /\ next = (IF j = Len(L) THEN NULL ELSE L[j + 1])
  BY <1>0, <1>11, <1>12
<1>14. /\ prev = NULL <=> j = 1
       /\ prev = NULL \/ minor[prev].block = a
       /\ next = NULL \/ minor[next].block = a
  <2>1. j # 1 => j - 1 \in 1 .. Len(L)
    BY <1>12
  <2>2. j # Len(L) => j + 1 \in 1 .. Len(L)
    BY <1>12
  <2> QED
    BY <1>12, <1>13, <2>1, <2>2
<1>15. Len(L) # 1
  <2>1. SUFFICES ASSUME Len(L) = 1
                 PROVE  FALSE
    OBVIOUS
  <2>2. j = 1
    BY <2>1
  <2>3. prev = NULL /\ next = NULL
    BY <1>13, <2>1, <2>2
  <2> QED
    BY <1>0, <2>3 DEF Alone
<1>16. BlocksOf(a, Shorter(L, j))'
  <2>1. major'[a].first = (IF j = 1 THEN minor[L[j]].next ELSE major[a].first)
    BY <1>0, <1>8, <1>11, <1>14
  <2>2. /\ \A x \in DOMAIN minor : Unlinked(x, L[j])
        /\ major'[a].usage = major[a].usage - Need(minor[L[j]].size)
    BY <1>4, <1>8, <1>11
  <2> QED
    BY <1>1, <1>2, <1>4, <1>8, <1>10, <1>15, <2>1, <2>2, BlockTakenOut
<1>17. LiveBut(m)
  <2>1. \A x \in DOMAIN minor : /\ minor'[x].magic = (IF x = m THEN LIBALLOC_DEAD ELSE minor[x].magic)
                                /\ minor'[x].data = minor[x].data
    BY <1>4 DEF Unlinked
  <2>2. LIBALLOC_DEAD # LIBALLOC_MAGIC
    BY DEF LIBALLOC_DEAD, LIBALLOC_MAGIC
  <2> QED
    BY <1>4, <2>1, <2>2 DEF LiveBut, Live
<1>18. Headers'
  <2>1. \A x \in DOMAIN minor : /\ minor'[x].block = minor[x].block
                                /\ minor'[x].size = minor[x].size
                                /\ minor'[x].req_size = minor[x].req_size
                                /\ minor[x].block \in DOMAIN major
    BY <1>1, <1>4, MinorFields DEF Unlinked
  <2> QED
    BY <1>1, <1>4, <1>9, <2>1 DEF Headers
<1>19. Typed'
  <2>1. Blocks' = Blocks
    BY <1>5 DEF Blocks
  <2>2. minor' \in [DOMAIN minor' -> Blocks']
    BY <1>4, <2>1 DEF Unlinked
  <2>3. major'[a].usage \in Nat
    <3>1. PICK T : T = Shorter(L, j)
      OBVIOUS
    <3>2. major'[a].usage = MajorHeader + Taken(T)' /\ T \in Seq(DOMAIN minor')
      <4>1. BlocksOf(a, T)'
        BY <1>16, <3>1
      <4>2. DOMAIN NextBlocks' = DOMAIN minor'
        BY DEF NextBlocks
      <4> QED
        BY <4>1, <4>2 DEF BlocksOf, Path
    <3>3. PICK t : t = [k \in 1 .. Len(T) |-> Need(minor'[T[k]].size)]
      OBVIOUS
    <3>4. \A k \in 1 .. Len(T) : Need(minor'[T[k]].size) \in Nat
      <4>1. \A x \in DOMAIN minor : Need(minor'[x].size) \in Nat
        BY <1>1, <1>4, MinorFields DEF Unlinked
      <4> QED
        BY <1>4, <3>2, <4>1
    <3>5. t \in Seq(Nat)
      BY <3>2, <3>3, <3>4
    <3>6. Taken(T)' \in Nat
      BY <3>3, <3>5, TotalNat DEF Taken
    <3> QED
      BY <3>2, <3>6, Constants
  <2>4. major'[a] \in Runs
    BY <1>2, <1>6, <1>7, <1>8, <2>3 DEF Runs
  <2>5. major' \in [DOMAIN major' -> Runs]
    BY <1>1, <1>5, <2>4 DEF Typed
  <2>6. l_bestBet' \in DOMAIN major' \cup {NULL}
    BY <1>1, <1>2, <1>3, <1>5 DEF Typed
  <2> QED
    BY <1>1, <1>4, <1>5, <2>2, <2>5, <2>6 DEF Typed
<1>20. RunsDisjoint'
  BY <1>1, <1>5, <1>9 DEF RunsDisjoint
<1>21. ASSUME NEW b \in DOMAIN major'
       PROVE  \E T : BlocksOf(b, T)'
  <2>1. CASE b = a
    BY <1>16, <2>1
  <2>2. CASE b # a
    <3>1. b \in DOMAIN major /\ major'[b] = major[b]
      BY <1>5, <2>2
    <3>2. PICK T : BlocksOf(b, T)
      BY <3>1 DEF HeapInv
    <3>3. \A k \in 1 .. Len(T) : T[k] \in DOMAIN minor' /\ SameHeader(T[k])
      <4>1. ASSUME NEW k \in 1 .. Len(T)
            PROVE  T[k] \in DOMAIN minor' /\ SameHeader(T[k])
        <5>1. T[k] \in DOMAIN minor /\ T[k] # NULL /\ minor[T[k]].block = b
          BY <1>1, <3>2, BlockFields
        <5>2. T[k] # m /\ T[k] # prev /\ T[k] # next
          BY <1>0, <1>14, <2>2, <5>1
        <5> QED
          BY <1>0, <1>4, <5>1, <5>2 DEF Unlinked, SameHeader
      <4> QED
        BY <4>1
    <3>4. \A x \in Live' : minor'[x].block = b => x \in Live /\ minor[x].block = b
      <4>1. \A x \in Live' : x \in Live /\ x \in DOMAIN minor
        BY <1>17 DEF LiveBut, Live
      <4> QED
        BY <1>4, <4>1 DEF Unlinked
    <3>5. BlocksOf(b, T)'
      BY <3>1, <3>2, <3>3, <3>4, ListKept
    <3> QED
      BY <3>5
  <2> QED
    BY <2>1, <2>2
<1>22. \E R : RunsAre(R)'
  <2>1. PICK R : RunsAre(R)
    BY DEF HeapInv
  <2>2. NextRuns' = NextRuns
    BY <1>5, <1>9 DEF NextRuns
  <2>3. \A k \in 1 .. Len(R) : R[k] \in DOMAIN major
    BY <2>1 DEF RunsAre, Path, NextRuns
  <2>4. RunsAre(R)'
    BY <1>3, <1>5, <1>9, <2>1, <2>2, <2>3 DEF RunsAre, Path
  <2> QED
    BY <2>4
<1> QED
  BY <1>17, <1>18, <1>19, <1>20, <1>21, <1>22 DEF HeapInv

\* free of the only block of a run: the run goes, and all that is left in it.
LEMMA ReleaseRunKeeps ==
  ASSUME HeapInv, NEW m \in Live, Alone(m), ReleaseRun(minor[m].block)
  PROVE  HeapInv' /\ LiveBut(m)
<1>0. PICK a, prev, next :
        a = minor[m].block /\ prev = major[a].prev /\ next = major[a].next
  OBVIOUS
<1>1. Typed /\ Headers /\ RunsDisjoint
  BY DEF HeapInv
<1>2. /\ m \in DOMAIN minor /\ m \in Nat /\ minor[m].magic = LIBALLOC_MAGIC
      /\ a \in DOMAIN major
  BY <1>0, <1>1, MinorFields DEF Live
<1>3. /\ major' = [b \in DOMAIN major \ {a} |->
                     [major[b] EXCEPT !.next = IF b = prev THEN next ELSE @,
                                      !.prev = IF b = next THEN prev ELSE @]]
      /\ minor' = [x \in {x \in DOMAIN minor : minor[x].block # a} |-> minor[x]]
      /\ l_memRoot' = (IF l_memRoot = a THEN next ELSE l_memRoot)
      /\ l_bestBet' = (IF l_bestBet = a THEN NULL ELSE l_bestBet)
  BY <1>0 DEF ReleaseRun, RootWithout, BetWithout
<1>4. prev \in Nat /\ next \in Nat
  BY <1>0, <1>1, <1>2, MajorFields
<1>5. /\ DOMAIN major' = DOMAIN major \ {a}
      /\ major' = [b \in DOMAIN major' |-> major'[b]]
      /\ \A b \in DOMAIN major' :
           /\ b \in DOMAIN major /\ b # a /\ major'[b] \in Runs
           /\ major'[b].next = (IF b = prev THEN next ELSE major[b].next)
           /\ major'[b].prev = (IF b = next THEN prev ELSE major[b].prev)
           /\ major'[b].size = major[b].size /\ major'[b].usage = major[b].usage
           /\ major'[b].first = major[b].first
  <2>1. DOMAIN major' = DOMAIN major \ {a} /\ major' = [b \in DOMAIN major' |-> major'[b]]
    BY <1>3
  <2>2. ASSUME NEW b \in DOMAIN major'
        PROVE  /\ b \in DOMAIN major /\ b # a /\ major'[b] \in Runs
               /\ major'[b].next = (IF b = prev THEN next ELSE major[b].next)
               /\ major'[b].prev = (IF b = next THEN prev ELSE major[b].prev)
               /\ major'[b].size = major[b].size /\ major'[b].usage = major[b].usage
               /\ major'[b].first = major[b].first
    <3>1. b \in DOMAIN major /\ b # a /\ major[b] \in Runs
      BY <1>1, <2>1, MajorFields
    <3>2. major'[b] = [major[b] EXCEPT !.next = IF b = prev THEN next ELSE @,
                                       !.prev = IF b = next THEN prev ELSE @]
      BY <1>3, <3>1
    <3>3. major'[b] = [prev |-> IF b = next THEN prev ELSE major[b].prev,
                       next |-> IF b = prev THEN next ELSE major[b].next,
                       pages |-> major[b].pages, size |-> major[b].size,
                       usage |-> major[b].usage, first |-> major[b].first]
      BY <3>1, <3>2 DEF Runs
    <3> QED
      BY <1>4, <3>1, <3>3 DEF Runs
  <2> QED
    BY <2>1, <2>2
<1>6. /\ DOMAIN minor' = {x \in DOMAIN minor : minor[x].block # a}
      /\ \A x \in DOMAIN minor' : /\ x \in DOMAIN minor /\ minor[x].block # a
                                  /\ minor'[x] = minor[x]
      /\ minor' = [x \in DOMAIN minor' |-> minor'[x]]
  BY <1>3
\* The block is all that is alive in the run.
<1>7. \A x \in Live : minor[x].block = a => x = m
  <2>1. PICK L : BlocksOf(a, L)
    BY <1>2 DEF HeapInv
  <2>2. PICK j \in 1 .. Len(L) : L[j] = m
    BY <1>0, <2>1 DEF BlocksOf
  <2>3. /\ Len(L) \in Nat
        /\ \A k \in 1 .. Len(L) :
             /\ L[k] # NULL
             /\ minor[L[k]].prev = (IF k = 1 THEN NULL ELSE L[k - 1])
             /\ minor[L[k]].next = (IF k = Len(L) THEN NULL ELSE L[k + 1])
    BY <1>1, <2>1, BlockFields
  <2>4. minor[L[j]].prev = NULL /\ minor[L[j]].next = NULL
    BY <2>2 DEF Alone
  <2>5. j = 1
    <3>1. j # 1 => j - 1 \in 1 .. Len(L)
      BY <2>3
    <3> QED
      BY <2>3, <2>4, <3>1
  <2>6. j = Len(L)
    <3>1. j # Len(L) => j + 1 \in 1 .. Len(L)
      BY <2>3
    <3> QED
      BY <2>3, <2>4, <3>1
  <2>7. \A k \in 1 .. Len(L) : k = j
    <3>1. Len(L) = 1
      BY <2>5, <2>6
    <3>2. \A k \in 1 .. 1 : k = 1
      OBVIOUS
    <3> QED
      BY <2>5, <3>1, <3>2
  <2> QED
    BY <2>1, <2>2, <2>7 DEF BlocksOf
<1>8. LiveBut(m)
  <2>1. Live' = Live \ {m}
    <3>1. ASSUME NEW x \in Live'
          PROVE  x \in Live \ {m}
      BY <1>0, <1>6 DEF Live
    <3>2. ASSUME NEW x \in Live \ {m}
          PROVE  x \in Live'
      <4>1. x \in DOMAIN minor /\ minor[x].block # a /\ minor[x].magic = LIBALLOC_MAGIC
        BY <1>7 DEF Live
      <4> QED
        BY <1>6, <4>1 DEF Live
    <3> QED
      BY <3>1, <3>2
  <2>2. \A x \in Live' : minor'[x].data = minor[x].data
    BY <1>6 DEF Live
  <2> QED
    BY <2>1, <2>2 DEF LiveBut
<1>9. Headers'
  <2>1. \A x \in DOMAIN minor' : minor[x].block \in DOMAIN major'
    BY <1>1, <1>5, <1>6, MinorFields
  <2>2. \A x \in DOMAIN minor' :
          /\ minor'[x].block + MajorHeader <= x
          /\ x + Need(minor'[x].size)
               <= minor'[x].block + major'[minor'[x].block].size
          /\ Padded(minor'[x].req_size) <= minor'[x].size
    BY <1>1, <1>5, <1>6, <2>1 DEF Headers
  <2>3. \A x, y \in DOMAIN minor' : x < y => x + MinorHeader <= y
    BY <1>1, <1>6 DEF Headers
  <2> QED
    BY <2>2, <2>3 DEF Headers
<1>10. Typed'
  <2>1. IsFiniteSet(DOMAIN major') /\ DOMAIN major' \subseteq Nat \ {NULL}
    BY <1>1, <1>5, FS_Subset DEF Typed
  <2>2. IsFiniteSet(DOMAIN minor') /\ DOMAIN minor' \subseteq Nat \ {NULL}
    BY <1>1, <1>6, FS_Subset DEF Typed
  <2>3. major' \in [DOMAIN major' -> Runs]
    BY <1>5
  <2>4. minor' \in [DOMAIN minor' -> Blocks']
    <3>1. ASSUME NEW x \in DOMAIN minor'
          PROVE  minor'[x] \in Blocks'
      <4>1. minor[x] \in Blocks /\ minor[x].block \in DOMAIN major' /\ minor'[x] = minor[x]
        BY SMTT(30), <1>1, <1>5, <1>6, MinorFields
      <4> QED
        BY <4>1 DEF Blocks
    <3> QED
      BY <1>6, <3>1
  <2>5. l_bestBet' \in DOMAIN major' \cup {NULL}
    BY <1>1, <1>3, <1>5 DEF Typed
  <2> QED
    BY <2>1, <2>2, <2>3, <2>4, <2>5 DEF Typed
<1>11. RunsDisjoint'
  BY <1>1, <1>5 DEF RunsDisjoint
<1>12. ASSUME NEW b \in DOMAIN major'
       PROVE  \E T : BlocksOf(b, T)'
  <2>1. b \in DOMAIN major /\ b # a
    BY <1>5
  <2>2. PICK T : BlocksOf(b, T)
    BY <2>1 DEF HeapInv
  <2>3. \A k \in 1 .. Len(T) : T[k] \in DOMAIN minor' /\ SameHeader(T[k])
    <3>1. \A k \in 1 .. Len(T) : T[k] \in DOMAIN minor /\ minor[T[k]].block = b
      BY <1>1, <2>2, BlockFields
    <3> QED
      BY <1>6, <2>1, <3>1 DEF SameHeader
  <2>4. \A x \in Live' : minor'[x].block = b => x \in Live /\ minor[x].block = b
    BY <1>6 DEF Live
  <2>5. BlocksOf(b, T)'
    BY <1>5, <2>2, <2>3, <2>4, ListKept
  <2> QED
    BY <2>5
<1>13. \E T : RunsAre(T)'
  <2>1. PICK R : RunsAre(R)
    BY DEF HeapInv
  <2>2. PICK j \in 1 .. Len(R) : R[j] = a
    BY <1>2, <2>1 DEF RunsAre
  <2>3. PICK T, n, back, back2, link2 :
          /\ T = Shorter(R, j) /\ n = Len(R)
          /\ back = [x \in DOMAIN major |-> major[x].prev]
          /\ back2 = [x \in DOMAIN major' |-> major'[x].prev]
          /\ link2 = NextRuns'
    OBVIOUS
  <2>4. /\ R \in Seq(DOMAIN major) /\ n \in Nat /\ R # << >> /\ l_memRoot = R[1]
        /\ \A k \in 1 .. n : R[k] \in DOMAIN major
        /\ \A i, k \in 1 .. n : R[i] = R[k] => i = k
    <3>1. R \in Seq(DOMAIN major) /\ IsInjective(R)
          /\ l_memRoot = IF R = << >> THEN NULL ELSE R[1]
      BY <2>1 DEF RunsAre, Path, NextRuns
    <3>2. R # << >>
      BY <2>2, <3>1
    <3> QED
      BY <2>3, <3>1, <3>2 DEF IsInjective
  <2>5. \A k \in 1 .. n : k # j => R[k] \in DOMAIN major'
    BY <1>5, <2>2, <2>3, <2>4
  <2>6. DOMAIN link2 = DOMAIN major' /\ \A x \in DOMAIN major' : link2[x] = major'[x].next
    BY <2>3 DEF NextRuns
  <2>7. /\ Path(R, l_memRoot, NextRuns) /\ NULL \notin DOMAIN NextRuns
        /\ \A x \in DOMAIN major : NextRuns[x] = major[x].next /\ back[x] = major[x].prev
    BY <1>1, <2>1, <2>3 DEF RunsAre, NextRuns, Typed
  <2>8. \A k \in 1 .. Len(R) : back[R[k]] = IF k = 1 THEN NULL ELSE R[k - 1]
    BY <2>1, <2>3, <2>4, <2>7 DEF RunsAre
  <2>9. TakenOut(R, j, NextRuns, back, link2, back2)
    <3>1. back[a] = prev /\ NextRuns[a] = next
      BY <1>0, <1>2, <2>7
    <3>2. \A x \in DOMAIN major' :
            /\ x \in DOMAIN link2
            /\ link2[x] = (IF x = back[a] THEN NextRuns[a] ELSE NextRuns[x])
            /\ back2[x] = (IF x = NextRuns[a] THEN back[a] ELSE back[x])
      BY <1>5, <2>3, <2>6, <2>7, <3>1
    <3> QED
      BY <2>2, <2>3, <2>5, <3>2 DEF TakenOut
  <2>10. l_memRoot' = (IF j = 1 THEN NextRuns[R[j]] ELSE l_memRoot)
    <3>1. 1 \in 1 .. n
      BY <2>3, <2>4
    <3>2. l_memRoot = a <=> j = 1
      BY <2>2, <2>3, <2>4, <3>1
    <3> QED
      BY <1>0, <1>2, <1>3, <2>2, <2>7, <3>2
  <2>11. /\ Path(T, l_memRoot', link2)
         /\ \A k \in 1 .. Len(T) : back2[T[k]] = IF k = 1 THEN NULL ELSE T[k - 1]
    <3>1. PICK start2 : start2 = l_memRoot'
      OBVIOUS
    <3>2. start2 = (IF j = 1 THEN NextRuns[R[j]] ELSE l_memRoot)
      BY <2>10, <3>1
    <3>3. /\ Path(Shorter(R, j), start2, link2)
          /\ \A k \in 1 .. Len(Shorter(R, j)) :
               back2[Shorter(R, j)[k]] = IF k = 1 THEN NULL ELSE Shorter(R, j)[k - 1]
      BY <2>7, <2>8, <2>9, <3>2, ShorterPath
    <3> QED
      BY <2>3, <3>1, <3>3
  <2>12. /\ T \in Seq(DOMAIN major') /\ Len(T) = n - 1
         /\ \A i \in 1 .. n : i # j => \E k \in 1 .. n - 1 : T[k] = R[i]
    <3>1. T \in Seq(DOMAIN major')
      BY <2>6, <2>11 DEF Path
    <3>2. /\ Len(Shorter(R, j)) = Len(R) - 1
          /\ \A i \in 1 .. Len(R) :
               i # j => \E k \in 1 .. Len(R) - 1 : Shorter(R, j)[k] = R[i]
      BY <2>4, ShorterMembers
    <3> QED
      BY <2>3, <3>1, <3>2
  <2>13. \A k \in 1 .. Len(T) : major'[T[k]].prev = IF k = 1 THEN NULL ELSE T[k - 1]
    <3>1. \A k \in 1 .. Len(T) : T[k] \in DOMAIN major'
      BY <2>12
    <3>2. \A k \in 1 .. Len(T) : back2[T[k]] = major'[T[k]].prev
      BY <2>3, <3>1
    <3> QED
      BY <2>11, <3>2
  <2>14. \A b \in DOMAIN major' : \E k \in 1 .. Len(T) : T[k] = b
    <3>1. ASSUME NEW b \in DOMAIN major'
          PROVE  \E k \in 1 .. Len(T) : T[k] = b
      <4>1. PICK i \in 1 .. n : R[i] = b
        BY <1>5, <2>1, <2>3 DEF RunsAre
      <4>2. i # j
        BY <1>5, <2>2, <4>1
      <4> QED
        BY <2>12, <4>1, <4>2
    <3> QED
      BY <3>1
  <2>15. RunsAre(T)'
    BY <2>3, <2>11, <2>13, <2>14 DEF RunsAre
  <2> QED
    BY <2>15
<1> QED
  BY <1>8, <1>9, <1>10, <1>11, <1>12, <1>13 DEF HeapInv

\* Every free of a pointer of which there is a header: a live block goes, one
\* that has been freed is left alone.
LEMMA FreeKeeps ==
  ASSUME HeapInv, NEW m \in DOMAIN minor, free(PointerTo(m))
  PROVE  /\ HeapInv'
         /\ m \in Live => LiveBut(m)
         /\ m \notin Live => UNCHANGED minor
<1>1. MinorAt(PointerTo(m)) = m
  BY MinorAtPointer DEF HeapInv
<1>2. \/ minor[m].magic = LIBALLOC_MAGIC /\ Alone(m) /\ ReleaseRun(minor[m].block)
      \/ minor[m].magic = LIBALLOC_MAGIC /\ ~ Alone(m) /\ ReleaseBlock(m)
      \/ /\ minor[m].magic # LIBALLOC_MAGIC
         /\ UNCHANGED <<major, minor, l_memRoot, l_bestBet>>
  BY <1>1 DEF free
<1>3. CASE m \in Live /\ Alone(m) /\ ReleaseRun(minor[m].block)
  BY <1>3, ReleaseRunKeeps
<1>4. CASE m \in Live /\ ~ Alone(m) /\ ReleaseBlock(m)
  BY <1>4, ReleaseBlockKeeps
<1>5. CASE m \notin Live /\ UNCHANGED <<major, minor, l_memRoot, l_bestBet>>
  BY <1>5, NothingChanges
<1>6. m \in Live <=> minor[m].magic = LIBALLOC_MAGIC
  BY DEF Live
<1> QED
  BY <1>2, <1>3, <1>4, <1>5, <1>6

-----------------------------------------------------------------------------
(* What the callers have *)

LEMMA HoldsKept ==
  ASSUME LiveKept, NEW p, NEW d, Holds(p, d)
  PROVE  Holds(p, d)'
BY DEF Holds, LiveKept

LEMMA HoldsBut ==
  ASSUME NEW m, LiveBut(m), NEW p, NEW d, Holds(p, d), p # PointerTo(m)
  PROVE  Holds(p, d)'
<1>1. PICK x \in Live : PointerTo(x) = p /\ minor[x].data = d
  BY DEF Holds
<1>2. x \in Live' /\ minor'[x].data = d
  BY <1>1 DEF LiveBut
<1> QED
  BY <1>1, <1>2 DEF Holds

\* There is one block behind a pointer.
LEMMA BlockBehind ==
  ASSUME Typed, Headers, NEW p, NEW d, Holds(p, d)
  PROVE  /\ MinorAt(p) \in Live /\ MinorAt(p) \in DOMAIN minor
         /\ PointerTo(MinorAt(p)) = p /\ minor[MinorAt(p)].data = d
<1>1. PICK x \in Live : PointerTo(x) = p /\ minor[x].data = d
  BY DEF Holds
<1>2. x \in DOMAIN minor
  BY DEF Live
<1>3. MinorAt(p) = x
  BY <1>1, <1>2, MinorAtPointer
<1> QED
  BY <1>1, <1>2, <1>3

\* Where a core is, by what its call is at.
LEMMA CallCases ==
  ASSUME NEW c, CallSound(c)
  PROVE  /\ call[c].at \in {"idle", "malloc", "fill", "free", "panic"}
         /\ call[c].at = "idle" => call[c] = Idle
         /\ call[c].at = "panic" => call[c] = [at |-> "panic"]
         /\ call[c].at = "malloc" =>
              \E old \in DOMAIN owned \cup {NULL}, size \in Requests :
                /\ call[c] = [at |-> "malloc", old |-> old, size |-> size]
                /\ old # NULL => owned[old] = c
         /\ call[c].at = "fill" =>
              \E old \in DOMAIN owned \cup {NULL}, new \in Nat :
                /\ call[c] = [at |-> "fill", old |-> old, new |-> new]
                /\ old # NULL => owned[old] = c
                /\ new # NULL => \E d : Holds(new, d)
         /\ call[c].at = "free" =>
              \E old \in DOMAIN owned, new \in Nat \ {NULL} :
                /\ call[c] = [at |-> "free", old |-> old, new |-> new]
                /\ owned[old] = c
                /\ Holds(new, c)
<1>1. CASE call[c] = Idle
  <2>1. call[c].at = "idle"
    BY <1>1 DEF Idle
  <2> QED
    BY <1>1, <2>1
<1>2. CASE call[c] = [at |-> "panic"]
  <2>1. call[c].at = "panic"
    BY <1>2
  <2> QED
    BY <1>2, <2>1
<1>3. ASSUME NEW old \in DOMAIN owned \cup {NULL}, NEW size \in Requests,
             call[c] = [at |-> "malloc", old |-> old, size |-> size],
             old # NULL => owned[old] = c
      PROVE  call[c].at = "malloc"
  BY <1>3
<1>4. ASSUME NEW old \in DOMAIN owned \cup {NULL}, NEW new \in Nat,
             call[c] = [at |-> "fill", old |-> old, new |-> new]
      PROVE  call[c].at = "fill"
  BY <1>4
<1>5. ASSUME NEW old \in DOMAIN owned, NEW new \in Nat \ {NULL},
             call[c] = [at |-> "free", old |-> old, new |-> new]
      PROVE  call[c].at = "free"
  BY <1>5
<1> QED
  BY <1>1, <1>2, <1>3, <1>4, <1>5 DEF CallSound

\* A core that has not moved, whose pointers are still its own and hold what
\* they did.
LEMMA OtherCall ==
  ASSUME NEW d, CallSound(d), call'[d] = call[d],
         \A p \in DOMAIN owned : owned[p] = d => p \in DOMAIN owned' /\ owned'[p] = d,
         \A p \in InFlight(d) : \A e : Holds(p, e) => Holds(p, e)'
  PROVE  CallSound(d)' /\ InFlight(d)' = InFlight(d)
<1>1. InFlight(d)' = InFlight(d)
  BY DEF InFlight
<1>2. CASE call[d].at \in {"idle", "panic"}
  <2>1. call[d] = Idle \/ call[d] = [at |-> "panic"]
    BY <1>2, CallCases
  <2> QED
    BY <1>1, <2>1 DEF CallSound, Idle
<1>3. CASE call[d].at = "malloc"
  <2>1. PICK old \in DOMAIN owned \cup {NULL}, size \in Requests :
          /\ call[d] = [at |-> "malloc", old |-> old, size |-> size]
          /\ old # NULL => owned[old] = d
    BY <1>3, CallCases
  <2>2. old \in DOMAIN owned' \cup {NULL} /\ (old # NULL => owned'[old] = d)
    BY <2>1
  <2> QED
    BY <1>1, <2>1, <2>2 DEF CallSound
<1>4. CASE call[d].at = "fill"
  <2>1. PICK old \in DOMAIN owned \cup {NULL}, new \in Nat :
          /\ call[d] = [at |-> "fill", old |-> old, new |-> new]
          /\ old # NULL => owned[old] = d
          /\ new # NULL => \E e : Holds(new, e)
    BY <1>4, CallCases
  <2>2. old \in DOMAIN owned' \cup {NULL} /\ (old # NULL => owned'[old] = d)
    BY <2>1
  <2>3. ASSUME new # NULL
        PROVE  \E e : Holds(new, e)'
    <3>1. new \in InFlight(d)
      BY <1>4, <2>1, <2>3 DEF InFlight
    <3> QED
      BY <2>1, <2>3, <3>1
  <2> QED
    BY <1>1, <2>1, <2>2, <2>3 DEF CallSound
<1>5. CASE call[d].at = "free"
  <2>1. PICK old \in DOMAIN owned, new \in Nat \ {NULL} :
          /\ call[d] = [at |-> "free", old |-> old, new |-> new]
          /\ owned[old] = d
          /\ Holds(new, d)
    BY <1>5, CallCases
  <2>2. old \in DOMAIN owned' /\ owned'[old] = d
    BY <2>1
  <2>3. Holds(new, d)'
    <3>1. new \in InFlight(d)
      BY <1>5, <2>1 DEF InFlight
    <3> QED
      BY <2>1, <3>1
  <2> QED
    BY <1>1, <2>1, <2>2, <2>3 DEF CallSound
<1> QED
  BY <1>2, <1>3, <1>4, <1>5, CallCases

\* A step of core c, x is where it is in its call afterwards.
LEMMA CallersStep ==
  ASSUME CallersInv, NEW c \in Cores, NEW x,
         call' = [d \in Cores |-> IF d = c THEN x ELSE call[d]],
         \A p \in DOMAIN owned' :
           \/ owned'[p] = c /\ p # NULL /\ Holds(p, c)'
           \/ p \in DOMAIN owned /\ owned'[p] = owned[p] /\ owned[p] # c,
         \A p \in DOMAIN owned : \A e \in Cores \ {c} :
           owned[p] = e => p \in DOMAIN owned' /\ owned'[p] = e /\ Holds(p, e)',
         \A d \in Cores \ {c} : \A p \in InFlight(d) :
           p \notin DOMAIN owned' /\ \A e : Holds(p, e) => Holds(p, e)',
         CallSound(c)',
         InFlight(c)' \cap DOMAIN owned' = {},
         \A d \in Cores \ {c} : InFlight(c)' \cap InFlight(d) = {}
  PROVE  CallersInv'
<1>1. ASSUME NEW d \in Cores, d # c
      PROVE  CallSound(d)' /\ InFlight(d)' = InFlight(d)
  <2>1. CallSound(d) /\ call'[d] = call[d]
    BY <1>1 DEF CallersInv
  <2>2. \A p \in DOMAIN owned : owned[p] = d => p \in DOMAIN owned' /\ owned'[p] = d
    BY <1>1
  <2>3. \A p \in InFlight(d) : \A e : Holds(p, e) => Holds(p, e)'
    BY <1>1
  <2> QED
    BY <2>1, <2>2, <2>3, OtherCall
<1>2. ASSUME NEW p \in DOMAIN owned'
      PROVE  /\ p # NULL /\ owned'[p] \in Cores
             /\ \E m \in Live' : PointerTo(m) = p /\ minor'[m].data = owned'[p]
  <2>1. CASE owned'[p] = c /\ p # NULL /\ Holds(p, c)'
    BY <2>1 DEF Holds
  <2>2. CASE p \in DOMAIN owned /\ owned'[p] = owned[p] /\ owned[p] # c
    <3>1. PICK e : e = owned[p]
      OBVIOUS
    <3>2. p # NULL /\ e \in Cores \ {c}
      BY <2>2, <3>1 DEF CallersInv
    <3>3. Holds(p, e)' /\ owned'[p] = e
      BY <2>2, <3>1, <3>2
    <3> QED
      BY <3>2, <3>3 DEF Holds
  <2> QED
    BY <2>1, <2>2
<1>3. call' = [d \in Cores |-> call'[d]]
  OBVIOUS
<1>4. \A d \in Cores : CallSound(d)' /\ InFlight(d)' \cap DOMAIN owned' = {}
  BY <1>1
<1>5. \A d, e \in Cores : d # e => InFlight(d)' \cap InFlight(e)' = {}
  BY <1>1 DEF CallersInv
<1> QED
  BY <1>2, <1>3, <1>4, <1>5 DEF CallersInv, Holds

-----------------------------------------------------------------------------
(* Every step *)

\* An owner's pointer is not NULL, and is in nobody else's hands.
LEMMA OwnedPointers ==
  ASSUME CallersInv, NEW p \in DOMAIN owned
  PROVE  /\ p # NULL /\ owned[p] \in Cores /\ Holds(p, owned[p])
         /\ \A d \in Cores : p \notin InFlight(d)
BY DEF CallersInv

\* What is in flight is held.
LEMMA FlyingPointers ==
  ASSUME CallersInv, NEW c \in Cores, NEW p \in InFlight(c)
  PROVE  p # NULL /\ (\E d : Holds(p, d)) /\ p \notin DOMAIN owned
<1>1. CallSound(c) /\ InFlight(c) \cap DOMAIN owned = {}
  BY DEF CallersInv
<1>2. call[c].at \in {"fill", "free"} /\ p = call[c].new /\ p # NULL
  BY DEF InFlight
<1>3. CASE call[c].at = "fill"
  <2>1. PICK old \in DOMAIN owned \cup {NULL}, new \in Nat :
          /\ call[c] = [at |-> "fill", old |-> old, new |-> new]
          /\ new # NULL => \E d : Holds(new, d)
    BY <1>1, <1>3, CallCases
  <2>2. call[c].new = new
    BY <2>1
  <2> QED
    BY <1>1, <1>2, <2>1, <2>2
<1>4. CASE call[c].at = "free"
  <2>1. PICK old \in DOMAIN owned, new \in Nat \ {NULL} :
          /\ call[c] = [at |-> "free", old |-> old, new |-> new]
          /\ Holds(new, c)
    BY <1>1, <1>4, CallCases
  <2>2. call[c].new = new
    BY <2>1
  <2> QED
    BY <1>1, <1>2, <2>1, <2>2
<1> QED
  BY <1>2, <1>3, <1>4

LEMMA IdleSound ==
  ASSUME NEW c, call[c] = Idle
  PROVE  CallSound(c) /\ InFlight(c) = {}
BY DEF CallSound, InFlight, Idle

LEMMA KmallocKeeps ==
  ASSUME AllocInv, NEW c \in Cores, NEW req \in Requests, NEW new \in Grants,
         kmalloc(c, req, new), OutOfUse
  PROVE  AllocInv'
<1>1. HeapInv /\ CallersInv
  BY DEF AllocInv
<1>2. call[c] = Idle /\ malloc(req, new, c) /\ call' = call
  BY DEF kmalloc
<1>3. HeapInv' /\ LiveKept
  BY <1>1, <1>2, MallocKeeps
<1>4. PICK p \in Nat : /\ p = Returned(req, new)
                       /\ p # NULL => Holds(p, c)' /\ \A d : ~ Holds(p, d)
  BY <1>1, <1>2, MallocKeeps
<1>5. IF p = NULL THEN owned' = owned
      ELSE owned' = [q \in DOMAIN owned \cup {p} |-> IF q = p THEN c ELSE owned[q]]
  BY <1>4 DEF kmalloc, Gain
<1>6. \A q \in DOMAIN owned : q # NULL /\ owned[q] \in Cores /\ Holds(q, owned[q])
  BY <1>1, OwnedPointers
<1>7. p # NULL => p \notin DOMAIN owned
  BY <1>4, <1>6
<1>8. \A q, e : Holds(q, e) => Holds(q, e)'
  BY <1>3, HoldsKept
<1>9. ASSUME NEW q \in DOMAIN owned'
      PROVE  \/ owned'[q] = c /\ q # NULL /\ Holds(q, c)'
             \/ q \in DOMAIN owned /\ owned'[q] = owned[q] /\ owned[q] # c
  <2>1. CASE q = p /\ p # NULL
    BY <1>4, <1>5, <2>1
  <2>2. CASE ~ (q = p /\ p # NULL)
    <3>1. q \in DOMAIN owned /\ owned'[q] = owned[q]
      BY <1>5, <2>2
    <3>2. owned[q] = c => Holds(q, c)
      BY <1>6, <3>1
    <3> QED
      BY <1>6, <1>8, <3>1, <3>2
  <2> QED
    BY <2>1, <2>2
<1>10. \A q \in DOMAIN owned : \A e \in Cores \ {c} :
         owned[q] = e => q \in DOMAIN owned' /\ owned'[q] = e /\ Holds(q, e)'
  BY <1>5, <1>6, <1>7, <1>8
<1>11. \A d \in Cores \ {c} : \A q \in InFlight(d) :
         q \notin DOMAIN owned' /\ \A e : Holds(q, e) => Holds(q, e)'
  <2>1. ASSUME NEW d \in Cores \ {c}, NEW q \in InFlight(d)
        PROVE  q \notin DOMAIN owned'
    <3>1. q \notin DOMAIN owned /\ \E e : Holds(q, e)
      BY <1>1, FlyingPointers
    <3> QED
      BY <1>4, <1>5, <3>1
  <2> QED
    BY <1>8, <2>1
<1>12. CallSound(c)' /\ InFlight(c)' = {}
  BY <1>2 DEF CallSound, InFlight, Idle
<1>13. call' = [d \in Cores |-> IF d = c THEN Idle ELSE call[d]]
  BY <1>1, <1>2 DEF CallersInv
<1>14. CallersInv'
  BY <1>1, <1>9, <1>10, <1>11, <1>12, <1>13, CallersStep
<1> QED
  BY <1>3, <1>14 DEF AllocInv

LEMMA KfreeKeeps ==
  ASSUME AllocInv, NEW c \in Cores, NEW p \in DOMAIN owned, kfree(c, p)
  PROVE  AllocInv'
<1>1. HeapInv /\ CallersInv /\ Typed /\ Headers
  BY DEF AllocInv, HeapInv
<1>2. call[c] = Idle /\ owned[p] = c /\ free(p) /\ call' = call
      /\ owned' = [q \in DOMAIN owned \ {p} |-> owned[q]]
  BY DEF kfree, Lose
<1>3. \A q \in DOMAIN owned : q # NULL /\ owned[q] \in Cores /\ Holds(q, owned[q])
  BY <1>1, OwnedPointers
<1>4. PICK m \in Live : PointerTo(m) = p
  BY <1>3 DEF Holds
<1>5. HeapInv' /\ LiveBut(m)
  <2>1. m \in DOMAIN minor /\ free(PointerTo(m))
    BY <1>2, <1>4 DEF Live
  <2> QED
    BY <1>1, <2>1, FreeKeeps
<1>6. \A q, e : q # p /\ Holds(q, e) => Holds(q, e)'
  BY <1>4, <1>5, HoldsBut
<1>7. ASSUME NEW q \in DOMAIN owned'
      PROVE  \/ owned'[q] = c /\ q # NULL /\ Holds(q, c)'
             \/ q \in DOMAIN owned /\ owned'[q] = owned[q] /\ owned[q] # c
  <2>1. q \in DOMAIN owned /\ q # p /\ owned'[q] = owned[q]
    BY <1>2
  <2>2. owned[q] = c => Holds(q, c)
    BY <1>3, <2>1
  <2> QED
    BY <1>3, <1>6, <2>1, <2>2
<1>8. \A q \in DOMAIN owned : \A e \in Cores \ {c} :
        owned[q] = e => q \in DOMAIN owned' /\ owned'[q] = e /\ Holds(q, e)'
  BY <1>2, <1>3, <1>6
<1>9. \A d \in Cores \ {c} : \A q \in InFlight(d) :
        q \notin DOMAIN owned' /\ \A e : Holds(q, e) => Holds(q, e)'
  <2>1. ASSUME NEW d \in Cores \ {c}, NEW q \in InFlight(d)
        PROVE  q \notin DOMAIN owned' /\ q # p
    <3>1. q \notin DOMAIN owned
      BY <1>1, FlyingPointers
    <3> QED
      BY <1>2, <3>1
  <2> QED
    BY <1>6, <2>1
<1>10. CallSound(c)' /\ InFlight(c)' = {}
  BY <1>2 DEF CallSound, InFlight, Idle
<1>11. call' = [d \in Cores |-> IF d = c THEN Idle ELSE call[d]]
  BY <1>1, <1>2 DEF CallersInv
<1>12. CallersInv'
  BY <1>1, <1>7, <1>8, <1>9, <1>10, <1>11, CallersStep
<1> QED
  BY <1>5, <1>12 DEF AllocInv

\* Pointers hold what they held, and nobody's pointers change: what a core
\* may do to itself.
LEMMA OwnStep ==
  ASSUME CallersInv, NEW c \in Cores, NEW x,
         call' = [d \in Cores |-> IF d = c THEN x ELSE call[d]],
         owned' = owned,
         \A q, e : Holds(q, e) => Holds(q, e)',
         CallSound(c)',
         InFlight(c)' \cap DOMAIN owned = {},
         \A d \in Cores \ {c} : InFlight(c)' \cap InFlight(d) = {}
  PROVE  CallersInv'
<1>1. \A q \in DOMAIN owned : q # NULL /\ owned[q] \in Cores /\ Holds(q, owned[q])
  BY OwnedPointers
<1>2. ASSUME NEW q \in DOMAIN owned'
      PROVE  \/ owned'[q] = c /\ q # NULL /\ Holds(q, c)'
             \/ q \in DOMAIN owned /\ owned'[q] = owned[q] /\ owned[q] # c
  <2>1. owned[q] = c => Holds(q, c)
    BY <1>1
  <2> QED
    BY <1>1, <2>1
<1>3. \A q \in DOMAIN owned : \A e \in Cores \ {c} :
        owned[q] = e => q \in DOMAIN owned' /\ owned'[q] = e /\ Holds(q, e)'
  BY <1>1
<1>4. \A d \in Cores \ {c} : \A q \in InFlight(d) :
        q \notin DOMAIN owned' /\ \A e : Holds(q, e) => Holds(q, e)'
  BY FlyingPointers
<1> QED
  BY <1>2, <1>3, <1>4, CallersStep

LEMMA FreeAgainKeeps ==
  ASSUME AllocInv, NEW c \in Cores, NEW m \in DOMAIN minor, FreeAgain(c, m)
  PROVE  AllocInv'
<1>1. HeapInv /\ CallersInv
  BY DEF AllocInv
<1>2. call[c] = Idle /\ minor[m].magic = LIBALLOC_DEAD /\ free(PointerTo(m))
      /\ owned' = owned /\ call' = call
  BY DEF FreeAgain
<1>3. m \notin Live
  BY <1>2 DEF Live, LIBALLOC_DEAD, LIBALLOC_MAGIC
<1>4. HeapInv' /\ minor' = minor
  BY <1>1, <1>2, <1>3, FreeKeeps
<1>5. \A q, e : Holds(q, e) => Holds(q, e)'
  BY <1>4 DEF Holds, Live
<1>6. CallSound(c)' /\ InFlight(c)' = {}
  BY <1>2 DEF CallSound, InFlight, Idle
<1>7. call' = [d \in Cores |-> IF d = c THEN Idle ELSE call[d]]
  BY <1>1, <1>2 DEF CallersInv
<1>8. CallersInv'
  BY <1>1, <1>2, <1>5, <1>6, <1>7, OwnStep
<1> QED
  BY <1>4, <1>8 DEF AllocInv

LEMMA KcallocKeeps ==
  ASSUME AllocInv, NEW c \in Cores, NEW size \in Requests, kcalloc(c, size)
  PROVE  AllocInv'
<1>1. HeapInv /\ CallersInv /\ Typed
  BY DEF AllocInv, HeapInv
<1>2. /\ call' = [call EXCEPT ![c] = [at |-> "malloc", old |-> NULL, size |-> size]]
      /\ major' = major /\ minor' = minor /\ l_memRoot' = l_memRoot
      /\ l_bestBet' = l_bestBet /\ owned' = owned
  BY DEF kcalloc, Continue
<1>3. HeapInv'
  BY <1>1, <1>2, NothingChanges
<1>4. \A q, e : Holds(q, e) => Holds(q, e)'
  BY <1>2 DEF Holds, Live
<1>5. PICK x : x = [at |-> "malloc", old |-> NULL, size |-> size]
  OBVIOUS
<1>6. call' = [d \in Cores |-> IF d = c THEN x ELSE call[d]]
  BY <1>1, <1>2, <1>5 DEF CallersInv
<1>7. CallSound(c)'
  BY <1>5, <1>6 DEF CallSound
<1>8. InFlight(c)' = {}
  <2>1. call'[c].at = "malloc"
    BY <1>5, <1>6
  <2> QED
    BY <2>1 DEF InFlight
<1>9. CallersInv'
  BY <1>1, <1>2, <1>4, <1>6, <1>7, <1>8, OwnStep
<1> QED
  BY <1>3, <1>9 DEF AllocInv

LEMMA KreallocKeeps ==
  ASSUME AllocInv, NEW c \in Cores, NEW p \in DOMAIN owned, NEW size \in Requests,
         krealloc(c, p, size)
  PROVE  AllocInv'
<1>1. HeapInv /\ CallersInv /\ Typed /\ Headers
  BY DEF AllocInv, HeapInv
<1>2. PICK m : m = MinorAt(p)
  OBVIOUS
<1>3. /\ call[c] = Idle /\ owned[p] = c
      /\ major' = major /\ l_memRoot' = l_memRoot /\ l_bestBet' = l_bestBet
      /\ owned' = owned
      /\ IF minor[m].req_size >= size
           THEN minor' = [minor EXCEPT ![m].req_size = size] /\ call' = call
           ELSE /\ call' = [call EXCEPT ![c] = [at |-> "malloc", old |-> p, size |-> size]]
                /\ minor' = minor
  BY <1>2 DEF krealloc, Continue
<1>4. m \in DOMAIN minor
  <2>1. Holds(p, owned[p])
    BY <1>1, OwnedPointers
  <2> QED
    BY <1>1, <1>2, <2>1, BlockBehind
<1>5. CASE minor[m].req_size >= size
  <2>1. /\ minor[m] \in Blocks /\ minor[m].size \in Nat /\ minor[m].req_size \in Nat
        /\ Padded(minor[m].req_size) <= minor[m].size
    BY <1>1, <1>4, MinorFields DEF Headers
  <2>2. size \in Nat
    BY SizeOfRequest
  <2>3. /\ DOMAIN minor' = DOMAIN minor
        /\ minor' = [x \in DOMAIN minor |-> minor'[x]]
        /\ \A x \in DOMAIN minor : x # m => minor'[x] = minor[x]
        /\ minor'[m] = [minor[m] EXCEPT !.req_size = size]
    BY <1>1, <1>3, <1>4, <1>5 DEF Typed
  <2>4. minor'[m] = [prev |-> minor[m].prev, next |-> minor[m].next,
                     block |-> minor[m].block, magic |-> minor[m].magic,
                     size |-> minor[m].size, req_size |-> size,
                     data |-> minor[m].data]
    BY <2>1, <2>3 DEF Blocks
  <2>5. SameHeader(m) /\ minor'[m] \in Blocks /\ minor'[m].data = minor[m].data
    BY <2>1, <2>2, <2>4 DEF SameHeader, Blocks
  <2>6. Padded(minor'[m].req_size) <= minor'[m].size
    <3>1. Padded(size) <= minor[m].size
      BY <1>5, <2>1, <2>2, Constants DEF Padded
    <3> QED
      BY <2>4, <3>1
  <2>7. \A x \in DOMAIN minor :
          /\ SameHeader(x) /\ minor'[x] \in Blocks
          /\ Padded(minor'[x].req_size) <= minor'[x].size
    <3>1. ASSUME NEW x \in DOMAIN minor, x # m
          PROVE  /\ SameHeader(x) /\ minor'[x] \in Blocks
                 /\ Padded(minor'[x].req_size) <= minor'[x].size
      BY <1>1, <2>3, <3>1, MinorFields DEF SameHeader, Headers
    <3> QED
      BY <2>5, <2>6, <3>1
  <2>8. HeapInv' /\ Live' = Live
    <3>1. l_bestBet' \in DOMAIN major \cup {NULL}
      BY <1>1, <1>3 DEF Typed
    <3> QED
      BY <1>1, <1>3, <2>3, <2>7, <3>1, ContentsChange
  <2>9. \A q, e : Holds(q, e) => Holds(q, e)'
    <3>1. \A x \in Live : minor'[x].data = minor[x].data
      BY <2>3, <2>5 DEF Live
    <3> QED
      BY <2>8, <3>1 DEF Holds
  <2>10. CallSound(c)' /\ InFlight(c)' = {}
    BY <1>3, <1>5 DEF CallSound, InFlight, Idle
  <2>11. call' = [d \in Cores |-> IF d = c THEN Idle ELSE call[d]]
    BY <1>1, <1>3, <1>5 DEF CallersInv
  <2>12. CallersInv'
    BY <1>1, <1>3, <2>9, <2>10, <2>11, OwnStep
  <2> QED
    BY <2>8, <2>12 DEF AllocInv
<1>6. CASE ~ (minor[m].req_size >= size)
  <2>1. HeapInv'
    BY <1>1, <1>3, <1>6, NothingChanges
  <2>2. \A q, e : Holds(q, e) => Holds(q, e)'
    BY <1>3, <1>6 DEF Holds, Live
  <2>3. PICK x : x = [at |-> "malloc", old |-> p, size |-> size]
    OBVIOUS
  <2>4. call' = [d \in Cores |-> IF d = c THEN x ELSE call[d]]
    BY <1>1, <1>3, <1>6, <2>3 DEF CallersInv
  <2>5. CallSound(c)'
    BY <1>3, <2>3, <2>4 DEF CallSound
  <2>6. InFlight(c)' = {}
    <3>1. call'[c].at = "malloc"
      BY <2>3, <2>4
    <3> QED
      BY <3>1 DEF InFlight
  <2>7. CallersInv'
    BY <1>1, <1>3, <2>2, <2>4, <2>5, <2>6, OwnStep
  <2> QED
    BY <2>1, <2>7 DEF AllocInv
<1> QED
  BY <1>5, <1>6

LEMMA CallMallocKeeps ==
  ASSUME AllocInv, NEW c \in Cores, NEW new \in Grants, CallMalloc(c, new), OutOfUse
  PROVE  AllocInv'
<1>1. HeapInv /\ CallersInv
  BY DEF AllocInv
<1>2. /\ call[c].at = "malloc" /\ malloc(call[c].size, new, Junk)
      /\ call' = [call EXCEPT ![c] = [at |-> "fill", old |-> call[c].old,
                                      new |-> Returned(call[c].size, new)]]
      /\ owned' = owned
  BY DEF CallMalloc, Continue
<1>3. PICK old \in DOMAIN owned \cup {NULL}, size \in Requests :
        /\ call[c] = [at |-> "malloc", old |-> old, size |-> size]
        /\ old # NULL => owned[old] = c
  BY <1>1, <1>2, CallCases DEF CallersInv
<1>4. call[c].size = size /\ call[c].old = old
  BY <1>3
<1>5. HeapInv' /\ LiveKept
  BY <1>1, <1>2, <1>4, MallocKeeps
<1>6. PICK p \in Nat : /\ p = Returned(size, new)
                       /\ p # NULL => Holds(p, Junk)' /\ \A d : ~ Holds(p, d)
  BY <1>1, <1>2, <1>4, MallocKeeps
<1>7. \A q, e : Holds(q, e) => Holds(q, e)'
  BY <1>5, HoldsKept
<1>8. PICK x : x = [at |-> "fill", old |-> old, new |-> p]
  OBVIOUS
<1>9. call' = [d \in Cores |-> IF d = c THEN x ELSE call[d]]
  BY <1>1, <1>2, <1>4, <1>6, <1>8 DEF CallersInv
<1>10. call'[c] = x
  BY <1>9
<1>11. CallSound(c)'
  <2>1. p # NULL => \E d : Holds(p, d)'
    BY <1>6
  <2> QED
    BY <1>2, <1>3, <1>8, <1>10, <2>1 DEF CallSound
<1>12. InFlight(c)' = {p} \ {NULL}
  <2>1. call'[c].at = "fill" /\ call'[c].new = p
    BY <1>8, <1>10
  <2> QED
    BY <2>1 DEF InFlight
<1>13. InFlight(c)' \cap DOMAIN owned = {}
  <2>1. \A q \in DOMAIN owned : Holds(q, owned[q])
    BY <1>1, OwnedPointers
  <2> QED
    BY <1>6, <1>12, <2>1
<1>14. \A d \in Cores \ {c} : InFlight(c)' \cap InFlight(d) = {}
  <2>1. ASSUME NEW d \in Cores, NEW q \in InFlight(d)
        PROVE  q \notin InFlight(c)'
    <3>1. \E e : Holds(q, e)
      BY <1>1, FlyingPointers
    <3> QED
      BY <1>6, <1>12, <3>1
  <2> QED
    BY <2>1
<1>15. CallersInv'
  BY <1>1, <1>2, <1>7, <1>9, <1>11, <1>13, <1>14, OwnStep
<1> QED
  BY <1>5, <1>15 DEF AllocInv

\* The block is written through a pointer that is still in flight.
LEMMA FillKeeps ==
  ASSUME AllocInv, NEW c \in Cores, Fill(c)
  PROVE  AllocInv'
<1>1. HeapInv /\ CallersInv /\ Typed /\ Headers
  BY DEF AllocInv, HeapInv
<1>2. call[c].at = "fill"
  BY DEF Fill
<1>3. PICK old \in DOMAIN owned \cup {NULL}, new \in Nat :
        /\ call[c] = [at |-> "fill", old |-> old, new |-> new]
        /\ old # NULL => owned[old] = c
        /\ new # NULL => \E d : Holds(new, d)
  BY <1>1, <1>2, CallCases DEF CallersInv
<1>4. call[c].old = old /\ call[c].new = new
  BY <1>3
<1>5. /\ major' = major /\ l_memRoot' = l_memRoot /\ l_bestBet' = l_bestBet
      /\ new = NULL => /\ call' = [call EXCEPT ![c] = [at |-> "panic"]]
                       /\ minor' = minor /\ owned' = owned
      /\ new # NULL => /\ minor' = [minor EXCEPT ![MinorAt(new)].data = ContentOf(c, old)]
                       /\ old = NULL => /\ call' = [call EXCEPT ![c] = Idle]
                                        /\ Gain(new, c)
                       /\ old # NULL =>
                            /\ call' = [call EXCEPT ![c] =
                                          [at |-> "free", old |-> old, new |-> new]]
                            /\ owned' = owned
  BY <1>4 DEF Fill, Continue
<1>6. InFlight(c) = {new} \ {NULL}
  BY <1>2, <1>4 DEF InFlight
<1>7. CASE new = NULL
  <2>1. HeapInv'
    BY <1>1, <1>5, <1>7, NothingChanges
  <2>2. \A q, e : Holds(q, e) => Holds(q, e)'
    BY <1>5, <1>7 DEF Holds, Live
  <2>3. PICK x : x = [at |-> "panic"]
    OBVIOUS
  <2>4. call' = [d \in Cores |-> IF d = c THEN x ELSE call[d]]
    BY <1>1, <1>5, <1>7, <2>3 DEF CallersInv
  <2>5. CallSound(c)' /\ InFlight(c)' = {}
    <3>1. call'[c] = [at |-> "panic"] /\ call'[c].at = "panic"
      BY <2>3, <2>4
    <3> QED
      BY <3>1 DEF CallSound, InFlight
  <2>6. CallersInv'
    BY <1>1, <1>5, <1>7, <2>2, <2>4, <2>5, OwnStep
  <2> QED
    BY <2>1, <2>6 DEF AllocInv
<1>8. CASE new # NULL
  <2>1. PICK m : m = MinorAt(new)
    OBVIOUS
  <2>2. m \in Live /\ m \in DOMAIN minor /\ PointerTo(m) = new
    BY <1>1, <1>3, <1>8, <2>1, BlockBehind
  <2>3. ContentOf(c, old) = c
    <3>1. CASE old = NULL
      BY <3>1 DEF ContentOf
    <3>2. CASE old # NULL
      <4>1. old \in DOMAIN owned /\ owned[old] = c
        BY <1>3, <3>2
      <4>2. Holds(old, c)
        BY <1>1, <4>1, OwnedPointers
      <4> QED
        BY <1>1, <3>2, <4>2, BlockBehind DEF ContentOf
    <3> QED
      BY <3>1, <3>2
  <2>4. /\ DOMAIN minor' = DOMAIN minor
        /\ minor' = [x \in DOMAIN minor |-> minor'[x]]
        /\ \A x \in DOMAIN minor : x # m => minor'[x] = minor[x]
        /\ minor'[m] = [minor[m] EXCEPT !.data = c]
    BY <1>1, <1>5, <1>8, <2>1, <2>2, <2>3 DEF Typed
  <2>5. minor[m] \in Blocks
    BY <1>1, <2>2, MinorFields
  <2>6. minor'[m] = [prev |-> minor[m].prev, next |-> minor[m].next,
                     block |-> minor[m].block, magic |-> minor[m].magic,
                     size |-> minor[m].size, req_size |-> minor[m].req_size,
                     data |-> c]
    BY <2>4, <2>5 DEF Blocks
  <2>7. SameHeader(m) /\ minor'[m] \in Blocks /\ minor'[m].data = c
        /\ minor'[m].req_size = minor[m].req_size /\ minor'[m].size = minor[m].size
    BY <2>5, <2>6 DEF SameHeader, Blocks
  <2>8. \A x \in DOMAIN minor :
          /\ SameHeader(x) /\ minor'[x] \in Blocks
          /\ Padded(minor'[x].req_size) <= minor'[x].size
    <3>1. ASSUME NEW x \in DOMAIN minor, x # m
          PROVE  /\ SameHeader(x) /\ minor'[x] \in Blocks
                 /\ Padded(minor'[x].req_size) <= minor'[x].size
      BY <1>1, <2>4, <3>1, MinorFields DEF SameHeader, Headers
    <3>2. Padded(minor'[m].req_size) <= minor'[m].size
      BY <1>1, <2>2, <2>7 DEF Headers
    <3> QED
      BY <2>7, <3>1, <3>2
  <2>9. HeapInv' /\ Live' = Live
    <3>1. l_bestBet' \in DOMAIN major \cup {NULL}
      BY <1>1, <1>5 DEF Typed
    <3> QED
      BY <1>1, <1>5, <2>4, <2>8, <3>1, ContentsChange
  <2>10. Holds(new, c)'
    BY <2>2, <2>7, <2>9 DEF Holds
  <2>11. ASSUME NEW q, NEW e, q # new, Holds(q, e)
         PROVE  Holds(q, e)'
    <3>1. PICK x \in Live : PointerTo(x) = q /\ minor[x].data = e
      BY <2>11 DEF Holds
    <3>2. x # m /\ x \in DOMAIN minor
      BY <2>2, <2>11, <3>1 DEF Live
    <3>3. minor'[x].data = e
      BY <2>4, <3>1, <3>2
    <3> QED
      BY <2>9, <3>1, <3>3 DEF Holds
  <2>12. \A q \in DOMAIN owned :
           q # NULL /\ owned[q] \in Cores /\ Holds(q, owned[q]) /\ q # new
    <3>1. new \in InFlight(c)
      BY <1>6, <1>8
    <3> QED
      BY <1>1, <3>1, OwnedPointers
  <2>13. \A d \in Cores \ {c} : \A q \in InFlight(d) : q \notin DOMAIN owned /\ q # new
    <3>1. new \in InFlight(c)
      BY <1>6, <1>8
    <3> QED
      BY <1>1, <3>1 DEF CallersInv
  <2>14. CASE old = NULL
    <3>1. owned' = [q \in DOMAIN owned \cup {new} |-> IF q = new THEN c ELSE owned[q]]
      BY <1>5, <1>8, <2>14 DEF Gain
    <3>2. call' = [d \in Cores |-> IF d = c THEN Idle ELSE call[d]]
      BY <1>1, <1>5, <1>8, <2>14 DEF CallersInv
    <3>3. CallSound(c)' /\ InFlight(c)' = {}
      BY <3>2 DEF CallSound, InFlight, Idle
    <3>4. ASSUME NEW q \in DOMAIN owned'
          PROVE  \/ owned'[q] = c /\ q # NULL /\ Holds(q, c)'
                 \/ q \in DOMAIN owned /\ owned'[q] = owned[q] /\ owned[q] # c
      <4>1. CASE q = new
        BY <1>8, <2>10, <3>1, <4>1
      <4>2. CASE q # new
        <5>1. q \in DOMAIN owned /\ owned'[q] = owned[q]
          BY <3>1, <4>2
        <5>2. owned[q] = c => Holds(q, c)
          BY <2>12, <5>1
        <5> QED
          BY <2>11, <2>12, <4>2, <5>1, <5>2
      <4> QED
        BY <4>1, <4>2
    <3>5. \A q \in DOMAIN owned : \A e \in Cores \ {c} :
            owned[q] = e => q \in DOMAIN owned' /\ owned'[q] = e /\ Holds(q, e)'
      BY <2>11, <2>12, <3>1
    <3>6. \A d \in Cores \ {c} : \A q \in InFlight(d) :
            q \notin DOMAIN owned' /\ \A e : Holds(q, e) => Holds(q, e)'
      BY <2>11, <2>13, <3>1
    <3>7. CallersInv'
      BY <1>1, <3>2, <3>3, <3>4, <3>5, <3>6, CallersStep
    <3> QED
      BY <2>9, <3>7 DEF AllocInv
  <2>15. CASE old # NULL
    <3>1. PICK x : x = [at |-> "free", old |-> old, new |-> new]
      OBVIOUS
    <3>2. call' = [d \in Cores |-> IF d = c THEN x ELSE call[d]] /\ owned' = owned
      BY <1>1, <1>5, <1>8, <2>15, <3>1 DEF CallersInv
    <3>3. call'[c] = x /\ x.at = "free" /\ x.new = new
      BY <3>1, <3>2
    <3>4. CallSound(c)'
      <4>1. old \in DOMAIN owned' /\ owned'[old] = c /\ new \in Nat \ {NULL}
        BY <1>3, <1>8, <2>15, <3>2
      <4> QED
        BY <2>10, <3>1, <3>3, <4>1 DEF CallSound
    <3>5. InFlight(c)' = {new}
      BY <1>8, <3>3 DEF InFlight
    <3>6. ASSUME NEW q \in DOMAIN owned'
          PROVE  \/ owned'[q] = c /\ q # NULL /\ Holds(q, c)'
                 \/ q \in DOMAIN owned /\ owned'[q] = owned[q] /\ owned[q] # c
      <4>1. q \in DOMAIN owned /\ owned'[q] = owned[q]
        BY <3>2
      <4>2. owned[q] = c => Holds(q, c)
        BY <2>12, <4>1
      <4> QED
        BY <2>11, <2>12, <4>1, <4>2
    <3>7. \A q \in DOMAIN owned : \A e \in Cores \ {c} :
            owned[q] = e => q \in DOMAIN owned' /\ owned'[q] = e /\ Holds(q, e)'
      BY <2>11, <2>12, <3>2
    <3>8. \A d \in Cores \ {c} : \A q \in InFlight(d) :
            q \notin DOMAIN owned' /\ \A e : Holds(q, e) => Holds(q, e)'
      BY <2>11, <2>13, <3>2
    <3>9. /\ InFlight(c)' \cap DOMAIN owned' = {}
          /\ \A d \in Cores \ {c} : InFlight(c)' \cap InFlight(d) = {}
      BY <2>12, <2>13, <3>2, <3>5
    <3>10. CallersInv'
      BY <1>1, <3>2, <3>4, <3>6, <3>7, <3>8, <3>9, CallersStep
    <3> QED
      BY <2>9, <3>10 DEF AllocInv
  <2> QED
    BY <2>14, <2>15
<1> QED
  BY <1>7, <1>8

LEMMA FreeOldKeeps ==
  ASSUME AllocInv, NEW c \in Cores, FreeOld(c)
  PROVE  AllocInv'
<1>1. HeapInv /\ CallersInv /\ Typed /\ Headers
  BY DEF AllocInv, HeapInv
<1>2. call[c].at = "free"
  BY DEF FreeOld
<1>3. PICK old \in DOMAIN owned, new \in Nat \ {NULL} :
        /\ call[c] = [at |-> "free", old |-> old, new |-> new]
        /\ owned[old] = c
        /\ Holds(new, c)
  BY <1>1, <1>2, CallCases DEF CallersInv
<1>4. call[c].old = old /\ call[c].new = new
  BY <1>3
<1>5. /\ free(old)
      /\ owned' = [q \in (DOMAIN owned \ {old}) \cup {new} |->
                     IF q = new THEN c ELSE owned[q]]
      /\ call' = [call EXCEPT ![c] = Idle]
  BY <1>4 DEF FreeOld, Continue
<1>6. new \in InFlight(c)
  BY <1>2, <1>3, <1>4 DEF InFlight
<1>7. \A q \in DOMAIN owned :
        q # NULL /\ owned[q] \in Cores /\ Holds(q, owned[q]) /\ q # new
  BY <1>1, <1>6, OwnedPointers
<1>8. PICK m \in Live : PointerTo(m) = old
  BY <1>7 DEF Holds
<1>9. HeapInv' /\ LiveBut(m)
  <2>1. m \in DOMAIN minor /\ free(PointerTo(m))
    BY <1>5, <1>8 DEF Live
  <2> QED
    BY <1>1, <2>1, FreeKeeps
<1>10. \A q, e : q # old /\ Holds(q, e) => Holds(q, e)'
  BY <1>8, <1>9, HoldsBut
<1>11. Holds(new, c)'
  BY <1>3, <1>7, <1>10
<1>12. \A d \in Cores \ {c} : \A q \in InFlight(d) : q \notin DOMAIN owned /\ q # new
  BY <1>1, <1>6 DEF CallersInv
<1>13. ASSUME NEW q \in DOMAIN owned'
       PROVE  \/ owned'[q] = c /\ q # NULL /\ Holds(q, c)'
              \/ q \in DOMAIN owned /\ owned'[q] = owned[q] /\ owned[q] # c
  <2>1. CASE q = new
    BY <1>5, <1>11, <2>1
  <2>2. CASE q # new
    <3>1. q \in DOMAIN owned /\ q # old /\ owned'[q] = owned[q]
      BY <1>5, <2>2
    <3>2. owned[q] = c => Holds(q, c)
      BY <1>7, <3>1
    <3> QED
      BY <1>7, <1>10, <3>1, <3>2
  <2> QED
    BY <2>1, <2>2
<1>14. \A q \in DOMAIN owned : \A e \in Cores \ {c} :
         owned[q] = e => q \in DOMAIN owned' /\ owned'[q] = e /\ Holds(q, e)'
  BY <1>3, <1>5, <1>7, <1>10
<1>15. \A d \in Cores \ {c} : \A q \in InFlight(d) :
         q \notin DOMAIN owned' /\ \A e : Holds(q, e) => Holds(q, e)'
  BY <1>3, <1>5, <1>10, <1>12
<1>16. call' = [d \in Cores |-> IF d = c THEN Idle ELSE call[d]]
  BY <1>1, <1>5 DEF CallersInv
<1>17. CallSound(c)' /\ InFlight(c)' = {}
  BY <1>16 DEF CallSound, InFlight, Idle
<1>18. CallersInv'
  BY <1>1, <1>13, <1>14, <1>15, <1>16, <1>17, CallersStep
<1> QED
  BY <1>9, <1>18 DEF AllocInv

LEMMA AllocInvInit == Init => AllocInv
<1> SUFFICES ASSUME Init
             PROVE  AllocInv
  OBVIOUS
<1>1. /\ major = << >> /\ minor = << >> /\ l_memRoot = NULL /\ l_bestBet = NULL
      /\ owned = << >> /\ call = [c \in Cores |-> Idle]
  BY DEF Init
<1>2. DOMAIN major = {} /\ DOMAIN minor = {} /\ DOMAIN owned = {} /\ Live = {}
  BY <1>1 DEF Live
<1>3. Typed
  BY <1>1, <1>2, FS_EmptySet DEF Typed
<1>4. RunsDisjoint /\ Headers /\ \A a \in DOMAIN major : \E L : BlocksOf(a, L)
  BY <1>2 DEF RunsDisjoint, Headers
<1>5. RunsAre(<< >>)
  <2>1. << >> \in Seq(DOMAIN NextRuns) /\ Len(<< >>) = 0 /\ 1 .. 0 = {}
        /\ IsInjective(<< >>)
    BY DEF IsInjective
  <2> QED
    BY <1>1, <1>2, <2>1 DEF RunsAre, Path
<1>6. HeapInv
  BY <1>3, <1>4, <1>5 DEF HeapInv
<1>7. \A c \in Cores : call[c] = Idle
  BY <1>1
<1>8. CallersInv
  BY <1>1, <1>2, <1>7, IdleSound DEF CallersInv
<1> QED
  BY <1>6, <1>8 DEF AllocInv

LEMMA AllocInvStep == AllocInv /\ [Next]_vars => AllocInv'
<1> SUFFICES ASSUME AllocInv, [Next]_vars
             PROVE  AllocInv'
  OBVIOUS
<1>1. ASSUME NEW c \in Cores, NEW new \in Grants, Step(c, new), OutOfUse
      PROVE  AllocInv'
  <2>1. ASSUME NEW req \in Requests, kmalloc(c, req, new)
        PROVE  AllocInv'
    BY <1>1, <2>1, KmallocKeeps
  <2>2. CASE CallMalloc(c, new)
    BY <1>1, <2>2, CallMallocKeeps
  <2>3. ASSUME NEW p \in DOMAIN owned, kfree(c, p)
        PROVE  AllocInv'
    BY <2>3, KfreeKeeps
  <2>4. ASSUME NEW m \in DOMAIN minor, FreeAgain(c, m)
        PROVE  AllocInv'
    BY <2>4, FreeAgainKeeps
  <2>5. ASSUME NEW size \in Requests, kcalloc(c, size)
        PROVE  AllocInv'
    BY <2>5, KcallocKeeps
  <2>6. ASSUME NEW p \in DOMAIN owned, NEW size \in Requests, krealloc(c, p, size)
        PROVE  AllocInv'
    BY <2>6, KreallocKeeps
  <2>7. CASE Fill(c)
    BY <2>7, FillKeeps
  <2>8. CASE FreeOld(c)
    BY <2>8, FreeOldKeeps
  <2> QED
    BY <1>1, <2>1, <2>2, <2>3, <2>4, <2>5, <2>6, <2>7, <2>8 DEF Step
<1>2. CASE UNCHANGED vars
  <2>1. HeapInv' /\ Live' = Live
    BY <1>2, NothingChanges DEF AllocInv, vars
  <2>2. /\ minor' = minor /\ owned' = owned /\ call' = call
    BY <1>2 DEF vars
  <2>3. CallersInv'
    BY <2>1, <2>2 DEF AllocInv, CallersInv, CallSound, InFlight, Holds
  <2> QED
    BY <2>1, <2>3 DEF AllocInv
<1> QED
  BY <1>1, <1>2 DEF Next

-----------------------------------------------------------------------------
(* What the invariant says *)

LEMMA AllocInvTypeOK == AllocInv => TypeOK
<1> SUFFICES ASSUME AllocInv
             PROVE  TypeOK
  OBVIOUS
<1>1. Typed /\ Headers /\ HeapInv /\ CallersInv
  BY DEF AllocInv, HeapInv
<1>2. ASSUME NEW a \in DOMAIN major
      PROVE  major[a] \in [prev : Links, next : Links, pages : Nat, size : Nat,
                           usage : 0 .. major[a].size, first : DOMAIN minor]
  <2>1. PICK L : BlocksOf(a, L)
    BY <1>1 DEF HeapInv
  <2>2. Len(L) \in Nat /\ Len(L) >= 1 /\ major[a].first = L[1]
        /\ \A k \in 1 .. Len(L) : L[k] \in DOMAIN minor
    BY <1>1, <2>1, BlockFields
  <2>3. major[a].first \in DOMAIN minor
    <3>1. 1 \in 1 .. Len(L)
      BY <2>2
    <3> QED
      BY <2>2, <3>1
  <2>4. /\ major[a] \in Runs /\ major[a].prev \in Nat /\ major[a].next \in Nat
        /\ major[a].pages \in Nat /\ major[a].size \in Nat /\ major[a].usage \in Nat
    BY <1>1, MajorFields
  <2>5. major[a].usage \in 0 .. major[a].size
    BY <2>1, <2>4 DEF BlocksOf
  <2>6. major[a] = [prev |-> major[a].prev, next |-> major[a].next,
                    pages |-> major[a].pages, size |-> major[a].size,
                    usage |-> major[a].usage, first |-> major[a].first]
    BY <2>4 DEF Runs
  <2> QED
    BY <2>3, <2>4, <2>5, <2>6 DEF Links
<1>3. ASSUME NEW m \in DOMAIN minor
      PROVE  minor[m] \in [prev : Links, next : Links, block : DOMAIN major,
                           magic : {LIBALLOC_MAGIC, LIBALLOC_DEAD}, size : Nat,
                           req_size : Nat, data : Cores \cup {Junk}]
  BY <1>1, MinorFields DEF Blocks, Links
<1>4. {l_memRoot, l_bestBet} \subseteq DOMAIN major \cup {NULL}
  <2>1. PICK R : RunsAre(R)
    BY <1>1 DEF HeapInv
  <2>2. R \in Seq(DOMAIN major) /\ l_memRoot = IF R = << >> THEN NULL ELSE R[1]
    BY <2>1 DEF RunsAre, Path, NextRuns
  <2>3. l_memRoot \in DOMAIN major \cup {NULL}
    BY <2>2
  <2> QED
    BY <1>1, <2>3 DEF Typed
<1>5. \A p \in DOMAIN owned : owned[p] \in Cores
  BY <1>1 DEF CallersInv
<1>6. \A c \in Cores : call[c].at \in {"idle", "malloc", "fill", "free", "panic"}
  BY <1>1, CallCases DEF CallersInv
<1> QED
  BY <1>2, <1>3, <1>4, <1>5, <1>6 DEF TypeOK

LEMMA AllocInvBlocks == AllocInv => BlocksApart /\ UsageExact
<1> SUFFICES ASSUME AllocInv
             PROVE  BlocksApart /\ UsageExact
  OBVIOUS
<1>1. Typed /\ Headers /\ HeapInv
  BY DEF AllocInv, HeapInv
<1>2. ASSUME NEW a \in DOMAIN major
      PROVE  \E L : BlocksOf(a, L) /\ MinorsOf(a) = L
  <2>1. PICK L : BlocksOf(a, L)
    BY <1>1 DEF HeapInv
  <2> QED
    BY <1>1, <2>1, BlocksWalked
<1>3. ASSUME NEW a \in DOMAIN major, NEW k \in 0 .. Len(MinorsOf(a))
      PROVE  GapStart(a, MinorsOf(a), k) <= GapEnd(a, MinorsOf(a), k)
  <2>1. PICK L : BlocksOf(a, L) /\ MinorsOf(a) = L
    BY <1>2
  <2>2. /\ Len(L) \in Nat /\ Len(L) >= 1
        /\ \A j \in 1 .. Len(L) :
             /\ L[j] \in DOMAIN minor /\ L[j] \in Nat /\ minor[L[j]].block = a
             /\ minor[L[j]].size \in Nat
    BY <1>1, <2>1, BlockFields
  <2>3. a \in Nat /\ major[a].size \in Nat
    BY <1>1, MajorFields
  <2>4. k \in Nat /\ k <= Len(L)
    BY <2>1, <2>2
  <2>5. CASE k = 0
    <3>1. 1 \in 1 .. Len(L) /\ k # Len(L) /\ k + 1 = 1
      BY <2>2, <2>5
    <3>2. a + MajorHeader <= L[1]
      BY <1>1, <2>2, <3>1 DEF Headers
    <3> QED
      BY <2>1, <2>5, <3>1, <3>2 DEF GapStart, GapEnd
  <2>6. CASE k # 0
    <3>1. k \in 1 .. Len(L)
      BY <2>2, <2>4, <2>6
    <3>2. PICK p, z : p = L[k] /\ z = minor[L[k]].size
      OBVIOUS
    <3>3. p \in Nat /\ z \in Nat
      BY <2>2, <3>1, <3>2
    <3>4. p + Need(z) = p + MinorHeader + z
      BY <3>3, Constants DEF Need
    <3>5. GapStart(a, L, k) = p + MinorHeader + z
      BY <2>6, <3>2 DEF GapStart
    <3>6. CASE k = Len(L)
      <4>1. p + Need(z) <= a + major[a].size
        BY <1>1, <2>2, <3>1, <3>2 DEF Headers
      <4> QED
        BY <2>1, <3>4, <3>5, <3>6, <4>1 DEF GapEnd
    <3>7. CASE k # Len(L)
      <4>1. k + 1 \in 1 .. Len(L) /\ k < k + 1
        BY <2>2, <3>1, <3>7
      <4>2. p + Need(z) <= L[k + 1]
        BY <2>1, <3>1, <3>2, <4>1 DEF BlocksOf
      <4> QED
        BY <2>1, <3>4, <3>5, <3>7, <4>2 DEF GapEnd
    <3> QED
      BY <3>6, <3>7
  <2> QED
    BY <2>5, <2>6
<1>4. ASSUME NEW a \in DOMAIN major, NEW k \in 1 .. Len(MinorsOf(a))
      PROVE  /\ minor[MinorsOf(a)[k]].prev = (IF k = 1 THEN NULL ELSE MinorsOf(a)[k - 1])
             /\ minor[MinorsOf(a)[k]].block = a
             /\ MinorsOf(a)[k] \in Live
  <2>1. PICK L : BlocksOf(a, L) /\ MinorsOf(a) = L
    BY <1>2
  <2> QED
    BY <1>1, <2>1, BlockFields
<1>5. Live = UNION {ToSet(MinorsOf(a)) : a \in DOMAIN major}
  <2>1. ASSUME NEW a \in DOMAIN major
        PROVE  ToSet(MinorsOf(a)) = {MinorsOf(a)[k] : k \in 1 .. Len(MinorsOf(a))}
    <3>1. PICK L : BlocksOf(a, L) /\ MinorsOf(a) = L
      BY <1>2
    <3>2. L \in Seq(DOMAIN minor)
      BY <1>1, <3>1, BlockFields
    <3>3. ToSet(L) = {L[k] : k \in 1 .. Len(L)}
      BY <3>2 DEF ToSet
    <3> QED
      BY <3>1, <3>3
  <2>2. ASSUME NEW m \in Live
        PROVE  \E a \in DOMAIN major : m \in ToSet(MinorsOf(a))
    <3>1. minor[m].block \in DOMAIN major
      BY <1>1, MinorFields DEF Live
    <3>2. PICK L : BlocksOf(minor[m].block, L) /\ MinorsOf(minor[m].block) = L
      BY <1>2, <3>1
    <3>3. PICK k \in 1 .. Len(L) : L[k] = m
      BY <3>2 DEF BlocksOf
    <3>4. m \in ToSet(MinorsOf(minor[m].block))
      BY <2>1, <3>1, <3>2, <3>3
    <3> QED
      BY <3>1, <3>4
  <2>3. ASSUME NEW a \in DOMAIN major, NEW m \in ToSet(MinorsOf(a))
        PROVE  m \in Live
    BY <1>4, <2>1
  <2> QED
    BY <2>2, <2>3
<1>6. UsageExact
  <2>1. ASSUME NEW a \in DOMAIN major
        PROVE  major[a].usage = MajorHeader + Taken(MinorsOf(a))
    <3>1. PICK L : BlocksOf(a, L) /\ MinorsOf(a) = L
      BY <1>2
    <3> QED
      BY <3>1 DEF BlocksOf
  <2> QED
    BY <2>1 DEF UsageExact
<1> QED
  BY <1>3, <1>4, <1>5, <1>6 DEF BlocksApart

LEMMA AllocInvRuns == AllocInv => RunsListed
<1> SUFFICES ASSUME AllocInv
             PROVE  RunsListed
  OBVIOUS
<1>1. Typed /\ Headers /\ HeapInv
  BY DEF AllocInv, HeapInv
<1>2. PICK R : RunsAre(R)
  BY <1>1 DEF HeapInv
<1>3. MajorsFrom(l_memRoot) = R
  BY <1>1, <1>2, RunsWalked
<1>4. R \in Seq(DOMAIN major)
  BY <1>2 DEF RunsAre, Path, NextRuns
<1>5. ToSet(R) = DOMAIN major
  <2>1. ToSet(R) = {R[k] : k \in 1 .. Len(R)}
    BY <1>4 DEF ToSet
  <2>2. \A k \in 1 .. Len(R) : R[k] \in DOMAIN major
    BY <1>4
  <2>3. \A a \in DOMAIN major : \E k \in 1 .. Len(R) : R[k] = a
    BY <1>2 DEF RunsAre
  <2> QED
    BY <2>1, <2>2, <2>3
<1>6. ASSUME NEW k \in 1 .. Len(R)
      PROVE  /\ major[R[k]].prev = (IF k = 1 THEN NULL ELSE R[k - 1])
             /\ MinorsOf(R[k]) # << >>
  <2>1. R[k] \in DOMAIN major
    BY <1>4
  <2>2. PICK L : BlocksOf(R[k], L)
    BY <1>1, <2>1 DEF HeapInv
  <2>3. MinorsOf(R[k]) = L /\ L # << >>
    BY <1>1, <2>2, BlocksWalked DEF BlocksOf
  <2> QED
    BY <1>2, <2>3 DEF RunsAre
<1> QED
  BY <1>3, <1>5, <1>6, AllocInvTypeOK DEF RunsListed

LEMMA AllocInvContents == AllocInv => ContentsKept
<1> SUFFICES ASSUME AllocInv, NEW p \in DOMAIN owned
             PROVE  \E m \in Live :
                      /\ PointerTo(m) = p
                      /\ p % ALIGNMENT = 0
                      /\ p + minor[m].req_size <= m + MinorHeader + minor[m].size
                      /\ minor[m].data = owned[p]
  BY DEF ContentsKept
<1>1. Typed /\ Headers /\ CallersInv
  BY DEF AllocInv, HeapInv
<1>2. PICK m \in Live : PointerTo(m) = p /\ minor[m].data = owned[p]
  BY <1>1, OwnedPointers DEF Holds
<1>3. m \in DOMAIN minor
  BY DEF Live
<1>4. m \in Nat /\ minor[m].size \in Nat /\ minor[m].req_size \in Nat
      /\ Padded(minor[m].req_size) <= minor[m].size
  BY <1>1, <1>3, MinorFields DEF Headers
<1>5. p \in Nat /\ p % ALIGNMENT = 0 /\ p < m + MinorHeader + ALIGN_INFO + ALIGNMENT
  BY <1>2, <1>4, PointerBehind
<1>6. PICK r, z : r = minor[m].req_size /\ z = minor[m].size
  OBVIOUS
<1>7. p + r <= m + MinorHeader + z
  <2>1. r \in Nat /\ z \in Nat /\ r + ALIGNMENT + ALIGN_INFO <= z /\ m \in Nat
    BY <1>4, <1>6 DEF Padded
  <2> QED
    BY <1>5, <2>1, Constants
<1> QED
  BY <1>2, <1>5, <1>6, <1>7

-----------------------------------------------------------------------------
(* Theorems *)

THEOREM AllocAlwaysSound == Spec => []AllocInv
<1> QED
  BY AllocInvInit, AllocInvStep, PTL DEF Spec

\* Every header holds what its fields are for, and every call is at a step it
\* has.
THEOREM AllocTypeCorrect == Spec => []TypeOK
<1> QED
  BY AllocAlwaysSound, AllocInvTypeOK, PTL

\* The blocks of a run are linked in the order of their addresses, do not
\* overlap, end with the run, and are all the live blocks: malloc and free
\* keep the lists whole wherever the room is found.
THEOREM BlocksAlwaysApart == Spec => []BlocksApart
<1> QED
  BY AllocAlwaysSound, AllocInvBlocks, PTL

\* The usage that cases 1 and 5 of malloc compare is what the headers and the
\* blocks of the run take, after any sequence of malloc and free.
THEOREM UsageAlwaysExact == Spec => []UsageExact
<1> QED
  BY AllocAlwaysSound, AllocInvBlocks, PTL

\* No run is lost from the list that starts at l_memRoot, and none is kept
\* after its last block has gone.
THEOREM RunsAlwaysListed == Spec => []RunsListed
<1> QED
  BY AllocAlwaysSound, AllocInvRuns, PTL

\* What a core has written stays in its block, whatever other cores allocate,
\* free and reallocate meanwhile, between the steps of krealloc too.
THEOREM ContentsAlwaysKept == Spec => []ContentsKept
<1> QED
  BY AllocAlwaysSound, AllocInvContents, PTL
=============================================================================
