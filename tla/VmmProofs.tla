----------------------------- MODULE VmmProofs ------------------------------
(***************************************************************************)
(* The tables of all page maps, for any number of cores, pages, indices    *)
(* and page maps, with a vmm_map half done on every core: a table has one  *)
(* level, hangs in one entry and is not free; the tables of each page map  *)
(* act as one map of addresses, with the kernel's half in common; and what *)
(* a core has cached is what its tables say.                               *)
(*                                                                         *)
(* A request that finds no page is where that ends: page 0 is then taken   *)
(* for a table, wherever it is needed.  The theorems are about executions  *)
(* in which the allocator has a page.                                      *)
(***************************************************************************)
EXTENDS Vmm, FiniteSetTheorems, TLAPS

Used == Frames \ free
Entries == [present : BOOLEAN, to : Frames \cup Data \cup {NULL}, writable : BOOLEAN]

\* Every page that is not free has a level: the page maps have the first, a
\* table has the one below that of the table which points to it, and a core
\* that maps a page is at a table of the level it thinks it is.
LevelsFit(L) ==
  /\ \A p \in maps : L[p] = 1
  /\ \A f \in Used, i \in Index : mem[f][i].present =>
       IF L[f] = 4 THEN mem[f][i].to \in Data
       ELSE /\ mem[f][i].to \in Used /\ mem[f][i].to \notin maps
            /\ L[mem[f][i].to] = L[f] + 1 /\ mem[f][i].writable
  /\ \A c \in Cores : ~Idle(c) =>
       /\ walk[c].table \in Used /\ L[walk[c].table] = walk[c].level
       /\ walk[c].level = 1 => Walking(c, walk[c].table)

\* Two entries that lead to one table are the same entry, or the same entry of
\* the kernel's half in two page maps.
OneParent(L) ==
  \A f, g \in Used, i, j \in Index :
    /\ mem[f][i].present /\ mem[g][j].present
    /\ L[f] # 4 /\ L[g] # 4
    /\ mem[f][i].to = mem[g][j].to
    => \/ f = g /\ i = j
       \/ L[f] = 1 /\ L[g] = 1 /\ i = j /\ i \in KernelIndex

VmmInv ==
  /\ TypeOK
  /\ maps \subseteq Used /\ kernel_pagemap \in maps
  /\ \E L \in [Frames -> 1 .. 4] : LevelsFit(L) /\ OneParent(L)

-----------------------------------------------------------------------------
(* Typing *)

LEMMA ConstantFacts ==
  /\ NULL \notin Frames
  /\ \A v \in Virt : v[1] \in Index /\ v[2] \in Index /\ v[3] \in Index /\ v[4] \in Index
  /\ KernelIndex \subseteq Index
  /\ Accessed \subseteq Virt
BY VmmAssumption DEF NULL

LEMMA MemFacts ==
  ASSUME TypeOK
  PROVE  /\ mem \in [Frames \cup {NULL} -> [Index -> Entries]]
         /\ \A f \in Frames, i \in Index :
              mem[f][i].present \in BOOLEAN /\ mem[f][i].writable \in BOOLEAN
BY DEF TypeOK, Entries

LEMMA EntryIsTyped ==
  ASSUME NEW to \in Frames \cup Data \cup {NULL}, NEW w \in BOOLEAN
  PROVE  /\ Entry(to, w) \in Entries /\ Entry(to, w).present /\ Entry(to, w).to = to
         /\ Entry(to, w).writable = w
         /\ Absent \in Entries /\ ~Absent.present
         /\ EmptyTable \in [Index -> Entries]
BY DEF Entry, Entries, Absent, EmptyTable, NULL

LEMMA WalkFacts ==
  ASSUME TypeOK, NEW c \in Cores, walk[c].level # 0
  PROVE  /\ ~Idle(c)
         /\ walk[c] \in [level : 1 .. 4, pm : Frames \cup {NULL}, table : Frames \cup {NULL},
                         virt : Virt, phys : Data, writable : BOOLEAN]
         /\ walk[c].level \in 1 .. 4 /\ walk[c].phys \in Data
         /\ walk[c].writable \in BOOLEAN
         /\ walk[c].virt[walk[c].level] \in Index
<1> DEFINE w == walk[c]
<1>1. w \in Walks /\ w # NoWalk
  BY DEF TypeOK, NoWalk
<1>2. w \in [level : 1 .. 4, pm : Frames \cup {NULL}, table : Frames \cup {NULL},
             virt : Virt, phys : Data, writable : BOOLEAN]
  BY <1>1 DEF Walks
<1>3. w.level \in 1 .. 4 /\ w.virt \in Virt /\ w.phys \in Data /\ w.writable \in BOOLEAN
  BY <1>2
<1>4. /\ w.virt[1] \in Index /\ w.virt[2] \in Index
      /\ w.virt[3] \in Index /\ w.virt[4] \in Index
  BY <1>3, ConstantFacts
<1>5. w.level = 1 \/ w.level = 2 \/ w.level = 3 \/ w.level = 4
  BY <1>3
<1>6. w.virt[w.level] \in Index
  BY <1>4, <1>5
<1> QED
  BY <1>1, <1>2, <1>3, <1>4, <1>6 DEF Idle

\* A core goes one level down, to a table.
LEMMA DownIsTyped ==
  ASSUME TypeOK, NEW c \in Cores, walk[c].level \in 1 .. 3,
         NEW table \in Frames, Down(c, table)
  PROVE  /\ walk' \in [Cores -> Walks]
         /\ walk'[c].level = walk[c].level + 1 /\ walk'[c].table = table
         /\ walk'[c].pm = walk[c].pm /\ walk'[c].virt = walk[c].virt
         /\ \A d \in Cores : d # c => walk'[d] = walk[d]
<1> DEFINE w == walk[c]
           n == [level |-> w.level + 1, pm |-> w.pm, table |-> table, virt |-> w.virt,
                 phys |-> w.phys, writable |-> w.writable]
<1>1. w \in [level : 1 .. 4, pm : Frames \cup {NULL}, table : Frames \cup {NULL},
             virt : Virt, phys : Data, writable : BOOLEAN]
  BY WalkFacts
<1>2. walk \in [Cores -> Walks]
  BY DEF TypeOK
<1>3. walk' = [walk EXCEPT ![c] = n]
  <2> DEFINE s == [walk EXCEPT ![c].level = @ + 1]
             a == [w EXCEPT !.level = @ + 1]
  <2>1. s = [walk EXCEPT ![c] = a]
    OBVIOUS
  <2>2. walk' = [s EXCEPT ![c].table = table]
    BY DEF Down
  <2>3. a = [level |-> w.level + 1, pm |-> w.pm, table |-> w.table, virt |-> w.virt,
             phys |-> w.phys, writable |-> w.writable]
    BY <1>1
  <2> HIDE DEF a, s
  <2>4. n = [a EXCEPT !.table = table]
    BY <2>3
  <2> HIDE DEF n
  <2>5. s[c] = a
    BY <1>2, <2>1
  <2> QED
    BY <1>2, <2>1, <2>2, <2>4, <2>5
<1>4. n \in Walks
  <2>1. w.level + 1 \in 1 .. 4
    OBVIOUS
  <2> QED
    BY <1>1, <2>1 DEF Walks
<1>5. n.level = w.level + 1 /\ n.table = table /\ n.pm = w.pm /\ n.virt = w.virt
  OBVIOUS
<1> HIDE DEF n
<1> QED
  BY <1>2, <1>3, <1>4, <1>5

-----------------------------------------------------------------------------
(* The initial tables *)

LEMMA VmmInvInit == Init => VmmInv
<1> SUFFICES ASSUME Init PROVE VmmInv
  OBVIOUS
<1>1. PICK subtable \in Bijection(KernelTop, InitialTables) :
        mem = [f \in Frames \cup {NULL} |->
                 IF f = kernel_pagemap
                   THEN [i \in Index |-> IF i \in KernelTop THEN Entry(subtable[i], TRUE)
                                                            ELSE Absent]
                   ELSE EmptyTable]
  BY DEF Init
<1>2. /\ subtable \in [KernelTop -> InitialTables]
      /\ \A i, j \in KernelTop : subtable[i] = subtable[j] => i = j
  BY DEF Bijection, Injection, IsInjective
<1>3. /\ InitialTables \subseteq Frames /\ kernel_pagemap \in Frames
      /\ kernel_pagemap \notin InitialTables /\ KernelTop \subseteq KernelIndex
  <2>1. Cardinality(KernelTop) \in Nat
    BY VmmAssumption, FS_CardinalityType
  <2> QED
    BY <2>1, VmmAssumption DEF InitialTables, kernel_pagemap
<1>4. \A i \in Index : mem[kernel_pagemap][i] = IF i \in KernelTop THEN Entry(subtable[i], TRUE)
                                                                  ELSE Absent
  BY <1>1, <1>3
<1>5. \A f \in Frames : f # kernel_pagemap => mem[f] = EmptyTable
  BY <1>1
<1>6. \A i \in KernelTop : Entry(subtable[i], TRUE) \in Entries
                           /\ Entry(subtable[i], TRUE).to = subtable[i]
                           /\ Entry(subtable[i], TRUE).writable
  BY <1>2, <1>3, EntryIsTyped
<1>7. ~Absent.present /\ Absent \in Entries /\ EmptyTable \in [Index -> Entries]
  BY EntryIsTyped DEF NULL
<1>8. mem \in [Frames \cup {NULL} -> [Index -> Entries]]
  BY <1>1, <1>6, <1>7
<1>9. TypeOK
  <2>1. NoWalk \in Walks
    BY DEF Walks
  <2>2. 1 \in 1 .. MaxMaps
    BY VmmAssumption
  <2> QED
    BY <1>3, <1>8, <2>1, <2>2 DEF Init, TypeOK, Entries
<1>10. Used = {kernel_pagemap} \cup InitialTables
  BY <1>3 DEF Init, Used
<1> DEFINE L == [f \in Frames |-> IF f = kernel_pagemap THEN 1 ELSE 2]
<1>11. \A f \in Frames, i \in Index : mem[f][i].present =>
         /\ f = kernel_pagemap /\ i \in KernelTop
         /\ mem[f][i].to = subtable[i] /\ mem[f][i].writable
  BY ZenonT(60), <1>4, <1>5, <1>6, <1>7 DEF EmptyTable
<1>12. LevelsFit(L)
  <2>1. \A c \in Cores : Idle(c)
    BY DEF Init, Idle
  <2>2. \A p \in maps : L[p] = 1
    BY <1>3 DEF Init
  <2>3. ASSUME NEW f \in Used, NEW i \in Index, mem[f][i].present
        PROVE  /\ L[f] = 1 /\ mem[f][i].to \in Used /\ mem[f][i].to \notin maps
               /\ L[mem[f][i].to] = 2 /\ mem[f][i].writable
    <3>1. /\ f = kernel_pagemap /\ i \in KernelTop
          /\ mem[f][i].to = subtable[i] /\ mem[f][i].writable
      BY <1>3, <1>10, <1>11, <2>3
    <3>2. subtable[i] \in InitialTables
      BY <1>2, <3>1
    <3> QED
      BY <1>3, <1>10, <3>1, <3>2 DEF Init
  <2> HIDE DEF L
  <2> QED
    BY <2>1, <2>2, <2>3 DEF LevelsFit
<1>13. OneParent(L)
  BY <1>2, <1>3, <1>10, <1>11 DEF OneParent
<1>14. L \in [Frames -> 1 .. 4]
  OBVIOUS
<1> HIDE DEF L
<1> QED
  BY <1>3, <1>9, <1>10, <1>12, <1>13, <1>14 DEF VmmInv, Init

-----------------------------------------------------------------------------
(* Steps that leave the tables as they are, or take entries away: the same *)
(* levels fit.                                                             *)

\* No page changes hands and no entry appears or turns elsewhere.
LEMMA SameTables ==
  ASSUME NEW L \in [Frames -> 1 .. 4], LevelsFit(L), OneParent(L),
         UNCHANGED << free, maps >>,
         \A f \in Used, i \in Index : mem'[f][i].present =>
           /\ mem[f][i].present /\ mem'[f][i].to = mem[f][i].to
           /\ L[f] # 4 /\ mem[f][i].writable => mem'[f][i].writable,
         \A c \in Cores : ~Idle(c)' =>
           /\ walk'[c].table \in Used /\ L[walk'[c].table] = walk'[c].level
           /\ walk'[c].level = 1 => walk'[c].pm = walk'[c].table
  PROVE  LevelsFit(L)' /\ OneParent(L)'
<1>1. Used' = Used
  BY DEF Used
<1>2. LevelsFit(L)'
  <2>1. \A f \in Used', i \in Index : mem'[f][i].present =>
          IF L[f] = 4 THEN mem'[f][i].to \in Data
          ELSE /\ mem'[f][i].to \in Used' /\ mem'[f][i].to \notin maps'
               /\ L[mem'[f][i].to] = L[f] + 1 /\ mem'[f][i].writable
    BY <1>1 DEF LevelsFit
  <2>2. \A p \in maps' : L[p] = 1
    BY DEF LevelsFit
  <2> QED
    BY <1>1, <2>1, <2>2 DEF LevelsFit, Walking
<1>3. OneParent(L)'
  BY <1>1 DEF OneParent
<1> QED
  BY <1>2, <1>3

LEMMA StepMapStart ==
  ASSUME VmmInv, NEW c \in Cores, NEW pm \in maps, NEW v \in Virt, NEW phys \in Data,
         NEW w \in Modes, MapStart(c, pm, v, phys, w)
  PROVE  VmmInv'
<1> DEFINE n == [level |-> 1, pm |-> pm, table |-> pm, virt |-> v,
                 phys |-> phys, writable |-> w]
<1>1. /\ walk' = [walk EXCEPT ![c] = n] /\ UNCHANGED << mem, free, maps, created, cr3, tlb, behind >>
  BY DEF MapStart
<1>2. TypeOK /\ maps \subseteq Used /\ kernel_pagemap \in maps /\ walk \in [Cores -> Walks]
      /\ maps \subseteq Frames \cup {NULL}
  BY DEF VmmInv, TypeOK
<1>3. n \in Walks
  <2>1. w \in BOOLEAN /\ pm \in Frames \cup {NULL}
    BY <1>2, VmmAssumption
  <2> QED
    BY <2>1 DEF Walks
<1>4. n.level = 1 /\ n.table = pm /\ n.pm = pm
  OBVIOUS
<1> HIDE DEF n
<1>5. TypeOK'
  BY <1>1, <1>2, <1>3 DEF TypeOK
<1>6. PICK L \in [Frames -> 1 .. 4] : LevelsFit(L) /\ OneParent(L)
  BY DEF VmmInv
<1>7. LevelsFit(L)' /\ OneParent(L)'
  <2>1. \A d \in Cores : d # c => walk'[d] = walk[d]
    BY <1>1, <1>2
  <2>2. walk'[c] = n
    BY <1>1, <1>2
  <2>3. \A d \in Cores : ~Idle(d)' =>
          /\ walk'[d].table \in Used /\ L[walk'[d].table] = walk'[d].level
          /\ walk'[d].level = 1 => walk'[d].pm = walk'[d].table
    <3> SUFFICES ASSUME NEW d \in Cores, ~Idle(d)'
                 PROVE  /\ walk'[d].table \in Used /\ L[walk'[d].table] = walk'[d].level
                        /\ walk'[d].level = 1 => walk'[d].pm = walk'[d].table
      OBVIOUS
    <3>1. CASE d = c
      BY <1>2, <1>4, <1>6, <2>2, <3>1 DEF LevelsFit
    <3>2. CASE d # c
      BY <1>6, <2>1, <3>2 DEF LevelsFit, Idle, Walking
    <3> QED
      BY <3>1, <3>2
  <2> QED
    BY <1>1, <1>6, <2>3, SameTables
<1> QED
  BY <1>1, <1>2, <1>5, <1>7 DEF VmmInv, Used

\* Flags are added, and the core goes to the table it has found.
LEMMA StepDescend ==
  ASSUME VmmInv, NEW c \in Cores, Descend(c)
  PROVE  VmmInv'
<1> DEFINE w == walk[c]
           t == w.table
           i == w.virt[w.level]
           e == mem[t][i]
<1>1. w.level \in 1 .. 3 /\ w.level # 0 /\ e.present
  <2>1. w.level \in 1 .. 3 /\ e.present
    BY DEF Descend
  <2> HIDE DEF w
  <2> QED
    BY <2>1
<1>2. /\ mem' = [mem EXCEPT ![t][i] = AddFlags(@, w.writable)]
      /\ Down(c, e.to) /\ UNCHANGED << free, maps, created, cr3, tlb, behind >>
  BY DEF Descend
<1>3. TypeOK /\ maps \subseteq Used /\ kernel_pagemap \in maps
  BY DEF VmmInv
<1>4. ~Idle(c) /\ i \in Index /\ w.writable \in BOOLEAN
  BY <1>1, <1>3, WalkFacts
<1>5. PICK L \in [Frames -> 1 .. 4] : LevelsFit(L) /\ OneParent(L)
  BY DEF VmmInv
<1>6. t \in Used /\ t \in Frames /\ L[t] = w.level
  BY <1>4, <1>5 DEF LevelsFit, Used
<1> HIDE DEF t, i
<1>7. e.to \in Used /\ e.to \in Frames /\ L[e.to] = w.level + 1
  <2> HIDE DEF w
  <2>1. L[t] # 4
    BY <1>1, <1>6
  <2> QED
    BY <1>1, <1>4, <1>5, <1>6, <2>1 DEF LevelsFit, Used
<1>8. /\ walk' \in [Cores -> Walks]
      /\ walk'[c].level = w.level + 1 /\ walk'[c].table = e.to
      /\ \A d \in Cores : d # c => walk'[d] = walk[d]
  BY <1>1, <1>2, <1>3, <1>7, DownIsTyped
<1> HIDE DEF w
<1>9. mem \in [Frames \cup {NULL} -> [Index -> Entries]]
  BY <1>3, MemFacts
<1> DEFINE a == AddFlags(e, w.writable)
<1>10. /\ a \in Entries /\ a.present = e.present /\ a.to = e.to
       /\ e.writable => a.writable
  <2>1. e \in Entries
    BY <1>4, <1>6, <1>9
  <2> DEFINE b == e.writable \/ w.writable
  <2>2. b \in BOOLEAN
    OBVIOUS
  <2>3. a = [e EXCEPT !.writable = b]
    BY DEF AddFlags
  <2>4. e.writable => b
    OBVIOUS
  <2> HIDE DEF a, b, e
  <2>5. a \in Entries /\ a.present = e.present /\ a.to = e.to /\ a.writable = b
    BY <2>1, <2>2, <2>3 DEF Entries
  <2> QED
    BY <2>4, <2>5
<1>11. mem' = [mem EXCEPT ![t][i] = a]
  BY <1>2, <1>4, <1>6, <1>9
<1> HIDE DEF a
<1>12. mem' \in [Frames \cup {NULL} -> [Index -> Entries]]
  BY <1>4, <1>6, <1>9, <1>10, <1>11
<1>13. \A f \in Frames, j \in Index :
         /\ mem'[f][j].present = mem[f][j].present /\ mem'[f][j].to = mem[f][j].to
         /\ mem[f][j].writable => mem'[f][j].writable
  BY <1>4, <1>6, <1>9, <1>10, <1>11
<1>14. TypeOK'
  BY <1>2, <1>3, <1>8, <1>12 DEF TypeOK, Entries
<1>15. LevelsFit(L)' /\ OneParent(L)'
  <2>1. \A d \in Cores : ~Idle(d)' =>
          /\ walk'[d].table \in Used /\ L[walk'[d].table] = walk'[d].level
          /\ walk'[d].level = 1 => walk'[d].pm = walk'[d].table
    <3> SUFFICES ASSUME NEW d \in Cores, ~Idle(d)'
                 PROVE  /\ walk'[d].table \in Used /\ L[walk'[d].table] = walk'[d].level
                        /\ walk'[d].level = 1 => walk'[d].pm = walk'[d].table
      OBVIOUS
    <3>1. CASE d = c
      <4> HIDE DEF e
      <4>1. walk'[c].level # 1
        BY <1>1, <1>8
      <4> QED
        BY <1>7, <1>8, <3>1, <4>1
    <3>2. CASE d # c
      BY <1>5, <1>8, <3>2 DEF LevelsFit, Idle, Walking
    <3> QED
      BY <3>1, <3>2
  <2>2. \A f \in Used, j \in Index : mem'[f][j].present =>
          /\ mem[f][j].present /\ mem'[f][j].to = mem[f][j].to
          /\ mem[f][j].writable => mem'[f][j].writable
    BY <1>13 DEF Used
  <2> QED
    BY <1>2, <1>5, <2>1, <2>2, SameTables
<1> QED
  BY <1>2, <1>3, <1>14, <1>15 DEF VmmInv, Used

LEMMA StepSwitch ==
  ASSUME VmmInv, NEW c \in Cores, NEW pm \in maps, vmm_switch_pagemap(c, pm)
  PROVE  VmmInv'
<1>1. /\ cr3' = [cr3 EXCEPT ![c] = pm] /\ tlb' = [tlb EXCEPT ![c] = {}]
      /\ behind' = [behind EXCEPT ![c] = {}]
      /\ UNCHANGED << mem, free, maps, created, walk >>
  BY DEF vmm_switch_pagemap
<1>2. TypeOK'
  BY <1>1 DEF VmmInv, TypeOK
<1> QED
  BY <1>1, <1>2 DEF VmmInv, Used, LevelsFit, OneParent, Idle, Walking

\* The pages a core is behind of are pages that callers map.
LEMMA OutdateIsTyped ==
  ASSUME TypeOK, NEW pm, NEW v \in Virt, NEW own, Outdate(pm, v, own)
  PROVE  behind' \in [Cores -> SUBSET Virt]
<1>1. behind \in [Cores -> SUBSET Virt]
  BY DEF TypeOK
<1>2. \A c \in Cores : {u \in {v} : MayCache(c, pm, u)} \in SUBSET Virt
  OBVIOUS
<1> QED
  BY <1>1, <1>2 DEF Outdate

LEMMA StepWriteEntry ==
  ASSUME VmmInv, NEW c \in Cores, WriteEntry(c)
  PROVE  VmmInv'
<1> DEFINE w == walk[c]
           t == w.table
           i == w.virt[w.level]
           n == Entry(w.phys, w.writable)
<1>1. /\ w.level = 4 /\ mem' = [mem EXCEPT ![t][w.virt[4]] = n]
      /\ walk' = [walk EXCEPT ![c] = NoWalk]
      /\ UNCHANGED << free, maps, created, cr3, tlb >>
      /\ Outdate(w.pm, w.virt, {})
  BY DEF WriteEntry
<1>2. TypeOK /\ maps \subseteq Used /\ kernel_pagemap \in maps
  BY DEF VmmInv
<1>3. w.level # 0
  BY <1>1
<1>4. ~Idle(c) /\ i \in Index /\ w.writable \in BOOLEAN /\ w.phys \in Data
  BY <1>2, <1>3, WalkFacts
<1>5. PICK L \in [Frames -> 1 .. 4] : LevelsFit(L) /\ OneParent(L)
  BY DEF VmmInv
<1>6. t \in Used /\ t \in Frames /\ L[t] = 4
  BY <1>1, <1>4, <1>5 DEF LevelsFit, Used
<1>7. n \in Entries /\ n.to = w.phys
  BY <1>4, EntryIsTyped
<1>8. mem' = [mem EXCEPT ![t][i] = n]
  BY <1>1
<1> HIDE DEF t, i, n
<1>9. mem \in [Frames \cup {NULL} -> [Index -> Entries]]
  BY <1>2, MemFacts
<1>10. /\ mem' \in [Frames \cup {NULL} -> [Index -> Entries]]
       /\ mem'[t][i] = n
       /\ \A f \in Frames, j \in Index : f # t \/ j # i => mem'[f][j] = mem[f][j]
  BY <1>4, <1>6, <1>7, <1>8, <1>9
<1>11. walk \in [Cores -> Walks] /\ NoWalk \in Walks
  BY <1>2 DEF TypeOK, Walks
<1>12. \A d \in Cores : ~Idle(d)' => d # c /\ walk'[d] = walk[d] /\ ~Idle(d)
  BY <1>1, <1>11 DEF Idle
<1>13. TypeOK'
  <2>1. walk' \in [Cores -> Walks]
    BY <1>1, <1>11
  <2>2. behind' \in [Cores -> SUBSET Virt]
    <3>1. w.virt \in Virt
      BY <1>2, <1>3, WalkFacts
    <3> QED
      BY <1>1, <1>2, <3>1, OutdateIsTyped
  <2> QED
    BY <1>1, <1>2, <1>10, <2>1, <2>2 DEF TypeOK, Entries
<1>14. Used' = Used
  BY <1>1 DEF Used
<1>15. LevelsFit(L)'
  <2>1. ASSUME NEW f \in Used, NEW j \in Index, mem'[f][j].present
        PROVE  IF L[f] = 4 THEN mem'[f][j].to \in Data
               ELSE /\ mem'[f][j].to \in Used /\ mem'[f][j].to \notin maps
                    /\ L[mem'[f][j].to] = L[f] + 1 /\ mem'[f][j].writable
    <3>1. CASE f = t /\ j = i
      BY <1>4, <1>6, <1>7, <1>10, <3>1
    <3>2. CASE ~(f = t /\ j = i)
      <4>1. mem'[f][j] = mem[f][j]
        BY <1>10, <3>2 DEF Used
      <4> QED
        BY <1>5, <2>1, <4>1 DEF LevelsFit
    <3> QED
      BY <3>1, <3>2
  <2>2. \A p \in maps : L[p] = 1
    BY <1>5 DEF LevelsFit
  <2>3. \A d \in Cores : ~Idle(d)' =>
          /\ walk'[d].table \in Used /\ L[walk'[d].table] = walk'[d].level
          /\ walk'[d].level = 1 => walk'[d].pm = walk'[d].table
    BY <1>5, <1>12 DEF LevelsFit, Walking
  <2> QED
    BY <1>1, <1>14, <2>1, <2>2, <2>3 DEF LevelsFit, Walking
<1>16. OneParent(L)'
  <2>1. \A f \in Used, j \in Index : L[f] # 4 => mem'[f][j] = mem[f][j]
    BY <1>6, <1>10 DEF Used
  <2> QED
    BY <1>5, <1>14, <2>1 DEF OneParent
<1> QED
  BY <1>1, <1>2, <1>13, <1>14, <1>15, <1>16 DEF VmmInv

LEMMA StepUnmap ==
  ASSUME VmmInv, NEW c \in Cores, NEW pm \in maps, NEW v \in Virt, vmm_unmap(c, pm, v)
  PROVE  VmmInv'
<1> DEFINE t == Pml2e(pm, v).to
<1>1. /\ mem' = [mem EXCEPT ![t][v[4]] = Absent]
      /\ tlb' = [tlb EXCEPT ![c] = @ \ Of(v)]
      /\ UNCHANGED << free, maps, created, walk, cr3 >>
      /\ Outdate(pm, v, {c})
  BY DEF vmm_unmap, Invalidate
<1> HIDE DEF t
<1>2. TypeOK /\ maps \subseteq Used /\ kernel_pagemap \in maps
  BY DEF VmmInv
<1>3. mem \in [Frames \cup {NULL} -> [Index -> Entries]]
  BY <1>2, MemFacts
<1>4. Absent \in Entries /\ ~Absent.present
  BY EntryIsTyped DEF NULL
<1>5. /\ mem' \in [Frames \cup {NULL} -> [Index -> Entries]]
      /\ \A f \in Frames, j \in Index : mem'[f][j] = mem[f][j] \/ mem'[f][j] = Absent
  BY <1>1, <1>3, <1>4
<1>6. TypeOK'
  <2>1. behind' \in [Cores -> SUBSET Virt]
    BY <1>1, <1>2, OutdateIsTyped
  <2> QED
    BY <1>1, <1>2, <1>5, <2>1 DEF TypeOK, Entries
<1>7. PICK L \in [Frames -> 1 .. 4] : LevelsFit(L) /\ OneParent(L)
  BY DEF VmmInv
<1>8. LevelsFit(L)' /\ OneParent(L)'
  <2>1. \A f \in Used, j \in Index : mem'[f][j].present =>
          /\ mem[f][j].present /\ mem'[f][j].to = mem[f][j].to
          /\ mem[f][j].writable => mem'[f][j].writable
    BY <1>4, <1>5 DEF Used
  <2>2. \A d \in Cores : ~Idle(d)' =>
          /\ walk'[d].table \in Used /\ L[walk'[d].table] = walk'[d].level
          /\ walk'[d].level = 1 => walk'[d].pm = walk'[d].table
    BY <1>1, <1>7 DEF LevelsFit, Idle, Walking
  <2> QED
    BY <1>1, <1>7, <2>1, <2>2, SameTables
<1> QED
  BY <1>1, <1>2, <1>6, <1>8 DEF VmmInv, Used

\* What the walk of the processor finds on its way down.
LEMMA WalkDown ==
  ASSUME NEW L, LevelsFit(L), maps \subseteq Used, NEW pm \in maps, NEW v \in Virt,
         IsMapped(pm, v)
  PROVE  /\ virt_to_phys(pm, v) \in Data
         /\ Pml4e(pm, v).writable /\ Pml3e(pm, v).writable /\ Pml2e(pm, v).writable
         /\ Pml2e(pm, v).to \in Used /\ v[4] \in Index
<1>1. v[1] \in Index /\ v[2] \in Index /\ v[3] \in Index /\ v[4] \in Index
  BY ConstantFacts
<1>2. /\ Pml4e(pm, v).present /\ Pml3e(pm, v).present
      /\ Pml2e(pm, v).present /\ Pml1e(pm, v).present
  BY DEF IsMapped, HasTables
<1>3. pm \in Used /\ L[pm] = 1
  BY DEF LevelsFit
<1>4. Pml4e(pm, v).to \in Used /\ L[Pml4e(pm, v).to] = 2 /\ Pml4e(pm, v).writable
  BY <1>1, <1>2, <1>3 DEF LevelsFit, Pml4e
<1>5. Pml3e(pm, v).to \in Used /\ L[Pml3e(pm, v).to] = 3 /\ Pml3e(pm, v).writable
  BY <1>1, <1>2, <1>4 DEF LevelsFit, Pml3e
<1>6. Pml2e(pm, v).to \in Used /\ L[Pml2e(pm, v).to] = 4 /\ Pml2e(pm, v).writable
  BY <1>1, <1>2, <1>5 DEF LevelsFit, Pml2e
<1>7. Pml1e(pm, v).to \in Data
  BY <1>1, <1>2, <1>6 DEF LevelsFit, Pml1e
<1> QED
  BY <1>1, <1>4, <1>5, <1>6, <1>7 DEF virt_to_phys

LEMMA StepAccess ==
  ASSUME VmmInv, NEW c \in Cores, NEW v \in Accessed, Access(c, v)
  PROVE  VmmInv'
<1> DEFINE n == [virt |-> v, phys |-> virt_to_phys(cr3[c], v), writable |-> Writable(cr3[c], v)]
<1>1. /\ IsMapped(cr3[c], v) /\ tlb' = [tlb EXCEPT ![c] = @ \cup {n}]
      /\ UNCHANGED << mem, free, maps, created, walk, cr3, behind >>
  BY DEF Access
<1>2. TypeOK /\ maps \subseteq Used /\ cr3[c] \in maps /\ v \in Virt
  BY ConstantFacts DEF VmmInv, TypeOK
<1>3. PICK L \in [Frames -> 1 .. 4] : LevelsFit(L) /\ OneParent(L)
  BY DEF VmmInv
<1>4. n \in [virt : Virt, phys : Data, writable : BOOLEAN]
  <2>1. virt_to_phys(cr3[c], v) \in Data
    BY <1>1, <1>2, <1>3, WalkDown
  <2>2. Writable(cr3[c], v) \in BOOLEAN
    BY DEF Writable
  <2> QED
    BY <1>2, <2>1, <2>2
<1> HIDE DEF n
<1>5. TypeOK'
  BY <1>1, <1>2, <1>4 DEF TypeOK
<1> QED
  BY <1>1, <1>5 DEF VmmInv, Used, LevelsFit, OneParent, Idle, Walking

-----------------------------------------------------------------------------
(* Steps that take a page or give one back *)

\* With a page in the allocator, a request gets one.
LEMMA RequestFacts ==
  ASSUME TypeOK, free # {}, NEW f, Request(f)
  PROVE  f \in free /\ f \in Frames /\ f \notin Used /\ free' = free \ {f}
         /\ Used' = Used \cup {f}
BY DEF Request, TypeOK, Used

\* A page becomes a table, cleared, one level below the entry that gets it.
LEMMA StepExtend ==
  ASSUME VmmInv, free # {}, NEW c \in Cores, Extend(c)
  PROVE  VmmInv'
<1> DEFINE w == walk[c]
           t == w.table
           i == w.virt[w.level]
<1>1. w.level \in 1 .. 3 /\ w.level # 0
  <2>1. w.level \in 1 .. 3
    BY DEF Extend
  <2> HIDE DEF w
  <2> QED
    BY <2>1
<1>2. PICK f \in Frames \cup {NULL} :
        /\ Request(f)
        /\ mem' = [Cleared(f) EXCEPT ![t][i] = TableEntry(f, w.writable)]
        /\ Down(c, f)
  BY DEF Extend
<1>3. UNCHANGED << maps, created, cr3, tlb, behind >>
  BY DEF Extend
<1>4. TypeOK /\ maps \subseteq Used /\ kernel_pagemap \in maps
  BY DEF VmmInv
<1>5. ~Idle(c) /\ i \in Index
  BY <1>1, <1>4, WalkFacts
<1>6. PICK L \in [Frames -> 1 .. 4] : LevelsFit(L) /\ OneParent(L)
  BY DEF VmmInv
<1>7. t \in Used /\ t \in Frames /\ L[t] = w.level
  BY <1>5, <1>6 DEF LevelsFit, Used
<1>8. /\ f \in free /\ f \in Frames /\ f \notin Used /\ free' = free \ {f}
      /\ Used' = Used \cup {f}
  BY <1>2, <1>4, RequestFacts
<1>9. /\ walk' \in [Cores -> Walks]
      /\ walk'[c].level = w.level + 1 /\ walk'[c].table = f
      /\ \A d \in Cores : d # c => walk'[d] = walk[d]
  BY <1>1, <1>2, <1>4, <1>8, DownIsTyped
<1> DEFINE n == Entry(f, TRUE)
<1>10. n \in Entries /\ n.present /\ n.to = f /\ n.writable
  BY <1>8, EntryIsTyped
<1>11. ~Absent.present /\ EmptyTable \in [Index -> Entries]
       /\ \A j \in Index : EmptyTable[j] = Absent
  BY EntryIsTyped DEF EmptyTable, NULL
<1>12. mem \in [Frames \cup {NULL} -> [Index -> Entries]]
  BY <1>4, MemFacts
<1> HIDE DEF t, i, n
<1> DEFINE m == [mem EXCEPT ![f] = EmptyTable]
<1>13. mem' = [m EXCEPT ![t][i] = n]
  BY <1>2 DEF Cleared, TableEntry, n
<1>14. /\ m \in [Frames \cup {NULL} -> [Index -> Entries]]
       /\ m[f] = EmptyTable /\ \A g \in Frames : g # f => m[g] = mem[g]
  BY <1>8, <1>11, <1>12
<1> HIDE DEF m
<1>15. /\ mem' \in [Frames \cup {NULL} -> [Index -> Entries]]
       /\ mem'[t][i] = n
       /\ \A g \in Frames, j \in Index : g # t \/ j # i => mem'[g][j] = m[g][j]
  BY <1>5, <1>7, <1>10, <1>13, <1>14
<1>16. \A g \in Used', j \in Index : mem'[g][j].present =>
         \/ g = t /\ j = i /\ mem'[g][j].to = f /\ mem'[g][j].writable
         \/ g \in Used /\ mem[g][j].present /\ mem'[g][j] = mem[g][j]
  <2> SUFFICES ASSUME NEW g \in Used', NEW j \in Index, mem'[g][j].present
               PROVE  \/ g = t /\ j = i /\ mem'[g][j].to = f /\ mem'[g][j].writable
                      \/ g \in Used /\ mem[g][j].present /\ mem'[g][j] = mem[g][j]
    OBVIOUS
  <2>1. CASE g = t /\ j = i
    BY <1>10, <1>15, <2>1
  <2>2. CASE ~(g = t /\ j = i)
    <3>1. g \in Frames /\ mem'[g][j] = m[g][j]
      BY <1>8, <1>15, <2>2 DEF Used
    <3>2. g # f
      BY <1>11, <1>14, <2>2, <3>1
    <3> QED
      BY <1>8, <1>14, <3>1, <3>2
  <2> QED
    BY <2>1, <2>2
<1>17. PICK K \in [Frames -> 1 .. 4] :
          K[f] = w.level + 1 /\ \A g \in Used : K[g] = L[g] /\ g # f
  <2>1. w.level + 1 \in 1 .. 4
    <3> HIDE DEF w
    <3> QED
      BY <1>1
  <2> HIDE DEF w
  <2>2. [L EXCEPT ![f] = w.level + 1] \in [Frames -> 1 .. 4]
    BY <2>1
  <2>3. /\ [L EXCEPT ![f] = w.level + 1][f] = w.level + 1
        /\ \A g \in Used : [L EXCEPT ![f] = w.level + 1][g] = L[g] /\ g # f
    BY <1>8 DEF Used
  <2> QED
    BY <2>2, <2>3
<1>18. TypeOK'
  <2>1. free' \subseteq Frames
    BY <1>4, <1>8 DEF TypeOK
  <2> QED
    BY <1>3, <1>4, <1>9, <1>15, <2>1 DEF TypeOK, Entries
<1>19. L[t] # 4 /\ K[t] = w.level
  <2> HIDE DEF w
  <2> QED
    BY <1>1, <1>7, <1>17
<1>20. LevelsFit(K)'
  <2>1. ASSUME NEW g \in Used', NEW j \in Index, mem'[g][j].present
        PROVE  IF K[g] = 4 THEN mem'[g][j].to \in Data
               ELSE /\ mem'[g][j].to \in Used' /\ mem'[g][j].to \notin maps'
                    /\ K[mem'[g][j].to] = K[g] + 1 /\ mem'[g][j].writable
    <3>1. CASE g = t /\ j = i /\ mem'[g][j].to = f /\ mem'[g][j].writable
      BY <1>3, <1>4, <1>7, <1>8, <1>17, <1>19, <3>1
    <3>2. CASE g \in Used /\ mem[g][j].present /\ mem'[g][j] = mem[g][j]
      <4>1. IF L[g] = 4 THEN mem[g][j].to \in Data
            ELSE /\ mem[g][j].to \in Used /\ mem[g][j].to \notin maps
                 /\ L[mem[g][j].to] = L[g] + 1 /\ mem[g][j].writable
        BY <1>6, <3>2 DEF LevelsFit
      <4> QED
        BY <1>3, <1>8, <1>17, <3>2, <4>1
    <3> QED
      BY <1>16, <2>1, <3>1, <3>2
  <2>2. \A p \in maps' : K[p] = 1
    BY <1>3, <1>4, <1>6, <1>17 DEF LevelsFit
  <2>3. ASSUME NEW d \in Cores, ~Idle(d)'
        PROVE  /\ walk'[d].table \in Used' /\ K[walk'[d].table] = walk'[d].level
               /\ walk'[d].level = 1 => walk'[d].pm = walk'[d].table
    <3>1. CASE d = c
      <4>1. w.level + 1 # 1
        <5> HIDE DEF w
        <5> QED
          BY <1>1
      <4> QED
        BY <1>8, <1>9, <1>17, <3>1, <4>1
    <3>2. CASE d # c
      <4>1. walk'[d] = walk[d] /\ ~Idle(d)
        BY <1>9, <2>3, <3>2 DEF Idle
      <4> QED
        BY <1>6, <1>8, <1>17, <4>1 DEF LevelsFit, Walking
    <3> QED
      BY <3>1, <3>2
  <2> QED
    BY <2>1, <2>2, <2>3 DEF LevelsFit, Walking
<1>21. OneParent(K)'
  <2> SUFFICES ASSUME NEW g \in Used', NEW h \in Used', NEW j \in Index, NEW k \in Index,
                      mem'[g][j].present, mem'[h][k].present, K[g] # 4, K[h] # 4,
                      mem'[g][j].to = mem'[h][k].to
               PROVE  \/ g = h /\ j = k
                      \/ K[g] = 1 /\ K[h] = 1 /\ j = k /\ j \in KernelIndex
    BY DEF OneParent
  <2>1. \A x \in Used, y \in Index : mem[x][y].present /\ K[x] # 4 => mem[x][y].to # f
    <3> SUFFICES ASSUME NEW x \in Used, NEW y \in Index, mem[x][y].present, K[x] # 4
                 PROVE  mem[x][y].to # f
      OBVIOUS
    <3>1. L[x] # 4
      BY <1>17
    <3>2. mem[x][y].to \in Used
      BY <1>6, <3>1 DEF LevelsFit
    <3> QED
      BY <1>8, <3>2
  <2>2. CASE mem'[g][j].to = f
    <3>1. g \in Used /\ mem[g][j].present => mem[g][j].to # f
      BY <2>1
    <3>2. h \in Used /\ mem[h][k].present => mem[h][k].to # f
      BY <2>1
    <3>3. g = t /\ j = i
      BY <1>16, <2>2, <3>1
    <3>4. h = t /\ k = i
      BY <1>16, <2>2, <3>2
    <3> QED
      BY <3>3, <3>4
  <2>3. CASE mem'[g][j].to # f
    <3>1. /\ g \in Used /\ mem[g][j].present /\ mem'[g][j] = mem[g][j]
          /\ h \in Used /\ mem[h][k].present /\ mem'[h][k].to = mem[h][k].to
      BY <1>16, <2>3
    <3>2. L[g] = K[g] /\ L[h] = K[h]
      BY <1>17, <3>1
    <3>3. L[g] # 4 /\ L[h] # 4 /\ mem[g][j].to = mem[h][k].to
      BY <3>1, <3>2
    <3>4. \/ g = h /\ j = k
          \/ L[g] = 1 /\ L[h] = 1 /\ j = k /\ j \in KernelIndex
      BY <1>6, <3>1, <3>3 DEF OneParent
    <3> QED
      BY <3>2, <3>4
  <2> QED
    BY <2>2, <2>3
<1> QED
  BY <1>3, <1>4, <1>8, <1>17, <1>18, <1>20, <1>21 DEF VmmInv

\* A page becomes a page map, with the entries of the kernel's half.
LEMMA StepNewPagemap ==
  ASSUME VmmInv, free # {}, NEW c \in Cores, vmm_new_pagemap(c)
  PROVE  VmmInv'
<1>1. PICK f \in Frames \cup {NULL} :
        /\ Request(f)
        /\ mem' = [mem EXCEPT ![f] = [i \in Index |-> IF Inherits(i) THEN mem[kernel_pagemap][i]
                                                                    ELSE Absent]]
        /\ maps' = maps \cup {f}
  BY DEF vmm_new_pagemap
<1>2. created' = created + 1 /\ created < MaxMaps /\ UNCHANGED << walk, cr3, tlb, behind >>
  BY DEF vmm_new_pagemap
<1>3. TypeOK /\ maps \subseteq Used /\ kernel_pagemap \in maps
  BY DEF VmmInv
<1>4. /\ f \in free /\ f \in Frames /\ f \notin Used /\ free' = free \ {f}
      /\ Used' = Used \cup {f}
  BY <1>1, <1>3, RequestFacts
<1>5. PICK L \in [Frames -> 1 .. 4] : LevelsFit(L) /\ OneParent(L)
  BY DEF VmmInv
<1>6. mem \in [Frames \cup {NULL} -> [Index -> Entries]]
  BY <1>3, MemFacts
<1>7. kernel_pagemap \in Used /\ kernel_pagemap \in Frames /\ L[kernel_pagemap] = 1
  BY <1>3, <1>5 DEF LevelsFit, Used
<1>8. Absent \in Entries /\ ~Absent.present
  BY EntryIsTyped DEF NULL
<1> DEFINE n == [i \in Index |-> IF Inherits(i) THEN mem[kernel_pagemap][i] ELSE Absent]
<1>9. /\ n \in [Index -> Entries]
      /\ \A i \in Index : n[i].present =>
           /\ mem[kernel_pagemap][i].present /\ n[i] = mem[kernel_pagemap][i]
           /\ i \in KernelIndex
  BY <1>6, <1>7, <1>8 DEF Inherits
<1> HIDE DEF n
<1>10. /\ mem' \in [Frames \cup {NULL} -> [Index -> Entries]]
       /\ mem'[f] = n /\ \A g \in Frames : g # f => mem'[g] = mem[g]
  BY <1>1, <1>4, <1>6, <1>9 DEF n
<1>11. TypeOK'
  <2>1. created' \in 1 .. MaxMaps
    BY <1>2, <1>3, VmmAssumption DEF TypeOK
  <2>2. free' \subseteq Frames /\ maps' \subseteq Frames \cup {NULL}
    BY <1>1, <1>3, <1>4 DEF TypeOK
  <2>3. cr3' \in [Cores -> maps']
    BY <1>1, <1>2, <1>3 DEF TypeOK
  <2> QED
    BY <1>2, <1>3, <1>10, <2>1, <2>2, <2>3 DEF TypeOK, Entries
<1>12. PICK K \in [Frames -> 1 .. 4] :
          K[f] = 1 /\ \A g \in Used : K[g] = L[g] /\ g # f
  <2>1. [L EXCEPT ![f] = 1] \in [Frames -> 1 .. 4]
    <3>1. 1 \in 1 .. 4
      OBVIOUS
    <3> QED
      BY <3>1
  <2>2. [L EXCEPT ![f] = 1][f] = 1 /\ \A g \in Used : [L EXCEPT ![f] = 1][g] = L[g] /\ g # f
    BY <1>4 DEF Used
  <2> QED
    BY <2>1, <2>2
\* Every entry has an entry of the same table level to answer for it.
<1>13. ASSUME NEW g \in Used', NEW j \in Index, mem'[g][j].present
       PROVE  \E x \in Used :
                /\ mem[x][j].present /\ mem'[g][j] = mem[x][j] /\ K[g] = L[x]
                /\ g = x \/ (x = kernel_pagemap /\ g = f /\ L[x] = 1 /\ j \in KernelIndex)
  <2>1. CASE g = f
    BY <1>7, <1>9, <1>10, <1>12, <1>13, <2>1
  <2>2. CASE g # f
    <3>1. g \in Used /\ g \in Frames
      BY <1>4, <2>2 DEF Used
    <3> QED
      BY <1>10, <1>12, <1>13, <2>2, <3>1
  <2> QED
    BY <2>1, <2>2
<1>14. LevelsFit(K)'
  <2>1. ASSUME NEW g \in Used', NEW j \in Index, mem'[g][j].present
        PROVE  IF K[g] = 4 THEN mem'[g][j].to \in Data
               ELSE /\ mem'[g][j].to \in Used' /\ mem'[g][j].to \notin maps'
                    /\ K[mem'[g][j].to] = K[g] + 1 /\ mem'[g][j].writable
    <3>1. PICK x \in Used : mem[x][j].present /\ mem'[g][j] = mem[x][j] /\ K[g] = L[x]
      BY <1>13, <2>1
    <3>2. IF L[x] = 4 THEN mem[x][j].to \in Data
          ELSE /\ mem[x][j].to \in Used /\ mem[x][j].to \notin maps
               /\ L[mem[x][j].to] = L[x] + 1 /\ mem[x][j].writable
      BY <1>5, <3>1 DEF LevelsFit
    <3> QED
      BY <1>1, <1>4, <1>12, <3>1, <3>2
  <2>2. \A p \in maps' : K[p] = 1
    BY <1>1, <1>3, <1>5, <1>12 DEF LevelsFit
  <2>3. \A d \in Cores : ~Idle(d)' =>
          /\ walk'[d].table \in Used' /\ K[walk'[d].table] = walk'[d].level
          /\ walk'[d].level = 1 => walk'[d].pm = walk'[d].table
    BY <1>2, <1>4, <1>5, <1>12 DEF LevelsFit, Idle, Walking
  <2> QED
    BY <2>1, <2>2, <2>3 DEF LevelsFit, Walking
<1>15. OneParent(K)'
  <2> SUFFICES ASSUME NEW g \in Used', NEW h \in Used', NEW j \in Index, NEW k \in Index,
                      mem'[g][j].present, mem'[h][k].present, K[g] # 4, K[h] # 4,
                      mem'[g][j].to = mem'[h][k].to
               PROVE  \/ g = h /\ j = k
                      \/ K[g] = 1 /\ K[h] = 1 /\ j = k /\ j \in KernelIndex
    BY DEF OneParent
  <2>1. PICK x \in Used :
          /\ mem[x][j].present /\ mem'[g][j].to = mem[x][j].to /\ K[g] = L[x]
          /\ g = x \/ (x = kernel_pagemap /\ g = f /\ L[x] = 1 /\ j \in KernelIndex)
    BY <1>13
  <2>2. PICK y \in Used :
          /\ mem[y][k].present /\ mem'[h][k].to = mem[y][k].to /\ K[h] = L[y]
          /\ h = y \/ (y = kernel_pagemap /\ h = f /\ L[y] = 1 /\ k \in KernelIndex)
    BY <1>13
  <2>3. \/ x = y /\ j = k
        \/ L[x] = 1 /\ L[y] = 1 /\ j = k /\ j \in KernelIndex
    <3>1. L[x] # 4 /\ L[y] # 4
      BY <2>1, <2>2
    <3>2. mem[x][j].to = mem[y][k].to
      BY <2>1, <2>2
    <3> QED
      BY <1>5, <2>1, <2>2, <3>1, <3>2 DEF OneParent
  <2> QED
    BY <2>1, <2>2, <2>3
<1> QED
  BY <1>1, <1>3, <1>4, <1>11, <1>12, <1>14, <1>15 DEF VmmInv

\* A page map goes that nothing points to and that no core is at.
LEMMA StepDestroy ==
  ASSUME VmmInv, NEW c \in Cores, NEW pm \in maps, vmm_destroy_pagemap(c, pm)
  PROVE  VmmInv'
<1>1. /\ pm # kernel_pagemap /\ \A d \in Cores : cr3[d] # pm /\ ~Walking(d, pm)
      /\ maps' = maps \ {pm} /\ free' = free \cup Freed(pm)
      /\ UNCHANGED << mem, created, walk, cr3, tlb, behind >>
  BY DEF vmm_destroy_pagemap
<1>2. TypeOK /\ maps \subseteq Used /\ kernel_pagemap \in maps
  BY DEF VmmInv
<1>3. /\ pm \in Used /\ pm \in Frames /\ free' = free \cup {pm}
      /\ Used' = Used \ {pm} /\ maps' \subseteq Used'
  BY <1>1, <1>2, ConstantFacts DEF Freed, Used
<1>4. TypeOK'
  <2>1. cr3' \in [Cores -> maps']
    BY <1>1, <1>2 DEF TypeOK
  <2> QED
    BY <1>1, <1>2, <1>3, <2>1 DEF TypeOK
<1>5. PICK L \in [Frames -> 1 .. 4] : LevelsFit(L) /\ OneParent(L)
  BY DEF VmmInv
<1>6. LevelsFit(L)'
  <2>1. \A d \in Cores : ~Idle(d) => walk[d].table # pm
    BY <1>1, <1>5 DEF LevelsFit
  <2>2. \A g \in Used', j \in Index : mem'[g][j].present =>
          IF L[g] = 4 THEN mem'[g][j].to \in Data
          ELSE /\ mem'[g][j].to \in Used' /\ mem'[g][j].to \notin maps'
               /\ L[mem'[g][j].to] = L[g] + 1 /\ mem'[g][j].writable
    BY <1>1, <1>3, <1>5 DEF LevelsFit
  <2>3. \A p \in maps' : L[p] = 1
    BY <1>1, <1>5 DEF LevelsFit
  <2> QED
    BY <1>1, <1>3, <1>5, <2>1, <2>2, <2>3 DEF LevelsFit, Idle, Walking
<1>7. OneParent(L)'
  BY <1>1, <1>3, <1>5 DEF OneParent
<1>8. kernel_pagemap \in maps'
  BY <1>1, <1>2
<1> QED
  BY <1>3, <1>4, <1>6, <1>7, <1>8 DEF VmmInv, kernel_pagemap

-----------------------------------------------------------------------------
(* What holds of all tables *)

\* As long as the allocator has a page, every step keeps a level for every page.
LEMMA VmmInvAlways == Spec /\ [](free # {}) => []VmmInv
<1>1. VmmInv /\ free # {} /\ [Next]_vars => VmmInv'
  <2> SUFFICES ASSUME VmmInv, free # {}, [Next]_vars PROVE VmmInv'
    OBVIOUS
  <2>1. CASE UNCHANGED vars
    <3>1. TypeOK' /\ maps' \subseteq Used' /\ kernel_pagemap \in maps'
      BY <2>1 DEF vars, VmmInv, TypeOK, Used
    <3>2. PICK L \in [Frames -> 1 .. 4] : LevelsFit(L) /\ OneParent(L)
      BY DEF VmmInv
    <3>3. LevelsFit(L)' /\ OneParent(L)'
      BY <2>1, <3>2 DEF vars, Used, LevelsFit, OneParent, Idle, Walking
    <3> QED
      BY <3>1, <3>3 DEF VmmInv, kernel_pagemap
  <2>2. CASE Next
    <3>1. PICK c \in Cores :
            \/ \E pm \in maps, v \in Virt, p \in Data, w \in Modes :
                 MapStart(c, pm, v, p, w)
            \/ Map(c)
            \/ \E pm \in maps, v \in Virt : vmm_unmap(c, pm, v)
            \/ vmm_new_pagemap(c)
            \/ \E pm \in maps : vmm_destroy_pagemap(c, pm) \/ vmm_switch_pagemap(c, pm)
            \/ \E v \in Accessed : Access(c, v)
      BY <2>2 DEF Next
    <3>2. CASE \E pm \in maps, v \in Virt, p \in Data, w \in Modes : MapStart(c, pm, v, p, w)
      BY <3>2, StepMapStart
    <3>3. CASE Map(c)
      BY <3>3, StepDescend, StepExtend, StepWriteEntry DEF Map
    <3>4. CASE \E pm \in maps, v \in Virt : vmm_unmap(c, pm, v)
      BY <3>4, StepUnmap
    <3>5. CASE vmm_new_pagemap(c)
      BY <3>5, StepNewPagemap
    <3>6. CASE \E pm \in maps : vmm_destroy_pagemap(c, pm) \/ vmm_switch_pagemap(c, pm)
      BY <3>6, StepDestroy, StepSwitch
    <3>7. CASE \E v \in Accessed : Access(c, v)
      BY <3>7, StepAccess
    <3> QED
      BY <3>1, <3>2, <3>3, <3>4, <3>5, <3>6, <3>7
  <2> QED
    BY <2>1, <2>2
<1> QED
  BY VmmInvInit, <1>1, PTL DEF Spec

\* The k-th set of Levels holds pages of level k that are not free.
LEMMA LevelsAtLevel ==
  ASSUME NEW L \in [Frames -> 1 .. 4], LevelsFit(L), maps \subseteq Used
  PROVE  \A k \in 1 .. 4 : Levels[k] \subseteq {f \in Used : L[f] = k}
<1>1. ASSUME NEW S, NEW k \in 1 .. 3, S \subseteq {f \in Used : L[f] = k}
      PROVE  Below(S) \subseteq {f \in Used : L[f] = k + 1}
  <2> SUFFICES ASSUME NEW e \in EntriesOf(S)
               PROVE  Target(e) \in Used /\ L[Target(e)] = k + 1
    BY DEF Below
  <2>1. e[1] \in Used /\ L[e[1]] = k /\ e[2] \in Index /\ mem[e[1]][e[2]].present
    BY <1>1 DEF EntriesOf
  <2>2. L[e[1]] # 4
    BY <2>1
  <2> QED
    BY <2>1, <2>2 DEF LevelsFit, Target
<1>2. maps \subseteq {f \in Used : L[f] = 1}
  BY DEF LevelsFit
<1>3. Below(maps) \subseteq {f \in Used : L[f] = 2}
  BY <1>1, <1>2
<1>4. Below(Below(maps)) \subseteq {f \in Used : L[f] = 3}
  BY <1>1, <1>3
<1>5. Below(Below(Below(maps))) \subseteq {f \in Used : L[f] = 4}
  BY <1>1, <1>4
<1>6. /\ Levels[1] = maps /\ Levels[2] = Below(maps)
      /\ Levels[3] = Below(Below(maps)) /\ Levels[4] = Below(Below(Below(maps)))
  BY DEF Levels
<1> SUFFICES ASSUME NEW k \in 1 .. 4 PROVE Levels[k] \subseteq {f \in Used : L[f] = k}
  OBVIOUS
<1>7. k = 1 \/ k = 2 \/ k = 3 \/ k = 4
  OBVIOUS
<1> QED
  BY <1>2, <1>3, <1>4, <1>5, <1>6, <1>7

\* Whatever the cores map, unmap, create and destroy, and however far each of
\* them has got: no page that any page map uses for a table is free, as long as
\* the allocator has one.
THEOREM TablesStayAllocated == Spec /\ [](free # {}) => []TablesNotFree
<1>1. VmmInv => TablesNotFree
  <2> SUFFICES ASSUME VmmInv PROVE (UNION ToSet(Levels)) \cap free = {}
    BY DEF VmmInv, TablesNotFree
  <2>1. PICK L \in [Frames -> 1 .. 4] : LevelsFit(L)
    BY DEF VmmInv
  <2>2. \A k \in 1 .. 4 : Levels[k] \subseteq Used
    BY <2>1, LevelsAtLevel DEF VmmInv
  <2>3. ToSet(Levels) = {Levels[k] : k \in 1 .. 4}
    BY DEF ToSet, Levels
  <2> QED
    BY <2>2, <2>3 DEF Used
<1> QED
  BY VmmInvAlways, <1>1, PTL

\* In the same executions the tables are a forest: no table is at two levels or
\* in two entries, but for those of the kernel's half, which all page maps have
\* at the same index.
THEOREM TablesStayAForest == Spec /\ [](free # {}) => []TablesFormAForest
<1>1. VmmInv => TablesFormAForest
  <2> SUFFICES ASSUME VmmInv PROVE TablesFormAForest
    OBVIOUS
  <2>1. PICK L \in [Frames -> 1 .. 4] : LevelsFit(L) /\ OneParent(L)
    BY DEF VmmInv
  <2>2. \A k \in 1 .. 4 : Levels[k] \subseteq {f \in Used : L[f] = k}
    BY <2>1, LevelsAtLevel DEF VmmInv
  <2>3. ASSUME NEW k \in 1 .. 4, NEW l \in 1 .. 4, k < l
        PROVE  Levels[k] \cap Levels[l] = {}
    <3>1. k # l
      BY <2>3
    <3> QED
      BY <2>2, <3>1
  <2>4. ASSUME NEW k \in 1 .. 3, NEW e \in EntriesOf(Levels[k]),
               NEW f \in EntriesOf(Levels[k]), Target(e) = Target(f)
        PROVE  e = f \/ (k = 1 /\ e[2] = f[2] /\ e[2] \in KernelIndex)
    <3>1. k \in 1 .. 4 /\ k # 4
      OBVIOUS
    <3>2. /\ e \in Levels[k] \X Index /\ f \in Levels[k] \X Index
          /\ mem[e[1]][e[2]].present /\ mem[f[1]][f[2]].present
      BY DEF EntriesOf
    <3>3. /\ e[1] \in Used /\ L[e[1]] = k /\ e[2] \in Index
          /\ f[1] \in Used /\ L[f[1]] = k /\ f[2] \in Index
          /\ e = << e[1], e[2] >> /\ f = << f[1], f[2] >>
      BY <2>2, <3>1, <3>2
    <3>4. \/ e[1] = f[1] /\ e[2] = f[2]
          \/ L[e[1]] = 1 /\ e[2] = f[2] /\ e[2] \in KernelIndex
      BY <2>1, <2>4, <3>1, <3>2, <3>3 DEF OneParent, Target
    <3> QED
      BY <3>3, <3>4
  <2> QED
    BY <2>3, <2>4 DEF TablesFormAForest
<1> QED
  BY VmmInvAlways, <1>1, PTL

-----------------------------------------------------------------------------
(* Permissions *)

\* The tables above a page allow everything, in the same executions, so that
\* the entry of the page alone decides whether it may be written.
THEOREM PermissionsStayAsMapped == Spec /\ [](free # {}) => []PermissionsAsMapped
<1>1. VmmInv => PermissionsAsMapped
  <2> SUFFICES ASSUME VmmInv, NEW pm \in maps, NEW v \in Virt, IsMapped(pm, v)
               PROVE  Writable(pm, v) = Pml1e(pm, v).writable
    BY DEF PermissionsAsMapped
  <2>1. PICK L \in [Frames -> 1 .. 4] : LevelsFit(L)
    BY DEF VmmInv
  <2>2. Pml4e(pm, v).writable /\ Pml3e(pm, v).writable /\ Pml2e(pm, v).writable
    BY <2>1, WalkDown DEF VmmInv
  <2>3. Pml1e(pm, v).writable \in BOOLEAN
    BY <2>1, WalkDown, MemFacts DEF VmmInv, Pml1e, Used
  <2> QED
    BY <2>2, <2>3 DEF Writable
<1> QED
  BY VmmInvAlways, <1>1, PTL

-----------------------------------------------------------------------------
(* The way from a page map to a page, and what a step does to it           *)

\* t is the table of level k on the way from pm to v.
Reaches(pm, v, k, t) ==
  \/ k = 1 /\ t = pm
  \/ k = 2 /\ Pml4e(pm, v).present /\ t = Pml4e(pm, v).to
  \/ k = 3 /\ Pml4e(pm, v).present /\ Pml3e(pm, v).present /\ t = Pml3e(pm, v).to
  \/ k = 4 /\ HasTables(pm, v) /\ t = Pml2e(pm, v).to

\* The entry that maps v in pm, if one does.
Mapping(pm, v) == IF IsMapped(pm, v) THEN Pml1e(pm, v) ELSE Absent

\* A step leaves every table where it hangs.
TablesKept(L) ==
  \A f \in Used, i \in Index : mem[f][i].present /\ L[f] # 4 =>
    mem'[f][i].present /\ mem'[f][i].to = mem[f][i].to

\* The kernel's tables that vmm_init has made hang in every page map.
KernelShared ==
  \A p \in maps, i \in KernelTop :
    mem[p][i].present /\ mem[p][i].to = mem[kernel_pagemap][i].to

\* A core that maps a page is on its way from the page map to the page.
WalksReach ==
  \A c \in Cores : ~Idle(c) =>
    walk[c].pm \in maps /\ Reaches(walk[c].pm, walk[c].virt, walk[c].level, walk[c].table)

WayInv == VmmInv /\ KernelShared /\ WalksReach

\* The tables on the way have the levels they should have.
LEMMA WayLevels ==
  ASSUME NEW L, LevelsFit(L), maps \subseteq Used, NEW pm \in maps, NEW v \in Virt
  PROVE  \A k \in 1 .. 4 : \A t : Reaches(pm, v, k, t) => t \in Used /\ L[t] = k
<1>1. v[1] \in Index /\ v[2] \in Index /\ v[3] \in Index /\ v[4] \in Index
  BY ConstantFacts
<1>2. pm \in Used /\ L[pm] = 1
  BY DEF LevelsFit
<1>3. Pml4e(pm, v).present => Pml4e(pm, v).to \in Used /\ L[Pml4e(pm, v).to] = 2
  BY <1>1, <1>2 DEF LevelsFit, Pml4e
<1>4. Pml4e(pm, v).present /\ Pml3e(pm, v).present =>
        Pml3e(pm, v).to \in Used /\ L[Pml3e(pm, v).to] = 3
  BY <1>1, <1>3 DEF LevelsFit, Pml3e
<1>5. HasTables(pm, v) => Pml2e(pm, v).to \in Used /\ L[Pml2e(pm, v).to] = 4
  BY <1>1, <1>4 DEF LevelsFit, Pml2e, HasTables
<1> QED
  BY <1>2, <1>3, <1>4, <1>5 DEF Reaches

\* Two ways that end in one table of the last level are the same but for the
\* page map, and that differs in the kernel's half only.
LEMMA OneWay ==
  ASSUME NEW L, LevelsFit(L), OneParent(L), maps \subseteq Used,
         NEW p \in maps, NEW q \in maps, NEW u \in Virt, NEW v \in Virt,
         HasTables(p, u), HasTables(q, v), Pml2e(p, u).to = Pml2e(q, v).to
  PROVE  /\ u[1] = v[1] /\ u[2] = v[2] /\ u[3] = v[3]
         /\ p = q \/ v[1] \in KernelIndex
<1>1. /\ u[1] \in Index /\ u[2] \in Index /\ u[3] \in Index
      /\ v[1] \in Index /\ v[2] \in Index /\ v[3] \in Index
  BY ConstantFacts
<1>2. /\ Pml4e(p, u).present /\ Pml3e(p, u).present /\ Pml2e(p, u).present
      /\ Pml4e(q, v).present /\ Pml3e(q, v).present /\ Pml2e(q, v).present
  BY DEF HasTables
<1>3. /\ p \in Used /\ L[p] = 1 /\ q \in Used /\ L[q] = 1
      /\ Pml4e(p, u).to \in Used /\ L[Pml4e(p, u).to] = 2
      /\ Pml4e(q, v).to \in Used /\ L[Pml4e(q, v).to] = 2
      /\ Pml3e(p, u).to \in Used /\ L[Pml3e(p, u).to] = 3
      /\ Pml3e(q, v).to \in Used /\ L[Pml3e(q, v).to] = 3
  <2>1. /\ Reaches(p, u, 1, p) /\ Reaches(p, u, 2, Pml4e(p, u).to) /\ Reaches(p, u, 3, Pml3e(p, u).to)
        /\ Reaches(q, v, 1, q) /\ Reaches(q, v, 2, Pml4e(q, v).to) /\ Reaches(q, v, 3, Pml3e(q, v).to)
    BY <1>2 DEF Reaches
  <2>2. \A r \in maps, x \in Virt, k \in 1 .. 4 : \A t : Reaches(r, x, k, t) => t \in Used /\ L[t] = k
    BY WayLevels
  <2> QED
    BY <2>1, <2>2
<1>4. Pml3e(p, u).to = Pml3e(q, v).to /\ u[3] = v[3]
  BY <1>1, <1>2, <1>3 DEF OneParent, Pml2e
<1>5. Pml4e(p, u).to = Pml4e(q, v).to /\ u[2] = v[2]
  BY <1>1, <1>2, <1>3, <1>4 DEF OneParent, Pml3e
<1>6. (p = q /\ u[1] = v[1]) \/ (u[1] = v[1] /\ u[1] \in KernelIndex)
  BY <1>1, <1>2, <1>3, <1>5 DEF OneParent, Pml4e
<1> QED
  BY <1>4, <1>5, <1>6

\* In the kernel's half all page maps lead to the same tables.
LEMMA SharedWay ==
  ASSUME KernelShared, NEW p \in maps, NEW q \in maps, NEW v \in KernelVirt
  PROVE  /\ HasTables(p, v) <=> HasTables(q, v)
         /\ Pml2e(p, v) = Pml2e(q, v) /\ Pml1e(p, v) = Pml1e(q, v)
         /\ Mapping(p, v) = Mapping(q, v)
<1>1. v[1] \in KernelTop
  BY VmmAssumption DEF KernelVirt
<1>2. Pml4e(p, v).to = Pml4e(q, v).to /\ Pml4e(p, v).present /\ Pml4e(q, v).present
  BY <1>1 DEF KernelShared, Pml4e
<1>3. Pml3e(p, v) = Pml3e(q, v)
  BY <1>2 DEF Pml3e
<1>4. Pml2e(p, v) = Pml2e(q, v)
  BY <1>3 DEF Pml2e
<1>5. Pml1e(p, v) = Pml1e(q, v)
  BY <1>4 DEF Pml1e
<1> QED
  BY <1>2, <1>3, <1>4, <1>5 DEF HasTables, Mapping, IsMapped

\* If the tables stay where they hang, so do all ways.
LEMMA WayKept ==
  ASSUME NEW L, LevelsFit(L), maps \subseteq Used, TablesKept(L),
         NEW pm \in maps, NEW v \in Virt
  PROVE  /\ \A k \in 1 .. 4 : \A t : Reaches(pm, v, k, t) => Reaches(pm, v, k, t)'
         /\ HasTables(pm, v) => HasTables(pm, v)' /\ Pml2e(pm, v)'.to = Pml2e(pm, v).to
<1>1. v[1] \in Index /\ v[2] \in Index /\ v[3] \in Index /\ v[4] \in Index
  BY ConstantFacts
<1>2. \A k \in 1 .. 4 : \A t : Reaches(pm, v, k, t) => t \in Used /\ L[t] = k
  BY WayLevels
<1>3. pm \in Used /\ L[pm] = 1
  BY DEF LevelsFit
<1>4. ASSUME Pml4e(pm, v).present
      PROVE  Pml4e(pm, v)'.present /\ Pml4e(pm, v)'.to = Pml4e(pm, v).to
  BY <1>1, <1>3, <1>4 DEF TablesKept, Pml4e
<1>5. ASSUME Pml4e(pm, v).present, Pml3e(pm, v).present
      PROVE  Pml3e(pm, v)'.present /\ Pml3e(pm, v)'.to = Pml3e(pm, v).to
  <2>1. Pml4e(pm, v).to \in Used /\ L[Pml4e(pm, v).to] = 2
    BY <1>2, <1>5 DEF Reaches
  <2> QED
    BY <1>1, <1>4, <1>5, <2>1 DEF TablesKept, Pml3e
<1>6. ASSUME HasTables(pm, v)
      PROVE  Pml2e(pm, v)'.present /\ Pml2e(pm, v)'.to = Pml2e(pm, v).to
  <2>1. Pml4e(pm, v).present /\ Pml3e(pm, v).present /\ Pml2e(pm, v).present
    BY <1>6 DEF HasTables
  <2>2. Pml3e(pm, v).to \in Used /\ L[Pml3e(pm, v).to] = 3
    BY <1>2, <2>1 DEF Reaches
  <2> QED
    BY <1>1, <1>5, <2>1, <2>2 DEF TablesKept, Pml2e
<1>7. HasTables(pm, v) => HasTables(pm, v)' /\ Pml2e(pm, v)'.to = Pml2e(pm, v).to
  BY <1>4, <1>5, <1>6 DEF HasTables
<1> QED
  BY <1>4, <1>5, <1>7 DEF Reaches

\* A new table is empty, so that hanging it up maps nothing.
LEMMA SameMappings ==
  ASSUME NEW L, LevelsFit(L), maps \subseteq Used, TablesKept(L),
         \A f \in Used, i \in Index : L[f] = 4 => mem'[f][i] = mem[f][i],
         \A f \in Used, i \in Index :
           L[f] # 4 /\ mem'[f][i].present /\ ~mem[f][i].present =>
             \A j \in Index : ~mem'[mem'[f][i].to][j].present,
         NEW pm \in maps, NEW v \in Virt
  PROVE  Mapping(pm, v)' = Mapping(pm, v)
<1>1. v[1] \in Index /\ v[2] \in Index /\ v[3] \in Index /\ v[4] \in Index
  BY ConstantFacts
<1>2. \A k \in 1 .. 4 : \A t : Reaches(pm, v, k, t) => t \in Used /\ L[t] = k
  BY WayLevels
<1>3. CASE HasTables(pm, v)
  <2>1. HasTables(pm, v)' /\ Pml2e(pm, v)'.to = Pml2e(pm, v).to
    BY <1>3, WayKept
  <2>2. Pml2e(pm, v).to \in Used /\ L[Pml2e(pm, v).to] = 4
    BY <1>2, <1>3 DEF Reaches
  <2>3. Pml1e(pm, v)' = Pml1e(pm, v)
    BY <1>1, <2>1, <2>2 DEF Pml1e
  <2> QED
    BY <1>3, <2>1, <2>3 DEF Mapping, IsMapped
<1>4. CASE ~HasTables(pm, v)
  <2>1. ~IsMapped(pm, v)'
    <3>1. CASE ~Pml4e(pm, v).present
      <4>1. pm \in Used /\ L[pm] = 1
        BY DEF LevelsFit
      <4>2. Pml4e(pm, v)'.present => ~Pml3e(pm, v)'.present
        BY <1>1, <3>1, <4>1 DEF Pml4e, Pml3e
      <4> QED
        BY <4>2 DEF IsMapped, HasTables
    <3>2. CASE Pml4e(pm, v).present /\ ~Pml3e(pm, v).present
      <4>1. Pml4e(pm, v).to \in Used /\ L[Pml4e(pm, v).to] = 2
        BY <1>2, <3>2 DEF Reaches
      <4>2. Pml4e(pm, v)'.to = Pml4e(pm, v).to
        BY <3>2, WayKept DEF Reaches
      <4>3. Pml3e(pm, v)'.present => ~Pml2e(pm, v)'.present
        BY <1>1, <3>2, <4>1, <4>2 DEF Pml3e, Pml2e
      <4> QED
        BY <4>3 DEF IsMapped, HasTables
    <3>3. CASE Pml4e(pm, v).present /\ Pml3e(pm, v).present /\ ~Pml2e(pm, v).present
      <4>1. Pml3e(pm, v).to \in Used /\ L[Pml3e(pm, v).to] = 3
        BY <1>2, <3>3 DEF Reaches
      <4>2. Pml3e(pm, v)'.to = Pml3e(pm, v).to
        BY <3>3, WayKept DEF Reaches
      <4>3. Pml2e(pm, v)'.present => ~Pml1e(pm, v)'.present
        BY <1>1, <3>3, <4>1, <4>2 DEF Pml2e, Pml1e
      <4> QED
        BY <4>3 DEF IsMapped, HasTables
    <3> QED
      BY <1>4, <3>1, <3>2, <3>3 DEF HasTables
  <2> QED
    BY <1>4, <2>1 DEF Mapping, IsMapped
<1> QED
  BY <1>3, <1>4

\* Writing the entry of one page changes what that page maps to, in every page
\* map if it is in the kernel's half, and nothing else.
LEMMA OneMapping ==
  ASSUME NEW L, LevelsFit(L), OneParent(L), maps \subseteq Used, KernelShared,
         NEW pm \in maps, NEW v \in Virt, HasTables(pm, v), NEW e, NEW t,
         t = Pml2e(pm, v).to, mem'[t][v[4]] = e,
         \A f \in Used, j \in Index : f # t \/ j # v[4] => mem'[f][j] = mem[f][j]
  PROVE  \A p \in maps, u \in Virt :
           Mapping(p, u)' = IF u = v /\ (p = pm \/ v \in KernelVirt)
                              THEN IF e.present THEN e ELSE Absent
                              ELSE Mapping(p, u)
<1> SUFFICES ASSUME NEW p \in maps, NEW u \in Virt
             PROVE  Mapping(p, u)' = IF u = v /\ (p = pm \/ v \in KernelVirt)
                                       THEN IF e.present THEN e ELSE Absent
                                       ELSE Mapping(p, u)
  OBVIOUS
<1>1. /\ u[1] \in Index /\ u[2] \in Index /\ u[3] \in Index /\ u[4] \in Index
      /\ v[4] \in Index
  BY ConstantFacts
<1>2. \A k \in 1 .. 4 : \A x : Reaches(p, u, k, x) => x \in Used /\ L[x] = k
  BY WayLevels
<1>3. t \in Used /\ L[t] = 4
  BY WayLevels DEF Reaches
<1>4. Pml4e(p, u)' = Pml4e(p, u)
  <2>1. p \in Used /\ L[p] = 1
    BY DEF LevelsFit
  <2> QED
    BY <1>1, <1>3, <2>1 DEF Pml4e
<1>5. Pml4e(p, u).present => Pml3e(p, u)' = Pml3e(p, u)
  <2> SUFFICES ASSUME Pml4e(p, u).present PROVE Pml3e(p, u)' = Pml3e(p, u)
    OBVIOUS
  <2>1. Pml4e(p, u).to \in Used /\ L[Pml4e(p, u).to] = 2
    BY <1>2 DEF Reaches
  <2> QED
    BY <1>1, <1>3, <1>4, <2>1 DEF Pml3e
<1>6. Pml4e(p, u).present /\ Pml3e(p, u).present => Pml2e(p, u)' = Pml2e(p, u)
  <2> SUFFICES ASSUME Pml4e(p, u).present, Pml3e(p, u).present
               PROVE  Pml2e(p, u)' = Pml2e(p, u)
    OBVIOUS
  <2>1. Pml3e(p, u).to \in Used /\ L[Pml3e(p, u).to] = 3
    BY <1>2 DEF Reaches
  <2> QED
    BY <1>1, <1>3, <1>5, <2>1 DEF Pml2e
<1>7. HasTables(p, u)' <=> HasTables(p, u)
  BY <1>4, <1>5, <1>6 DEF HasTables
<1>8. CASE ~HasTables(p, u)
  <2>1. ~(u = v /\ (p = pm \/ v \in KernelVirt))
    BY <1>8, SharedWay
  <2> QED
    BY <1>7, <1>8, <2>1 DEF Mapping, IsMapped
<1>9. CASE HasTables(p, u)
  <2>1. Pml2e(p, u)' = Pml2e(p, u) /\ Pml2e(p, u).to \in Used
    BY <1>2, <1>6, <1>9 DEF Reaches, HasTables
  <2>2. CASE u = v /\ (p = pm \/ v \in KernelVirt)
    <3>1. Pml2e(p, u).to = t
      BY <2>2, SharedWay
    <3>2. Pml1e(p, u)' = e
      BY <2>1, <2>2, <3>1 DEF Pml1e
    <3> QED
      BY <1>7, <1>9, <2>2, <3>2 DEF Mapping, IsMapped
  <2>3. CASE ~(u = v /\ (p = pm \/ v \in KernelVirt))
    <3>1. Pml2e(p, u).to # t \/ u[4] # v[4]
      <4> SUFFICES ASSUME Pml2e(p, u).to = t, u[4] = v[4] PROVE FALSE
        OBVIOUS
      <4>1. /\ u[1] = v[1] /\ u[2] = v[2] /\ u[3] = v[3]
            /\ p = pm \/ v[1] \in KernelIndex
        BY <1>9, OneWay
      <4>2. u \in Index \X Index \X Index \X Index /\ v \in Index \X Index \X Index \X Index
        BY VmmAssumption
      <4>3. u = v
        BY <4>1, <4>2
      <4> QED
        BY <2>3, <4>1, <4>3 DEF KernelVirt
    <3>2. Pml1e(p, u)' = Pml1e(p, u)
      BY <1>1, <2>1, <3>1 DEF Pml1e
    <3> QED
      BY <1>7, <1>9, <2>3, <3>2 DEF Mapping, IsMapped
  <2> QED
    BY <2>2, <2>3
<1> QED
  BY <1>8, <1>9

\* What the steps do to the pages: nothing, or to one page of one page map, which
\* all page maps have in common if it is in the kernel's half.
SamePages ==
  maps' = maps /\ \A p \in maps, v \in Virt : Mapping(p, v)' = Mapping(p, v)
OnePage(pm, v, e) ==
  /\ maps' = maps
  /\ \A p \in maps, u \in Virt :
       Mapping(p, u)' = IF u = v /\ (p = pm \/ v \in KernelVirt)
                          THEN IF e.present THEN e ELSE Absent
                          ELSE Mapping(p, u)

\* The ways stay what they are when the tables stay and the cores stay on theirs.
LEMMA WayInvNext ==
  ASSUME WayInv, VmmInv', NEW L, LevelsFit(L), TablesKept(L),
         \A p \in maps' :
           p \in maps \/ \A i \in KernelIndex : mem'[p][i] = mem[kernel_pagemap][i],
         \A d \in Cores : ~Idle(d)' =>
           /\ walk'[d].pm \in maps'
           /\ \/ ~Idle(d) /\ walk'[d] = walk[d]
              \/ Reaches(walk[d].pm, walk[d].virt, walk[d].level, walk[d].table)'
  PROVE  WayInv'
<1>1. TypeOK /\ maps \subseteq Used /\ kernel_pagemap \in maps
  BY DEF WayInv, VmmInv
<1>2. KernelShared'
  <2>1. KernelTop \subseteq KernelIndex /\ KernelIndex \subseteq Index
    BY VmmAssumption
  <2>2. \A p \in maps : p \in Used /\ L[p] = 1
    BY <1>1 DEF LevelsFit
  <2>3. ASSUME NEW p \in maps', NEW i \in KernelTop
        PROVE  mem'[p][i].present /\ mem'[p][i].to = mem'[kernel_pagemap][i].to
    <3>1. \A q \in maps : /\ mem[q][i].present /\ mem[q][i].to = mem[kernel_pagemap][i].to
                          /\ mem'[q][i].present /\ mem'[q][i].to = mem[q][i].to
      BY <2>1, <2>2 DEF WayInv, KernelShared, TablesKept
    <3>2. CASE p \in maps
      BY <1>1, <3>1, <3>2
    <3>3. CASE p \notin maps
      BY <1>1, <2>1, <3>1, <3>3
    <3> QED
      BY <3>2, <3>3
  <2> QED
    BY <2>3 DEF KernelShared, kernel_pagemap
<1>3. WalksReach'
  <2> SUFFICES ASSUME NEW d \in Cores, ~Idle(d)', ~Idle(d), walk'[d] = walk[d]
               PROVE  Reaches(walk[d].pm, walk[d].virt, walk[d].level, walk[d].table)'
    BY DEF WalksReach
  <2>1. PICK p, v, k, t : p = walk[d].pm /\ v = walk[d].virt /\ k = walk[d].level /\ t = walk[d].table
    OBVIOUS
  <2>2. p \in maps /\ v \in Virt /\ k \in 1 .. 4 /\ Reaches(p, v, k, t)
    <3>1. walk[d] \in Walks \ {NoWalk}
      BY <1>1 DEF TypeOK, Idle
    <3>2. v \in Virt /\ k \in 1 .. 4
      BY <2>1, <3>1 DEF Walks
    <3> QED
      BY <2>1, <3>2 DEF WayInv, WalksReach
  <2>3. Reaches(p, v, k, t)'
    BY <1>1, <2>2, WayKept
  <2>4. p = walk'[d].pm /\ v = walk'[d].virt /\ k = walk'[d].level /\ t = walk'[d].table
    BY <2>1
  <2> QED
    BY <2>3, <2>4 DEF Reaches, Pml4e, Pml3e, Pml2e, HasTables
<1> QED
  BY <1>2, <1>3 DEF WayInv

\* A step that leaves all tables as they are leaves all pages as they are.
LEMMA SameMemory ==
  ASSUME mem' = mem
  PROVE  /\ \A p, v : Mapping(p, v)' = Mapping(p, v)
         /\ \A L : TablesKept(L)
<1>1. \A p, v : Mapping(p, v)' = Mapping(p, v)
  BY DEF Mapping, IsMapped, HasTables, Pml4e, Pml3e, Pml2e, Pml1e
<1>2. \A L : TablesKept(L)
  BY DEF TablesKept
<1> QED
  BY <1>1, <1>2

LEMMA WayMapStart ==
  ASSUME WayInv, NEW c \in Cores, NEW pm \in maps, NEW v \in Virt, NEW phys \in Data,
         NEW w \in Modes, MapStart(c, pm, v, phys, w)
  PROVE  WayInv' /\ SamePages
<1> DEFINE n == [level |-> 1, pm |-> pm, table |-> pm, virt |-> v,
                 phys |-> phys, writable |-> w]
<1>1. walk' = [walk EXCEPT ![c] = n] /\ UNCHANGED << mem, free, maps, created, cr3, tlb, behind >>
  BY DEF MapStart
<1>2. PICK L \in [Frames -> 1 .. 4] : LevelsFit(L)
  BY DEF WayInv, VmmInv
<1>3. walk \in [Cores -> Walks]
  BY DEF WayInv, VmmInv, TypeOK
<1>4. ASSUME NEW d \in Cores, ~Idle(d)'
      PROVE  /\ walk'[d].pm \in maps'
             /\ \/ ~Idle(d) /\ walk'[d] = walk[d]
                \/ Reaches(walk[d].pm, walk[d].virt, walk[d].level, walk[d].table)'
  <2>1. CASE d = c
    <3>1. walk'[d] = n /\ n.level = 1 /\ n.pm = pm /\ n.table = pm
      BY <1>1, <1>3, <2>1
    <3> HIDE DEF n
    <3> QED
      BY <1>1, <3>1 DEF Reaches
  <2>2. CASE d # c
    <3>1. walk'[d] = walk[d]
      BY <1>1, <1>3, <2>2
    <3> QED
      BY <1>1, <1>4, <3>1 DEF Idle, WayInv, WalksReach
  <2> QED
    BY <2>1, <2>2
<1>5. VmmInv'
  BY StepMapStart DEF WayInv
<1> QED
  BY <1>1, <1>2, <1>4, <1>5, WayInvNext, SameMemory DEF SamePages

LEMMA WaySwitch ==
  ASSUME WayInv, NEW c \in Cores, NEW pm \in maps, vmm_switch_pagemap(c, pm)
  PROVE  WayInv' /\ SamePages
<1>1. UNCHANGED << mem, maps, walk >>
  BY DEF vmm_switch_pagemap
<1>2. PICK L \in [Frames -> 1 .. 4] : LevelsFit(L)
  BY DEF WayInv, VmmInv
<1>3. VmmInv'
  BY StepSwitch DEF WayInv
<1>4. \A d \in Cores : ~Idle(d)' => walk'[d].pm \in maps' /\ ~Idle(d) /\ walk'[d] = walk[d]
  BY <1>1 DEF Idle, WayInv, WalksReach
<1> QED
  BY <1>1, <1>2, <1>3, <1>4, WayInvNext, SameMemory DEF SamePages

LEMMA WayAccess ==
  ASSUME WayInv, NEW c \in Cores, NEW v \in Accessed, Access(c, v)
  PROVE  WayInv' /\ SamePages
<1>1. UNCHANGED << mem, maps, walk >>
  BY DEF Access
<1>2. PICK L \in [Frames -> 1 .. 4] : LevelsFit(L)
  BY DEF WayInv, VmmInv
<1>3. VmmInv'
  BY StepAccess DEF WayInv
<1>4. \A d \in Cores : ~Idle(d)' => walk'[d].pm \in maps' /\ ~Idle(d) /\ walk'[d] = walk[d]
  BY <1>1 DEF Idle, WayInv, WalksReach
<1> QED
  BY <1>1, <1>2, <1>3, <1>4, WayInvNext, SameMemory DEF SamePages

\* A core that goes down follows the entry it has found or made.
LEMMA WalkGoesOn ==
  ASSUME TypeOK, TypeOK', NEW c \in Cores, walk[c].level \in 1 .. 3, NEW table \in Frames,
         Down(c, table),
         Reaches(walk[c].pm, walk[c].virt, walk[c].level, walk[c].table),
         NEW L, LevelsFit(L), maps \subseteq Used, TablesKept(L), walk[c].pm \in maps,
         mem'[walk[c].table][walk[c].virt[walk[c].level]].present,
         mem'[walk[c].table][walk[c].virt[walk[c].level]].to = table
  PROVE  Reaches(walk[c].pm, walk[c].virt, walk[c].level, walk[c].table)'
<1>1. PICK p, v, k, t : p = walk[c].pm /\ v = walk[c].virt /\ k = walk[c].level /\ t = walk[c].table
  OBVIOUS
<1>2. walk[c].level # 0
  OBVIOUS
<1>3. p \in maps /\ v \in Virt /\ k \in 1 .. 3 /\ Reaches(p, v, k, t)
  BY <1>1, <1>2, WalkFacts
<1>4. walk'[c].pm = p /\ walk'[c].virt = v /\ walk'[c].level = k + 1 /\ walk'[c].table = table
  BY <1>1, DownIsTyped
<1>5. Reaches(p, v, k, t)'
  BY <1>3, WayKept
<1>6. mem'[t][v[k]].present /\ mem'[t][v[k]].to = table
  BY <1>1
<1>7. Reaches(p, v, k + 1, table)'
  <2>1. CASE k = 1
    BY <1>5, <1>6, <2>1 DEF Reaches, Pml4e
  <2>2. CASE k = 2
    <3>1. Pml4e(p, v)'.present /\ t = Pml4e(p, v)'.to
      BY <1>5, <2>2 DEF Reaches
    <3>2. Pml3e(p, v)' = mem'[t][v[k]]
      BY <2>2, <3>1 DEF Pml3e
    <3> QED
      BY <1>6, <2>2, <3>1, <3>2 DEF Reaches
  <2>3. CASE k = 3
    <3>1. Pml4e(p, v)'.present /\ Pml3e(p, v)'.present /\ t = Pml3e(p, v)'.to
      BY <1>5, <2>3 DEF Reaches
    <3>2. Pml2e(p, v)' = mem'[t][v[k]]
      BY <2>3, <3>1 DEF Pml2e
    <3> QED
      BY <1>6, <2>3, <3>1, <3>2 DEF Reaches, HasTables
  <2> QED
    BY <1>3, <2>1, <2>2, <2>3
<1> QED
  BY <1>4, <1>7 DEF Reaches, Pml4e, Pml3e, Pml2e, HasTables

LEMMA WayDescend ==
  ASSUME WayInv, NEW c \in Cores, Descend(c)
  PROVE  WayInv' /\ SamePages
<1> DEFINE w == walk[c]
           t == w.table
           i == w.virt[w.level]
           e == mem[t][i]
<1>1. w.level \in 1 .. 3 /\ w.level # 0 /\ e.present
  <2>1. w.level \in 1 .. 3 /\ e.present
    BY DEF Descend
  <2> HIDE DEF w
  <2> QED
    BY <2>1
<1>2. /\ mem' = [mem EXCEPT ![t][i] = AddFlags(@, w.writable)]
      /\ Down(c, e.to) /\ UNCHANGED << free, maps >>
  BY DEF Descend
<1>3. TypeOK /\ maps \subseteq Used /\ mem \in [Frames \cup {NULL} -> [Index -> Entries]]
  BY MemFacts DEF WayInv, VmmInv
<1>4. PICK L \in [Frames -> 1 .. 4] : LevelsFit(L)
  BY DEF WayInv, VmmInv
<1>5. ~Idle(c) /\ i \in Index
  BY <1>1, <1>3, WalkFacts
<1>6. t \in Used /\ t \in Frames /\ L[t] = w.level /\ w.pm \in maps /\ Reaches(w.pm, w.virt, w.level, t)
  BY <1>4, <1>5 DEF LevelsFit, Used, WayInv, WalksReach
<1>7. L[t] # 4
  <2> HIDE DEF w
  <2> QED
    BY <1>1, <1>6
<1>8. VmmInv' /\ TypeOK'
  BY StepDescend DEF WayInv, VmmInv
<1>9. \A f \in Frames, j \in Index :
        /\ mem'[f][j].present = mem[f][j].present /\ mem'[f][j].to = mem[f][j].to
        /\ L[f] = 4 => mem'[f][j] = mem[f][j]
  <2> DEFINE a == AddFlags(e, w.writable)
  <2>1. a.present = e.present /\ a.to = e.to
    <3>1. e \in Entries
      BY <1>3, <1>5, <1>6
    <3> HIDE DEF e
    <3> QED
      BY <3>1 DEF AddFlags, Entries
  <2>2. mem' = [mem EXCEPT ![t][i] = a]
    BY <1>2, <1>3, <1>5, <1>6
  <2> HIDE DEF a, t, i
  <2> QED
    BY <1>3, <1>5, <1>6, <1>7, <2>1, <2>2
<1>10. TablesKept(L)
  BY <1>9 DEF TablesKept, Used
<1>11. e.to \in Frames
  BY <1>1, <1>4, <1>5, <1>6, <1>7 DEF LevelsFit, Used
<1>12. SamePages
  <2>1. \A f \in Used, j \in Index : L[f] = 4 => mem'[f][j] = mem[f][j]
    BY <1>9 DEF Used
  <2>2. \A f \in Used, j \in Index : mem'[f][j].present => mem[f][j].present
    BY <1>9 DEF Used
  <2> HIDE DEF w, t, i, e
  <2>3. \A pm \in maps, v \in Virt : Mapping(pm, v)' = Mapping(pm, v)
    BY <1>3, <1>4, <1>10, <2>1, <2>2, SameMappings
  <2> QED
    BY <1>2, <2>3 DEF SamePages
<1>13. ASSUME NEW d \in Cores, ~Idle(d)'
       PROVE  /\ walk'[d].pm \in maps'
              /\ \/ ~Idle(d) /\ walk'[d] = walk[d]
                 \/ Reaches(walk[d].pm, walk[d].virt, walk[d].level, walk[d].table)'
  <2>1. CASE d = c
    <3>1. mem'[t][i].present /\ mem'[t][i].to = e.to
      BY <1>1, <1>5, <1>6, <1>9
    <3>2. walk'[c].pm = w.pm
      BY <1>1, <1>2, <1>3, <1>11, DownIsTyped
    <3>3. Reaches(walk[c].pm, walk[c].virt, walk[c].level, walk[c].table)'
      BY <1>1, <1>2, <1>3, <1>4, <1>6, <1>8, <1>10, <1>11, <3>1, WalkGoesOn
    <3> QED
      BY <1>2, <1>6, <2>1, <3>2, <3>3
  <2>2. CASE d # c
    <3>1. walk'[d] = walk[d]
      BY <1>1, <1>2, <1>3, <1>11, <2>2, DownIsTyped
    <3> QED
      BY <1>2, <1>13, <3>1 DEF Idle, WayInv, WalksReach
  <2> QED
    BY <2>1, <2>2
<1> QED
  BY <1>2, <1>4, <1>8, <1>10, <1>12, <1>13, WayInvNext

LEMMA WayExtend ==
  ASSUME WayInv, free # {}, NEW c \in Cores, Extend(c)
  PROVE  WayInv' /\ SamePages
<1> DEFINE w == walk[c]
           t == w.table
           i == w.virt[w.level]
<1>1. w.level \in 1 .. 3 /\ w.level # 0 /\ ~mem[t][i].present
  <2>1. w.level \in 1 .. 3 /\ ~mem[t][i].present
    BY DEF Extend
  <2> HIDE DEF w
  <2> QED
    BY <2>1
<1>2. PICK f \in Frames \cup {NULL} :
        /\ Request(f)
        /\ mem' = [Cleared(f) EXCEPT ![t][i] = TableEntry(f, w.writable)]
        /\ Down(c, f)
  BY DEF Extend
<1>3. maps' = maps
  BY DEF Extend
<1>4. TypeOK /\ maps \subseteq Used /\ mem \in [Frames \cup {NULL} -> [Index -> Entries]]
  BY MemFacts DEF WayInv, VmmInv
<1>5. PICK L \in [Frames -> 1 .. 4] : LevelsFit(L)
  BY DEF WayInv, VmmInv
<1>6. ~Idle(c) /\ i \in Index
  BY <1>1, <1>4, WalkFacts
<1>7. t \in Used /\ t \in Frames /\ L[t] = w.level /\ w.pm \in maps /\ Reaches(w.pm, w.virt, w.level, t)
  BY <1>5, <1>6 DEF LevelsFit, Used, WayInv, WalksReach
<1>8. L[t] # 4
  <2> HIDE DEF w
  <2> QED
    BY <1>1, <1>7
<1>9. VmmInv' /\ TypeOK'
  BY StepExtend DEF WayInv, VmmInv
<1>10. f \in Frames /\ f \notin Used
  BY <1>2, <1>4, RequestFacts
<1>11. /\ mem'[t][i].present /\ mem'[t][i].to = f
       /\ \A j \in Index : ~mem'[f][j].present
       /\ \A g \in Used, j \in Index : g # t \/ j # i => mem'[g][j] = mem[g][j]
  <2> DEFINE n == Entry(f, TRUE)
             m == [mem EXCEPT ![f] = EmptyTable]
  <2>1. /\ n.present /\ n.to = f /\ EmptyTable \in [Index -> Entries]
        /\ \A j \in Index : ~EmptyTable[j].present
    BY <1>10, EntryIsTyped DEF EmptyTable, NULL
  <2>2. mem' = [m EXCEPT ![t][i] = n]
    BY <1>2 DEF Cleared, TableEntry
  <2>3. /\ m \in [Frames \cup {NULL} -> [Index -> Entries]]
        /\ m[f] = EmptyTable /\ \A g \in Frames : g # f => m[g] = mem[g]
    BY <1>4, <1>10, <2>1
  <2> HIDE DEF n, m, t, i
  <2> QED
    BY <1>6, <1>7, <1>10, <2>1, <2>2, <2>3 DEF Used
<1>12. TablesKept(L)
  BY <1>1, <1>11 DEF TablesKept
<1>13. SamePages
  <2>1. \A g \in Used, j \in Index : L[g] = 4 => mem'[g][j] = mem[g][j]
    BY <1>8, <1>11
  <2>2. \A g \in Used, j \in Index :
          mem'[g][j].present /\ ~mem[g][j].present => mem'[g][j].to = f
    BY <1>11
  <2> QED
    BY <1>3, <1>4, <1>5, <1>11, <1>12, <2>1, <2>2, SameMappings DEF SamePages
<1>14. ASSUME NEW d \in Cores, ~Idle(d)'
       PROVE  /\ walk'[d].pm \in maps'
              /\ \/ ~Idle(d) /\ walk'[d] = walk[d]
                 \/ Reaches(walk[d].pm, walk[d].virt, walk[d].level, walk[d].table)'
  <2>1. CASE d = c
    <3>1. walk'[c].pm = w.pm
      BY <1>1, <1>2, <1>4, <1>10, DownIsTyped
    <3>2. Reaches(walk[c].pm, walk[c].virt, walk[c].level, walk[c].table)'
      BY <1>1, <1>2, <1>4, <1>5, <1>7, <1>9, <1>10, <1>11, <1>12, WalkGoesOn
    <3> QED
      BY <1>3, <1>7, <2>1, <3>1, <3>2
  <2>2. CASE d # c
    <3>1. walk'[d] = walk[d]
      BY <1>1, <1>2, <1>4, <1>10, <2>2, DownIsTyped
    <3> QED
      BY <1>3, <1>14, <3>1 DEF Idle, WayInv, WalksReach
  <2> QED
    BY <2>1, <2>2
<1> QED
  BY <1>3, <1>5, <1>9, <1>12, <1>13, <1>14, WayInvNext

LEMMA WayWriteEntry ==
  ASSUME WayInv, NEW c \in Cores, WriteEntry(c)
  PROVE  /\ WayInv' /\ walk[c].pm \in maps /\ walk[c].virt \in Virt /\ walk[c].level # 0
         /\ walk[c].phys \in Data
         /\ OnePage(walk[c].pm, walk[c].virt, Entry(walk[c].phys, walk[c].writable))
<1>1. PICK pm, v, t, n : /\ pm = walk[c].pm /\ v = walk[c].virt /\ t = walk[c].table
                         /\ n = Entry(walk[c].phys, walk[c].writable)
  OBVIOUS
<1>2. /\ walk[c].level = 4 /\ walk[c].level # 0 /\ mem' = [mem EXCEPT ![t][v[4]] = n]
      /\ walk' = [walk EXCEPT ![c] = NoWalk] /\ UNCHANGED << free, maps >>
  BY <1>1 DEF WriteEntry
<1>3. TypeOK /\ maps \subseteq Used /\ mem \in [Frames \cup {NULL} -> [Index -> Entries]]
  BY MemFacts DEF WayInv, VmmInv
<1>4. PICK L \in [Frames -> 1 .. 4] : LevelsFit(L) /\ OneParent(L)
  BY DEF WayInv, VmmInv
<1>5. ~Idle(c) /\ v \in Virt /\ v[4] \in Index /\ walk[c].phys \in Data
  BY <1>1, <1>2, <1>3, WalkFacts
<1>6. pm \in maps /\ HasTables(pm, v) /\ t = Pml2e(pm, v).to
  BY <1>1, <1>2, <1>5 DEF WayInv, WalksReach, Reaches
<1>7. t \in Used /\ t \in Frames /\ L[t] = 4
  BY <1>3, <1>4, <1>5, <1>6, WayLevels DEF Reaches, Used
<1>8. /\ mem'[t][v[4]] = n
      /\ \A f \in Used, j \in Index : f # t \/ j # v[4] => mem'[f][j] = mem[f][j]
  BY <1>2, <1>3, <1>5, <1>7 DEF Used
<1>9. OnePage(pm, v, n)
  BY <1>2, <1>3, <1>4, <1>5, <1>6, <1>8, OneMapping DEF OnePage, WayInv
<1>10. TablesKept(L)
  BY <1>7, <1>8 DEF TablesKept
<1>11. \A d \in Cores : ~Idle(d)' => walk'[d].pm \in maps' /\ ~Idle(d) /\ walk'[d] = walk[d]
  <2>1. walk \in [Cores -> Walks]
    BY <1>3 DEF TypeOK
  <2>2. \A d \in Cores : ~Idle(d)' => d # c /\ walk'[d] = walk[d] /\ ~Idle(d)
    BY <1>2, <2>1 DEF Idle
  <2> QED
    BY <1>2, <2>2 DEF WayInv, WalksReach
<1>12. VmmInv'
  BY StepWriteEntry DEF WayInv
<1>13. WayInv'
  BY <1>2, <1>4, <1>10, <1>11, <1>12, WayInvNext
<1> QED
  BY <1>1, <1>2, <1>5, <1>6, <1>9, <1>13

LEMMA WayUnmap ==
  ASSUME WayInv, NEW c \in Cores, NEW pm \in maps, NEW v \in Virt, vmm_unmap(c, pm, v)
  PROVE  WayInv' /\ OnePage(pm, v, Absent)
<1>1. PICK t : t = Pml2e(pm, v).to
  OBVIOUS
<1>2. /\ HasTables(pm, v) /\ mem' = [mem EXCEPT ![t][v[4]] = Absent]
      /\ UNCHANGED << free, maps, walk >>
  BY <1>1 DEF vmm_unmap
<1>3. TypeOK /\ maps \subseteq Used /\ mem \in [Frames \cup {NULL} -> [Index -> Entries]]
  BY MemFacts DEF WayInv, VmmInv
<1>4. PICK L \in [Frames -> 1 .. 4] : LevelsFit(L) /\ OneParent(L)
  BY DEF WayInv, VmmInv
<1>5. v[4] \in Index
  BY ConstantFacts
<1>6. t \in Used /\ t \in Frames /\ L[t] = 4
  BY <1>1, <1>2, <1>3, <1>4, WayLevels DEF Reaches, Used
<1>7. /\ mem'[t][v[4]] = Absent
      /\ \A f \in Used, j \in Index : f # t \/ j # v[4] => mem'[f][j] = mem[f][j]
  BY <1>2, <1>3, <1>5, <1>6 DEF Used
<1>8. OnePage(pm, v, Absent)
  BY <1>1, <1>2, <1>3, <1>4, <1>7, OneMapping DEF OnePage, WayInv
<1>9. TablesKept(L)
  BY <1>6, <1>7 DEF TablesKept
<1>10. \A d \in Cores : ~Idle(d)' => walk'[d].pm \in maps' /\ ~Idle(d) /\ walk'[d] = walk[d]
  BY <1>2 DEF Idle, WayInv, WalksReach
<1>11. VmmInv'
  BY StepUnmap DEF WayInv
<1>12. WayInv'
  BY <1>2, <1>4, <1>9, <1>10, <1>11, WayInvNext
<1> QED
  BY <1>8, <1>12

LEMMA WayNewPagemap ==
  ASSUME WayInv, free # {}, NEW c \in Cores, vmm_new_pagemap(c)
  PROVE  /\ WayInv'
         /\ \E f \in Frames \ maps :
              /\ maps' = maps \cup {f}
              /\ \A p \in maps, v \in Virt : Mapping(p, v)' = Mapping(p, v)
              /\ \A v \in Virt :
                   Mapping(f, v)' = IF v \in KernelVirt THEN Mapping(kernel_pagemap, v)
                                                        ELSE Absent
<1>1. PICK f \in Frames \cup {NULL} :
        /\ Request(f)
        /\ mem' = [mem EXCEPT ![f] = [i \in Index |-> IF Inherits(i) THEN mem[kernel_pagemap][i]
                                                                    ELSE Absent]]
        /\ maps' = maps \cup {f}
  BY DEF vmm_new_pagemap
<1>2. walk' = walk
  BY DEF vmm_new_pagemap
<1>3. /\ TypeOK /\ maps \subseteq Used /\ kernel_pagemap \in maps
      /\ mem \in [Frames \cup {NULL} -> [Index -> Entries]]
  BY MemFacts DEF WayInv, VmmInv
<1>4. PICK L \in [Frames -> 1 .. 4] : LevelsFit(L)
  BY DEF WayInv, VmmInv
<1>5. f \in Frames /\ f \notin Used /\ f \notin maps
  BY <1>1, <1>3, RequestFacts
<1>6. /\ \A g \in Used : mem'[g] = mem[g]
      /\ \A i \in Index : mem'[f][i] = IF i \in KernelIndex THEN mem[kernel_pagemap][i] ELSE Absent
  BY <1>1, <1>3, <1>5 DEF Used, Inherits
<1>7. TablesKept(L)
  BY <1>6 DEF TablesKept
<1>8. VmmInv'
  BY StepNewPagemap DEF WayInv
<1>9. WayInv'
  <2>1. \A d \in Cores : ~Idle(d)' => walk'[d].pm \in maps' /\ ~Idle(d) /\ walk'[d] = walk[d]
    BY <1>1, <1>2 DEF Idle, WayInv, WalksReach
  <2>2. \A p \in maps' :
          p \in maps \/ \A i \in KernelIndex : mem'[p][i] = mem[kernel_pagemap][i]
    BY <1>1, <1>6, ConstantFacts
  <2> QED
    BY <1>4, <1>7, <1>8, <2>1, <2>2, WayInvNext
<1>10. \A p \in maps, v \in Virt : Mapping(p, v)' = Mapping(p, v)
  BY <1>3, <1>4, <1>6, <1>7, SameMappings
<1>11. ASSUME NEW v \in KernelVirt
       PROVE  Mapping(f, v)' = Mapping(kernel_pagemap, v)
  <2>1. v \in Virt /\ v[1] \in KernelIndex /\ v[1] \in Index
    BY ConstantFacts DEF KernelVirt
  <2>2. mem'[f][v[1]] = mem'[kernel_pagemap][v[1]]
    BY <1>3, <1>6, <2>1
  <2>3. Pml4e(f, v)' = Pml4e(kernel_pagemap, v)'
    BY <2>2 DEF Pml4e, kernel_pagemap
  <2>4. Pml3e(f, v)' = Pml3e(kernel_pagemap, v)'
    BY <2>3 DEF Pml3e, kernel_pagemap
  <2>5. Pml2e(f, v)' = Pml2e(kernel_pagemap, v)'
    BY <2>4 DEF Pml2e, kernel_pagemap
  <2>6. Pml1e(f, v)' = Pml1e(kernel_pagemap, v)'
    BY <2>5 DEF Pml1e, kernel_pagemap
  <2>7. Mapping(f, v)' = Mapping(kernel_pagemap, v)'
    BY <2>3, <2>4, <2>5, <2>6 DEF Mapping, IsMapped, HasTables, kernel_pagemap
  <2> QED
    BY <1>3, <1>10, <2>1, <2>7
<1>12. ASSUME NEW v \in Virt, v \notin KernelVirt
       PROVE  Mapping(f, v)' = Absent
  <2>1. v[1] \in Index /\ v[1] \notin KernelIndex
    BY <1>12, ConstantFacts DEF KernelVirt
  <2>2. ~Pml4e(f, v)'.present
    BY <1>6, <2>1, EntryIsTyped DEF Pml4e, NULL
  <2> QED
    BY <2>2 DEF Mapping, IsMapped, HasTables
<1> QED
  BY <1>1, <1>5, <1>9, <1>10, <1>11, <1>12

LEMMA WayDestroy ==
  ASSUME WayInv, NEW c \in Cores, NEW pm \in maps, vmm_destroy_pagemap(c, pm)
  PROVE  /\ WayInv' /\ pm # kernel_pagemap /\ maps' = maps \ {pm}
         /\ \A p \in maps, v \in Virt : Mapping(p, v)' = Mapping(p, v)
<1>1. /\ pm # kernel_pagemap /\ \A d \in Cores : ~Walking(d, pm)
      /\ maps' = maps \ {pm} /\ UNCHANGED << mem, walk >>
  BY DEF vmm_destroy_pagemap
<1>2. PICK L \in [Frames -> 1 .. 4] : LevelsFit(L)
  BY DEF WayInv, VmmInv
<1>3. VmmInv'
  BY StepDestroy DEF WayInv
<1>4. \A d \in Cores : ~Idle(d)' => walk'[d].pm \in maps' /\ ~Idle(d) /\ walk'[d] = walk[d]
  BY <1>1 DEF Idle, Walking, WayInv, WalksReach
<1> QED
  BY <1>1, <1>2, <1>3, <1>4, WayInvNext, SameMemory

LEMMA WayInvInit == Init => WayInv /\ \A v \in Virt : Mapping(kernel_pagemap, v) = Absent
<1> SUFFICES ASSUME Init PROVE WayInv /\ \A v \in Virt : Mapping(kernel_pagemap, v) = Absent
  OBVIOUS
<1>1. PICK subtable \in Bijection(KernelTop, InitialTables) :
        mem = [f \in Frames \cup {NULL} |->
                 IF f = kernel_pagemap
                   THEN [i \in Index |-> IF i \in KernelTop THEN Entry(subtable[i], TRUE)
                                                            ELSE Absent]
                   ELSE EmptyTable]
  BY DEF Init
<1>2. /\ subtable \in [KernelTop -> InitialTables]
      /\ InitialTables \subseteq Frames /\ kernel_pagemap \in Frames
      /\ kernel_pagemap \notin InitialTables /\ KernelTop \subseteq Index
  <2>1. Cardinality(KernelTop) \in Nat
    BY VmmAssumption, FS_CardinalityType
  <2> QED
    BY <2>1, VmmAssumption DEF InitialTables, kernel_pagemap, Bijection, Injection
<1>3. /\ \A i \in Index : mem[kernel_pagemap][i] = IF i \in KernelTop
                                                     THEN Entry(subtable[i], TRUE) ELSE Absent
      /\ \A f \in InitialTables, i \in Index : mem[f][i] = Absent
  BY <1>1, <1>2 DEF EmptyTable
<1>4. maps = {kernel_pagemap} /\ \A c \in Cores : Idle(c)
  BY DEF Init, Idle
<1>5. ~Absent.present /\ \A x \in Frames : Entry(x, TRUE).present /\ Entry(x, TRUE).to = x
  BY DEF Absent, Entry
<1>6. KernelShared
  BY ZenonT(60), <1>2, <1>3, <1>4, <1>5 DEF KernelShared
<1>7. ASSUME NEW v \in Virt
      PROVE  Mapping(kernel_pagemap, v) = Absent
  <2>1. v[1] \in Index /\ v[2] \in Index
    BY ConstantFacts
  <2>2. CASE v[1] \in KernelTop
    <3>1. Pml4e(kernel_pagemap, v).to \in InitialTables
      <4>1. Pml4e(kernel_pagemap, v) = Entry(subtable[v[1]], TRUE)
        BY <1>3, <2>1, <2>2 DEF Pml4e
      <4>2. subtable[v[1]] \in InitialTables
        BY <1>2, <2>2
      <4>3. subtable[v[1]] \in Frames
        BY <1>2, <4>2
      <4> QED
        BY <1>5, <4>1, <4>2, <4>3
    <3>2. ~Pml3e(kernel_pagemap, v).present
      BY <1>3, <1>5, <2>1, <3>1 DEF Pml3e
    <3> QED
      BY <3>2 DEF Mapping, IsMapped, HasTables
  <2>3. CASE v[1] \notin KernelTop
    <3>1. ~Pml4e(kernel_pagemap, v).present
      BY <1>3, <1>5, <2>1, <2>3 DEF Pml4e
    <3> QED
      BY <3>1 DEF Mapping, IsMapped, HasTables
  <2> QED
    BY <2>2, <2>3
<1> QED
  BY <1>4, <1>6, <1>7, VmmInvInit DEF WayInv, WalksReach

\* All that a step may do to the pages.
Effect ==
  \/ SamePages
  \/ \E pm \in maps, v \in Virt, phys \in Data, w \in BOOLEAN : OnePage(pm, v, Entry(phys, w))
  \/ \E pm \in maps, v \in Virt : OnePage(pm, v, Absent)
  \/ \E f \in Frames \ maps :
       /\ maps' = maps \cup {f}
       /\ \A p \in maps, v \in Virt : Mapping(p, v)' = Mapping(p, v)
       /\ \A v \in Virt : Mapping(f, v)' = IF v \in KernelVirt
                                             THEN Mapping(kernel_pagemap, v) ELSE Absent
  \/ \E pm \in maps \ {kernel_pagemap} :
       /\ maps' = maps \ {pm}
       /\ \A p \in maps, v \in Virt : Mapping(p, v)' = Mapping(p, v)

LEMMA WayInvStep ==
  ASSUME WayInv, free # {}, [Next]_vars
  PROVE  WayInv' /\ Effect
<1>1. CASE UNCHANGED vars
  <2>1. UNCHANGED << mem, free, maps, created, walk, cr3, tlb, behind >>
    BY <1>1 DEF vars
  <2>2. PICK L \in [Frames -> 1 .. 4] : LevelsFit(L) /\ OneParent(L)
    BY DEF WayInv, VmmInv
  <2>3. VmmInv'
    <3>1. TypeOK' /\ maps' \subseteq Used' /\ kernel_pagemap \in maps'
      BY <2>1 DEF WayInv, VmmInv, TypeOK, Used
    <3>2. LevelsFit(L)' /\ OneParent(L)'
      BY <2>1, <2>2 DEF Used, LevelsFit, OneParent, Idle, Walking
    <3> QED
      BY <3>1, <3>2 DEF VmmInv, kernel_pagemap
  <2>4. \A d \in Cores : ~Idle(d)' => walk'[d].pm \in maps' /\ ~Idle(d) /\ walk'[d] = walk[d]
    BY <2>1 DEF Idle, WayInv, WalksReach
  <2> QED
    BY <2>1, <2>2, <2>3, <2>4, WayInvNext, SameMemory DEF Effect, SamePages
<1>2. CASE Next
  <2>1. PICK c \in Cores :
          \/ \E pm \in maps, v \in Virt, p \in Data, w \in Modes :
               MapStart(c, pm, v, p, w)
          \/ Map(c)
          \/ \E pm \in maps, v \in Virt : vmm_unmap(c, pm, v)
          \/ vmm_new_pagemap(c)
          \/ \E pm \in maps : vmm_destroy_pagemap(c, pm) \/ vmm_switch_pagemap(c, pm)
          \/ \E v \in Accessed : Access(c, v)
    BY <1>2 DEF Next
  <2>2. CASE \E pm \in maps, v \in Virt, p \in Data, w \in Modes : MapStart(c, pm, v, p, w)
    BY <2>2, WayMapStart DEF Effect
  <2>3. CASE Descend(c)
    BY <2>3, WayDescend DEF Effect
  <2>4. CASE Extend(c)
    BY <2>4, WayExtend DEF Effect
  <2>5. CASE WriteEntry(c)
    <3>1. walk[c].writable \in BOOLEAN
      BY <2>5, WayWriteEntry, WalkFacts DEF WayInv, VmmInv
    <3> QED
      BY <2>5, <3>1, WayWriteEntry DEF Effect
  <2>6. CASE \E pm \in maps, v \in Virt : vmm_unmap(c, pm, v)
    BY <2>6, WayUnmap DEF Effect
  <2>7. CASE vmm_new_pagemap(c)
    BY <2>7, WayNewPagemap DEF Effect
  <2>8. CASE \E pm \in maps : vmm_destroy_pagemap(c, pm)
    BY <2>8, WayDestroy DEF Effect
  <2>9. CASE \E pm \in maps : vmm_switch_pagemap(c, pm)
    BY <2>9, WaySwitch DEF Effect
  <2>10. CASE \E v \in Accessed : Access(c, v)
    BY <2>10, WayAccess DEF Effect
  <2> QED
    BY <2>1, <2>2, <2>3, <2>4, <2>5, <2>6, <2>7, <2>8, <2>9, <2>10 DEF Map
<1> QED
  BY <1>1, <1>2

LEMMA WayInvAlways == Spec /\ [](free # {}) => []WayInv
<1>1. WayInv /\ free # {} /\ [Next]_vars => WayInv'
  BY WayInvStep
<1> QED
  BY WayInvInit, <1>1, PTL DEF Spec

-----------------------------------------------------------------------------
(* Address spaces *)

Spaces == [pm \in maps |-> [v \in Virt |-> virt_to_phys(pm, v)]]

LEMMA PhysOfMapping == \A p, v : virt_to_phys(p, v) = Mapping(p, v).to
BY DEF virt_to_phys, Mapping, Absent

LEMMA PhysOfMappingNext == \A p, v : virt_to_phys(p, v)' = Mapping(p, v)'.to
BY DEF virt_to_phys, Mapping, Absent, NULL

\* The tables of four levels, with every vmm_map taken apart into its steps,
\* implement one map from pages to physical pages for each address space, as
\* long as the allocator has a page: a step changes one page, creates or
\* destroys a space, or changes nothing that a space maps.
THEOREM TablesImplementAddressSpaces ==
  Spec /\ [](free # {}) => ImplementsAddressSpaces
<1> USE DEF AddressSpace!Virtual, AddressSpace!Spaces
<1>1. KernelVirt \cup (Virt \ KernelVirt) = Virt /\ KernelVirt \subseteq Virt
  BY DEF KernelVirt
<1>2. Init => AddressSpace!Init
  <2> SUFFICES ASSUME Init PROVE AddressSpace!Init
    OBVIOUS
  <2>1. \A v \in Virt : virt_to_phys(kernel_pagemap, v) = NULL
    BY WayInvInit, PhysOfMapping DEF Absent
  <2>2. maps = {kernel_pagemap}
    BY DEF Init
  <2> QED
    BY <1>1, <2>1, <2>2 DEF AddressSpace!Init
<1>3. WayInv /\ free # {} /\ [Next]_vars =>
        [AddressSpace!Next]_([pm \in maps |-> [v \in Virt |-> virt_to_phys(pm, v)]])
  <2> SUFFICES ASSUME WayInv, free # {}, [Next]_vars
               PROVE  AddressSpace!Next \/ UNCHANGED Spaces
    BY DEF Spaces
  <2>1. Effect
    BY WayInvStep
  <2>2. Spaces' = [pm \in maps' |-> [v \in Virt |-> Mapping(pm, v)'.to]]
    BY PhysOfMappingNext DEF Spaces
  <2>3. Spaces = [pm \in maps |-> [v \in Virt |-> Mapping(pm, v).to]]
    BY PhysOfMapping DEF Spaces
  <2>4. CASE SamePages
    BY <2>2, <2>3, <2>4 DEF SamePages
  <2>5. ASSUME NEW pm \in maps, NEW v \in Virt, NEW e, NEW to \in Data \cup {NULL},
               OnePage(pm, v, e), to = IF e.present THEN e.to ELSE NULL
        PROVE  AddressSpace!Next
    <3>1. Spaces' = [t \in maps |-> IF t = pm \/ v \in KernelVirt
                                      THEN [Spaces[t] EXCEPT ![v] = to] ELSE Spaces[t]]
      <4>1. ASSUME NEW t \in maps
            PROVE  [u \in Virt |-> Mapping(t, u)'.to] =
                     IF t = pm \/ v \in KernelVirt THEN [Spaces[t] EXCEPT ![v] = to]
                                                   ELSE Spaces[t]
        <5>1. Spaces[t] = [u \in Virt |-> Mapping(t, u).to]
          BY <2>3
        <5>2. \A u \in Virt :
                Mapping(t, u)'.to = IF u = v /\ (t = pm \/ v \in KernelVirt)
                                      THEN to ELSE Mapping(t, u).to
          BY <2>5 DEF OnePage, Absent
        <5> QED
          BY <5>1, <5>2
      <4> QED
        BY <2>2, <2>5, <4>1 DEF OnePage
    <3>2. AddressSpace!Set(pm, v, to)
      BY <1>1, <2>3, <3>1 DEF AddressSpace!Set, Spaces
    <3> QED
      BY <1>1, <2>3, <3>2 DEF AddressSpace!Next, Spaces
  <2>6. CASE \E pm \in maps, v \in Virt, phys \in Data, w \in BOOLEAN :
               OnePage(pm, v, Entry(phys, w))
    BY <2>5, <2>6 DEF Entry
  <2>7. CASE \E pm \in maps, v \in Virt : OnePage(pm, v, Absent)
    BY <2>5, <2>7 DEF Absent
  <2>8. CASE \E f \in Frames \ maps :
               /\ maps' = maps \cup {f}
               /\ \A p \in maps, v \in Virt : Mapping(p, v)' = Mapping(p, v)
               /\ \A v \in Virt : Mapping(f, v)' = IF v \in KernelVirt
                                                     THEN Mapping(kernel_pagemap, v) ELSE Absent
    <3>1. PICK f \in Frames \ maps :
            /\ maps' = maps \cup {f}
            /\ \A p \in maps, v \in Virt : Mapping(p, v)' = Mapping(p, v)
            /\ \A v \in Virt : Mapping(f, v)' = IF v \in KernelVirt
                                                  THEN Mapping(kernel_pagemap, v) ELSE Absent
      BY <2>8
    <3>2. AddressSpace!Create(f)
      <4>1. kernel_pagemap \in maps
        BY DEF WayInv, VmmInv
      <4>2. ASSUME NEW t \in maps \cup {f}
            PROVE  [v \in Virt |-> Mapping(t, v)'.to] =
                     IF t \in maps THEN Spaces[t]
                     ELSE [v \in Virt |-> IF v \in KernelVirt THEN Spaces[kernel_pagemap][v]
                                                              ELSE NULL]
        <5>1. CASE t \in maps
          BY <2>3, <3>1, <5>1
        <5>2. CASE t = f
          <6>1. \A v \in Virt : Mapping(f, v)'.to = IF v \in KernelVirt
                                                     THEN Spaces[kernel_pagemap][v] ELSE NULL
            BY <2>3, <3>1, <4>1 DEF Absent
          <6> QED
            BY <3>1, <5>2, <6>1
        <5> QED
          BY <5>1, <5>2
      <4>3. Spaces' = [t \in maps \cup {f} |->
                         IF t \in maps THEN Spaces[t]
                         ELSE [v \in Virt |-> IF v \in KernelVirt
                                                THEN Spaces[kernel_pagemap][v] ELSE NULL]]
        BY <2>2, <3>1, <4>2
      <4>4. DOMAIN Spaces = maps
        BY DEF Spaces
      <4> QED
        BY <1>1, <3>1, <4>3, <4>4 DEF AddressSpace!Create, Spaces
    <3> QED
      BY <3>2 DEF AddressSpace!Next
  <2>9. CASE \E pm \in maps \ {kernel_pagemap} :
               /\ maps' = maps \ {pm}
               /\ \A p \in maps, v \in Virt : Mapping(p, v)' = Mapping(p, v)
    <3>1. PICK pm \in maps \ {kernel_pagemap} :
            /\ maps' = maps \ {pm}
            /\ \A p \in maps, v \in Virt : Mapping(p, v)' = Mapping(p, v)
      BY <2>9
    <3>2. AddressSpace!Destroy(pm)
      BY <2>2, <2>3, <3>1 DEF AddressSpace!Destroy, AddressSpace!Restrict, Spaces
    <3>3. pm \in Frames
      BY ConstantFacts DEF WayInv, VmmInv, Used
    <3> QED
      BY <3>2, <3>3 DEF AddressSpace!Next
  <2> QED
    BY <2>1, <2>4, <2>6, <2>7, <2>8, <2>9 DEF Effect
<1> QED
  BY WayInvAlways, <1>2, <1>3, PTL DEF Spec, ImplementsAddressSpaces, AddressSpace!Spec

-----------------------------------------------------------------------------
(* What a core has cached *)

\* The tables of c say what it has cached.
Current(c, t) ==
  LET e == Mapping(cr3[c], t.virt) IN
  e.present /\ e.to = t.phys /\ e.writable = t.writable

\* What a core has cached of a page is what the tables say, or the core is
\* behind of the page.
CacheInv ==
  /\ WayInv
  /\ \A c \in Cores : \A t \in tlb[c] :
       t.virt \in Accessed /\ (t.virt \in behind[c] \/ Current(c, t))

LEMMA MappingFacts ==
  ASSUME VmmInv, NEW pm \in maps, NEW v \in Virt
  PROVE  /\ Mapping(pm, v).present <=> IsMapped(pm, v)
         /\ IsMapped(pm, v) => /\ Mapping(pm, v).to = virt_to_phys(pm, v)
                               /\ Mapping(pm, v).writable = Writable(pm, v)
<1>1. PICK L \in [Frames -> 1 .. 4] : LevelsFit(L)
  BY DEF VmmInv
<1>2. CASE ~IsMapped(pm, v)
  BY <1>2 DEF Mapping, Absent
<1>3. CASE IsMapped(pm, v)
  <2>1. Pml4e(pm, v).writable /\ Pml3e(pm, v).writable /\ Pml2e(pm, v).writable
    BY <1>1, <1>3, WalkDown DEF VmmInv
  <2>2. Pml1e(pm, v).writable \in BOOLEAN
    BY <1>1, <1>3, WalkDown, MemFacts DEF VmmInv, Pml1e, Used
  <2>3. Writable(pm, v) = Pml1e(pm, v).writable
    BY <2>1, <2>2 DEF Writable
  <2> QED
    BY <1>3, <2>3 DEF Mapping, virt_to_phys, IsMapped
<1> QED
  BY <1>2, <1>3

\* Whoever stays as far behind as before needs only its own mapping kept.
LEMMA CacheKept ==
  ASSUME CacheInv, WayInv', cr3' = cr3,
         \A c \in Cores : tlb'[c] \subseteq tlb[c],
         \A c \in Cores : \A t \in tlb'[c] :
           t.virt \in behind'[c] \/
           (t.virt \notin behind[c] /\ Mapping(cr3[c], t.virt)' = Mapping(cr3[c], t.virt))
  PROVE  CacheInv'
<1> SUFFICES ASSUME NEW c \in Cores, NEW t \in tlb'[c]
             PROVE  t.virt \in Accessed /\ (t.virt \in behind'[c] \/ Current(c, t)')
  BY DEF CacheInv
<1>1. t \in tlb[c] /\ t.virt \in Accessed
  BY DEF CacheInv
<1>2. CASE t.virt \in behind'[c]
  BY <1>1, <1>2
<1>3. CASE t.virt \notin behind[c] /\ Mapping(cr3[c], t.virt)' = Mapping(cr3[c], t.virt)
  <2>1. Current(c, t)
    BY <1>1, <1>3 DEF CacheInv
  <2>2. Current(c, t)'
    BY <1>3, <2>1 DEF Current
  <2> QED
    BY <1>1, <2>2
<1> QED
  BY <1>2, <1>3

\* Steps that keep every page keep the caches current.
LEMMA CacheSame ==
  ASSUME CacheInv, WayInv', UNCHANGED << cr3, tlb, behind >>,
         \A p \in maps, v \in Virt : Mapping(p, v)' = Mapping(p, v)
  PROVE  CacheInv'
<1>1. ASSUME NEW c \in Cores, NEW t \in tlb[c]
      PROVE  Mapping(cr3[c], t.virt)' = Mapping(cr3[c], t.virt)
  <2>1. cr3[c] \in maps /\ t.virt \in Virt
    BY ConstantFacts DEF CacheInv, WayInv, VmmInv, TypeOK
  <2>2. PICK p, v : p = cr3[c] /\ v = t.virt
    OBVIOUS
  <2>3. Mapping(p, v)' = Mapping(p, v)
    BY <2>1, <2>2
  <2> QED
    BY <2>2, <2>3 DEF Mapping, IsMapped, HasTables, Pml4e, Pml3e, Pml2e, Pml1e
<1> QED
  BY <1>1, CacheKept

\* When one page is written over, or taken away by a core that drops it, the
\* others that may have cached it are behind of it.
LEMMA CacheOnePage ==
  ASSUME CacheInv, WayInv', cr3' = cr3, NEW pm \in maps, NEW v \in Virt, NEW e, NEW own,
         OnePage(pm, v, e), Outdate(pm, v, own),
         \A c \in Cores : tlb'[c] \subseteq tlb[c],
         \A c \in Cores : c \in own => \A t \in tlb'[c] : t.virt # v
  PROVE  CacheInv'
<1>1. /\ WayInv /\ VmmInv /\ KernelShared /\ cr3 \in [Cores -> maps]
      /\ behind \in [Cores -> SUBSET Virt]
      /\ tlb \in [Cores -> SUBSET [virt : Virt, phys : Data, writable : BOOLEAN]]
  BY DEF CacheInv, WayInv, VmmInv, TypeOK
<1>2. ASSUME NEW c \in Cores, NEW t \in tlb'[c]
      PROVE  t.virt \in behind'[c] \/
             (t.virt \notin behind[c] /\ Mapping(cr3[c], t.virt)' = Mapping(cr3[c], t.virt))
  <2>1. PICK q, u : q = cr3[c] /\ u = t.virt
    OBVIOUS
  <2>2. t \in tlb[c] /\ q \in maps /\ u \in Virt /\ u \in Accessed
    BY <1>1, <2>1, ConstantFacts DEF CacheInv
  <2>3. behind'[c] = IF c \in own THEN behind[c] \ {v}
                     ELSE behind[c] \cup {x \in {v} : MayCache(c, pm, x)}
    BY DEF Outdate
  <2>4. CASE u \in behind[c] /\ u # v
    BY <2>1, <2>3, <2>4
  <2>5. CASE u \notin behind[c] /\ ~(u = v /\ (q = pm \/ v \in KernelVirt))
    <3>1. Mapping(q, u)' = Mapping(q, u)
      BY <2>2, <2>5 DEF OnePage
    <3>2. Mapping(cr3[c], t.virt)' = Mapping(cr3[c], t.virt)
      BY <2>1, <3>1 DEF Mapping, IsMapped, HasTables, Pml4e, Pml3e, Pml2e, Pml1e
    <3> QED
      BY <2>1, <2>5, <3>2
  <2>6. CASE u = v /\ c \in own
    BY <2>1, <2>6
  <2>7. CASE u = v /\ u \in behind[c] /\ c \notin own
    BY <2>1, <2>3, <2>7
  <2>8. CASE u = v /\ u \notin behind[c] /\ c \notin own /\ (q = pm \/ v \in KernelVirt)
    <3>1. Mapping(q, v).present
      <4>1. t.virt \notin behind[c]
        BY <2>1, <2>8
      <4>2. Current(c, t)
        BY <2>2, <4>1 DEF CacheInv
      <4>3. Mapping(q, u).present
        BY <2>1, <4>2 DEF Current
      <4> QED
        BY <2>8, <4>3
    <3>2. Mapping(q, v) = Mapping(pm, v)
      BY <1>1, <2>2, <2>8, SharedWay
    <3>3. IsMapped(pm, v)
      BY <1>1, <3>1, <3>2, MappingFacts
    <3>4. MayCache(c, pm, v)
      BY <2>1, <2>2, <2>8, <3>3 DEF MayCache
    <3> QED
      BY <2>1, <2>3, <2>8, <3>4
  <2> QED
    BY <2>4, <2>5, <2>6, <2>7, <2>8
<1> QED
  BY <1>2, CacheKept

\* Whatever the callers map, unmap and map again, and on however many cores: a
\* core that uses a translation the tables no longer have has had the page's
\* entry written over by vmm_map, or taken away by another core's vmm_unmap,
\* since it last invalidated the page or loaded cr3.
THEOREM CachedTranslationsStayCurrent == Spec /\ [](free # {}) => []CachedTranslationsCurrent
<1>1. Init => CacheInv
  BY WayInvInit DEF Init, CacheInv
<1>2. ASSUME CacheInv, free # {}, [Next]_vars
      PROVE  CacheInv'
  <2>1. WayInv /\ VmmInv /\ TypeOK /\ WayInv'
    BY <1>2, WayInvStep DEF CacheInv, WayInv, VmmInv
  <2>2. tlb \in [Cores -> SUBSET [virt : Virt, phys : Data, writable : BOOLEAN]]
        /\ cr3 \in [Cores -> maps]
    BY <2>1 DEF TypeOK
  <2>3. ASSUME UNCHANGED << mem, maps, cr3, tlb, behind >>
        PROVE  CacheInv'
    BY <1>2, <2>1, <2>3, SameMemory, CacheSame
  <2>4. CASE UNCHANGED vars
    BY <2>3, <2>4 DEF vars
  <2>5. ASSUME NEW c \in Cores, NEW pm \in maps, NEW v \in Virt, NEW p \in Data, NEW w \in Modes,
               MapStart(c, pm, v, p, w)
        PROVE  CacheInv'
    BY <2>3, <2>5 DEF MapStart
  <2>6. ASSUME NEW c \in Cores, Descend(c) \/ Extend(c)
        PROVE  CacheInv'
    <3>1. SamePages
      BY <1>2, <2>1, <2>6, WayDescend, WayExtend
    <3>2. UNCHANGED << cr3, tlb, behind >>
      BY <2>6 DEF Descend, Extend
    <3> QED
      BY <1>2, <2>1, <3>1, <3>2, CacheSame DEF SamePages
  <2>7. ASSUME NEW c \in Cores, WriteEntry(c)
        PROVE  CacheInv'
    <3>1. PICK pm, v, e : /\ pm = walk[c].pm /\ v = walk[c].virt
                          /\ e = Entry(walk[c].phys, walk[c].writable)
      OBVIOUS
    <3>2. pm \in maps /\ v \in Virt /\ OnePage(pm, v, e)
      BY <2>1, <2>7, <3>1, WayWriteEntry
    <3>3. UNCHANGED << cr3, tlb >> /\ Outdate(pm, v, {})
      BY <2>7, <3>1 DEF WriteEntry
    <3> QED
      BY <1>2, <2>1, <3>2, <3>3, CacheOnePage
  <2>8. ASSUME NEW c \in Cores, NEW pm \in maps, NEW v \in Virt, vmm_unmap(c, pm, v)
        PROVE  CacheInv'
    <3>1. OnePage(pm, v, Absent)
      BY <2>1, <2>8, WayUnmap
    <3>2. cr3' = cr3 /\ tlb' = [tlb EXCEPT ![c] = @ \ Of(v)] /\ Outdate(pm, v, {c})
      BY <2>8 DEF vmm_unmap, Invalidate
    <3>3. \A d \in Cores : tlb'[d] \subseteq tlb[d]
      BY <2>2, <3>2
    <3>4. \A d \in Cores : d \in {c} => \A t \in tlb'[d] : t.virt # v
      BY <2>2, <3>2 DEF Of
    <3> QED
      BY <1>2, <2>1, <3>1, <3>2, <3>3, <3>4, CacheOnePage
  <2>9. ASSUME NEW c \in Cores, \/ vmm_new_pagemap(c)
                                \/ \E pm \in maps : vmm_destroy_pagemap(c, pm)
        PROVE  CacheInv'
    <3>1. \A p \in maps, v \in Virt : Mapping(p, v)' = Mapping(p, v)
      BY <1>2, <2>1, <2>9, WayNewPagemap, WayDestroy
    <3>2. UNCHANGED << cr3, tlb, behind >>
      BY <2>9 DEF vmm_new_pagemap, vmm_destroy_pagemap
    <3> QED
      BY <1>2, <2>1, <3>1, <3>2, CacheSame
  <2>10. ASSUME NEW c \in Cores, NEW pm \in maps, vmm_switch_pagemap(c, pm)
         PROVE  CacheInv'
    <3>1. /\ UNCHANGED mem /\ tlb' = [tlb EXCEPT ![c] = {}]
          /\ cr3' = [cr3 EXCEPT ![c] = pm] /\ behind' = [behind EXCEPT ![c] = {}]
      BY <2>10 DEF vmm_switch_pagemap
    <3>2. behind \in [Cores -> SUBSET Virt]
      BY <2>1 DEF TypeOK
    <3>3. ASSUME NEW d \in Cores, NEW t \in tlb'[d]
          PROVE  t.virt \in Accessed /\ (t.virt \in behind'[d] \/ Current(d, t)')
      <4>1. d # c /\ t \in tlb[d] /\ cr3'[d] = cr3[d] /\ behind'[d] = behind[d]
        BY <2>2, <3>1, <3>2
      <4>2. PICK q, u : q = cr3[d] /\ u = t.virt
        OBVIOUS
      <4>3. Mapping(q, u)' = Mapping(q, u)
        BY <3>1, SameMemory
      <4>4. Mapping(cr3[d], t.virt)' = Mapping(cr3[d], t.virt)
        BY <4>1, <4>2, <4>3 DEF Mapping, IsMapped, HasTables, Pml4e, Pml3e, Pml2e, Pml1e
      <4>5. Current(d, t)' <=> Current(d, t)
        BY <4>4 DEF Current
      <4>6. t.virt \in Accessed /\ (t.virt \in behind[d] \/ Current(d, t))
        BY <1>2, <4>1 DEF CacheInv
      <4> QED
        BY <4>1, <4>5, <4>6
    <3> QED
      BY <2>1, <3>3 DEF CacheInv
  <2>11. ASSUME NEW c \in Cores, NEW v \in Accessed, Access(c, v)
         PROVE  CacheInv'
    <3> DEFINE n == [virt |-> v, phys |-> virt_to_phys(cr3[c], v), writable |-> Writable(cr3[c], v)]
    <3>1. UNCHANGED << mem, cr3, behind >> /\ tlb' = [tlb EXCEPT ![c] = @ \cup {n}]
          /\ IsMapped(cr3[c], v)
      BY <2>11 DEF Access
    <3>2. Current(c, n) /\ n.virt = v
      BY <2>1, <2>2, <3>1, MappingFacts, ConstantFacts DEF Current
    <3> HIDE DEF n
    <3>3. ASSUME NEW d \in Cores, NEW t \in tlb'[d]
          PROVE  t.virt \in Accessed /\ (t.virt \in behind'[d] \/ Current(d, t)')
      <4>1. t \in tlb[d] \/ (d = c /\ t = n)
        BY <2>2, <3>1
      <4>2. Mapping(cr3[d], t.virt)' = Mapping(cr3[d], t.virt)
        BY <3>1 DEF Mapping, IsMapped, HasTables, Pml4e, Pml3e, Pml2e, Pml1e
      <4>3. Current(d, t)' <=> Current(d, t)
        BY <4>2 DEF Current
      <4> QED
        BY <1>2, <3>1, <3>2, <4>1, <4>3 DEF CacheInv
    <3> QED
      BY <2>1, <3>3 DEF CacheInv
  <2> QED
    BY <1>2, <2>4, <2>5, <2>6, <2>7, <2>8, <2>9, <2>10, <2>11 DEF Next, Map
<1>3. CacheInv => CachedTranslationsCurrent
  <2> SUFFICES ASSUME CacheInv, NEW c \in Cores, NEW t \in tlb[c], t.virt \notin behind[c]
               PROVE  /\ IsMapped(cr3[c], t.virt)
                      /\ virt_to_phys(cr3[c], t.virt) = t.phys
                      /\ Writable(cr3[c], t.virt) = t.writable
    BY DEF CachedTranslationsCurrent
  <2>1. VmmInv /\ cr3[c] \in maps /\ t.virt \in Virt /\ Current(c, t)
    BY DEF CacheInv, WayInv, VmmInv, TypeOK
  <2> QED
    BY <2>1, MappingFacts DEF Current
<1> QED
  BY <1>1, <1>2, <1>3, PTL DEF Spec
=============================================================================
