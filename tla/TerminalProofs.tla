--------------------------- MODULE TerminalProofs ---------------------------
(***************************************************************************)
(* The terminal, for a screen of every size, every length of the array of  *)
(* parameters and every sequence of messages and panics.                   *)
(*                                                                         *)
(*   The double buffer on its own comes first: its queue, its map and what *)
(*   can be seen.  The lemmas speak of the operators on a context, so they *)
(*   hold for each call that the terminal makes of them.                   *)
(*                                                                         *)
(*   The terminal over it: what writes cells is a loop over a set of       *)
(*   contexts that its body does not leave (Edited, Rewritten, Placed);    *)
(*   what selects colours stays in another (Recoloured); what parses       *)
(*   leaves every field that draws alone (Alike).  Each action of          *)
(*   flanterm_putchar is one of these or a few of them in a row, and so it *)
(*   keeps Sound.                                                          *)
(*                                                                         *)
(*   The report of a panic follows the bytes of a line through the parser: *)
(*   the first line ends what the panic has found half parsed, and each    *)
(*   later one starts at the start of a line of the screen (PanicInv).     *)
(***************************************************************************)
EXTENDS Flanterm, FiniteSetTheorems, SequenceTheorems, NaturalsInduction,
        WellFoundedInduction, TLAPS

-----------------------------------------------------------------------------
(* The inductive invariant *)

Items == [at : Cells, c : Chars]

\* A context as the double buffer uses it, whatever else is kept there.
BufferFields ==
  {"grid", "queue", "map", "cursor_x", "cursor_y", "old_cursor_x", "old_cursor_y",
   "cursor_enabled"}
IsContext(s) ==
  /\ s = [field \in DOMAIN s |-> s[field]]
  /\ BufferFields \subseteq DOMAIN s
  /\ s.grid \in [Cells -> Chars]
  /\ s.queue \in Seq(Items)
  /\ s.map \in [Cells -> Nat]
  /\ s.cursor_x \in Nat /\ s.cursor_y \in Nat
  /\ s.old_cursor_x \in Nat /\ s.old_cursor_y \in Nat
  /\ s.cursor_enabled \in BOOLEAN

\* The part of QueueSound that says how the queue and the map name each other;
\* the length of the queue follows.
Linked(s) ==
  /\ \A i \in Cells :
       s.map[i] # NULL => s.map[i] \in DOMAIN s.queue /\ s.queue[s.map[i]].at = i
  /\ \A k \in DOMAIN s.queue : s.map[s.queue[k].at] = k

BufferInv == IsContext(ctx) /\ Linked(ctx) /\ FramebufferShowsGrid

-----------------------------------------------------------------------------
(* The numbering of the cells *)

LEMMA LinesInOrder ==
  ASSUME NEW a \in Nat, NEW b \in Nat, a < b
  PROVE  a * cols + cols <= b * cols
<1>1. PICK d \in Nat : b = a + 1 + d
  BY b - a - 1 \in Nat, b = a + 1 + (b - a - 1)
<1>2. b * cols = a * cols + cols + d * cols
  BY <1>1, ScreenAssumption
<1>3. d * cols \in Nat /\ a * cols \in Nat
  BY ScreenAssumption
<1> QED
  BY <1>2, <1>3, ScreenAssumption

\* Places on the screen have cells of their own.
LEMMA CellOnScreen ==
  ASSUME NEW x \in Nat, NEW y \in Nat, OnScreen(x, y)
  PROVE  CellOf(x, y) \in Cells
<1>1. y * cols + cols <= rows * cols
  BY LinesInOrder, ScreenAssumption DEF OnScreen
<1>2. y * cols \in Nat /\ rows * cols \in Nat
  BY ScreenAssumption
<1> QED
  BY <1>1, <1>2, ScreenAssumption DEF OnScreen, CellOf, Cells

LEMMA CellsApart ==
  ASSUME NEW x \in Nat, NEW y \in Nat, OnScreen(x, y),
         NEW u \in Nat, NEW v \in Nat, OnScreen(u, v),
         CellOf(x, y) = CellOf(u, v)
  PROVE  x = u /\ y = v
<1>0. y * cols \in Nat /\ v * cols \in Nat
  BY ScreenAssumption
<1>1. ~(y < v)
  BY <1>0, LinesInOrder, ScreenAssumption DEF OnScreen, CellOf
<1>2. ~(v < y)
  BY <1>0, LinesInOrder, ScreenAssumption DEF OnScreen, CellOf
<1>3. y = v
  BY <1>1, <1>2
<1> QED
  BY <1>0, <1>3, ScreenAssumption DEF CellOf

LEMMA CellsCounted ==
  /\ IsFiniteSet(Cells)
  /\ Cardinality(Cells) = rows * cols
  /\ rows * cols \in Nat
  /\ Nowhere \notin Cells
<1>1. rows * cols \in Nat /\ rows * cols # 0
  BY ScreenAssumption
<1> QED
  BY <1>1, FS_Interval DEF Cells, Nowhere

-----------------------------------------------------------------------------
(* The queue *)

\* A queue with at most one item per cell has room in its array.
LEMMA QueueFits ==
  ASSUME NEW s, IsContext(s), Linked(s)
  PROVE  Len(s.queue) <= rows * cols
<1> DEFINE n == Len(s.queue)
           cell == [k \in 1 .. n |-> s.queue[k].at]
<1>1. n \in Nat /\ DOMAIN s.queue = 1 .. n
  BY DEF IsContext, BufferFields
<1>2. \A k \in 1 .. n : s.queue[k] \in Items
  BY <1>1, ElementOfSeq DEF IsContext, BufferFields
<1>3. cell \in [1 .. n -> Cells]
  BY <1>2 DEF Items
<1>4. \A k, l \in 1 .. n : cell[k] = cell[l] => k = l
  BY <1>1 DEF Linked
<1> HIDE DEF n, cell
<1>5. IsFiniteSet(1 .. n) /\ Cardinality(1 .. n) = n
  BY <1>1, FS_Interval
<1>6. ~(Cardinality(Cells) < Cardinality(1 .. n))
  <2>1. SUFFICES ASSUME Cardinality(Cells) < Cardinality(1 .. n) PROVE FALSE
    OBVIOUS
  <2>2. \E k, l \in 1 .. n : k # l /\ cell[k] = cell[l]
    BY <1>3, <1>5, <2>1, CellsCounted, FS_PigeonHole
  <2> QED
    BY <1>4, <2>2
<1>7. n <= rows * cols
  BY <1>1, <1>5, <1>6, CellsCounted
<1> QED
  BY <1>7 DEF n

LEMMA LinkedIsSound ==
  ASSUME IsContext(ctx), Linked(ctx)
  PROVE  QueueSound
<1>1. \A k \in DOMAIN ctx.queue : ctx.queue[k] \in Items
  BY ElementOfSeq DEF IsContext, BufferFields
<1> QED
  BY <1>1, QueueFits DEF QueueSound, Linked, Items

\* What push_to_queue does to a context, field by field.
LEMMA PushOverwrites ==
  ASSUME NEW s, IsContext(s), Linked(s), NEW c \in Chars,
         NEW x \in Nat, NEW y \in Nat, OnScreen(x, y),
         NEW i \in Cells, i = CellOf(x, y), s.map[i] # NULL
  PROVE  LET t == push_to_queue(s, c, x, y)
             k == s.map[i] IN
         /\ t = [s EXCEPT !.queue = [s.queue EXCEPT ![k] = [at |-> i, c |-> c]]]
         /\ IsContext(t)
<1> DEFINE t == push_to_queue(s, c, x, y)
           k == s.map[i]
<1>1. k \in DOMAIN s.queue /\ s.queue[k].at = i
  BY DEF Linked
<1>2. t = [s EXCEPT !.queue = [s.queue EXCEPT ![k] = [at |-> i, c |-> c]]]
  BY <1>1 DEF push_to_queue, IsContext, BufferFields
<1>3. [s.queue EXCEPT ![k] = [at |-> i, c |-> c]] \in Seq(Items)
  BY <1>1 DEF IsContext, BufferFields, Items
<1> QED
  BY <1>2, <1>3 DEF IsContext, BufferFields

LEMMA PushAppends ==
  ASSUME NEW s, IsContext(s), NEW c \in Chars,
         NEW x \in Nat, NEW y \in Nat, OnScreen(x, y),
         NEW i \in Cells, i = CellOf(x, y), s.map[i] = NULL, s.grid[i] # c
  PROVE  LET t == push_to_queue(s, c, x, y) IN
         /\ t = [s EXCEPT !.queue = Append(s.queue, [at |-> i, c |-> c]),
                          !.map = [s.map EXCEPT ![i] = Len(s.queue) + 1]]
         /\ IsContext(t)
<1>1. push_to_queue(s, c, x, y) =
        [s EXCEPT !.queue = Append(s.queue, [at |-> i, c |-> c]),
                  !.map = [s.map EXCEPT ![i] = Len(s.queue) + 1]]
  BY DEF push_to_queue, IsContext, BufferFields
<1>2. Append(s.queue, [at |-> i, c |-> c]) \in Seq(Items)
  BY DEF IsContext, BufferFields, Items
<1>3. [s.map EXCEPT ![i] = Len(s.queue) + 1] \in [Cells -> Nat]
  BY DEF IsContext, BufferFields
<1> QED
  BY <1>1, <1>2, <1>3 DEF IsContext, BufferFields

LEMMA PushSkips ==
  ASSUME NEW s, IsContext(s), NEW c \in Chars, NEW x \in Nat, NEW y \in Nat,
         ~OnScreen(x, y) \/ (s.map[CellOf(x, y)] = NULL /\ s.grid[CellOf(x, y)] = c)
  PROVE  push_to_queue(s, c, x, y) = s
BY DEF push_to_queue

\* Writing a cell keeps the queue and the map in step ...
LEMMA PushLinked ==
  ASSUME NEW s, IsContext(s), Linked(s), NEW c \in Chars,
         NEW x \in Nat, NEW y \in Nat
  PROVE  LET t == push_to_queue(s, c, x, y) IN
         /\ IsContext(t)
         /\ Linked(t)
         /\ t.grid = s.grid
         /\ t.old_cursor_x = s.old_cursor_x
         /\ t.old_cursor_y = s.old_cursor_y
<1> DEFINE t == push_to_queue(s, c, x, y)
           i == CellOf(x, y)
<1>1. CASE ~OnScreen(x, y) \/ (s.map[i] = NULL /\ s.grid[i] = c)
  <2>1. t = s
    BY <1>1, PushSkips
  <2> QED
    BY <2>1
<1>2. CASE OnScreen(x, y) /\ s.map[i] # NULL
  <2> DEFINE k == s.map[i]
  <2>1. i \in Cells
    BY <1>2, CellOnScreen
  <2>2. /\ t = [s EXCEPT !.queue = [s.queue EXCEPT ![k] = [at |-> i, c |-> c]]]
        /\ IsContext(t)
    BY <1>2, <2>1, PushOverwrites
  <2>3. k \in DOMAIN s.queue /\ s.queue[k].at = i
    BY <1>2, <2>1 DEF Linked
  <2>4. /\ DOMAIN t.queue = DOMAIN s.queue
        /\ \A l \in DOMAIN s.queue : t.queue[l].at = s.queue[l].at
        /\ t.map = s.map
    BY <2>2, <2>3 DEF IsContext, BufferFields
  <2> HIDE DEF t
  <2>5. Linked(t)
    BY <2>4 DEF Linked
  <2> QED
    BY <2>2, <2>4, <2>5 DEF IsContext, BufferFields, t
<1>3. CASE OnScreen(x, y) /\ s.map[i] = NULL /\ s.grid[i] # c
  <2> DEFINE n == Len(s.queue)
  <2>1. i \in Cells
    BY <1>3, CellOnScreen
  <2>2. /\ t = [s EXCEPT !.queue = Append(s.queue, [at |-> i, c |-> c]),
                         !.map = [s.map EXCEPT ![i] = n + 1]]
        /\ IsContext(t)
    BY <1>3, <2>1, PushAppends
  <2>3. /\ t.queue = Append(s.queue, [at |-> i, c |-> c])
        /\ t.map = [s.map EXCEPT ![i] = n + 1]
    BY <2>2 DEF IsContext, BufferFields
  <2>4. /\ n \in Nat /\ DOMAIN s.queue = 1 .. n /\ DOMAIN t.queue = 1 .. n + 1
        /\ \A k \in 1 .. n : t.queue[k] = s.queue[k] /\ s.queue[k].at \in Cells
        /\ t.queue[n + 1].at = i
    <3>1. s.queue \in Seq(Items)
      BY DEF IsContext, BufferFields
    <3>2. \A k \in 1 .. n : s.queue[k] \in Items
      BY <3>1, ElementOfSeq
    <3> HIDE DEF t
    <3>3. /\ n \in Nat /\ DOMAIN s.queue = 1 .. n /\ DOMAIN t.queue = 1 .. n + 1
          /\ \A k \in 1 .. n : t.queue[k] = s.queue[k]
          /\ t.queue[n + 1] = [at |-> i, c |-> c]
      BY <2>3, <3>1
    <3> QED
      BY <3>2, <3>3 DEF Items
  <2>5. \A j \in Cells : t.map[j] = IF j = i THEN n + 1 ELSE s.map[j]
    BY <2>1, <2>3 DEF IsContext, BufferFields
  <2>6. \A j \in Cells : t.map[j] # NULL =>
          t.map[j] \in DOMAIN t.queue /\ t.queue[t.map[j]].at = j
    <3>1. SUFFICES ASSUME NEW j \in Cells, t.map[j] # NULL
                   PROVE  t.map[j] \in 1 .. n + 1 /\ t.queue[t.map[j]].at = j
      BY <2>4
    <3> HIDE DEF t
    <3>2. CASE j = i
      BY <2>4, <2>5, <3>2
    <3>3. CASE j # i
      <4>1. t.map[j] = s.map[j] /\ s.map[j] \in 1 .. n /\ s.queue[s.map[j]].at = j
        BY <2>4, <2>5, <3>1, <3>3 DEF Linked
      <4> QED
        BY <2>4, <4>1
    <3> QED
      BY <3>2, <3>3
  <2>7. \A k \in DOMAIN t.queue : t.map[t.queue[k].at] = k
    <3>1. SUFFICES ASSUME NEW k \in 1 .. n + 1 PROVE t.map[t.queue[k].at] = k
      BY <2>4
    <3>2. CASE k = n + 1
      BY <2>1, <2>4, <2>5, <3>2
    <3>3. CASE k \in 1 .. n
      <4>1. s.map[s.queue[k].at] = k /\ k # NULL
        BY <2>4, <3>3 DEF Linked, NULL
      <4> QED
        BY <1>3, <2>4, <2>5, <3>3, <4>1
    <3> QED
      BY <2>4, <3>2, <3>3
  <2> QED
    BY <2>2, <2>3, <2>6, <2>7 DEF Linked, IsContext, BufferFields
<1> QED
  BY <1>1, <1>2, <1>3

\* ... and changes the text in that cell only.
LEMMA PushContents ==
  ASSUME NEW s, IsContext(s), Linked(s), NEW c \in Chars,
         NEW x \in Nat, NEW y \in Nat,
         NEW j \in Cells
  PROVE  CharAt(push_to_queue(s, c, x, y), j) =
           IF OnScreen(x, y) /\ j = CellOf(x, y) THEN c ELSE CharAt(s, j)
<1> DEFINE t == push_to_queue(s, c, x, y)
           i == CellOf(x, y)
<1>1. CASE ~OnScreen(x, y) \/ (s.map[i] = NULL /\ s.grid[i] = c)
  BY <1>1, PushSkips DEF CharAt
<1>2. CASE OnScreen(x, y) /\ s.map[i] # NULL
  <2> DEFINE k == s.map[i]
  <2>1. i \in Cells
    BY <1>2, CellOnScreen
  <2>2. t = [s EXCEPT !.queue = [s.queue EXCEPT ![k] = [at |-> i, c |-> c]]]
    BY <1>2, <2>1, PushOverwrites
  <2>3. /\ k \in DOMAIN s.queue /\ s.queue[k].at = i
        /\ s.map[j] # NULL => s.queue[s.map[j]].at = j /\ s.map[j] \in DOMAIN s.queue
    BY <1>2, <2>1 DEF Linked
  <2>4. /\ t.map = s.map /\ t.grid = s.grid
        /\ \A l \in DOMAIN s.queue : t.queue[l].c = IF l = k THEN c ELSE s.queue[l].c
    BY <2>2, <2>3 DEF IsContext, BufferFields
  <2> QED
    BY <1>2, <2>3, <2>4 DEF CharAt
<1>3. CASE OnScreen(x, y) /\ s.map[i] = NULL /\ s.grid[i] # c
  <2> DEFINE n == Len(s.queue)
  <2>1. i \in Cells
    BY <1>3, CellOnScreen
  <2>2. /\ t = [s EXCEPT !.queue = Append(s.queue, [at |-> i, c |-> c]),
                         !.map = [s.map EXCEPT ![i] = n + 1]]
        /\ IsContext(t)
    BY <1>3, <2>1, PushAppends
  <2>3. /\ t.queue = Append(s.queue, [at |-> i, c |-> c])
        /\ t.map[j] = IF j = i THEN n + 1 ELSE s.map[j]
        /\ t.grid = s.grid
    BY <2>1, <2>2 DEF IsContext, BufferFields
  <2>4. /\ n \in Nat /\ DOMAIN s.queue = 1 .. n
        /\ \A k \in 1 .. n : t.queue[k] = s.queue[k]
        /\ t.queue[n + 1].c = c
    BY <2>3, <2>1 DEF IsContext, BufferFields, Items
  <2>5. s.map[j] # NULL => s.map[j] \in 1 .. n
    BY <2>4 DEF Linked
  <2> QED
    BY <1>3, <2>3, <2>4, <2>5 DEF CharAt, NULL
<1> QED
  BY <1>1, <1>2, <1>3

-----------------------------------------------------------------------------
(* A flush *)

LEMMA CharAtTyped ==
  ASSUME NEW s, IsContext(s), Linked(s), NEW i \in Cells
  PROVE  CharAt(s, i) \in Chars
<1>1. s.queue \in Seq(Items) /\ s.grid[i] \in Chars
  BY DEF IsContext, BufferFields
<1>2. CASE s.map[i] = NULL
  BY <1>1, <1>2 DEF CharAt
<1>3. CASE s.map[i] # NULL
  <2>1. s.map[i] \in 1 .. Len(s.queue)
    BY <1>1, <1>3 DEF Linked
  <2>2. s.queue[s.map[i]] \in Items
    BY <1>1, <2>1, ElementOfSeq
  <2> QED
    BY <1>3, <2>2 DEF CharAt, Items
<1> QED
  BY <1>2, <1>3

\* The cursor takes its cell out of the map and leaves what every cell holds.
LEMMA CursorDrawn ==
  ASSUME NEW s, IsContext(s), Linked(s), NEW i \in Cells
  PROVE  LET t == draw_cursor(s) IN
         /\ IsContext(t)
         /\ t.queue = s.queue
         /\ << t.cursor_x, t.cursor_y >> = << s.cursor_x, s.cursor_y >>
         /\ t.map[i] = IF CursorOnScreen(s) /\ i = Cursor(s) THEN NULL
                       ELSE s.map[i]
         /\ t.grid[i] = IF CursorOnScreen(s) /\ i = Cursor(s) THEN CharAt(s, i)
                        ELSE s.grid[i]
<1>1. CASE ~CursorOnScreen(s)
  BY <1>1 DEF draw_cursor
<1>2. CASE CursorOnScreen(s)
  <2> DEFINE at == Cursor(s)
  <2>1. at \in Cells
    BY <1>2, CellOnScreen DEF IsContext, BufferFields, CursorOnScreen, Cursor
  <2>2. CharAt(s, at) \in Chars
    BY <2>1, CharAtTyped
  <2> DEFINE t == draw_cursor(s)
             grid == [s.grid EXCEPT ![at] = CharAt(s, at)]
             map == [s.map EXCEPT ![at] = NULL]
  <2>3. t = [s EXCEPT !.grid = grid, !.map = map]
    BY <1>2 DEF draw_cursor
  <2>4. grid \in [Cells -> Chars] /\ map \in [Cells -> Nat]
    BY <2>2 DEF IsContext, BufferFields, NULL
  <2>5. /\ grid[i] = IF i = at THEN CharAt(s, i) ELSE s.grid[i]
        /\ map[i] = IF i = at THEN NULL ELSE s.map[i]
    BY DEF IsContext, BufferFields
  <2> HIDE DEF at, t, grid, map
  <2>6. /\ IsContext(t) /\ t.grid = grid /\ t.map = map /\ t.queue = s.queue
        /\ t.cursor_x = s.cursor_x /\ t.cursor_y = s.cursor_y
    BY <2>3, <2>4 DEF IsContext, BufferFields
  <2> QED
    BY <1>2, <2>5, <2>6 DEF at, t
<1> QED
  BY <1>1, <1>2

\* The first item of a cell is the one that the map names.
LEMMA FirstIsMapped ==
  ASSUME NEW s, IsContext(s), Linked(s), NEW i \in Cells, s.map[i] # NULL
  PROVE  FirstItem(draw_cursor(s), i) = s.map[i]
<1>1. draw_cursor(s).queue = s.queue
  BY CursorDrawn
<1>2. /\ s.map[i] \in DOMAIN s.queue /\ s.queue[s.map[i]].at = i
      /\ \A k \in DOMAIN s.queue : s.queue[k].at = i => k = s.map[i]
  BY DEF Linked
<1>3. s.map[i] \in Nat /\ DOMAIN s.queue = 1 .. Len(s.queue) /\ Len(s.queue) \in Nat
  BY DEF IsContext, BufferFields
<1>4. \A k \in DOMAIN s.queue :
        s.queue[k].at = i /\ (\A j \in 1 .. k - 1 : s.queue[j].at # i)
          <=> k = s.map[i]
  BY <1>2, <1>3
<1> QED
  BY <1>1, <1>2, <1>4 DEF FirstItem

\* After a flush nothing waits, and the grid holds what the cells held.
LEMMA FlushedFields ==
  ASSUME NEW s, IsContext(s), Linked(s)
  PROVE  LET u == Flushed(s) IN
         /\ IsContext(u)
         /\ Linked(u)
         /\ u.grid = Contents(s)
         /\ Contents(u) = Contents(s)
         /\ u.old_cursor_x = s.cursor_x
         /\ u.old_cursor_y = s.cursor_y
<1> DEFINE t == draw_cursor(s)
           u == Flushed(s)
           grid == [i \in Cells |-> IF t.map[i] = NULL THEN t.grid[i]
                                    ELSE t.queue[FirstItem(t, i)].c]
<1>1. \A i \in Cells : grid[i] = CharAt(s, i)
  <2>1. SUFFICES ASSUME NEW i \in Cells PROVE grid[i] = CharAt(s, i)
    OBVIOUS
  <2>2. CASE CursorOnScreen(s) /\ i = Cursor(s)
    BY <2>2, CursorDrawn
  <2>3. CASE ~(CursorOnScreen(s) /\ i = Cursor(s))
    <3>1. t.map[i] = s.map[i] /\ t.grid[i] = s.grid[i] /\ t.queue = s.queue
      BY <2>3, CursorDrawn
    <3>2. s.map[i] # NULL => FirstItem(t, i) = s.map[i]
      BY FirstIsMapped
    <3> HIDE DEF t
    <3> QED
      BY <3>1, <3>2 DEF CharAt
  <2> QED
    BY <2>2, <2>3
<1>2. \A i \in Cells : CharAt(s, i) \in Chars
  BY CharAtTyped
<1>3. IsContext(t) /\ t.cursor_x = s.cursor_x /\ t.cursor_y = s.cursor_y
  <2>1. Cells # {}
    BY CellsCounted, CellOnScreen, ScreenAssumption DEF Cells
  <2> QED
    BY <2>1, CursorDrawn
<1>4. grid = Contents(s)
  BY <1>1 DEF Contents
<1>5. u = [t EXCEPT !.grid = grid, !.map = [i \in Cells |-> NULL],
                    !.queue = << >>, !.old_cursor_x = t.cursor_x,
                    !.old_cursor_y = t.cursor_y]
  BY DEF Flushed
<1>6. Contents(s) \in [Cells -> Chars]
  BY <1>2 DEF Contents
<1> HIDE DEF t, u, grid
<1>7. IsContext(u)
  <2>1. << >> \in Seq(Items)
    OBVIOUS
  <2>2. [i \in Cells |-> NULL] \in [Cells -> Nat]
    BY DEF NULL
  <2> QED
    BY <1>3, <1>4, <1>5, <1>6, <2>1, <2>2 DEF IsContext, BufferFields
<1>8. /\ u.grid = Contents(s) /\ u.map = [i \in Cells |-> NULL] /\ u.queue = << >>
      /\ u.old_cursor_x = s.cursor_x /\ u.old_cursor_y = s.cursor_y
  BY <1>3, <1>4, <1>5 DEF IsContext, BufferFields
<1>9. Linked(u)
  BY <1>8 DEF Linked
<1>10. Contents(u) = Contents(s)
  BY <1>8 DEF Contents, CharAt
<1> QED
  BY <1>7, <1>8, <1>9, <1>10 DEF u

\* A flush shows the whole text: the cell that the cursor has left is plotted
\* again, and nothing else was in inverse colours.
LEMMA FlushShows ==
  ASSUME NEW s, IsContext(s), Linked(s),
         NEW last \in {Nowhere, IF OnScreen(s.old_cursor_x, s.old_cursor_y)
                                  THEN CellOf(s.old_cursor_x, s.old_cursor_y)
                                  ELSE Nowhere}
  PROVE  Drawn(s, Shown(s.grid, last)) =
           Shown(Contents(s), IF CursorOnScreen(s) THEN Cursor(s) ELSE Nowhere)
<1> DEFINE t == draw_cursor(s)
           f == Shown(s.grid, last)
           old == CellOf(s.old_cursor_x, s.old_cursor_y)
           cursor == IF CursorOnScreen(s) THEN Cursor(s) ELSE Nowhere
           grid == Contents(s)
<1>1. SUFFICES ASSUME NEW i \in Cells
               PROVE  Drawn(s, f)[i] =
                        Plot(IF i = cursor THEN Inverted(grid[i]) ELSE grid[i])
  BY DEF Drawn, Shown
<1>2. Flushed(s).grid = grid
  BY FlushedFields
<1>3. Drawn(s, f)[i] =
        IF CursorLeft(s) /\ i = old THEN Plot(grid[i])
        ELSE IF t.map[i] # NULL THEN Plot(grid[i])
        ELSE IF CursorOnScreen(s) /\ i = Cursor(s) THEN Plot(Inverted(grid[i]))
        ELSE f[i]
  BY <1>2 DEF Drawn
<1>4. f[i] = Plot(IF i = last THEN Inverted(s.grid[i]) ELSE s.grid[i])
  BY DEF Shown
<1>5. /\ t.map[i] = IF CursorOnScreen(s) /\ i = Cursor(s) THEN NULL ELSE s.map[i]
      /\ grid[i] = CharAt(s, i)
      /\ i # Nowhere
  BY CursorDrawn, CellsCounted DEF Contents
<1>6. /\ s.cursor_x \in Nat /\ s.cursor_y \in Nat
      /\ s.old_cursor_x \in Nat /\ s.old_cursor_y \in Nat
      /\ s.cursor_enabled \in BOOLEAN
  BY DEF IsContext, BufferFields
\* The cell that the cursor has left is not the one it is in.
<1>7. CursorLeft(s) /\ i = old => i # cursor
  <2>1. SUFFICES ASSUME CursorLeft(s), i = old, CursorOnScreen(s), i = Cursor(s)
                 PROVE  FALSE
    BY <1>5
  <2>2. s.old_cursor_x = s.cursor_x /\ s.old_cursor_y = s.cursor_y
    <3>1. OnScreen(s.old_cursor_x, s.old_cursor_y) /\ OnScreen(s.cursor_x, s.cursor_y)
      BY <2>1 DEF CursorLeft, CursorOnScreen
    <3>2. CellOf(s.old_cursor_x, s.old_cursor_y) = CellOf(s.cursor_x, s.cursor_y)
      BY <2>1 DEF Cursor
    <3> QED
      BY <1>6, <3>1, <3>2, CellsApart, Zenon
  <2> QED
    BY <2>1, <2>2 DEF CursorLeft, CursorOnScreen
\* A cell in inverse colours is the cursor's still, or plotted again.
<1>8. i = last => (CursorLeft(s) /\ i = old) \/ i = cursor
  <2>1. SUFFICES ASSUME i = last PROVE (CursorLeft(s) /\ i = old) \/ i = cursor
    OBVIOUS
  <2>2. OnScreen(s.old_cursor_x, s.old_cursor_y) /\ i = old
    BY <1>5, <2>1
  <2> QED
    BY <1>6, <2>2 DEF CursorLeft, CursorOnScreen, Cursor
<1> HIDE DEF t, f, old, cursor, grid
<1>9. CASE CursorLeft(s) /\ i = old
  BY <1>3, <1>7, <1>9
<1>10. CASE ~(CursorLeft(s) /\ i = old) /\ t.map[i] # NULL
  <2>1. i # cursor
    BY <1>5, <1>10 DEF cursor
  <2> QED
    BY <1>3, <1>10, <2>1
<1>11. CASE ~(CursorLeft(s) /\ i = old) /\ t.map[i] = NULL /\ i = cursor
  BY <1>3, <1>5, <1>11 DEF cursor
<1>12. CASE ~(CursorLeft(s) /\ i = old) /\ t.map[i] = NULL /\ i # cursor
  <2>1. ~(CursorOnScreen(s) /\ i = Cursor(s)) /\ i # last
    BY <1>8, <1>12 DEF cursor
  <2>2. grid[i] = s.grid[i]
    BY <1>5, <1>12, <2>1 DEF CharAt
  <2> QED
    BY <1>3, <1>4, <1>12, <2>1, <2>2
<1> QED
  BY <1>9, <1>10, <1>11, <1>12

-----------------------------------------------------------------------------
(* The specification *)

\* At the start everything is blank and the cursor is in the first cell.
LEMMA InitFields ==
  ASSUME InitBuffer
  PROVE  /\ IsContext(ctx)
         /\ Linked(ctx)
         /\ Contents(ctx) = ctx.grid
         /\ framebuffer = Shown(ctx.grid, 0)
         /\ LastCursor = 0
<1>1. PICK blank \in Chars :
        ctx = [grid |-> [i \in Cells |-> blank],
               queue |-> << >>,
               map |-> [i \in Cells |-> NULL],
               cursor_x |-> 0, cursor_y |-> 0,
               old_cursor_x |-> 0, old_cursor_y |-> 0,
               cursor_enabled |-> TRUE]
  BY DEF InitBuffer
<1>2. << >> \in Seq(Items)
  OBVIOUS
<1>3. IsContext(ctx)
  BY <1>1, <1>2 DEF IsContext, BufferFields, NULL
<1>4. Linked(ctx)
  BY <1>1 DEF Linked
<1>5. Contents(ctx) = ctx.grid
  BY <1>1 DEF Contents, CharAt
<1>6. LastCursor = 0
  BY <1>1, ScreenAssumption DEF LastCursor, OnScreen, CellOf
<1> QED
  BY <1>3, <1>4, <1>5, <1>6 DEF InitBuffer

LEMMA InitInv == InitBuffer => BufferInv
BY InitFields DEF BufferInv, FramebufferShowsGrid

LEMMA WriteStep ==
  ASSUME BufferInv, Write
  PROVE  /\ BufferInv'
         /\ \/ \E i \in Cells :
                 Contents(ctx') = [Contents(ctx) EXCEPT ![i] = CharAt(ctx', i)]
            \/ Contents(ctx') = Contents(ctx)
<1>1. PICK c \in Chars, x, y \in Nat : ctx' = push_to_queue(ctx, c, x, y)
  BY DEF Write
<1>2. /\ IsContext(ctx') /\ Linked(ctx')
      /\ ctx'.grid = ctx.grid
      /\ ctx'.old_cursor_x = ctx.old_cursor_x
      /\ ctx'.old_cursor_y = ctx.old_cursor_y
  BY <1>1, PushLinked DEF BufferInv
<1>3. FramebufferShowsGrid'
  BY <1>2 DEF BufferInv, FramebufferShowsGrid, LastCursor, Write
<1>4. \A j \in Cells :
        CharAt(ctx', j) = IF OnScreen(x, y) /\ j = CellOf(x, y) THEN c
                          ELSE CharAt(ctx, j)
  BY <1>1, PushContents DEF BufferInv
<1>5. CASE OnScreen(x, y)
  <2>1. CellOf(x, y) \in Cells
    BY <1>5, CellOnScreen
  <2>2. Contents(ctx') = [Contents(ctx) EXCEPT ![CellOf(x, y)] = CharAt(ctx', CellOf(x, y))]
    BY <1>4, <1>5, <2>1 DEF Contents
  <2> QED
    BY <1>2, <1>3, <2>1, <2>2 DEF BufferInv
<1>6. CASE ~OnScreen(x, y)
  BY <1>2, <1>3, <1>4, <1>6 DEF BufferInv, Contents
<1> QED
  BY <1>5, <1>6

LEMMA MoveStep ==
  ASSUME BufferInv, MoveCursor
  PROVE  BufferInv' /\ Contents(ctx') = Contents(ctx)
<1>1. PICK x, y \in Nat, on \in BOOLEAN :
        ctx' = [ctx EXCEPT !.cursor_x = x, !.cursor_y = y, !.cursor_enabled = on]
  BY DEF MoveCursor
<1>2. /\ IsContext(ctx')
      /\ ctx'.grid = ctx.grid /\ ctx'.queue = ctx.queue /\ ctx'.map = ctx.map
      /\ ctx'.old_cursor_x = ctx.old_cursor_x
      /\ ctx'.old_cursor_y = ctx.old_cursor_y
  BY <1>1 DEF BufferInv, IsContext, BufferFields
<1>3. Linked(ctx')
  BY <1>2 DEF BufferInv, Linked
<1>4. FramebufferShowsGrid'
  BY <1>2 DEF BufferInv, FramebufferShowsGrid, LastCursor, MoveCursor
<1> QED
  BY <1>2, <1>3, <1>4 DEF BufferInv, Contents, CharAt

LEMMA FlushStep ==
  ASSUME BufferInv, double_buffer_flush
  PROVE  /\ BufferInv'
         /\ Contents(ctx') = Contents(ctx)
         /\ \E cursor \in Cells \cup {Nowhere} :
              framebuffer' = Shown(Contents(ctx), cursor)
<1> DEFINE cursor == IF CursorOnScreen(ctx) THEN Cursor(ctx) ELSE Nowhere
<1>1. /\ IsContext(ctx') /\ Linked(ctx')
      /\ ctx'.grid = Contents(ctx) /\ Contents(ctx') = Contents(ctx)
      /\ ctx'.old_cursor_x = ctx.cursor_x /\ ctx'.old_cursor_y = ctx.cursor_y
  BY FlushedFields DEF BufferInv, double_buffer_flush
<1>2. PICK last \in {LastCursor, Nowhere} : framebuffer = Shown(ctx.grid, last)
  BY DEF BufferInv, FramebufferShowsGrid
<1>3. framebuffer' = Shown(Contents(ctx), cursor)
  BY <1>2, FlushShows DEF BufferInv, double_buffer_flush, LastCursor
<1>4. cursor \in Cells \cup {Nowhere}
  BY CellOnScreen DEF BufferInv, IsContext, BufferFields, CursorOnScreen, Cursor
<1>5. cursor \in {LastCursor', Nowhere}
  BY <1>1 DEF LastCursor, CursorOnScreen, Cursor
<1> HIDE DEF cursor
<1>6. FramebufferShowsGrid'
  BY <1>1, <1>3, <1>5 DEF FramebufferShowsGrid
<1> QED
  BY <1>1, <1>3, <1>4, <1>6 DEF BufferInv

LEMMA StepInv == BufferInv /\ [Step]_<<ctx, framebuffer>> => BufferInv'
<1>1. CASE UNCHANGED <<ctx, framebuffer>>
  BY <1>1 DEF BufferInv, Linked, FramebufferShowsGrid, LastCursor
<1> QED
  BY <1>1, WriteStep, MoveStep, FlushStep DEF Step

LEMMA BufferAlwaysInv == BufferSpec => []BufferInv
BY InitInv, StepInv, PTL DEF BufferSpec

\* For a screen of every size the queue never outgrows its array and the map
\* finds its items (push_to_queue, double_buffer_flush).
THEOREM QueueAlwaysSound == BufferSpec => []QueueSound
<1>1. BufferInv => QueueSound
  BY LinkedIsSound DEF BufferInv
<1> QED
  BY <1>1, BufferAlwaysInv, PTL

\* For a screen of every size the framebuffer shows what has been plotted and
\* one cursor at most, where the last flush found it (double_buffer_flush).
THEOREM FramebufferAlwaysShowsGrid == BufferSpec => []FramebufferShowsGrid
<1>1. BufferInv => FramebufferShowsGrid
  BY DEF BufferInv
<1> QED
  BY <1>1, BufferAlwaysInv, PTL

\* The screen that is implemented has the same cells and glyphs.
LEMMA SameGlyphs ==
  /\ Text!Cells = Cells
  /\ Text!Nowhere = Nowhere
  /\ \A text, cursor : Text!Shown(text, cursor) = Shown(text, cursor)
BY DEF Text!Cells, Cells, Text!Nowhere, Nowhere, Text!Shown, Shown,
       Text!Plot, Plot, Text!Inverted, Inverted, Text!Solid, Solid,
       Text!Transparent, Transparent

\* Contents is a function of the context alone.
LEMMA ContentsNext == Contents(ctx)' = Contents(ctx')
BY DEF Contents, CharAt

LEMMA StepOfScreen ==
  BufferInv /\ [Step]_<<ctx, framebuffer>>
    => [Text!Next]_<<Contents(ctx), framebuffer>>
<1>1. SUFFICES ASSUME BufferInv, [Step]_<<ctx, framebuffer>>
               PROVE  [Text!Next]_<<Contents(ctx), framebuffer>>
  OBVIOUS
<1>2. CASE UNCHANGED <<ctx, framebuffer>>
  BY <1>2 DEF Contents, CharAt
<1>3. CASE Write
  <2>1. CASE Contents(ctx') = Contents(ctx)
    BY <1>3, <2>1, ContentsNext DEF Write
  <2>2. CASE \E i \in Cells :
               Contents(ctx') = [Contents(ctx) EXCEPT ![i] = CharAt(ctx', i)]
    <3>1. PICK i \in Cells :
            Contents(ctx') = [Contents(ctx) EXCEPT ![i] = CharAt(ctx', i)]
      BY <2>2
    <3>2. Contents(ctx')[i] = CharAt(ctx', i)
      BY DEF Contents
    <3>3. Text!Put
      BY <3>1, <3>2, SameGlyphs, ContentsNext DEF Text!Put
    <3> QED
      BY <1>3, <3>3 DEF Text!Next, Text!Edit, Write
  <2> QED
    BY <1>1, <1>3, <2>1, <2>2, WriteStep
<1>4. CASE MoveCursor
  BY <1>1, <1>4, MoveStep, ContentsNext DEF MoveCursor
<1>5. CASE double_buffer_flush
  <2>1. Text!Show
    BY <1>1, <1>5, FlushStep, SameGlyphs DEF Text!Show
  <2> QED
    BY <1>1, <1>5, <2>1, FlushStep, ContentsNext DEF Text!Next
<1> QED
  BY <1>1, <1>2, <1>3, <1>4, <1>5 DEF Step

\* The double buffer is a screen: the queue, the map and the grid cannot be
\* told from one text that is written at once and shown by a flush.
THEOREM BufferActsAsScreen == BufferSpec => ActsAsScreen
<1>1. InitBuffer => Text!Init
  BY InitFields, SameGlyphs DEF Text!Init
<1> QED
  BY <1>1, StepOfScreen, BufferAlwaysInv, PTL
     DEF BufferSpec, ActsAsScreen, Text!Spec

-----------------------------------------------------------------------------
(* Loops *)

\* A number that has a property from which no smaller one is free ...
LEMMA LeastNumber ==
  ASSUME NEW T, T \subseteq Nat, T # {}
  PROVE  \E n \in T : \A m \in T : n <= m
<1> DEFINE R == {p \in Nat \X Nat : p[1] < p[2]}
<1>1. IsWellFoundedOn(R, Nat)
  BY NatLessThanWellFounded DEF OpToRel
<1>2. PICK n \in T : \A m \in T : << m, n >> \notin R
  <2> HIDE DEF R
  <2> QED
    BY <1>1, WFMin
<1>3. \A m \in T : ~(m < n)
  BY <1>2
<1> QED
  BY <1>3

\* A loop that starts in a set and does not leave it in any round ends there.
LEMMA LoopStays ==
  ASSUME NEW S, NEW N \in Nat, NEW f, f[0] \in S,
         \A n \in 1 .. N : f[n - 1] \in S => f[n] \in S
  PROVE  \A n \in 0 .. N : f[n] \in S
<1> DEFINE T == {n \in 0 .. N : f[n] \notin S}
<1>1. SUFFICES ASSUME T # {} PROVE FALSE
  OBVIOUS
<1>2. PICK n \in T : \A m \in T : n <= m
  <2>1. T \subseteq Nat
    OBVIOUS
  <2> HIDE DEF T
  <2> QED
    BY <1>1, <2>1, LeastNumber
<1>3. n \in 1 .. N
  BY <1>2
<1>4. n - 1 \in 0 .. N /\ n - 1 < n
  BY <1>3
<1>5. f[n - 1] \in S
  BY <1>2, <1>4
<1> QED
  BY <1>2, <1>3, <1>5

\* The states of a loop whose body F is a function on a set.
States(F, s, N, S) ==
  {g \in [0 .. N -> S] :
     g[0] = s /\ \A n \in 1 .. N : g[n] = F[<< g[n - 1], n >>]}

LEMMA LoopExists ==
  ASSUME NEW S, NEW N \in Nat, NEW s \in S, NEW F \in [S \X (1 .. N) -> S]
  PROVE  States(F, s, N, S) # {}
<1> DEFINE Upto(k, g) == g[0] = s /\ \A n \in 1 .. k : g[n] = F[<< g[n - 1], n >>]
           T == {k \in 0 .. N : ~\E g \in [0 .. k -> S] : Upto(k, g)}
<1>1. SUFFICES T = {}
  <2>1. N \in 0 .. N
    OBVIOUS
  <2> QED
    BY <2>1 DEF States
<1>2. SUFFICES ASSUME T # {} PROVE FALSE
  OBVIOUS
<1>3. PICK k \in T : \A m \in T : k <= m
  <2>1. T \subseteq Nat
    OBVIOUS
  <2> HIDE DEF T
  <2> QED
    BY <1>2, <2>1, LeastNumber
<1>4. k # 0
  <2> DEFINE g == [n \in 0 .. 0 |-> s]
  <2>1. g \in [0 .. 0 -> S] /\ Upto(0, g)
    OBVIOUS
  <2> QED
    BY <1>3, <2>1
<1>5. k - 1 \in 0 .. N /\ k \in 1 .. N /\ k - 1 \notin T
  BY <1>3, <1>4
<1>6. PICK g \in [0 .. k - 1 -> S] : Upto(k - 1, g)
  <2> HIDE DEF Upto
  <2> QED
    BY <1>5
<1> DEFINE h == [n \in 0 .. k |-> IF n = k THEN F[<< g[k - 1], k >>] ELSE g[n]]
<1>7. g[k - 1] \in S
  BY <1>5, <1>6
<1>8. F[<< g[k - 1], k >>] \in S
  BY <1>5, <1>7
<1>9. h \in [0 .. k -> S]
  BY <1>5, <1>6, <1>8
<1>10. Upto(k, h)
  <2>1. h[0] = s
    BY <1>5, <1>6
  <2>2. ASSUME NEW n \in 1 .. k PROVE h[n] = F[<< h[n - 1], n >>]
    <3>1. h[n - 1] = g[n - 1]
      BY <1>5
    <3>2. CASE n = k
      BY <3>1, <3>2, <1>5
    <3>3. CASE n # k
      <4>1. n \in 1 .. k - 1
        BY <3>3, <1>5
      <4>2. h[n] = g[n]
        BY <3>3, <1>5
      <4> QED
        BY <3>1, <4>1, <4>2, <1>6
    <3> QED
      BY <3>2, <3>3
  <2> QED
    BY <2>1, <2>2
<1> QED
  BY <1>3, <1>9, <1>10

-----------------------------------------------------------------------------
(* The terminal *)

\* The fields of the terminal's context that no other field is needed for.
TerminalFields ==
  BufferFields \cup
  {"text_fg", "text_bg", "saved_text", "saved_state", "saved_cursor", "bold",
   "bg_bold", "reverse_video", "current_primary", "current_bg", "top", "bottom",
   "scroll_enabled", "insert_mode", "control_sequence", "escape", "osc",
   "osc_escape", "rrr", "discard_next", "dec_private", "unicode_remaining",
   "code_point", "g_select", "charsets", "current_charset", "escape_offset",
   "esc_values", "esc_values_i"}

IsTerminal(s) == IsContext(s) /\ TerminalFields \subseteq DOMAIN s /\ Linked(s)

\* What the attributes and the colours are.
Colours == -1 .. 7
Painted(s) ==
  /\ s.text_fg \in Int /\ s.text_bg \in Int
  /\ s.current_primary \in Colours /\ s.current_bg \in Colours
  /\ s.saved_text[1] \in Int /\ s.saved_text[2] \in Int
  /\ s.saved_state[5] \in Colours /\ s.saved_state[6] \in Colours
  /\ s.bold \in BOOLEAN /\ s.bg_bold \in BOOLEAN /\ s.reverse_video \in BOOLEAN
  /\ s.saved_state[1] \in BOOLEAN /\ s.saved_state[2] \in BOOLEAN
  /\ s.saved_state[3] \in BOOLEAN

\* The region has two lines or is the screen.
Region(s) ==
  /\ s.top \in Nat /\ s.bottom \in Nat /\ s.bottom <= rows
  /\ s.top + 1 < s.bottom \/ (s.top = 0 /\ s.bottom = rows)

Saved(s) ==
  /\ s.saved_text[3] \in 0 .. cols /\ s.saved_text[4] \in Nat
  /\ s.saved_cursor[1] \in Int /\ s.saved_cursor[2] \in Int

OnOrBelow(s) ==
  /\ s.cursor_x \in 0 .. cols
  /\ s.cursor_y < rows \/ s.bottom < rows \/ s.saved_text[4] >= rows

\* At most one construct is being parsed, and its parameters are in their array.
Parsing(s) ==
  /\ s.esc_values \in [1 .. FLANTERM_MAX_ESC_VALUES -> Nat]
  /\ s.esc_values_i \in Nat
  /\ s.esc_values_i <= FLANTERM_MAX_ESC_VALUES
  /\ s.rrr => s.esc_values_i < FLANTERM_MAX_ESC_VALUES
  /\ s.unicode_remaining \in 0 .. 3
  /\ s.g_select \in 0 .. 2
  /\ s.control_sequence => s.escape /\ ~s.osc
  /\ s.osc => s.escape
  /\ s.escape => s.g_select = 0 /\ ~s.discard_next

Steady(s) == Painted(s) /\ Region(s) /\ Saved(s)
Drawable(s) == Steady(s) /\ OnOrBelow(s)
Sound(s) == Drawable(s) /\ Parsing(s) /\ s.scroll_enabled = TRUE

Still(s, t) == /\ t.grid = s.grid
               /\ t.old_cursor_x = s.old_cursor_x /\ t.old_cursor_y = s.old_cursor_y

\* A step of the context that keeps what has been plotted, and is sound.
Follows(s, t) == IsTerminal(t) /\ Still(s, t) /\ Sound(t)

-----------------------------------------------------------------------------
(* What writes cells, and what moves the cursor, does nothing else *)

Edit(s, q, m, x, y) ==
  [s EXCEPT !.queue = q, !.map = m, !.cursor_x = x, !.cursor_y = y]
Edited(s) ==
  {t \in {Edit(s, q, m, x, y) :
            q \in Seq(Items), m \in [Cells -> Nat], x \in Nat, y \in Nat} :
     Linked(t)}
Rewritten(s) ==
  {t \in Edited(s) : t.cursor_x = s.cursor_x /\ t.cursor_y = s.cursor_y}

\* Members of these sets and the context they come from.
LEMMA EditedBy ==
  ASSUME NEW s, NEW t
  PROVE  t \in Edited(s) <=>
           /\ Linked(t)
           /\ \E q \in Seq(Items), m \in [Cells -> Nat], x \in Nat, y \in Nat :
                t = Edit(s, q, m, x, y)
BY DEF Edited

LEMMA EditedFields ==
  ASSUME NEW s, IsTerminal(s), NEW t \in Edited(s)
  PROVE  /\ IsTerminal(t)
         /\ Still(s, t)
         /\ t.text_fg = s.text_fg /\ t.text_bg = s.text_bg
         /\ t.saved_text = s.saved_text /\ t.saved_state = s.saved_state
         /\ t.saved_cursor = s.saved_cursor
         /\ t.current_primary = s.current_primary /\ t.current_bg = s.current_bg
         /\ t.bold = s.bold /\ t.bg_bold = s.bg_bold
         /\ t.reverse_video = s.reverse_video
         /\ t.top = s.top /\ t.bottom = s.bottom
         /\ t.scroll_enabled = s.scroll_enabled
         /\ t.esc_values = s.esc_values /\ t.esc_values_i = s.esc_values_i
         /\ t.rrr = s.rrr /\ t.unicode_remaining = s.unicode_remaining
         /\ t.g_select = s.g_select /\ t.escape = s.escape /\ t.osc = s.osc
         /\ t.control_sequence = s.control_sequence
         /\ t.discard_next = s.discard_next
<1>1. Linked(t) /\ \E q \in Seq(Items), m \in [Cells -> Nat], x \in Nat, y \in Nat :
                      t = Edit(s, q, m, x, y)
  BY EditedBy
<1>2. PICK q \in Seq(Items), m \in [Cells -> Nat], x \in Nat, y \in Nat :
        t = Edit(s, q, m, x, y)
  BY <1>1
<1>3. IsTerminal(t) /\ Still(s, t)
  BY ZenonT(60), <1>1, <1>2 DEF Edit, IsTerminal, IsContext, BufferFields, TerminalFields, Still
<1> QED
  BY <1>2, <1>3 DEF Edit, IsTerminal, IsContext, BufferFields, TerminalFields

\* A terminal that differs from s in the cells and the cursor only.
LEMMA EditedIf ==
  ASSUME NEW s, IsTerminal(s), NEW t, IsTerminal(t), NEW q, NEW m, NEW x, NEW y,
         t = Edit(s, q, m, x, y)
  PROVE  t \in Edited(s)
<1>1. t.queue = q /\ t.map = m /\ t.cursor_x = x /\ t.cursor_y = y
  BY DEF Edit, IsTerminal, IsContext, BufferFields
<1>2. /\ q \in Seq(Items) /\ m \in [Cells -> Nat] /\ x \in Nat /\ y \in Nat
      /\ Linked(t)
  BY <1>1 DEF IsTerminal, IsContext
<1> QED
  BY <1>2, EditedBy

LEMMA EditedTwice ==
  ASSUME NEW s, IsTerminal(s), NEW t \in Edited(s), NEW u \in Edited(t)
  PROVE  u \in Edited(s)
<1>1. PICK q, m, x, y : t = Edit(s, q, m, x, y)
  BY EditedBy
<1>2. PICK p, l, v, w : u = Edit(t, p, l, v, w)
  BY EditedBy
<1>3. u = Edit(s, p, l, v, w)
  BY <1>1, <1>2 DEF Edit, IsTerminal, IsContext, BufferFields
<1>4. IsTerminal(u)
  BY EditedFields
<1> QED
  BY <1>3, <1>4, EditedIf

LEMMA RewrittenTwice ==
  ASSUME NEW s, IsTerminal(s), NEW t \in Rewritten(s), NEW u \in Rewritten(t)
  PROVE  u \in Rewritten(s)
BY EditedTwice DEF Rewritten

LEMMA NothingRewritten ==
  ASSUME NEW s, IsTerminal(s)
  PROVE  s \in Rewritten(s) /\ s \in Edited(s)
<1>1. s = Edit(s, s.queue, s.map, s.cursor_x, s.cursor_y)
  BY DEF Edit, IsTerminal, IsContext, BufferFields
<1>2. s \in Edited(s)
  BY <1>1, EditedIf
<1> QED
  BY <1>2 DEF Rewritten

\* A cell that is written.
LEMMA PushRewrites ==
  ASSUME NEW s, IsTerminal(s), NEW c \in Chars, NEW x \in Nat, NEW y \in Nat
  PROVE  push_to_queue(s, c, x, y) \in Rewritten(s)
<1> DEFINE t == push_to_queue(s, c, x, y)
           i == CellOf(x, y)
<1>1. IsContext(t) /\ Linked(t)
  BY PushLinked DEF IsTerminal
<1>2. \E q, m : t = [s EXCEPT !.queue = q, !.map = m]
  <2>1. CASE ~OnScreen(x, y) \/ (s.map[i] = NULL /\ s.grid[i] = c)
    <3>1. t = s
      BY <2>1, PushSkips DEF IsTerminal
    <3>2. t = [s EXCEPT !.queue = s.queue, !.map = s.map]
      BY <3>1 DEF IsTerminal, IsContext, BufferFields
    <3> QED
      BY <3>2
  <2>2. CASE OnScreen(x, y) /\ s.map[i] # NULL
    <3>1. i \in Cells
      BY <2>2, CellOnScreen
    <3>2. t = [s EXCEPT !.queue = [s.queue EXCEPT ![s.map[i]] = [at |-> i, c |-> c]]]
      BY <2>2, <3>1, PushOverwrites DEF IsTerminal
    <3>3. t = [s EXCEPT !.queue = [s.queue EXCEPT ![s.map[i]] = [at |-> i, c |-> c]],
                        !.map = s.map]
      BY <3>2 DEF IsTerminal, IsContext, BufferFields
    <3> HIDE DEF t
    <3> QED
      BY <3>3
  <2>3. CASE OnScreen(x, y) /\ s.map[i] = NULL /\ s.grid[i] # c
    <3>1. i \in Cells
      BY <2>3, CellOnScreen
    <3>2. IsContext(s)
      BY DEF IsTerminal
    <3>3. /\ t = [s EXCEPT !.queue = Append(s.queue, [at |-> i, c |-> c]),
                           !.map = [s.map EXCEPT ![i] = Len(s.queue) + 1]]
          /\ IsContext(t)
      BY <2>3, <3>1, <3>2, PushAppends
    <3> HIDE DEF t
    <3> QED
      BY <3>3
  <2> QED
    BY <2>1, <2>2, <2>3
<1>3. PICK q, m : t = [s EXCEPT !.queue = q, !.map = m]
  BY <1>2
<1> HIDE DEF t
<1>4. t = Edit(s, q, m, s.cursor_x, s.cursor_y)
  BY <1>3 DEF Edit, IsTerminal, IsContext, BufferFields
<1>5. IsTerminal(t)
  BY <1>1, <1>3 DEF IsTerminal, IsContext, BufferFields, TerminalFields
<1>6. t.cursor_x = s.cursor_x /\ t.cursor_y = s.cursor_y
  BY <1>3 DEF IsTerminal, IsContext, BufferFields
<1>7. t \in Rewritten(s)
  BY <1>4, <1>5, <1>6, EditedIf DEF Rewritten
<1> QED
  BY <1>7 DEF t

-----------------------------------------------------------------------------
(* What the backend's operations do *)

\* A cell has one line and one column.
LEMMA PlaceOfCell ==
  ASSUME NEW i \in Nat
  PROVE  /\ i % cols \in 0 .. cols - 1 /\ i % cols \in Nat
         /\ i \div cols \in Nat
         /\ i = (i \div cols) * cols + (i % cols)
<1>1. \A c \in Int : c > 0 => i = c * (i \div c) + (i % c)
  OBVIOUS
<1>2. i % cols \in 0 .. cols - 1
  BY ScreenAssumption
<1>3. i \div cols \in Nat
  BY ScreenAssumption
<1>4. i = cols * (i \div cols) + (i % cols)
  BY <1>1, ScreenAssumption
<1>5. \A a \in Int, b \in Int : a * b = b * a
  OBVIOUS
<1>6. cols * (i \div cols) = (i \div cols) * cols
  BY <1>3, <1>5, ScreenAssumption
<1>7. i % cols \in Nat
  BY <1>2, ScreenAssumption
<1> QED
  BY <1>2, <1>3, <1>4, <1>6, <1>7

LEMMA UpwardsAre ==
  ASSUME NEW a \in Int, NEW b \in Int
  PROVE  /\ Len(Upwards(a, b)) = IF b < a THEN 0 ELSE b - a + 1
         /\ Len(Upwards(a, b)) \in Nat
         /\ \A n \in 1 .. Len(Upwards(a, b)) :
              Upwards(a, b)[n] = a + n - 1 /\ Upwards(a, b)[n] \in a .. b
<1>1. CASE b < a
  BY <1>1 DEF Upwards
<1>2. CASE ~(b < a)
  <2> DEFINE p == [k \in 1 .. b - a + 1 |-> a + k - 1]
  <2>1. Upwards(a, b) = p
    BY <1>2 DEF Upwards
  <2>2. p \in Seq(Int) /\ Len(p) = b - a + 1
    BY <1>2
  <2> QED
    BY <1>2, <2>1, <2>2
<1> QED
  BY <1>1, <1>2

LEMMA DownwardsAre ==
  ASSUME NEW a \in Int, NEW b \in Int
  PROVE  /\ Len(Downwards(a, b)) = IF a < b THEN 0 ELSE a - b + 1
         /\ Len(Downwards(a, b)) \in Nat
         /\ \A n \in 1 .. Len(Downwards(a, b)) :
              Downwards(a, b)[n] = a - n + 1 /\ Downwards(a, b)[n] \in b .. a
<1>1. CASE a < b
  BY <1>1 DEF Downwards
<1>2. CASE ~(a < b)
  <2> DEFINE p == [k \in 1 .. a - b + 1 |-> a - k + 1]
  <2>1. Downwards(a, b) = p
    BY <1>2 DEF Downwards
  <2>2. p \in Seq(Int) /\ Len(p) = a - b + 1
    BY <1>2
  <2> QED
    BY <1>2, <2>1, <2>2
<1> QED
  BY <1>1, <1>2

LEMMA CharTyped ==
  ASSUME NEW s, Painted(s), NEW c \in 0 .. 255
  PROVE  Char(s, c) \in Chars
BY DEF Painted, Char, Chars

\* The loops that write cells write cells only.
LEMMA BlankRewrites ==
  ASSUME NEW s, IsTerminal(s), Painted(s), NEW p, Len(p) \in Nat,
         \A n \in 1 .. Len(p) : p[n] \in Nat
  PROVE  Blank(s, p) \in Rewritten(s)
<1> DEFINE S == Rewritten(s)
           N == Len(p)
           op(t, n) == push_to_queue(t, Char(s, Space), p[n] % cols, p[n] \div cols)
           F == [a \in S \X (1 .. N) |-> op(a[1], a[2])]
           Is(g) == g = [n \in 0 .. N |-> IF n = 0 THEN s ELSE op(g[n - 1], n)]
           f == CHOOSE g : Is(g)
<1>1. \A t \in S, n \in 1 .. N : op(t, n) \in S
  <2>1. SUFFICES ASSUME NEW t \in S, NEW n \in 1 .. N PROVE op(t, n) \in S
    OBVIOUS
  <2>2. IsTerminal(t)
    BY EditedFields DEF Rewritten
  <2>3. p[n] % cols \in Nat /\ p[n] \div cols \in Nat
    <3>1. p[n] \in Nat
      OBVIOUS
    <3> QED
      BY <3>1, PlaceOfCell
  <2>4. Char(s, Space) \in Chars
    BY CharTyped DEF Space
  <2>5. op(t, n) \in Rewritten(t)
    BY <2>2, <2>3, <2>4, PushRewrites
  <2> QED
    BY <2>5, RewrittenTwice
<1>2. N \in Nat
  OBVIOUS
<1>3. s \in S
  BY NothingRewritten
<1>4. Blank(s, p) = f[N]
  BY DEF Blank, Loop
<1> HIDE DEF S, N, op
<1>5. F \in [S \X (1 .. N) -> S] /\ \A t \in S, n \in 1 .. N : F[<< t, n >>] = op(t, n)
  BY <1>1
<1> HIDE DEF F, f
<1>6. PICK g : g \in States(F, s, N, S)
  BY <1>2, <1>3, <1>5, LoopExists
<1>7. Is(g)
  <2>1. /\ g \in [0 .. N -> S] /\ g[0] = s
        /\ \A n \in 1 .. N : g[n] = F[<< g[n - 1], n >>]
    BY <1>6 DEF States
  <2>2. \A n \in 1 .. N : n - 1 \in 0 .. N /\ g[n - 1] \in S
    BY <1>2, <2>1
  <2>3. \A n \in 1 .. N : g[n] = op(g[n - 1], n)
    BY <1>5, <2>1, <2>2
  <2>4. \A n \in 0 .. N : g[n] = IF n = 0 THEN s ELSE op(g[n - 1], n)
    BY <1>2, <2>1, <2>3
  <2>5. g = [n \in 0 .. N |-> g[n]]
    BY <2>1
  <2> QED
    BY <2>4, <2>5
<1>8. Is(f)
  <2> HIDE DEF Is
  <2> QED
    BY <1>7 DEF f
<1>9. f = [n \in 0 .. N |-> IF n = 0 THEN s ELSE op(f[n - 1], n)]
  BY <1>8
<1>10. f[0] = s /\ \A n \in 1 .. N : f[n] = op(f[n - 1], n)
  BY <1>2, <1>9
<1>11. \A n \in 0 .. N : f[n] \in S
  <2>1. \A n \in 1 .. N : f[n - 1] \in S => f[n] \in S
    BY <1>1, <1>10
  <2> QED
    BY <1>2, <1>3, <1>10, <2>1, LoopStays
<1>13. f[N] \in S
  BY <1>2, <1>11
<1> QED
  BY <1>4, <1>13 DEF S, N

LEMMA BlankLineRewrites ==
  ASSUME NEW s, IsTerminal(s), Painted(s), NEW y \in Nat
  PROVE  BlankLine(s, y) \in Rewritten(s)
<1> DEFINE a == y * cols
           b == (y + 1) * cols - 1
<1>1. a \in Nat /\ b \in Int
  BY ScreenAssumption
<1> HIDE DEF a, b
<1>2. /\ Len(Upwards(a, b)) \in Nat
      /\ \A n \in 1 .. Len(Upwards(a, b)) : Upwards(a, b)[n] \in a .. b
  BY <1>1, UpwardsAre
<1>3. \A n \in 1 .. Len(Upwards(a, b)) : Upwards(a, b)[n] \in Nat
  BY <1>1, <1>2
<1>4. Blank(s, Upwards(a, b)) \in Rewritten(s)
  BY <1>2, <1>3, BlankRewrites
<1> QED
  BY <1>4 DEF BlankLine, a, b

LEMMA CopyCellRewrites ==
  ASSUME NEW s, IsTerminal(s), NEW i \in Cells, NEW j \in Nat
  PROVE  CopyCell(s, i, j) \in Rewritten(s)
<1>1. CharAt(s, i) \in Chars
  BY CharAtTyped DEF IsTerminal
<1>2. j % cols \in Nat /\ j \div cols \in Nat
  BY PlaceOfCell
<1> QED
  BY <1>1, <1>2, PushRewrites DEF CopyCell

\* Cells that are written to the place d further on.
FromCells(p, d) ==
  /\ Len(p) \in Nat
  /\ \A n \in 1 .. Len(p) : p[n] \in Cells /\ p[n] + d \in Nat

LEMMA CopyCellsRewrite ==
  ASSUME NEW s, IsTerminal(s), NEW d \in Int, NEW p, FromCells(p, d)
  PROVE  CopyCells(s, d, p) \in Rewritten(s)
<1> DEFINE S == Rewritten(s)
           N == Len(p)
           op(t, n) == CopyCell(t, p[n], p[n] + d)
           F == [a \in S \X (1 .. N) |-> op(a[1], a[2])]
           Is(g) == g = [n \in 0 .. N |-> IF n = 0 THEN s ELSE op(g[n - 1], n)]
           f == CHOOSE g : Is(g)
<1>1. \A t \in S, n \in 1 .. N : op(t, n) \in S
  <2>1. SUFFICES ASSUME NEW t \in S, NEW n \in 1 .. N PROVE op(t, n) \in S
    OBVIOUS
  <2>2. IsTerminal(t)
    BY EditedFields DEF Rewritten
  <2>3. op(t, n) \in Rewritten(t)
    BY <2>2, CopyCellRewrites DEF FromCells
  <2> QED
    BY <2>3, RewrittenTwice
<1>2. N \in Nat
  BY DEF FromCells
<1>3. s \in S
  BY NothingRewritten
<1>4. CopyCells(s, d, p) = f[N]
  BY DEF CopyCells, Loop
<1> HIDE DEF S, N, op
<1>5. F \in [S \X (1 .. N) -> S] /\ \A t \in S, n \in 1 .. N : F[<< t, n >>] = op(t, n)
  BY <1>1
<1> HIDE DEF F, f
<1>6. PICK g : g \in States(F, s, N, S)
  BY <1>2, <1>3, <1>5, LoopExists
<1>7. Is(g)
  <2>1. /\ g \in [0 .. N -> S] /\ g[0] = s
        /\ \A n \in 1 .. N : g[n] = F[<< g[n - 1], n >>]
    BY <1>6 DEF States
  <2>2. \A n \in 1 .. N : n - 1 \in 0 .. N /\ g[n - 1] \in S
    BY <1>2, <2>1
  <2>3. \A n \in 1 .. N : g[n] = op(g[n - 1], n)
    BY <1>5, <2>1, <2>2
  <2>4. \A n \in 0 .. N : g[n] = IF n = 0 THEN s ELSE op(g[n - 1], n)
    BY <1>2, <2>1, <2>3
  <2>5. g = [n \in 0 .. N |-> g[n]]
    BY <2>1
  <2> QED
    BY <2>4, <2>5
<1>8. Is(f)
  <2> HIDE DEF Is
  <2> QED
    BY <1>7 DEF f
<1>9. f = [n \in 0 .. N |-> IF n = 0 THEN s ELSE op(f[n - 1], n)]
  BY <1>8
<1>10. f[0] = s /\ \A n \in 1 .. N : f[n] = op(f[n - 1], n)
  BY <1>2, <1>9
<1>11. \A n \in 0 .. N : f[n] \in S
  <2>1. \A n \in 1 .. N : f[n - 1] \in S => f[n] \in S
    BY <1>1, <1>10
  <2> QED
    BY <1>2, <1>3, <1>10, <2>1, LoopStays
<1>13. f[N] \in S
  BY <1>2, <1>11
<1> QED
  BY <1>4, <1>13 DEF S, N

\* The cells of the lines from a to b - 1.
LEMMA LinesOfScreen ==
  ASSUME NEW a \in Nat, NEW b \in Nat, b <= rows
  PROVE  /\ a * cols \in Nat /\ b * cols \in Nat /\ rows * cols \in Nat
         /\ (a + 1) * cols = a * cols + cols
         /\ b * cols <= rows * cols
         /\ a * cols .. b * cols - 1 \subseteq Cells
<1>1. a * cols \in Nat /\ b * cols \in Nat /\ rows * cols \in Nat
  BY ScreenAssumption
<1>2. (a + 1) * cols = a * cols + cols
  BY ScreenAssumption
<1>3. b * cols <= rows * cols
  <2>1. CASE b = rows
    BY <1>1, <2>1
  <2>2. CASE b < rows
    <3>1. b * cols + cols <= rows * cols
      BY <2>2, LinesInOrder, ScreenAssumption
    <3> QED
      BY <1>1, <3>1, ScreenAssumption
  <2> QED
    BY <2>1, <2>2, ScreenAssumption
<1> QED
  BY <1>1, <1>2, <1>3 DEF Cells

\* The region moves by a line.
LEMMA ScrollRewrites ==
  ASSUME NEW s, IsTerminal(s), Painted(s), s.top \in Nat, s.bottom \in 1 .. rows
  PROVE  scroll(s) \in Rewritten(s)
<1> DEFINE a == (s.top + 1) * cols
           b == s.bottom * cols - 1
           t == CopyCells(s, -cols, Upwards(a, b))
<1>1. a \in Nat /\ cols <= a /\ b \in Int /\ a .. b \subseteq Cells
  <2>1. /\ s.top * cols \in Nat /\ (s.top + 1) * cols = s.top * cols + cols
        /\ s.bottom * cols \in Nat
    BY LinesOfScreen, ScreenAssumption
  <2>2. s.top + 1 \in Nat /\ s.bottom \in Nat /\ s.bottom <= rows
    BY ScreenAssumption
  <2>3. (s.top + 1) * cols .. s.bottom * cols - 1 \subseteq Cells
    BY <2>2, LinesOfScreen
  <2> QED
    BY <2>1, <2>3, ScreenAssumption
<1> HIDE DEF a, b
<1>2. /\ Len(Upwards(a, b)) \in Nat
      /\ \A n \in 1 .. Len(Upwards(a, b)) :
           Upwards(a, b)[n] \in Cells /\ Upwards(a, b)[n] + (-cols) \in Nat
  <2>1. /\ Len(Upwards(a, b)) \in Nat
        /\ \A n \in 1 .. Len(Upwards(a, b)) : Upwards(a, b)[n] \in a .. b
    <3>1. a \in Int /\ b \in Int
      BY <1>1
    <3> QED
      BY <3>1, UpwardsAre
  <2>2. \A i \in a .. b : i + (-cols) \in Nat
    BY <1>1, ScreenAssumption
  <2> QED
    BY <1>1, <2>1, <2>2
<1>3. t \in Rewritten(s)
  BY <1>2, CopyCellsRewrite, ScreenAssumption DEF FromCells
<1>4. IsTerminal(t) /\ Painted(t)
  BY <1>3, EditedFields DEF Rewritten, Painted
<1>5. BlankLine(t, s.bottom - 1) \in Rewritten(t)
  BY <1>4, BlankLineRewrites, ScreenAssumption
<1>6. BlankLine(t, s.bottom - 1) \in Rewritten(s)
  BY <1>3, <1>5, RewrittenTwice
<1> QED
  BY <1>6 DEF scroll, a, b

LEMMA RevscrollRewrites ==
  ASSUME NEW s, IsTerminal(s), Painted(s), s.top \in Nat, s.bottom \in 1 .. rows
  PROVE  revscroll(s) \in Rewritten(s)
<1> DEFINE a == (s.bottom - 1) * cols - 1
           b == s.top * cols
           t == CopyCells(s, cols, Downwards(a, b))
<1>1. a \in Int /\ b \in Nat /\ b .. a \subseteq Cells
  <2>1. s.bottom - 1 \in Nat /\ s.bottom - 1 <= rows
    BY ScreenAssumption
  <2>2. (s.bottom - 1) * cols \in Nat /\ s.top * cols \in Nat
    BY <2>1, ScreenAssumption
  <2>3. s.top * cols .. (s.bottom - 1) * cols - 1 \subseteq Cells
    BY <2>1, LinesOfScreen
  <2> QED
    BY <2>2, <2>3
<1> HIDE DEF a, b
<1>2. /\ Len(Downwards(a, b)) \in Nat
      /\ \A n \in 1 .. Len(Downwards(a, b)) :
           Downwards(a, b)[n] \in Cells /\ Downwards(a, b)[n] + cols \in Nat
  <2>1. /\ Len(Downwards(a, b)) \in Nat
        /\ \A n \in 1 .. Len(Downwards(a, b)) : Downwards(a, b)[n] \in b .. a
    <3>1. a \in Int /\ b \in Int
      BY <1>1
    <3> QED
      BY <3>1, DownwardsAre
  <2>2. \A i \in b .. a : i + cols \in Nat
    BY <1>1, ScreenAssumption
  <2> QED
    BY <1>1, <2>1, <2>2
<1>3. t \in Rewritten(s)
  BY <1>2, CopyCellsRewrite, ScreenAssumption DEF FromCells
<1>4. IsTerminal(t) /\ Painted(t)
  BY <1>3, EditedFields DEF Rewritten, Painted
<1>5. BlankLine(t, s.top) \in Rewritten(t)
  BY <1>4, BlankLineRewrites
<1>6. BlankLine(t, s.top) \in Rewritten(s)
  BY <1>3, <1>5, RewrittenTwice
<1> QED
  BY <1>6 DEF revscroll, a, b

\* What the operations count on.
Editable(s) == IsTerminal(s) /\ Painted(s) /\ s.top \in Nat /\ s.bottom \in 1 .. rows

LEMMA EditedEditable ==
  ASSUME NEW s, Editable(s), NEW t \in Edited(s)
  PROVE  Editable(t)
BY EditedFields DEF Editable, Painted

LEMMA RewrittenIsEdited ==
  ASSUME NEW s, NEW t \in Rewritten(s)
  PROVE  t \in Edited(s) /\ t.cursor_x = s.cursor_x /\ t.cursor_y = s.cursor_y
BY DEF Rewritten

CursorAt(s, x, y) == [s EXCEPT !.cursor_x = x, !.cursor_y = y]

LEMMA CursorMoved ==
  ASSUME NEW s, IsTerminal(s), NEW x \in Nat, NEW y \in Nat
  PROVE  /\ CursorAt(s, x, y) \in Edited(s)
         /\ CursorAt(s, x, y).cursor_x = x /\ CursorAt(s, x, y).cursor_y = y
<1> DEFINE t == CursorAt(s, x, y)
<1>1. /\ t.cursor_x = x /\ t.cursor_y = y
      /\ t.queue = s.queue /\ t.map = s.map /\ t.grid = s.grid
      /\ t.old_cursor_x = s.old_cursor_x /\ t.old_cursor_y = s.old_cursor_y
      /\ t.cursor_enabled = s.cursor_enabled
      /\ DOMAIN t = DOMAIN s
      /\ t = [field \in DOMAIN t |-> t[field]]
  BY DEF CursorAt, IsTerminal, IsContext, BufferFields
<1>2. IsContext(t)
  BY <1>1 DEF IsTerminal, IsContext
<1>3. IsTerminal(t)
  BY <1>1, <1>2 DEF IsTerminal, Linked
<1>4. t = Edit(s, s.queue, s.map, x, y)
  BY DEF CursorAt, Edit, IsTerminal, IsContext, BufferFields
<1> QED
  BY <1>1, <1>3, <1>4, EditedIf

LEMMA ClampIn ==
  ASSUME NEW v \in Int, NEW n \in Nat \ {0}
  PROVE  Clamp(v, n) \in 0 .. n - 1
BY DEF Clamp

LEMMA CursorSet ==
  ASSUME NEW s, IsTerminal(s), NEW x \in Int, NEW y \in Int
  PROVE  /\ set_cursor_pos(s, x, y) \in Edited(s)
         /\ set_cursor_pos(s, x, y).cursor_x = Clamp(x, cols)
         /\ set_cursor_pos(s, x, y).cursor_y = Clamp(y, rows)
         /\ Clamp(x, cols) \in 0 .. cols - 1
         /\ Clamp(y, rows) \in 0 .. rows - 1
<1>1. Clamp(x, cols) \in 0 .. cols - 1 /\ Clamp(y, rows) \in 0 .. rows - 1
  BY ClampIn, ScreenAssumption
<1>2. Clamp(x, cols) \in Nat /\ Clamp(y, rows) \in Nat
  BY <1>1, ScreenAssumption
<1> DEFINE u == Clamp(x, cols)
           v == Clamp(y, rows)
           t == set_cursor_pos(s, x, y)
<1>3. t = CursorAt(s, u, v)
  BY DEF set_cursor_pos, CursorAt
<1> HIDE DEF u, v, t
<1>4. t \in Edited(s) /\ t.cursor_x = u /\ t.cursor_y = v
  BY <1>2, <1>3, CursorMoved DEF u, v
<1> QED
  BY <1>1, <1>4 DEF u, v, t

LEMMA CursorPlace ==
  ASSUME NEW s, IsTerminal(s)
  PROVE  X(s) \in 0 .. cols - 1 /\ Y(s) \in 0 .. rows - 1
<1>1. s.cursor_x \in Int /\ s.cursor_y \in Int
  BY DEF IsTerminal, IsContext
<1> QED
  BY <1>1, ClampIn, ScreenAssumption DEF X, Y

LEMMA ClearEdits ==
  ASSUME NEW s, Editable(s)
  PROVE  /\ clear(s, FALSE) \in Rewritten(s)
         /\ clear(s, TRUE) \in Edited(s)
         /\ clear(s, TRUE).cursor_x = 0 /\ clear(s, TRUE).cursor_y = 0
<1> DEFINE a == 0
           b == rows * cols - 1
           p == Upwards(a, b)
           t == Blank(s, p)
           u == CursorAt(t, 0, 0)
<1>0. a \in Int /\ b \in Int /\ a = 0 /\ b = rows * cols - 1
  BY CellsCounted
<1> HIDE DEF a, b
<1>1. Len(p) \in Nat /\ \A n \in 1 .. Len(p) : p[n] \in a .. b
  BY <1>0, UpwardsAre
<1>2. \A n \in 1 .. Len(p) : p[n] \in Nat
  BY <1>0, <1>1
<1> HIDE DEF p
<1>3. t \in Rewritten(s)
  BY <1>1, <1>2, BlankRewrites DEF Editable
<1>4. t \in Edited(s) /\ IsTerminal(t)
  BY <1>3, RewrittenIsEdited, EditedFields DEF Editable
<1> HIDE DEF t
<1>5. u \in Edited(t) /\ u.cursor_x = 0 /\ u.cursor_y = 0
  BY <1>4, CursorMoved
<1> HIDE DEF u
<1>6. u \in Edited(s)
  BY <1>4, <1>5, EditedTwice DEF Editable
<1>7. clear(s, FALSE) = t /\ clear(s, TRUE) = u
  BY <1>0 DEF clear, p, t, u, a, b, CursorAt
<1> QED
  BY <1>3, <1>5, <1>6, <1>7

LEMMA MoveCharacterRewrites ==
  ASSUME NEW s, IsTerminal(s), NEW u \in Int, NEW x \in Nat, NEW y \in Nat, u \in Nat
  PROVE  move_character(s, u, y, x, y) \in Rewritten(s)
<1>1. CASE OnScreen(x, y) /\ OnScreen(u, y)
  <2>1. CellOf(x, y) \in Cells /\ CellOf(u, y) \in Cells
    BY <1>1, CellOnScreen
  <2>2. CellOf(u, y) \in Nat
    BY <2>1, CellsCounted DEF Cells
  <2>3. CopyCell(s, CellOf(x, y), CellOf(u, y)) \in Rewritten(s)
    BY <2>1, <2>2, CopyCellRewrites
  <2> QED
    BY <1>1, <2>3 DEF move_character
<1>2. CASE ~(OnScreen(x, y) /\ OnScreen(u, y))
  BY <1>2, NothingRewritten DEF move_character
<1> QED
  BY <1>1, <1>2

\* Text that goes on in the next line.
LEMMA WrappedEdits ==
  ASSUME NEW s, Editable(s)
  PROVE  /\ Wrapped(s) \in Edited(s)
         /\ Wrapped(s).cursor_x = 0
         /\ s.bottom = rows /\ s.cursor_y < rows => Wrapped(s).cursor_y < rows
<1> DEFINE y == s.cursor_y + 1
           a == CursorAt(s, 0, s.cursor_y)
           t == IF y = s.bottom THEN scroll(a)
                ELSE CursorAt(s, 0, y)
<1>1. s.cursor_y \in Nat /\ y \in Nat /\ s.bottom \in 1 .. rows
  BY DEF Editable, IsTerminal, IsContext
<1>2. /\ t \in Edited(s)
      /\ t.cursor_x = 0
      /\ t.cursor_y = IF y = s.bottom THEN s.cursor_y ELSE y
  <2>1. CASE y = s.bottom
    <3>2. a \in Edited(s) /\ a.cursor_x = 0 /\ a.cursor_y = s.cursor_y
      BY <1>1, CursorMoved DEF Editable
    <3>3. Editable(a)
      BY <3>2, EditedEditable
    <3> HIDE DEF a
    <3>4. scroll(a) \in Rewritten(a)
      BY <3>3, ScrollRewrites DEF Editable
    <3>5. /\ scroll(a) \in Edited(s)
          /\ scroll(a).cursor_x = 0 /\ scroll(a).cursor_y = s.cursor_y
      BY <3>2, <3>4, RewrittenIsEdited, EditedTwice DEF Editable
    <3> QED
      BY <2>1, <3>5 DEF a
  <2>2. CASE y # s.bottom
    <3>1. 0 \in Nat /\ IsTerminal(s)
      BY DEF Editable
    <3>2. /\ CursorAt(s, 0, y) \in Edited(s)
          /\ CursorAt(s, 0, y).cursor_x = 0 /\ CursorAt(s, 0, y).cursor_y = y
      BY <1>1, <3>1, CursorMoved
    <3>3. t = CursorAt(s, 0, y)
      BY <2>2
    <3> QED
      BY <2>2, <3>2, <3>3
  <2> QED
    BY <2>1, <2>2
<1>3. Wrapped(s) = IF t.cursor_y >= cols THEN [t EXCEPT !.cursor_y = cols - 1] ELSE t
  <2>1. a = [s EXCEPT !.cursor_x = 0]
    BY DEF CursorAt, Editable, IsTerminal, IsContext, BufferFields
  <2> HIDE DEF a
  <2> QED
    BY <2>1 DEF Wrapped, CursorAt
<1>4. IsTerminal(t)
  BY <1>2, EditedFields DEF Editable
<1> HIDE DEF t
<1>5. CASE t.cursor_y >= cols
  <2> DEFINE u == [t EXCEPT !.cursor_y = cols - 1]
  <2>1. u = CursorAt(t, t.cursor_x, cols - 1)
    BY <1>4 DEF CursorAt, IsTerminal, IsContext, BufferFields
  <2>2. t.cursor_x \in Nat /\ cols - 1 \in Nat
    BY <1>4, ScreenAssumption DEF IsTerminal, IsContext
  <2>3. u \in Edited(t) /\ u.cursor_x = t.cursor_x /\ u.cursor_y = cols - 1
    BY <1>4, <2>1, <2>2, CursorMoved
  <2>4. u \in Edited(s)
    BY <1>2, <2>3, EditedTwice DEF Editable
  <2>5. cols - 1 < t.cursor_y
    BY <1>5, <1>1, <1>2, ScreenAssumption
  <2>6. s.bottom = rows /\ s.cursor_y < rows => cols - 1 < rows
    BY <1>1, <1>2, <2>5, ScreenAssumption
  <2> QED
    BY <1>2, <1>3, <1>5, <2>3, <2>4, <2>6
<1>6. CASE ~(t.cursor_y >= cols)
  BY <1>1, <1>2, <1>3, <1>6, ScreenAssumption
<1> QED
  BY <1>5, <1>6

\* One glyph, which may go on in the next line.
LEMMA PutcharEdits ==
  ASSUME NEW s, Editable(s), NEW c \in 0 .. 255
  PROVE  /\ raw_putchar(s, c) \in Edited(s)
         /\ ~Wraps(s) => /\ raw_putchar(s, c).cursor_x = s.cursor_x + 1
                         /\ raw_putchar(s, c).cursor_y = s.cursor_y
         /\ Wraps(s) => raw_putchar(s, c).cursor_x = 1
         /\ s.bottom = rows /\ s.cursor_y < rows => raw_putchar(s, c).cursor_y < rows
<1> DEFINE t == IF Wraps(s) THEN Wrapped(s) ELSE s
           u == push_to_queue(t, Char(t, c), t.cursor_x, t.cursor_y)
           v == [u EXCEPT !.cursor_x = t.cursor_x + 1]
<1>1. /\ t \in Edited(s)
      /\ t.cursor_x = IF Wraps(s) THEN 0 ELSE s.cursor_x
      /\ ~Wraps(s) => t.cursor_y = s.cursor_y
      /\ s.bottom = rows /\ s.cursor_y < rows => t.cursor_y < rows
  BY WrappedEdits, NothingRewritten DEF Editable
<1>2. Editable(t)
  BY <1>1, EditedEditable
<1>3. raw_putchar(s, c) = v
  BY DEF raw_putchar
<1> HIDE DEF t
<1>4. t.cursor_x \in Nat /\ t.cursor_y \in Nat /\ Char(t, c) \in Chars
  BY <1>2, CharTyped DEF Editable, IsTerminal, IsContext
<1>5. u \in Rewritten(t)
  BY <1>2, <1>4, PushRewrites DEF Editable
<1>6. /\ u \in Edited(t) /\ u.cursor_x = t.cursor_x /\ u.cursor_y = t.cursor_y
      /\ IsTerminal(u)
  BY <1>2, <1>5, RewrittenIsEdited, EditedFields DEF Editable
<1> HIDE DEF u
<1>7. v = CursorAt(u, t.cursor_x + 1, t.cursor_y)
  BY <1>6 DEF CursorAt, IsTerminal, IsContext, BufferFields
<1>8. v \in Edited(u) /\ v.cursor_x = t.cursor_x + 1 /\ v.cursor_y = t.cursor_y
  BY <1>4, <1>6, <1>7, CursorMoved
<1>9. v \in Edited(s)
  BY <1>1, <1>2, <1>6, <1>8, EditedTwice DEF Editable
<1> QED
  BY <1>1, <1>3, <1>8, <1>9

LEMMA SoundEditable ==
  ASSUME NEW s, IsTerminal(s), Steady(s)
  PROVE  Editable(s)
BY ScreenAssumption DEF Steady, Region, Editable

\* What edits leave is sound if the cursor is on the screen or was not moved.
LEMMA EditedDraws ==
  ASSUME NEW s, IsTerminal(s), Steady(s), NEW t \in Edited(s), OnOrBelow(t)
  PROVE  IsTerminal(t) /\ Still(s, t) /\ Drawable(t)
<1>1. IsTerminal(t) /\ Still(s, t)
  BY EditedFields
<1>2. Painted(t) /\ Region(t) /\ Saved(t)
  BY EditedFields DEF Steady, Painted, Region, Saved
<1> QED
  BY <1>1, <1>2 DEF Drawable, Steady

\* Text that may scroll the region stays before the end of its line, and on
\* the screen if the region ends there.
LEMMA PutcharDraws ==
  ASSUME NEW s, IsTerminal(s), Drawable(s), s.scroll_enabled = TRUE,
         NEW c \in 0 .. 255
  PROVE  /\ raw_putchar(s, c) \in Edited(s)
         /\ IsTerminal(raw_putchar(s, c)) /\ Still(s, raw_putchar(s, c))
         /\ Drawable(raw_putchar(s, c))
         /\ raw_putchar(s, c).scroll_enabled = TRUE
<1> DEFINE t == raw_putchar(s, c)
<1>1. Editable(s) /\ Steady(s)
  BY SoundEditable DEF Drawable
<1>2. /\ t \in Edited(s)
      /\ ~Wraps(s) => t.cursor_x = s.cursor_x + 1
      /\ Wraps(s) => t.cursor_x = 1
      /\ s.bottom = rows /\ s.cursor_y < rows => t.cursor_y < rows
  BY <1>1, PutcharEdits
<1> HIDE DEF t
<1>3. /\ IsTerminal(t) /\ t.bottom = s.bottom /\ t.saved_text = s.saved_text
      /\ t.scroll_enabled = s.scroll_enabled
  BY <1>2, EditedFields
<1>4. t.cursor_x \in 0 .. cols
  <2>1. s.cursor_x \in 0 .. cols
    BY DEF Drawable, OnOrBelow
  <2>2. s.cursor_x >= cols => Wraps(s)
    BY DEF Wraps
  <2> QED
    BY <1>2, <2>1, <2>2, ScreenAssumption
<1>5. OnOrBelow(t)
  BY <1>2, <1>3, <1>4, ScreenAssumption DEF Drawable, Steady, Region, OnOrBelow
<1>6. IsTerminal(t) /\ Still(s, t) /\ Drawable(t)
  BY <1>1, <1>2, <1>5, EditedDraws
<1> QED
  BY <1>2, <1>3, <1>6 DEF t

\* Edits that leave the cursor on the screen.
Placed(s) == {t \in Edited(s) : t.cursor_x < cols /\ t.cursor_y < rows}

LEMMA SetAfterEdit ==
  ASSUME NEW s, Editable(s), NEW t \in Edited(s), NEW x \in Int, NEW y \in Int
  PROVE  set_cursor_pos(t, x, y) \in Placed(s)
<1>1. IsTerminal(t)
  BY EditedFields DEF Editable
<1>2. /\ set_cursor_pos(t, x, y) \in Edited(t)
      /\ set_cursor_pos(t, x, y).cursor_x < cols
      /\ set_cursor_pos(t, x, y).cursor_y < rows
  BY <1>1, CursorSet, ScreenAssumption
<1> QED
  BY <1>2, EditedTwice DEF Editable, Placed

\* Glyphs one after the other.
LEMMA PutcharsEdit ==
  ASSUME NEW s, Editable(s), NEW c \in 0 .. 255, NEW k \in Int
  PROVE  /\ Putchars(s, c, k) \in Edited(s)
         /\ s.cursor_x = 0 /\ k \in 0 .. cols =>
              /\ Putchars(s, c, k).cursor_x = k
              /\ Putchars(s, c, k).cursor_y = s.cursor_y
         /\ Drawable(s) /\ s.scroll_enabled = TRUE => OnOrBelow(Putchars(s, c, k))
<1> DEFINE S == Edited(s)
           N == Len(Upwards(1, k))
           op(t, n) == raw_putchar(t, c)
           F == [a \in S \X (1 .. N) |-> op(a[1], a[2])]
           Is(g) == g = [n \in 0 .. N |-> IF n = 0 THEN s ELSE op(g[n - 1], n)]
           f == CHOOSE g : Is(g)
<1>1. \A t \in S, n \in 1 .. N : op(t, n) \in S
  <2>1. SUFFICES ASSUME NEW t \in S, NEW n \in 1 .. N PROVE op(t, n) \in S
    OBVIOUS
  <2>2. Editable(t)
    BY EditedEditable DEF Rewritten
  <2>3. op(t, n) \in Edited(t)
    BY <2>2, PutcharEdits
  <2> QED
    BY <2>3, EditedTwice DEF Editable
<1>2. N \in Nat
  BY UpwardsAre
<1>3. s \in S
  BY NothingRewritten DEF Editable
<1>4. Putchars(s, c, k) = f[N]
  BY DEF Putchars, Loop
<1> HIDE DEF S, N, op
<1>5. F \in [S \X (1 .. N) -> S] /\ \A t \in S, n \in 1 .. N : F[<< t, n >>] = op(t, n)
  BY <1>1
<1> HIDE DEF F, f
<1>6. PICK g : g \in States(F, s, N, S)
  BY <1>2, <1>3, <1>5, LoopExists
<1>7. Is(g)
  <2>1. /\ g \in [0 .. N -> S] /\ g[0] = s
        /\ \A n \in 1 .. N : g[n] = F[<< g[n - 1], n >>]
    BY <1>6 DEF States
  <2>2. \A n \in 1 .. N : n - 1 \in 0 .. N /\ g[n - 1] \in S
    BY <1>2, <2>1
  <2>3. \A n \in 1 .. N : g[n] = op(g[n - 1], n)
    BY <1>5, <2>1, <2>2
  <2>4. \A n \in 0 .. N : g[n] = IF n = 0 THEN s ELSE op(g[n - 1], n)
    BY <1>2, <2>1, <2>3
  <2>5. g = [n \in 0 .. N |-> g[n]]
    BY <2>1
  <2> QED
    BY <2>4, <2>5
<1>8. Is(f)
  <2> HIDE DEF Is
  <2> QED
    BY <1>7 DEF f
<1>9. f = [n \in 0 .. N |-> IF n = 0 THEN s ELSE op(f[n - 1], n)]
  BY <1>8
<1>10. f[0] = s /\ \A n \in 1 .. N : f[n] = op(f[n - 1], n)
  BY <1>2, <1>9
<1>11. \A n \in 0 .. N : f[n] \in S
  <2>1. \A n \in 1 .. N : f[n - 1] \in S => f[n] \in S
    BY <1>1, <1>10
  <2> QED
    BY <1>2, <1>3, <1>10, <2>1, LoopStays
<1>12. f[N] \in S
  BY <1>2, <1>11
<1>13. ASSUME s.cursor_x = 0, k \in 0 .. cols
       PROVE  f[N].cursor_x = k /\ f[N].cursor_y = s.cursor_y
  <2> DEFINE At == {a \in Nat \X S : a[2].cursor_x = a[1] /\ a[2].cursor_y = s.cursor_y}
             pair == [n \in 0 .. N |-> << n, f[n] >>]
  <2>1. N = k
    <3> DEFINE one == 1
    <3>3. one \in Int
      OBVIOUS
    <3>4. N = Len(Upwards(one, k))
      BY DEF N
    <3> HIDE DEF one
    <3>5. N = IF k < one THEN 0 ELSE k - one + 1
      BY <3>3, <3>4, UpwardsAre
    <3>1. N = IF k < 1 THEN 0 ELSE k - 1 + 1
      BY <3>5 DEF one
    <3>2. k \in Nat
      BY <1>13, ScreenAssumption
    <3> QED
      BY <3>1, <3>2
  <2>2. pair[0] \in At
    BY <1>2, <1>3, <1>10, <1>13
  <2>3. ASSUME NEW n \in 1 .. N, pair[n - 1] \in At
        PROVE  pair[n] \in At
    <3> DEFINE t == f[n - 1]
    <3>1. /\ n - 1 \in 0 .. N /\ n \in 0 .. N
          /\ pair[n - 1] = << n - 1, t >> /\ pair[n] = << n, f[n] >>
      BY <1>2
    <3>2. t \in S /\ t.cursor_x = n - 1 /\ t.cursor_y = s.cursor_y
      BY <2>3, <3>1
    <3>3. f[n] \in S /\ f[n] = raw_putchar(t, c)
      BY <1>10, <1>11, <3>1 DEF op
    <3> HIDE DEF t
    <3>4. Editable(t)
      BY <3>2, EditedEditable DEF S
    <3>5. ~Wraps(t)
      BY <1>2, <1>13, <2>1, <3>2, ScreenAssumption DEF Wraps
    <3>6. /\ raw_putchar(t, c).cursor_x = t.cursor_x + 1
          /\ raw_putchar(t, c).cursor_y = t.cursor_y
      BY <3>4, <3>5, PutcharEdits
    <3>7. t.cursor_x + 1 = n
      BY <3>1, <3>2
    <3> QED
      BY <3>1, <3>2, <3>3, <3>6, <3>7
  <2> HIDE DEF At, pair
  <2>4. \A n \in 0 .. N : pair[n] \in At
    <3>1. \A n \in 1 .. N : pair[n - 1] \in At => pair[n] \in At
      BY <2>3
    <3> QED
      BY <1>2, <2>2, <3>1, LoopStays
  <2>5. pair[N] \in At /\ pair[N] = << N, f[N] >>
    BY <1>2, <2>4 DEF pair
  <2> QED
    BY <2>1, <2>5 DEF At
<1>14. ASSUME Drawable(s), s.scroll_enabled = TRUE
       PROVE  OnOrBelow(f[N])
  <2> DEFINE Within == {t \in S : OnOrBelow(t)}
  <2>1. f[0] \in Within
    BY <1>3, <1>10, <1>14 DEF Drawable
  <2>2. ASSUME NEW n \in 1 .. N, f[n - 1] \in Within
        PROVE  f[n] \in Within
    <3> DEFINE t == f[n - 1]
    <3>1. f[n] \in S /\ f[n] = raw_putchar(t, c)
      BY <1>2, <1>10, <1>11 DEF op
    <3>2. t \in Edited(s) /\ OnOrBelow(t)
      BY <2>2 DEF S
    <3> HIDE DEF t
    <3>3. IsTerminal(t) /\ Drawable(t) /\ t.scroll_enabled = TRUE
      BY <1>14, <3>2, EditedDraws, EditedFields DEF Editable, Drawable
    <3>4. OnOrBelow(raw_putchar(t, c))
      BY <3>3, PutcharDraws DEF Drawable
    <3> QED
      BY <3>1, <3>4
  <2>3. \A n \in 1 .. N : f[n - 1] \in Within => f[n] \in Within
    BY <2>2
  <2> HIDE DEF Within
  <2>4. f[N] \in Within
    BY <1>2, <2>1, <2>3, LoopStays
  <2> QED
    BY <2>4 DEF Within
<1> QED
  BY <1>4, <1>12, <1>13, <1>14 DEF S, N

LEMMA ScrollsRewrite ==
  ASSUME NEW s, Editable(s), NEW k \in Int
  PROVE  Times(scroll, s, k) \in Rewritten(s)
<1> DEFINE S == Rewritten(s)
           N == Len(Upwards(1, k))
           op(t, n) == scroll(t)
           F == [a \in S \X (1 .. N) |-> op(a[1], a[2])]
           Is(g) == g = [n \in 0 .. N |-> IF n = 0 THEN s ELSE op(g[n - 1], n)]
           f == CHOOSE g : Is(g)
<1>1. \A t \in S, n \in 1 .. N : op(t, n) \in S
  <2>1. SUFFICES ASSUME NEW t \in S, NEW n \in 1 .. N PROVE op(t, n) \in S
    OBVIOUS
  <2>2. Editable(t)
    BY EditedEditable DEF Rewritten
  <2>3. op(t, n) \in Rewritten(t)
    BY <2>2, ScrollRewrites DEF Editable
  <2> QED
    BY <2>3, RewrittenTwice DEF Editable
<1>2. N \in Nat
  BY UpwardsAre
<1>3. s \in S
  BY NothingRewritten DEF Editable
<1>4. Times(scroll, s, k) = f[N]
  BY DEF Times, Loop
<1> HIDE DEF S, N, op
<1>5. F \in [S \X (1 .. N) -> S] /\ \A t \in S, n \in 1 .. N : F[<< t, n >>] = op(t, n)
  BY <1>1
<1> HIDE DEF F, f
<1>6. PICK g : g \in States(F, s, N, S)
  BY <1>2, <1>3, <1>5, LoopExists
<1>7. Is(g)
  <2>1. /\ g \in [0 .. N -> S] /\ g[0] = s
        /\ \A n \in 1 .. N : g[n] = F[<< g[n - 1], n >>]
    BY <1>6 DEF States
  <2>2. \A n \in 1 .. N : n - 1 \in 0 .. N /\ g[n - 1] \in S
    BY <1>2, <2>1
  <2>3. \A n \in 1 .. N : g[n] = op(g[n - 1], n)
    BY <1>5, <2>1, <2>2
  <2>4. \A n \in 0 .. N : g[n] = IF n = 0 THEN s ELSE op(g[n - 1], n)
    BY <1>2, <2>1, <2>3
  <2>5. g = [n \in 0 .. N |-> g[n]]
    BY <2>1
  <2> QED
    BY <2>4, <2>5
<1>8. Is(f)
  <2> HIDE DEF Is
  <2> QED
    BY <1>7 DEF f
<1>9. f = [n \in 0 .. N |-> IF n = 0 THEN s ELSE op(f[n - 1], n)]
  BY <1>8
<1>10. f[0] = s /\ \A n \in 1 .. N : f[n] = op(f[n - 1], n)
  BY <1>2, <1>9
<1>11. \A n \in 0 .. N : f[n] \in S
  <2>1. \A n \in 1 .. N : f[n - 1] \in S => f[n] \in S
    BY <1>1, <1>10
  <2> QED
    BY <1>2, <1>3, <1>10, <2>1, LoopStays
<1>13. f[N] \in S
  BY <1>2, <1>11
<1> QED
  BY <1>4, <1>13 DEF S, N

LEMMA RevscrollsRewrite ==
  ASSUME NEW s, Editable(s), NEW k \in Int
  PROVE  Times(revscroll, s, k) \in Rewritten(s)
<1> DEFINE S == Rewritten(s)
           N == Len(Upwards(1, k))
           op(t, n) == revscroll(t)
           F == [a \in S \X (1 .. N) |-> op(a[1], a[2])]
           Is(g) == g = [n \in 0 .. N |-> IF n = 0 THEN s ELSE op(g[n - 1], n)]
           f == CHOOSE g : Is(g)
<1>1. \A t \in S, n \in 1 .. N : op(t, n) \in S
  <2>1. SUFFICES ASSUME NEW t \in S, NEW n \in 1 .. N PROVE op(t, n) \in S
    OBVIOUS
  <2>2. Editable(t)
    BY EditedEditable DEF Rewritten
  <2>3. op(t, n) \in Rewritten(t)
    BY <2>2, RevscrollRewrites DEF Editable
  <2> QED
    BY <2>3, RewrittenTwice DEF Editable
<1>2. N \in Nat
  BY UpwardsAre
<1>3. s \in S
  BY NothingRewritten DEF Editable
<1>4. Times(revscroll, s, k) = f[N]
  BY DEF Times, Loop
<1> HIDE DEF S, N, op
<1>5. F \in [S \X (1 .. N) -> S] /\ \A t \in S, n \in 1 .. N : F[<< t, n >>] = op(t, n)
  BY <1>1
<1> HIDE DEF F, f
<1>6. PICK g : g \in States(F, s, N, S)
  BY <1>2, <1>3, <1>5, LoopExists
<1>7. Is(g)
  <2>1. /\ g \in [0 .. N -> S] /\ g[0] = s
        /\ \A n \in 1 .. N : g[n] = F[<< g[n - 1], n >>]
    BY <1>6 DEF States
  <2>2. \A n \in 1 .. N : n - 1 \in 0 .. N /\ g[n - 1] \in S
    BY <1>2, <2>1
  <2>3. \A n \in 1 .. N : g[n] = op(g[n - 1], n)
    BY <1>5, <2>1, <2>2
  <2>4. \A n \in 0 .. N : g[n] = IF n = 0 THEN s ELSE op(g[n - 1], n)
    BY <1>2, <2>1, <2>3
  <2>5. g = [n \in 0 .. N |-> g[n]]
    BY <2>1
  <2> QED
    BY <2>4, <2>5
<1>8. Is(f)
  <2> HIDE DEF Is
  <2> QED
    BY <1>7 DEF f
<1>9. f = [n \in 0 .. N |-> IF n = 0 THEN s ELSE op(f[n - 1], n)]
  BY <1>8
<1>10. f[0] = s /\ \A n \in 1 .. N : f[n] = op(f[n - 1], n)
  BY <1>2, <1>9
<1>11. \A n \in 0 .. N : f[n] \in S
  <2>1. \A n \in 1 .. N : f[n - 1] \in S => f[n] \in S
    BY <1>1, <1>10
  <2> QED
    BY <1>2, <1>3, <1>10, <2>1, LoopStays
<1>13. f[N] \in S
  BY <1>2, <1>11
<1> QED
  BY <1>4, <1>13 DEF S, N

\* Columns from which cells are moved d to the right.
FromColumns(p, d) ==
  /\ Len(p) \in Nat
  /\ \A n \in 1 .. Len(p) : p[n] \in Nat /\ p[n] + d \in Nat

LEMMA MoveCharactersRewrite ==
  ASSUME NEW s, IsTerminal(s), NEW d \in Int, NEW y \in Nat, NEW p, FromColumns(p, d)
  PROVE  MoveCharacters(s, d, y, p) \in Rewritten(s)
<1> DEFINE S == Rewritten(s)
           N == Len(p)
           op(t, n) == move_character(t, p[n] + d, y, p[n], y)
           F == [a \in S \X (1 .. N) |-> op(a[1], a[2])]
           Is(g) == g = [n \in 0 .. N |-> IF n = 0 THEN s ELSE op(g[n - 1], n)]
           f == CHOOSE g : Is(g)
<1>1. \A t \in S, n \in 1 .. N : op(t, n) \in S
  <2>1. SUFFICES ASSUME NEW t \in S, NEW n \in 1 .. N PROVE op(t, n) \in S
    OBVIOUS
  <2>2. IsTerminal(t)
    BY EditedFields DEF Rewritten
  <2>3. p[n] \in Nat /\ p[n] + d \in Nat
    BY DEF FromColumns
  <2>4. op(t, n) \in Rewritten(t)
    BY <2>2, <2>3, MoveCharacterRewrites
  <2> QED
    BY <2>4, RewrittenTwice
<1>2. N \in Nat
  BY DEF FromColumns
<1>3. s \in S
  BY NothingRewritten
<1>4. MoveCharacters(s, d, y, p) = f[N]
  BY DEF MoveCharacters, Loop
<1> HIDE DEF S, N, op
<1>5. F \in [S \X (1 .. N) -> S] /\ \A t \in S, n \in 1 .. N : F[<< t, n >>] = op(t, n)
  BY <1>1
<1> HIDE DEF F, f
<1>6. PICK g : g \in States(F, s, N, S)
  BY <1>2, <1>3, <1>5, LoopExists
<1>7. Is(g)
  <2>1. /\ g \in [0 .. N -> S] /\ g[0] = s
        /\ \A n \in 1 .. N : g[n] = F[<< g[n - 1], n >>]
    BY <1>6 DEF States
  <2>2. \A n \in 1 .. N : n - 1 \in 0 .. N /\ g[n - 1] \in S
    BY <1>2, <2>1
  <2>3. \A n \in 1 .. N : g[n] = op(g[n - 1], n)
    BY <1>5, <2>1, <2>2
  <2>4. \A n \in 0 .. N : g[n] = IF n = 0 THEN s ELSE op(g[n - 1], n)
    BY <1>2, <2>1, <2>3
  <2>5. g = [n \in 0 .. N |-> g[n]]
    BY <2>1
  <2> QED
    BY <2>4, <2>5
<1>8. Is(f)
  <2> HIDE DEF Is
  <2> QED
    BY <1>7 DEF f
<1>9. f = [n \in 0 .. N |-> IF n = 0 THEN s ELSE op(f[n - 1], n)]
  BY <1>8
<1>10. f[0] = s /\ \A n \in 1 .. N : f[n] = op(f[n - 1], n)
  BY <1>2, <1>9
<1>11. \A n \in 0 .. N : f[n] \in S
  <2>1. \A n \in 1 .. N : f[n - 1] \in S => f[n] \in S
    BY <1>1, <1>10
  <2> QED
    BY <1>2, <1>3, <1>10, <2>1, LoopStays
<1>13. f[N] \in S
  BY <1>2, <1>11
<1> QED
  BY <1>4, <1>13 DEF S, N

LEMMA InsertedPlaced ==
  ASSUME NEW s, Editable(s), NEW d \in Nat, NEW x \in Nat, NEW y \in Nat
  PROVE  Inserted(s, d, x, y) \in Placed(s)
<1> DEFINE S == Edited(s)
           N == Len(Downwards(cols - 1, x))
           column(n) == Downwards(cols - 1, x)[n]
           moved(t, n) == move_character(t, column(n) + d, y, column(n), y)
           op(t, n) == raw_putchar(set_cursor_pos(moved(t, n), column(n), y), Space)
           F == [a \in S \X (1 .. N) |-> op(a[1], a[2])]
           Is(g) == g = [n \in 0 .. N |-> IF n = 0 THEN s ELSE op(g[n - 1], n)]
           f == CHOOSE g : Is(g)
<1>1. \A t \in S, n \in 1 .. N : op(t, n) \in S
  <2>1. SUFFICES ASSUME NEW t \in S, NEW n \in 1 .. N PROVE op(t, n) \in S
    OBVIOUS
  <2>2. Editable(t)
    BY EditedEditable DEF Rewritten
  <2> DEFINE i == Downwards(cols - 1, x)[n]
             a == move_character(t, i + d, y, i, y)
             b == set_cursor_pos(a, i, y)
  <2>3. i \in Nat
    <3>1. cols - 1 \in Int /\ x \in Int
      BY ScreenAssumption
    <3>2. i \in x .. cols - 1
      BY <3>1, DownwardsAre
    <3> QED
      BY <3>1, <3>2
  <2>4. op(t, n) = raw_putchar(b, Space)
    OBVIOUS
  <2> HIDE DEF i, op
  <2>5. a \in Rewritten(t)
    <3>1. i + d \in Nat
      BY <2>3
    <3> QED
      BY <2>2, <2>3, <3>1, MoveCharacterRewrites DEF Editable
  <2>6. a \in Edited(t) /\ Editable(a)
    BY <2>2, <2>5, RewrittenIsEdited, EditedEditable
  <2> HIDE DEF a
  <2>7. b \in Edited(a)
    BY <2>3, <2>6, CursorSet DEF Editable
  <2>8. b \in Edited(t) /\ Editable(b)
    BY <2>2, <2>6, <2>7, EditedTwice, EditedEditable DEF Editable
  <2> HIDE DEF b
  <2>9. raw_putchar(b, Space) \in Edited(b)
    BY <2>8, PutcharEdits DEF Space
  <2>10. raw_putchar(b, Space) \in Edited(t)
    BY <2>2, <2>8, <2>9, EditedTwice DEF Editable
  <2> QED
    BY <2>4, <2>10, EditedTwice DEF Editable
<1>2. N \in Nat
  BY DownwardsAre, ScreenAssumption
<1>3. s \in S
  BY NothingRewritten DEF Editable
<1>4. Inserted(s, d, x, y) = set_cursor_pos(f[N], x, y)
  BY DEF Inserted, Loop
<1> HIDE DEF S, N, op
<1>5. F \in [S \X (1 .. N) -> S] /\ \A t \in S, n \in 1 .. N : F[<< t, n >>] = op(t, n)
  BY <1>1
<1> HIDE DEF F, f
<1>6. PICK g : g \in States(F, s, N, S)
  BY <1>2, <1>3, <1>5, LoopExists
<1>7. Is(g)
  <2>1. /\ g \in [0 .. N -> S] /\ g[0] = s
        /\ \A n \in 1 .. N : g[n] = F[<< g[n - 1], n >>]
    BY <1>6 DEF States
  <2>2. \A n \in 1 .. N : n - 1 \in 0 .. N /\ g[n - 1] \in S
    BY <1>2, <2>1
  <2>3. \A n \in 1 .. N : g[n] = op(g[n - 1], n)
    BY <1>5, <2>1, <2>2
  <2>4. \A n \in 0 .. N : g[n] = IF n = 0 THEN s ELSE op(g[n - 1], n)
    BY <1>2, <2>1, <2>3
  <2>5. g = [n \in 0 .. N |-> g[n]]
    BY <2>1
  <2> QED
    BY <2>4, <2>5
<1>8. Is(f)
  <2> HIDE DEF Is
  <2> QED
    BY <1>7 DEF f
<1>9. f = [n \in 0 .. N |-> IF n = 0 THEN s ELSE op(f[n - 1], n)]
  BY <1>8
<1>10. f[0] = s /\ \A n \in 1 .. N : f[n] = op(f[n - 1], n)
  BY <1>2, <1>9
<1>11. \A n \in 0 .. N : f[n] \in S
  <2>1. \A n \in 1 .. N : f[n - 1] \in S => f[n] \in S
    BY <1>1, <1>10
  <2> QED
    BY <1>2, <1>3, <1>10, <2>1, LoopStays
<1>12. f[N] \in S
  BY <1>2, <1>11
<1> QED
  BY <1>4, <1>12, SetAfterEdit DEF S, N

LEMMA PutThenSet ==
  ASSUME NEW s, Editable(s), NEW t \in Edited(s), NEW k \in Int,
         NEW x \in Int, NEW y \in Int
  PROVE  set_cursor_pos(Putchars(t, Space, k), x, y) \in Placed(s)
<1>1. Editable(t)
  BY EditedEditable
<1>2. Putchars(t, Space, k) \in Edited(t)
  <2>1. Space \in 0 .. 255
    BY DEF Space
  <2> QED
    BY <1>1, <2>1, PutcharsEdit
<1>3. Putchars(t, Space, k) \in Edited(s)
  BY <1>2, EditedTwice DEF Editable
<1> QED
  BY <1>3, SetAfterEdit

LEMMA Amounts ==
  ASSUME NEW n \in Nat, NEW m \in Nat
  PROVE  AtMost(n, m) \in Nat
BY DEF AtMost

LEMMA ErasedPlaced ==
  ASSUME NEW s, Editable(s), NEW n \in Nat, NEW x \in Int, NEW y \in Int
  PROVE  Erased(s, n, x, y) \in Placed(s)
<1>1. AtMost(n, cols) \in Int
  BY Amounts, ScreenAssumption
<1>2. s \in Edited(s)
  BY NothingRewritten DEF Editable
<1>3. set_cursor_pos(Putchars(s, Space, AtMost(n, cols)), x, y) \in Placed(s)
  BY <1>1, <1>2, PutThenSet
<1> QED
  BY <1>3 DEF Erased

LEMMA DeletedPlaced ==
  ASSUME NEW s, Editable(s), NEW n \in Nat, NEW x \in Nat, NEW y \in Nat
  PROVE  Deleted(s, n, x, y) \in Placed(s)
<1> DEFINE a == x + n
           b == cols - 1
           p == Upwards(a, b)
           t == MoveCharacters(s, -n, y, p)
           u == set_cursor_pos(t, cols - n, y)
<1>1. a \in Int /\ a >= n /\ b \in Int
  BY ScreenAssumption
<1> HIDE DEF a, b
<1>2. Len(p) \in Nat /\ \A k \in 1 .. Len(p) : p[k] \in a .. b
  BY <1>1, UpwardsAre
<1>3. \A i \in a .. b : i \in Nat /\ i + (-n) \in Nat
  BY <1>1
<1>4. FromColumns(p, -n)
  BY <1>2, <1>3 DEF FromColumns
<1> HIDE DEF p
<1>5. t \in Rewritten(s)
  BY <1>4, MoveCharactersRewrite DEF Editable
<1>6. t \in Edited(s)
  BY <1>5, RewrittenIsEdited
<1> HIDE DEF t
<1>7. u \in Edited(s)
  BY <1>6, SetAfterEdit, ScreenAssumption DEF Placed
<1>8. Editable(u)
  BY <1>7, EditedEditable
<1>9. Deleted(s, n, x, y) = Erased(u, n, x, y)
  BY DEF Deleted, a, b, p, t
<1> HIDE DEF u
<1>10. Erased(u, n, x, y) \in Placed(u)
  BY <1>8, ErasedPlaced
<1>11. Erased(u, n, x, y) \in Placed(s)
  BY <1>7, <1>10, EditedTwice DEF Placed, Editable
<1> QED
  BY <1>9, <1>11

\* J and K: the cursor is put back, or was not moved, or K 1 has printed up to it.
LEMMA DisplayErased ==
  ASSUME NEW s, Editable(s), NEW v, NEW x \in 0 .. cols - 1, NEW y \in 0 .. rows - 1
  PROVE  ErasedDisplay(s, v, x, y) \in Placed(s) \cup Rewritten(s)
<1>0. /\ (rows - y) * cols - x \in Int /\ y * cols + x + 1 \in Int
      /\ x \in Int /\ y \in Int
  BY ScreenAssumption
<1>1. CASE v = 0
  <2>0. v # 1 /\ v \notin {2, 3}
    BY <1>1
  <2>1. ErasedDisplay(s, v, x, y)
          = set_cursor_pos(Putchars(s, Space, (rows - y) * cols - x), x, y)
    BY <1>1, <2>0, Zenon DEF ErasedDisplay
  <2> QED
    BY <1>0, <2>1, PutThenSet, NothingRewritten DEF Editable
<1>2. CASE v = 1
  <2>0. v # 0 /\ v \notin {2, 3}
    BY <1>2
  <2>1. ErasedDisplay(s, v, x, y)
          = set_cursor_pos(Putchars(set_cursor_pos(s, 0, 0), Space, y * cols + x + 1),
                           x, y)
    BY <1>2, <2>0, Zenon DEF ErasedDisplay
  <2>2. set_cursor_pos(s, 0, 0) \in Edited(s)
    BY CursorSet DEF Editable
  <2> QED
    BY <1>0, <2>1, <2>2, PutThenSet
<1>3. CASE v \in {2, 3}
  <2>0. v # 0 /\ v # 1
    BY <1>3
  <2>1. ErasedDisplay(s, v, x, y) = clear(s, FALSE)
    BY <1>3, <2>0, Zenon DEF ErasedDisplay
  <2> QED
    BY <2>1, ClearEdits
<1>4. CASE v \notin {0, 1, 2, 3}
  <2>1. ErasedDisplay(s, v, x, y) = s
    BY <1>4, Zenon DEF ErasedDisplay
  <2> QED
    BY <2>1, NothingRewritten DEF Editable
<1> QED
  BY <1>1, <1>2, <1>3, <1>4

LEMMA LineErased ==
  ASSUME NEW s, Editable(s), NEW v, NEW x \in 0 .. cols - 1, NEW y \in 0 .. rows - 1
  PROVE  ErasedLine(s, v, x, y) \in Placed(s) \cup Rewritten(s)
<1>0. cols - x \in Int /\ x \in Int /\ y \in Int /\ cols \in Int
  BY ScreenAssumption
<1>1. set_cursor_pos(s, 0, y) \in Edited(s)
  BY <1>0, CursorSet DEF Editable
<1>2. CASE v = 0
  <2>0. v # 1 /\ v # 2
    BY <1>2
  <2>1. ErasedLine(s, v, x, y)
          = set_cursor_pos(Putchars(s, Space, cols - x), x, y)
    BY <1>2, <2>0, Zenon DEF ErasedLine
  <2> QED
    BY <1>0, <2>1, PutThenSet, NothingRewritten DEF Editable
<1>3. CASE v = 1
  <2> DEFINE t == set_cursor_pos(s, 0, y)
             u == Putchars(t, Space, x)
  <2>0. v # 0 /\ v # 2
    BY <1>3
  <2>1. ErasedLine(s, v, x, y) = u
    BY <1>3, <2>0, Zenon DEF ErasedLine
  <2>2. /\ t \in Edited(s) /\ t.cursor_x = 0 /\ t.cursor_y < rows
        /\ Editable(t)
    <3>1. Clamp(0, cols) = 0
      BY ScreenAssumption DEF Clamp
    <3>2. t.cursor_x = Clamp(0, cols) /\ t.cursor_y \in 0 .. rows - 1
      BY <1>0, CursorSet DEF Editable
    <3> QED
      BY <1>1, <3>1, <3>2, EditedEditable, ScreenAssumption
  <2> HIDE DEF t
  <2>3. Space \in 0 .. 255 /\ x \in 0 .. cols
    BY ScreenAssumption DEF Space
  <2>4. u \in Edited(t) /\ u.cursor_x = x /\ u.cursor_y = t.cursor_y
    <3>1. /\ u \in Edited(t)
          /\ t.cursor_x = 0 /\ x \in 0 .. cols =>
               u.cursor_x = x /\ u.cursor_y = t.cursor_y
      <4>1. Space \in 0 .. 255
        BY DEF Space
      <4>2. x \in Int /\ Editable(t)
        BY <1>0, <2>2
      <4>3. /\ Putchars(t, Space, x) \in Edited(t)
            /\ t.cursor_x = 0 /\ x \in 0 .. cols =>
                 /\ Putchars(t, Space, x).cursor_x = x
                 /\ Putchars(t, Space, x).cursor_y = t.cursor_y
        BY <4>1, <4>2, PutcharsEdit, Zenon
      <4> QED
        BY <4>3
    <3> QED
      BY <2>2, <2>3, <3>1
  <2>5. u \in Edited(s)
    BY <2>2, <2>4, EditedTwice DEF Editable
  <2> QED
    BY <2>1, <2>2, <2>4, <2>5, ScreenAssumption DEF Placed
<1>4. CASE v = 2
  <2>0. v # 0 /\ v # 1
    BY <1>4
  <2>1. ErasedLine(s, v, x, y)
          = set_cursor_pos(Putchars(set_cursor_pos(s, 0, y), Space, cols), x, y)
    BY <1>4, <2>0, Zenon DEF ErasedLine
  <2> QED
    BY <1>0, <1>1, <2>1, PutThenSet
<1>5. CASE v \notin {0, 1, 2}
  <2>1. ErasedLine(s, v, x, y) = s
    BY <1>5, Zenon DEF ErasedLine
  <2> QED
    BY <2>1, NothingRewritten DEF Editable
<1> QED
  BY <1>2, <1>3, <1>4, <1>5

-----------------------------------------------------------------------------
(* Select graphic rendition changes the attributes and the colours, and    *)
(* nothing else                                                            *)

Recolour(s, fg, bg, bold, bg_bold, video, primary, background) ==
  [s EXCEPT !.text_fg = fg, !.text_bg = bg, !.bold = bold, !.bg_bold = bg_bold,
            !.reverse_video = video, !.current_primary = primary,
            !.current_bg = background]
Recoloured(s) ==
  {Recolour(s, fg, bg, bold, bg_bold, video, primary, background) :
     fg \in Int, bg \in Int, bold \in BOOLEAN, bg_bold \in BOOLEAN,
     video \in BOOLEAN, primary \in Colours, background \in Colours}

LEMMA RecolouredBy ==
  ASSUME NEW s, NEW t
  PROVE  t \in Recoloured(s) <=>
           \E fg \in Int, bg \in Int, bold \in BOOLEAN, bg_bold \in BOOLEAN,
              video \in BOOLEAN, primary \in Colours, background \in Colours :
             t = Recolour(s, fg, bg, bold, bg_bold, video, primary, background)
BY DEF Recoloured

LEMMA RecolouredFields ==
  ASSUME NEW s, IsTerminal(s), Painted(s), NEW t \in Recoloured(s)
  PROVE  /\ IsTerminal(t)
         /\ Painted(t)
         /\ Still(s, t)
         /\ t.cursor_x = s.cursor_x /\ t.cursor_y = s.cursor_y
         /\ t.saved_text = s.saved_text /\ t.saved_state = s.saved_state
         /\ t.saved_cursor = s.saved_cursor
         /\ t.top = s.top /\ t.bottom = s.bottom
         /\ t.scroll_enabled = s.scroll_enabled
         /\ t.esc_values = s.esc_values /\ t.esc_values_i = s.esc_values_i
         /\ t.rrr = s.rrr /\ t.unicode_remaining = s.unicode_remaining
         /\ t.g_select = s.g_select /\ t.escape = s.escape /\ t.osc = s.osc
         /\ t.control_sequence = s.control_sequence
         /\ t.discard_next = s.discard_next
<1>1. PICK fg \in Int, bg \in Int, bold \in BOOLEAN, bg_bold \in BOOLEAN,
              video \in BOOLEAN, primary \in Colours, background \in Colours :
        t = Recolour(s, fg, bg, bold, bg_bold, video, primary, background)
  BY RecolouredBy
<1>2. IsContext(t) /\ TerminalFields \subseteq DOMAIN t /\ Still(s, t)
  BY <1>1 DEF Recolour, IsTerminal, IsContext, BufferFields, TerminalFields, Still
<1>3. t.queue = s.queue /\ t.map = s.map
  BY <1>1 DEF Recolour, IsTerminal, IsContext, BufferFields, TerminalFields
<1>4. IsTerminal(t)
  BY <1>2, <1>3 DEF IsTerminal, Linked
<1>5. /\ t.text_fg = fg /\ t.text_bg = bg /\ t.bold = bold /\ t.bg_bold = bg_bold
      /\ t.reverse_video = video /\ t.current_primary = primary
      /\ t.current_bg = background
      /\ t.saved_text = s.saved_text /\ t.saved_state = s.saved_state
  BY <1>1 DEF Recolour, IsTerminal, IsContext, BufferFields, TerminalFields
<1>6. Painted(t)
  BY <1>5 DEF Painted
<1> QED
  BY <1>1, <1>2, <1>4, <1>6
  DEF Recolour, IsTerminal, IsContext, BufferFields, TerminalFields

LEMMA NothingRecoloured ==
  ASSUME NEW s, IsTerminal(s), Painted(s)
  PROVE  s \in Recoloured(s)
<1>1. s = Recolour(s, s.text_fg, s.text_bg, s.bold, s.bg_bold, s.reverse_video,
                   s.current_primary, s.current_bg)
  BY DEF Recolour, IsTerminal, IsContext, BufferFields, TerminalFields
<1>2. /\ s.text_fg \in Int /\ s.text_bg \in Int /\ s.bold \in BOOLEAN
      /\ s.bg_bold \in BOOLEAN /\ s.reverse_video \in BOOLEAN
      /\ s.current_primary \in Colours /\ s.current_bg \in Colours
  BY DEF Painted
<1> QED
  BY <1>1, <1>2, RecolouredBy

LEMMA RecolouredTwice ==
  ASSUME NEW s, IsTerminal(s), Painted(s), NEW t \in Recoloured(s),
         NEW u \in Recoloured(t)
  PROVE  u \in Recoloured(s)
<1>1. PICK a, b, c, d, e, f, g : t = Recolour(s, a, b, c, d, e, f, g)
  BY RecolouredBy
<1>2. PICK fg \in Int, bg \in Int, bold \in BOOLEAN, bg_bold \in BOOLEAN,
              video \in BOOLEAN, primary \in Colours, background \in Colours :
        u = Recolour(t, fg, bg, bold, bg_bold, video, primary, background)
  BY RecolouredBy
<1>3. u = Recolour(s, fg, bg, bold, bg_bold, video, primary, background)
  BY <1>1, <1>2 DEF Recolour, IsTerminal, IsContext, BufferFields, TerminalFields
<1> QED
  BY <1>2, <1>3, RecolouredBy

\* Every colour that a parameter can name.
LEMMA ColoursTyped ==
  /\ \A bright \in BOOLEAN : FgDefault(bright) \in Int /\ BgDefault(bright) \in Int
  /\ \A bright \in BOOLEAN, colour \in 0 .. 7 : Palette(bright, colour) \in Int
  /\ \A n \in 0 .. 255 : col256(n) \in Int
  /\ \A r, g, b \in Nat : RGB(r, g, b) \in Int
<1>1. \A k \in 1 .. 8 : ansi_colours[k] \in Int /\ ansi_bright_colours[k] \in Int
  BY DEF ansi_colours, ansi_bright_colours
<1>2. \A k \in 1 .. 6 : Levels[k] \in Nat
  BY DEF Levels
<1>3. \A r, g, b \in Nat : RGB(r, g, b) \in Int
  BY DEF RGB
<1>4. \A bright \in BOOLEAN : FgDefault(bright) \in Int /\ BgDefault(bright) \in Int
  BY DEF FgDefault, BgDefault, default_fg, default_fg_bright, default_bg_bright,
         Transparent
<1>5. \A bright \in BOOLEAN, colour \in 0 .. 7 : Palette(bright, colour) \in Int
  BY <1>1 DEF Palette
<1>6. ASSUME NEW n \in 0 .. 255
      PROVE  col256(n) \in Int
  <2> DEFINE k == n - 16
             r == Levels[(k \div 36) + 1]
             g == Levels[((k \div 6) % 6) + 1]
             b == Levels[(k % 6) + 1]
             grey == 8 + 10 * (n - 232)
  <2>1. n \in 8 .. 15 => ansi_bright_colours[n - 7] \in Int
    BY <1>1
  <2>2. n < 8 => ansi_colours[n + 1] \in Int
    BY <1>1
  <2>3. n \in 16 .. 231 => RGB(r, g, b) \in Int
    <3>1. SUFFICES ASSUME n \in 16 .. 231 PROVE RGB(r, g, b) \in Int
      OBVIOUS
    <3>2. /\ (k \div 36) + 1 \in 1 .. 6 /\ ((k \div 6) % 6) + 1 \in 1 .. 6
          /\ (k % 6) + 1 \in 1 .. 6
      BY <3>1
    <3>3. r \in Nat /\ g \in Nat /\ b \in Nat
      BY <1>2, <3>2
    <3> QED
      BY <1>3, <3>3
  <2>4. n \in 232 .. 255 => RGB(grey, grey, grey) \in Int
    <3>1. SUFFICES ASSUME n \in 232 .. 255 PROVE RGB(grey, grey, grey) \in Int
      OBVIOUS
    <3>2. grey \in Nat
      BY <3>1
    <3> QED
      BY <1>3, <3>2
  <2> HIDE DEF r, g, b, grey
  <2> QED
    BY <2>1, <2>2, <2>3, <2>4 DEF col256, r, g, b, grey, k
<1> QED
  BY <1>3, <1>4, <1>5, <1>6

\* The parts of an attribute.
LEMMA AttributeParts ==
  ASSUME NEW s, IsTerminal(s), Painted(s), NEW c \in Int, NEW p \in Colours,
         NEW on \in BOOLEAN
  PROVE  /\ Fg(s, c) \in Recoloured(s) /\ Bg(s, c) \in Recoloured(s)
         /\ PaintPrimary([s EXCEPT !.current_primary = p], c) \in Recoloured(s)
         /\ PaintBg([s EXCEPT !.current_bg = p], c) \in Recoloured(s)
         /\ PaintPrimary([s EXCEPT !.bold = on], c) \in Recoloured(s)
         /\ PaintBg([s EXCEPT !.bg_bold = on], c) \in Recoloured(s)
         /\ Reversed(s, on) \in Recoloured(s)
         /\ Plain(s) \in Recoloured(s)
<1> DEFINE fg == s.text_fg
           bg == s.text_bg
           b == s.bold
           d == s.bg_bold
           v == s.reverse_video
           q == s.current_primary
           r == s.current_bg
           f == IF v THEN fg ELSE c
           g == IF v THEN c ELSE bg
           h == IF v THEN c ELSE fg
           i == IF v THEN bg ELSE c
<1>0. /\ fg \in Int /\ bg \in Int /\ b \in BOOLEAN /\ d \in BOOLEAN /\ v \in BOOLEAN
      /\ q \in Colours /\ r \in Colours
      /\ f \in Int /\ g \in Int /\ h \in Int /\ i \in Int
  BY DEF Painted
<1>1. /\ Fg(s, c) = Recolour(s, c, bg, b, d, v, q, r)
      /\ Bg(s, c) = Recolour(s, fg, c, b, d, v, q, r)
  BY DEF Fg, Bg, Recolour, IsTerminal, IsContext, BufferFields, TerminalFields
<1>2. /\ PaintPrimary([s EXCEPT !.current_primary = p], c)
           = Recolour(s, f, g, b, d, v, p, r)
      /\ PaintPrimary([s EXCEPT !.bold = on], c) = Recolour(s, f, g, on, d, v, q, r)
  BY <1>0 DEF PaintPrimary, Fg, Bg, Recolour, IsTerminal, IsContext, BufferFields,
              TerminalFields
<1>3. /\ PaintBg([s EXCEPT !.current_bg = p], c) = Recolour(s, h, i, b, d, v, q, p)
      /\ PaintBg([s EXCEPT !.bg_bold = on], c) = Recolour(s, h, i, b, on, v, q, r)
  BY <1>0 DEF PaintBg, Fg, Bg, Recolour, IsTerminal, IsContext, BufferFields,
              TerminalFields
<1>4. Plain(s) = Recolour(s, default_fg, Transparent, FALSE, FALSE, FALSE, None, None)
  BY DEF Plain, Recolour, IsTerminal, IsContext, BufferFields, TerminalFields
<1>5. Reversed(s, on) \in Recoloured(s)
  <2>1. CASE v = on
    BY <2>1, NothingRecoloured DEF Reversed
  <2>2. CASE v # on
    <3>1. Reversed(s, on) = Recolour(s, bg, fg, b, d, on, q, r)
      BY <2>2 DEF Reversed, swap_palette, Recolour, IsTerminal, IsContext,
                  BufferFields, TerminalFields
    <3> QED
      BY <1>0, <3>1, RecolouredBy
  <2> QED
    BY <2>1, <2>2
<1>6. default_fg \in Int /\ Transparent \in Int /\ None \in Colours
  BY DEF default_fg, Transparent, None, Colours
<1> HIDE DEF fg, bg, b, d, v, q, r, f, g, h, i
<1>7. Fg(s, c) \in Recoloured(s) /\ Bg(s, c) \in Recoloured(s)
  BY <1>0, <1>1, RecolouredBy
<1>8. /\ PaintPrimary([s EXCEPT !.current_primary = p], c) \in Recoloured(s)
      /\ PaintPrimary([s EXCEPT !.bold = on], c) \in Recoloured(s)
  BY <1>0, <1>2, RecolouredBy
<1>9. /\ PaintBg([s EXCEPT !.current_bg = p], c) \in Recoloured(s)
      /\ PaintBg([s EXCEPT !.bg_bold = on], c) \in Recoloured(s)
  BY <1>0, <1>3, RecolouredBy
<1>10. Plain(s) \in Recoloured(s)
  BY <1>4, <1>6, RecolouredBy
<1> QED
  BY <1>5, <1>7, <1>8, <1>9, <1>10

LEMMA AttributeRecolours ==
  ASSUME NEW s, IsTerminal(s), Painted(s), NEW v \in Nat
  PROVE  Attribute(s, v) \in Recoloured(s)
<1> DEFINE R == Recoloured(s)
<1>0. s.bold \in BOOLEAN /\ s.bg_bold \in BOOLEAN /\ s.reverse_video \in BOOLEAN
      /\ s.current_primary \in Colours /\ s.current_bg \in Colours
  BY DEF Painted
<1>1. Plain(s) \in R /\ s \in R /\ Reversed(s, v = 7) \in R
  <2>1. (v = 7) \in BOOLEAN
    OBVIOUS
  <2>2. 0 \in Int /\ 0 \in Colours
    BY DEF Colours
  <2> QED
    BY <2>1, <2>2, AttributeParts, NothingRecoloured, Zenon
<1>2. Bold(s, v = 1) \in R
  <2> DEFINE on == v = 1
             c == IF s.current_primary = None THEN PrimaryDefault(s, on)
                  ELSE Palette(on, s.current_primary)
  <2>1. on \in BOOLEAN /\ None \in Colours
    BY DEF None, Colours
  <2> HIDE DEF on
  <2>2. c \in Int
    <3>1. CASE s.current_primary = None
      BY <1>0, <2>1, <3>1, ColoursTyped DEF PrimaryDefault
    <3>2. CASE s.current_primary # None
      <4>1. s.current_primary \in 0 .. 7
        BY <1>0, <3>2 DEF Colours, None
      <4>2. Palette(on, s.current_primary) \in Int
        BY <2>1, <4>1, ColoursTyped
      <4> QED
        BY <3>2, <4>2
    <3> QED
      BY <3>1, <3>2
  <2>3. Bold(s, on) = PaintPrimary([s EXCEPT !.bold = on], c)
    BY DEF Bold
  <2> HIDE DEF c
  <2> QED
    BY <2>1, <2>2, <2>3, AttributeParts DEF on
<1>3. BgBold(s, v = 5) \in R
  <2> DEFINE on == v = 5
             c == IF s.current_bg = None THEN BackgroundDefault(s, on)
                  ELSE Palette(on, s.current_bg)
  <2>1. on \in BOOLEAN /\ None \in Colours
    BY DEF None, Colours
  <2> HIDE DEF on
  <2>2. c \in Int
    <3>1. CASE s.current_bg = None
      BY <1>0, <2>1, <3>1, ColoursTyped DEF BackgroundDefault
    <3>2. CASE s.current_bg # None
      <4>1. s.current_bg \in 0 .. 7
        BY <1>0, <3>2 DEF Colours, None
      <4>2. Palette(on, s.current_bg) \in Int
        BY <2>1, <4>1, ColoursTyped
      <4> QED
        BY <3>2, <4>2
    <3> QED
      BY <3>1, <3>2
  <2>3. BgBold(s, on) = PaintBg([s EXCEPT !.bg_bold = on], c)
    BY DEF BgBold
  <2> HIDE DEF c
  <2> QED
    BY <2>1, <2>2, <2>3, AttributeParts DEF on
<1>4. ASSUME NEW p \in 0 .. 7, NEW bright \in BOOLEAN
      PROVE  /\ PaintPrimary([s EXCEPT !.current_primary = p], Palette(bright, p)) \in R
             /\ PaintBg([s EXCEPT !.current_bg = p], Palette(bright, p)) \in R
  <2>1. Palette(bright, p) \in Int
    BY ColoursTyped
  <2>2. p \in Colours
    BY DEF Colours
  <2> QED
    BY <2>1, <2>2, AttributeParts
<1>5. /\ PaintPrimary([s EXCEPT !.current_primary = None], FgDefault(s.bold)) \in R
      /\ PaintBg([s EXCEPT !.current_bg = None], BgDefault(s.bg_bold)) \in R
  <2>1. None \in Colours
    BY DEF None, Colours
  <2> QED
    BY <1>0, <2>1, ColoursTyped, AttributeParts
<1>6. /\ v \in 30 .. 37 => PaintPrimary([s EXCEPT !.current_primary = v - 30],
                                        Palette(s.bold, v - 30)) \in R
      /\ v \in 40 .. 47 => PaintBg([s EXCEPT !.current_bg = v - 40],
                                   Palette(s.bg_bold, v - 40)) \in R
      /\ v \in 90 .. 97 => PaintPrimary([s EXCEPT !.current_primary = v - 90],
                                        Palette(TRUE, v - 90)) \in R
      /\ v \in 100 .. 107 => PaintBg([s EXCEPT !.current_bg = v - 100],
                                     Palette(TRUE, v - 100)) \in R
  <2>1. /\ v \in 30 .. 37 => v - 30 \in 0 .. 7
        /\ v \in 40 .. 47 => v - 40 \in 0 .. 7
        /\ v \in 90 .. 97 => v - 90 \in 0 .. 7
        /\ v \in 100 .. 107 => v - 100 \in 0 .. 7
    OBVIOUS
  <2> HIDE DEF R
  <2> QED
    BY <1>0, <1>4, <2>1, Zenon
<1> HIDE DEF R
<1> QED
  BY <1>1, <1>2, <1>3, <1>5, <1>6, ZenonT(60) DEF Attribute, R

LEMMA DirectRecolours ==
  ASSUME NEW s, IsTerminal(s), Painted(s), NEW v, NEW c \in Int
  PROVE  Direct(s, v, c) \in Recoloured(s)
<1>1. 0 \in Colours /\ TRUE \in BOOLEAN
  BY DEF Colours
<1>2. Fg(s, c) \in Recoloured(s) /\ Bg(s, c) \in Recoloured(s)
  BY <1>1, AttributeParts
<1> QED
  BY <1>2 DEF Direct

LEMMA RenditionRecolours ==
  ASSUME NEW s, IsTerminal(s), Painted(s), NEW values \in Seq(Nat),
         NEW i \in 1 .. Len(values)
  PROVE  Rendition(s, values, i) \in Recoloured(s)
<1> DEFINE n == Len(values)
           v == values[i]
           rgb == RGB(values[i + 2], values[i + 3], values[i + 4])
           colour == col256(values[i + 2])
<1>1. n \in Nat /\ \A k \in 1 .. n : values[k] \in Nat
  OBVIOUS
<1>2. Attribute(s, v) \in Recoloured(s)
  BY <1>1, AttributeRecolours
<1>3. i + 4 <= n => Direct(s, v, rgb) \in Recoloured(s)
  <2>1. SUFFICES ASSUME i + 4 <= n PROVE Direct(s, v, rgb) \in Recoloured(s)
    OBVIOUS
  <2>2. values[i + 2] \in Nat /\ values[i + 3] \in Nat /\ values[i + 4] \in Nat
    BY <1>1, <2>1
  <2>3. rgb \in Int
    BY <2>2, ColoursTyped
  <2> HIDE DEF rgb, v
  <2> QED
    BY <2>3, DirectRecolours
<1>4. i + 2 <= n /\ values[i + 2] <= 255 => Direct(s, v, colour) \in Recoloured(s)
  <2>1. SUFFICES ASSUME i + 2 <= n, values[i + 2] <= 255
                 PROVE Direct(s, v, colour) \in Recoloured(s)
    OBVIOUS
  <2>2. values[i + 2] \in 0 .. 255
    <3>1. i + 2 \in 1 .. n
      BY <1>1, <2>1
    <3>2. values[i + 2] \in Nat
      BY <1>1, <3>1
    <3>3. \A w \in Nat : w <= 255 => w \in 0 .. 255
      OBVIOUS
    <3> QED
      BY <2>1, <3>2, <3>3, Zenon
  <2>3. colour \in Int
    BY <2>2, ColoursTyped
  <2> HIDE DEF colour, v
  <2> QED
    BY <2>3, DirectRecolours
<1>5. s \in Recoloured(s)
  BY NothingRecoloured
<1> HIDE DEF rgb, colour
<1> QED
  BY <1>2, <1>3, <1>4, <1>5, Zenon DEF Rendition, n, v, rgb, colour

LEMMA TakenTyped ==
  ASSUME NEW values, NEW i
  PROVE  Taken(values, i) \in Nat
BY DEF Taken

\* All parameters, one after the other: what each of them keeps, they all keep.
LEMMA SgrStays ==
  ASSUME NEW s, NEW values \in Seq(Nat), NEW T, s \in T,
         \A t \in T, i \in 1 .. Len(values) : Rendition(t, values, i) \in T
  PROVE  sgr(s, values) \in T
<1> DEFINE S == [s : T, next : Nat]
           b == [s |-> s, next |-> 1]
           N == Len(Upwards(1, Len(values)))
           op(t, n) == Parameter(t, values, Upwards(1, Len(values))[n])
           F == [a \in S \X (1 .. N) |-> op(a[1], a[2])]
           Is(g) == g = [n \in 0 .. N |-> IF n = 0 THEN b ELSE op(g[n - 1], n)]
           f == CHOOSE g : Is(g)
<1>1. \A t \in S, n \in 1 .. N : op(t, n) \in S
  <2>1. SUFFICES ASSUME NEW t \in S, NEW n \in 1 .. N PROVE op(t, n) \in S
    OBVIOUS
  <2> DEFINE i == Upwards(1, Len(values))[n]
             u == Rendition(t.s, values, i)
  <2>2. i \in 1 .. Len(values)
    BY UpwardsAre
  <2>3. op(t, n) = IF i < t.next THEN t
                   ELSE [s |-> u, next |-> i + Taken(values, i)]
    BY DEF Parameter
  <2> HIDE DEF i, op
  <2>7. u \in T
    BY <2>2 DEF u
  <2>8. i + Taken(values, i) \in Nat
    BY <2>2, TakenTyped
  <2> HIDE DEF u
  <2> QED
    BY <2>3, <2>7, <2>8
<1>2. N \in Nat
  BY UpwardsAre
<1>3. b \in S
  OBVIOUS
<1>4. sgr(s, values) = f[N].s
  BY DEF sgr, Loop
<1> HIDE DEF S, N, op, b
<1>5. F \in [S \X (1 .. N) -> S] /\ \A t \in S, n \in 1 .. N : F[<< t, n >>] = op(t, n)
  BY <1>1
<1> HIDE DEF F, f
<1>6. PICK g : g \in States(F, b, N, S)
  BY <1>2, <1>3, <1>5, LoopExists
<1>7. Is(g)
  <2>1. /\ g \in [0 .. N -> S] /\ g[0] = b
        /\ \A n \in 1 .. N : g[n] = F[<< g[n - 1], n >>]
    BY <1>6 DEF States
  <2>2. \A n \in 1 .. N : n - 1 \in 0 .. N /\ g[n - 1] \in S
    BY <1>2, <2>1
  <2>3. \A n \in 1 .. N : g[n] = op(g[n - 1], n)
    BY <1>5, <2>1, <2>2
  <2>4. \A n \in 0 .. N : g[n] = IF n = 0 THEN b ELSE op(g[n - 1], n)
    BY <1>2, <2>1, <2>3
  <2>5. g = [n \in 0 .. N |-> g[n]]
    BY <2>1
  <2> QED
    BY <2>4, <2>5
<1>8. Is(f)
  <2> HIDE DEF Is
  <2> QED
    BY <1>7 DEF f
<1>9. f = [n \in 0 .. N |-> IF n = 0 THEN b ELSE op(f[n - 1], n)]
  BY <1>8
<1>10. f[0] = b /\ \A n \in 1 .. N : f[n] = op(f[n - 1], n)
  BY <1>2, <1>9
<1>11. \A n \in 0 .. N : f[n] \in S
  <2>1. \A n \in 1 .. N : f[n - 1] \in S => f[n] \in S
    BY <1>1, <1>10
  <2> QED
    BY <1>2, <1>3, <1>10, <2>1, LoopStays
<1>13. f[N] \in S
  BY <1>2, <1>11
<1> QED
  BY <1>4, <1>13 DEF S, N

\* What is painted stays painted.
LEMMA SgrRecolours ==
  ASSUME NEW s, IsTerminal(s), Painted(s), NEW values \in Seq(Nat)
  PROVE  sgr(s, values) \in Recoloured(s)
<1>1. s \in Recoloured(s)
  BY NothingRecoloured
<1>2. ASSUME NEW t \in Recoloured(s), NEW i \in 1 .. Len(values)
      PROVE  Rendition(t, values, i) \in Recoloured(s)
  <2>1. IsTerminal(t) /\ Painted(t)
    BY RecolouredFields
  <2>2. Rendition(t, values, i) \in Recoloured(t)
    BY <2>1, RenditionRecolours
  <2> QED
    BY <2>2, RecolouredTwice
<1> QED
  BY <1>1, <1>2, SgrStays

-----------------------------------------------------------------------------
(* Glyphs *)

\* What is printed is a place in the font.
LEMMA CodePointGlyph ==
  ASSUME NEW code, unicode_to_cp437(code) # -1
  PROVE  unicode_to_cp437(code) \in 0 .. 255
<1>1. CASE \E l \in 1 .. 31 : Cp437Low[l] = code
  <2> DEFINE k == CHOOSE place \in 1 .. 31 : Cp437Low[place] = code
  <2>1. k \in 1 .. 31
    BY <1>1
  <2>2. unicode_to_cp437(code) = k
    BY <1>1 DEF unicode_to_cp437
  <2> HIDE DEF k
  <2> QED
    BY <2>1, <2>2
<1>2. CASE ~\E l \in 1 .. 31 : Cp437Low[l] = code
  <2> DEFINE k == CHOOSE place \in 1 .. 128 : Cp437High[place] = code
  <2>1. \E l \in 1 .. 128 : Cp437High[l] = code
    BY <1>2 DEF unicode_to_cp437
  <2>2. k \in 1 .. 128
    BY <2>1
  <2>3. unicode_to_cp437(code) = 126 + k
    BY <1>2, <2>1 DEF unicode_to_cp437
  <2> HIDE DEF k
  <2> QED
    BY <2>2, <2>3
<1> QED
  BY <1>1, <1>2

LEMMA CodePointWidth ==
  ASSUME NEW code
  PROVE  mk_wcwidth(code) \in 0 .. 2
BY SMTT(30) DEF mk_wcwidth

LEMMA ByteGlyph ==
  ASSUME NEW b
  PROVE  GlyphOf(b) \in 0 .. 255
<1>1. CASE /\ ctx.charsets[ctx.current_charset] = "dec_special"
           /\ b \in DOMAIN DecSpecial
  <2> DEFINE k == CHOOSE place \in 1 .. 28 : DecSpecialFrom[place] = b
  <2>1. DOMAIN DecSpecialFrom = 1 .. 28
    BY DEF DecSpecialFrom
  <2>2. \E l \in 1 .. 28 : DecSpecialFrom[l] = b
    BY <1>1, <2>1 DEF DecSpecial, Range
  <2>3. k \in 1 .. 28
    BY <2>2
  <2>4. GlyphOf(b) = DecSpecialTo[k]
    BY <1>1 DEF GlyphOf, DecSpecial
  <2> HIDE DEF k
  <2>5. DecSpecialTo[k] \in 0 .. 255
    BY <2>3 DEF DecSpecialTo
  <2> QED
    BY <2>4, <2>5
<1>2. CASE /\ ~(/\ ctx.charsets[ctx.current_charset] = "dec_special"
                /\ b \in DOMAIN DecSpecial)
           /\ b \in DOMAIN Ascii
  <2> DEFINE k == CHOOSE place \in 1 .. 95 : Printable[place] = b
  <2>1. \E l \in 1 .. 95 : Printable[l] = b
    BY <1>2 DEF Ascii
  <2>2. k \in 1 .. 95
    BY <2>1
  <2>3. GlyphOf(b) = 31 + k
    BY <1>2 DEF GlyphOf, Ascii
  <2> HIDE DEF k
  <2> QED
    BY <2>2, <2>3
<1>3. CASE /\ ~(/\ ctx.charsets[ctx.current_charset] = "dec_special"
                /\ b \in DOMAIN DecSpecial)
           /\ b \notin DOMAIN Ascii
  BY <1>3 DEF GlyphOf, Unknown
<1> QED
  BY <1>1, <1>2, <1>3

-----------------------------------------------------------------------------
(* Steps of the parser.  What draws does not parse, and what parses does    *)
(* not draw.                                                               *)

Drawing ==
  {"grid", "queue", "map", "cursor_x", "cursor_y", "old_cursor_x", "old_cursor_y",
   "text_fg", "text_bg", "saved_text", "saved_state", "saved_cursor", "bold",
   "bg_bold", "reverse_video", "current_primary", "current_bg", "top", "bottom"}
Alike(s, t) ==
  /\ t = [field \in DOMAIN t |-> t[field]]
  /\ DOMAIN t = DOMAIN s
  /\ \A field \in Drawing : t[field] = s[field]
  /\ t.cursor_enabled \in BOOLEAN

LEMMA AlikeFields ==
  ASSUME NEW s, NEW t, Alike(s, t)
  PROVE  /\ t.grid = s.grid /\ t.queue = s.queue /\ t.map = s.map
         /\ t.cursor_x = s.cursor_x /\ t.cursor_y = s.cursor_y
         /\ t.old_cursor_x = s.old_cursor_x /\ t.old_cursor_y = s.old_cursor_y
         /\ t.text_fg = s.text_fg /\ t.text_bg = s.text_bg
         /\ t.saved_text = s.saved_text /\ t.saved_state = s.saved_state
         /\ t.saved_cursor = s.saved_cursor /\ t.bold = s.bold
         /\ t.bg_bold = s.bg_bold /\ t.reverse_video = s.reverse_video
         /\ t.current_primary = s.current_primary /\ t.current_bg = s.current_bg
         /\ t.top = s.top /\ t.bottom = s.bottom
BY DEF Alike, Drawing

LEMMA AlikeDraws ==
  ASSUME NEW s, IsTerminal(s), Drawable(s), NEW t, Alike(s, t)
  PROVE  IsTerminal(t) /\ Still(s, t) /\ Drawable(t)
<1>1. IsContext(t)
  BY AlikeFields DEF IsTerminal, IsContext, Alike
<1>2. IsTerminal(t)
  BY <1>1, AlikeFields DEF IsTerminal, Linked, Alike
<1>3. Still(s, t)
  BY AlikeFields DEF Still
<1>4. Painted(t)
  BY AlikeFields DEF Drawable, Steady, Painted
<1>5. Region(t) /\ Saved(t) /\ OnOrBelow(t)
  BY AlikeFields DEF Drawable, Steady, Region, Saved, OnOrBelow
<1> QED
  BY <1>2, <1>3, <1>4, <1>5 DEF Drawable, Steady

LEMMA PlacedDraws ==
  ASSUME NEW s, IsTerminal(s), Steady(s), NEW t \in Placed(s)
  PROVE  t \in Edited(s) /\ IsTerminal(t) /\ Still(s, t) /\ Drawable(t)
<1>1. t \in Edited(s)
  BY DEF Placed
<1>2. IsTerminal(t)
  BY <1>1, EditedFields
<1>3. t.cursor_x \in Nat /\ t.cursor_y \in Nat
  BY <1>2 DEF IsTerminal, IsContext
<1> QED
  BY <1>1, <1>3, EditedDraws, ScreenAssumption DEF Placed, OnOrBelow

LEMMA RewrittenDraws ==
  ASSUME NEW s, IsTerminal(s), Drawable(s), NEW t \in Rewritten(s)
  PROVE  t \in Edited(s) /\ IsTerminal(t) /\ Still(s, t) /\ Drawable(t)
<1>1. t \in Edited(s) /\ t.cursor_x = s.cursor_x /\ t.cursor_y = s.cursor_y
  BY DEF Rewritten
<1>2. t.bottom = s.bottom /\ t.saved_text = s.saved_text
  BY <1>1, EditedFields
<1>3. OnOrBelow(t)
  BY <1>1, <1>2 DEF Drawable, OnOrBelow
<1> QED
  BY <1>1, <1>3, EditedDraws DEF Drawable

LEMMA EditedParses ==
  ASSUME NEW s, IsTerminal(s), Parsing(s), NEW t \in Edited(s)
  PROVE  Parsing(t) /\ t.scroll_enabled = s.scroll_enabled /\ t.osc = s.osc
BY EditedFields DEF Parsing

-----------------------------------------------------------------------------
(* One byte *)

LEMMA FreshAlike ==
  ASSUME IsTerminal(ctx), Sound(ctx)
  PROVE  /\ Alike(ctx, Fresh) /\ Parsing(Fresh) /\ Fresh.scroll_enabled = TRUE
         /\ Fresh.unicode_remaining = 0
         /\ Fresh.escape = ctx.escape /\ Fresh.osc = ctx.osc
         /\ Fresh.control_sequence = ctx.control_sequence
         /\ Fresh.esc_values = ctx.esc_values
         /\ Fresh.esc_values_i = ctx.esc_values_i /\ Fresh.rrr = ctx.rrr
         /\ Fresh.g_select = ctx.g_select /\ Fresh.discard_next = ctx.discard_next
<1>1. Alike(ctx, Fresh)
  BY DEF Fresh, IsTerminal, IsContext, BufferFields, TerminalFields, Alike, Drawing
<1> QED
  BY <1>1 DEF Fresh, IsTerminal, IsContext, BufferFields, TerminalFields, Sound, Parsing

\* A byte that ends no character gives it up.
LEMMA FreshFollows ==
  ASSUME IsTerminal(ctx), Sound(ctx)
  PROVE  Follows(ctx, Fresh) /\ Editable(Fresh)
<1>1. Alike(ctx, Fresh) /\ Parsing(Fresh) /\ Fresh.scroll_enabled = TRUE
  BY FreshAlike
<1>2. IsTerminal(Fresh) /\ Still(ctx, Fresh) /\ Drawable(Fresh)
  BY <1>1, AlikeDraws DEF Sound
<1> QED
  BY <1>1, <1>2, SoundEditable DEF Follows, Sound, Drawable

\* A step of the parser alone.
LEMMA AlikeFollows ==
  ASSUME NEW s, IsTerminal(s), Drawable(s), NEW t, Alike(s, t), Parsing(t),
         t.scroll_enabled = TRUE
  PROVE  Follows(s, t)
BY AlikeDraws DEF Follows, Sound

LEMMA StillTwice ==
  ASSUME NEW s, NEW t, NEW u, Still(s, t), Still(t, u)
  PROVE  Still(s, u)
BY DEF Still

\* A step that draws, and parses nothing.
LEMMA DrawnFollows ==
  ASSUME IsTerminal(ctx), Sound(ctx), NEW t \in Edited(Fresh), IsTerminal(t),
         Still(Fresh, t), Drawable(t)
  PROVE  Follows(ctx, t)
<1>1. IsTerminal(Fresh) /\ Still(ctx, Fresh) /\ Sound(Fresh)
  BY FreshFollows DEF Follows
<1>2. Parsing(t) /\ t.scroll_enabled = TRUE
  BY <1>1, EditedParses DEF Sound
<1> QED
  BY <1>1, <1>2, StillTwice DEF Follows, Sound

\* Printing.
LEMMA TextDraws ==
  ASSUME NEW s, IsTerminal(s), Drawable(s), s.scroll_enabled = TRUE,
         NEW c \in 0 .. 255, NEW k \in Int
  PROVE  /\ Putchars(s, c, k) \in Edited(s)
         /\ IsTerminal(Putchars(s, c, k)) /\ Still(s, Putchars(s, c, k))
         /\ Drawable(Putchars(s, c, k))
<1>1. Editable(s) /\ Steady(s)
  BY SoundEditable DEF Drawable
<1>2. Putchars(s, c, k) \in Edited(s) /\ OnOrBelow(Putchars(s, c, k))
  BY <1>1, PutcharsEdit
<1> QED
  BY <1>1, <1>2, EditedDraws

LEMMA CancelFollows ==
  ASSUME IsTerminal(ctx), Sound(ctx), Cancel
  PROVE  Follows(ctx, ctx')
<1> DEFINE u == NoSequence([Fresh EXCEPT
                  !.discard_next = FALSE, !.escape = FALSE,
                  !.control_sequence = FALSE, !.osc = FALSE,
                  !.osc_escape = FALSE, !.g_select = 0])
<1>1. ctx' = u
  BY DEF Cancel, Takes
<1>2. Alike(ctx, u)
  BY ZenonT(60) DEF NoSequence, Fresh, IsTerminal, IsContext, BufferFields, TerminalFields,
         Alike, Drawing
<1>3. Parsing(u) /\ u.scroll_enabled = TRUE
  BY FlantermAssumption
  DEF NoSequence, NoValues, Fresh, IsTerminal, IsContext, BufferFields,
      TerminalFields, Sound, Parsing
<1> HIDE DEF u
<1>4. Follows(ctx, u)
  BY <1>2, <1>3, AlikeFollows DEF Sound
<1> QED
  BY <1>1, <1>4

LEMMA Utf8LeadFollows ==
  ASSUME IsTerminal(ctx), Sound(ctx), Utf8Lead
  PROVE  Follows(ctx, ctx')
<1> DEFINE b == HighByte[Byte]
           n == CASE b < \he0 -> 1 [] b \in \he0 .. \hef -> 2 [] b >= \hf0 -> 3
           code == (b % 2 ^ (6 - n)) * 64 ^ n
           u == [ctx EXCEPT !.unicode_remaining = n, !.code_point = code]
<1>1. ctx' = u /\ b \in \hc0 .. \hf7
  BY DEF Utf8Lead, Takes, Leads, IsHigh
<1> HIDE DEF b
<1>2. n \in 1 .. 3
  BY <1>1
<1> HIDE DEF n, code
<1>3. Alike(ctx, u)
  BY DEF IsTerminal, IsContext, BufferFields, TerminalFields, Alike, Drawing
<1>4. Parsing(u) /\ u.scroll_enabled = TRUE
  BY <1>2
  DEF IsTerminal, IsContext, BufferFields, TerminalFields, Sound, Parsing
<1> HIDE DEF u
<1>5. Follows(ctx, u)
  BY <1>3, <1>4, AlikeFollows DEF Sound
<1> QED
  BY <1>1, <1>5

LEMMA Utf8ContinueFollows ==
  ASSUME IsTerminal(ctx), Sound(ctx), Utf8Continue
  PROVE  Follows(ctx, ctx')
<1> DEFINE left == ctx.unicode_remaining - 1
           code == ctx.code_point + (HighByte[Byte] % 64) * 64 ^ left
           glyph == unicode_to_cp437(code)
           width == mk_wcwidth(code)
           u == [ctx EXCEPT !.unicode_remaining = left, !.code_point = code]
           t == raw_putchar(Fresh, Unknown)
<1>1. ctx.unicode_remaining \in 1 .. 3
  BY DEF Utf8Continue, Continues, Sound, Parsing
<1>2. \/ ctx' = u
      \/ glyph # -1 /\ ctx' = raw_putchar(Fresh, glyph)
      \/ ctx' = Fresh
      \/ width > 0 /\ ctx' = Putchars(t, Space, width - 1)
  BY DEF Utf8Continue, Takes
<1>3. Follows(ctx, u)
  <2>1. left \in 0 .. 3
    BY <1>1
  <2> HIDE DEF left, code
  <2>2. Alike(ctx, u)
    BY DEF IsTerminal, IsContext, BufferFields, TerminalFields, Alike, Drawing
  <2>3. Parsing(u) /\ u.scroll_enabled = TRUE
    BY <2>1 DEF IsTerminal, IsContext, BufferFields, TerminalFields, Sound, Parsing
  <2> HIDE DEF u
  <2> QED
    BY <2>2, <2>3, AlikeFollows DEF Sound
<1>4. /\ IsTerminal(Fresh) /\ Drawable(Fresh) /\ Fresh.scroll_enabled = TRUE
      /\ Follows(ctx, Fresh) /\ Editable(Fresh)
  BY FreshFollows DEF Follows, Sound
<1> HIDE DEF left, code
<1>5. ASSUME NEW c \in 0 .. 255
      PROVE  Follows(ctx, raw_putchar(Fresh, c))
  BY <1>4, PutcharDraws, DrawnFollows
<1>6. glyph # -1 => glyph \in 0 .. 255
  BY CodePointGlyph
<1>7. width \in 0 .. 2
  BY CodePointWidth
<1> HIDE DEF glyph, width
<1>8. /\ t \in Edited(Fresh) /\ IsTerminal(t) /\ Still(Fresh, t) /\ Drawable(t)
      /\ t.scroll_enabled = TRUE
  <2>1. Unknown \in 0 .. 255
    BY DEF Unknown
  <2> QED
    BY <1>4, <2>1, PutcharDraws
<1> HIDE DEF t
<1>9. Editable(t)
  BY <1>8, SoundEditable DEF Drawable
<1>10. width > 0 => Follows(ctx, Putchars(t, Space, width - 1))
  <2>1. SUFFICES ASSUME width > 0 PROVE Follows(ctx, Putchars(t, Space, width - 1))
    OBVIOUS
  <2> DEFINE k == width - 1
             v == Putchars(t, Space, k)
  <2>2. k \in Int
    BY <1>7, <2>1
  <2> HIDE DEF k
  <2>3. v \in Edited(t) /\ IsTerminal(v) /\ Still(t, v) /\ Drawable(v)
    <3>1. Space \in 0 .. 255
      BY DEF Space
    <3> HIDE DEF v
    <3>2. v = Putchars(t, Space, k)
      BY DEF v
    <3> QED
      BY <1>8, <2>2, <3>1, <3>2, TextDraws, Zenon
  <2> HIDE DEF v
  <2>4. v \in Edited(Fresh) /\ Still(Fresh, v)
    BY <1>4, <1>8, <2>3, EditedTwice, StillTwice
  <2>5. Follows(ctx, v)
    BY <2>3, <2>4, DrawnFollows
  <2> QED
    BY <2>5 DEF v, k
<1> QED
  BY <1>2, <1>3, <1>4, <1>5, <1>6, <1>10

LEMMA SelectCharsetFollows ==
  ASSUME IsTerminal(ctx), Sound(ctx), SelectCharset
  PROVE  Follows(ctx, ctx')
<1> DEFINE sets == [Fresh.charsets EXCEPT ![ctx.g_select] =
                      CASE Byte = "B" -> "default"
                        [] Byte = "0" -> "dec_special"
                        [] Byte \notin {"B", "0"} -> @]
           u == [Fresh EXCEPT !.g_select = 0, !.charsets = sets]
<1>1. ctx' = u /\ ~ctx.escape
  BY DEF SelectCharset, Takes
<1> HIDE DEF sets
<1>2. Alike(ctx, u)
  BY DEF Fresh, IsTerminal, IsContext, BufferFields, TerminalFields, Alike, Drawing
<1>3. Parsing(u) /\ u.scroll_enabled = TRUE
  BY <1>1
  DEF Fresh, IsTerminal, IsContext, BufferFields, TerminalFields, Sound, Parsing
<1> HIDE DEF u
<1>4. Follows(ctx, u)
  BY <1>2, <1>3, AlikeFollows DEF Sound
<1> QED
  BY <1>1, <1>4

LEMMA LineFeedPlaced ==
  ASSUME NEW s, Editable(s), NEW x \in Int
  PROVE  LineFeed(s, x) \in Placed(s)
<1> DEFINE y == Y(s)
<1>1. y \in Int /\ y + 1 \in Int
  BY CursorPlace, ScreenAssumption DEF Editable
<1>2. s \in Edited(s)
  BY NothingRewritten DEF Editable
<1>3. scroll(s) \in Edited(s)
  BY ScrollRewrites, RewrittenIsEdited DEF Editable
<1>4. LineFeed(s, x) = IF y = s.bottom - 1 THEN set_cursor_pos(scroll(s), x, y)
                       ELSE set_cursor_pos(s, x, y + 1)
  BY DEF LineFeed
<1> HIDE DEF y
<1>5. set_cursor_pos(scroll(s), x, y) \in Placed(s)
  BY <1>1, <1>3, SetAfterEdit
<1>6. set_cursor_pos(s, x, y + 1) \in Placed(s)
  BY <1>1, <1>2, SetAfterEdit
<1> QED
  BY <1>4, <1>5, <1>6

\* A step that edits, and leaves the cursor on the screen.
LEMMA PlacedFollows ==
  ASSUME IsTerminal(ctx), Sound(ctx), NEW t \in Placed(Fresh)
  PROVE  Follows(ctx, t)
<1>1. IsTerminal(Fresh) /\ Steady(Fresh)
  BY FreshFollows DEF Follows, Sound, Drawable
<1> QED
  BY <1>1, PlacedDraws, DrawnFollows

LEMMA ControlFollows ==
  ASSUME IsTerminal(ctx), Sound(ctx), Control
  PROVE  Follows(ctx, ctx')
<1> DEFINE x == X(ctx)
           y == Y(ctx)
           tab == (x \div 8) + 1
           e == [Fresh EXCEPT !.escape = TRUE, !.escape_offset = 0]
           o == [Fresh EXCEPT !.current_charset = 2]
           i == [Fresh EXCEPT !.current_charset = 1]
           h == IF tab >= cols THEN cols - 1 ELSE tab * 8
<1>1. x \in 0 .. cols - 1 /\ y \in 0 .. rows - 1
  BY CursorPlace
<1>2. /\ x - 1 \in Int /\ y \in Int /\ h \in Int
  <2>1. x \in Nat /\ y \in Int
    BY <1>1, ScreenAssumption
  <2> HIDE DEF x, y
  <2> QED
    BY <2>1, ScreenAssumption
<1>3. /\ \/ ctx' = Fresh
         \/ ctx' = e
         \/ ctx' = set_cursor_pos(Fresh, h, y)
         \/ ctx' = LineFeed(Fresh, 0)
         \/ ctx' = set_cursor_pos(Fresh, x - 1, y)
         \/ ctx' = set_cursor_pos(Fresh, 0, y)
         \/ ctx' = o
         \/ ctx' = i
      /\ ~ctx.escape /\ ctx.g_select = 0 /\ ~ctx.discard_next
  BY DEF Control, Takes, Text7bit, Parsed, Cancelled
<1> HIDE DEF x, y, tab, h
<1>4. Follows(ctx, Fresh) /\ Editable(Fresh)
  BY FreshFollows
<1>5. Fresh \in Edited(Fresh)
  BY <1>4, NothingRewritten DEF Editable
<1>6. ASSUME NEW u \in Int, NEW v \in Int
      PROVE  Follows(ctx, set_cursor_pos(Fresh, u, v))
  BY <1>4, <1>5, SetAfterEdit, PlacedFollows
<1>7. Follows(ctx, LineFeed(Fresh, 0))
  BY <1>4, LineFeedPlaced, PlacedFollows
<1>8. Follows(ctx, e)
  <2>1. Alike(ctx, e)
    BY DEF Fresh, IsTerminal, IsContext, BufferFields, TerminalFields, Alike, Drawing
  <2>2. Parsing(e) /\ e.scroll_enabled = TRUE
    BY <1>3
    DEF Fresh, IsTerminal, IsContext, BufferFields, TerminalFields, Sound, Parsing
  <2> HIDE DEF e
  <2> QED
    BY <2>1, <2>2, AlikeFollows DEF Sound
<1>9. Follows(ctx, o) /\ Follows(ctx, i)
  <2>1. Alike(ctx, o) /\ Alike(ctx, i)
    BY ZenonT(60) DEF Fresh, IsTerminal, IsContext, BufferFields, TerminalFields, Alike, Drawing
  <2>2. /\ Parsing(o) /\ o.scroll_enabled = TRUE
        /\ Parsing(i) /\ i.scroll_enabled = TRUE
    BY DEF Fresh, IsTerminal, IsContext, BufferFields, TerminalFields, Sound, Parsing
  <2> HIDE DEF o, i
  <2> QED
    BY <2>1, <2>2, AlikeFollows DEF Sound
<1> HIDE DEF e, o, i
<1> QED
  BY <1>2, <1>3, <1>4, <1>6, <1>7, <1>8, <1>9

LEMMA PrintedFollows ==
  ASSUME IsTerminal(ctx), Sound(ctx), Printed
  PROVE  Follows(ctx, ctx')
<1> DEFINE x == X(ctx)
           y == Y(ctx)
           p == Downwards(cols - 1, x)
           moved == MoveCharacters(Fresh, 1, y, p)
           room == IF ctx.insert_mode THEN moved ELSE Fresh
           c == GlyphOf(Byte)
           t == raw_putchar(room, c)
<1>1. ctx' = t
  BY DEF Printed, Takes
<1>2. x \in Nat /\ y \in Nat
  BY CursorPlace, ScreenAssumption
<1>3. FromColumns(p, 1)
  <2> DEFINE a == cols - 1
  <2>1. a \in Int /\ x \in Int
    BY <1>2, ScreenAssumption
  <2> HIDE DEF a, x
  <2>2. Len(Downwards(a, x)) \in Nat
        /\ \A n \in 1 .. Len(Downwards(a, x)) : Downwards(a, x)[n] \in x .. a
    BY <2>1, DownwardsAre
  <2>3. \A i \in x .. a : i \in Nat /\ i + 1 \in Nat
    BY <1>2, <2>1
  <2> QED
    BY <2>2, <2>3 DEF FromColumns, a
<1>4. c \in 0 .. 255
  BY ByteGlyph
<1> HIDE DEF x, y, p, c
<1>5. /\ IsTerminal(Fresh) /\ Drawable(Fresh) /\ Fresh.scroll_enabled = TRUE
      /\ Still(ctx, Fresh)
  BY FreshFollows DEF Follows, Sound
<1>6. moved \in Rewritten(Fresh)
  BY <1>2, <1>3, <1>5, MoveCharactersRewrite
<1>7. Fresh \in Rewritten(Fresh)
  BY <1>5, NothingRewritten
<1>8. room \in Rewritten(Fresh)
  BY <1>6, <1>7
<1> HIDE DEF moved, room
<1>9. /\ room \in Edited(Fresh) /\ IsTerminal(room) /\ Still(Fresh, room)
      /\ Drawable(room)
  BY <1>5, <1>8, RewrittenDraws
<1>10. room.scroll_enabled = TRUE
  BY <1>5, <1>9, EditedFields
<1>11. t \in Edited(room) /\ IsTerminal(t) /\ Still(room, t) /\ Drawable(t)
  BY <1>4, <1>9, <1>10, PutcharDraws
<1>12. t \in Edited(Fresh) /\ Still(Fresh, t)
  BY <1>5, <1>9, <1>11, EditedTwice, StillTwice
<1> HIDE DEF t
<1>13. Follows(ctx, t)
  BY <1>11, <1>12, DrawnFollows
<1> QED
  BY <1>1, <1>13

\* A byte of an escape sequence that has no other effect.
LEMMA EnteredFollows ==
  ASSUME IsTerminal(ctx), Sound(ctx)
  PROVE  /\ Follows(ctx, Entered) /\ Editable(Entered)
         /\ Alike(ctx, Entered)
         /\ Entered.escape = ctx.escape /\ Entered.osc = ctx.osc
         /\ Entered.control_sequence = ctx.control_sequence
         /\ Entered.esc_values = ctx.esc_values
         /\ Entered.esc_values_i = ctx.esc_values_i /\ Entered.rrr = ctx.rrr
         /\ Entered.g_select = ctx.g_select
         /\ Entered.discard_next = ctx.discard_next
<1>1. Alike(ctx, Entered)
  BY DEF Entered, Fresh, IsTerminal, IsContext, BufferFields, TerminalFields,
         Alike, Drawing
<1>2. Parsing(Entered) /\ Entered.scroll_enabled = TRUE
  BY DEF Entered, Fresh, IsTerminal, IsContext, BufferFields, TerminalFields,
         Sound, Parsing
<1>3. Follows(ctx, Entered)
  BY <1>1, <1>2, AlikeFollows DEF Sound
<1>4. Editable(Entered)
  BY <1>3, SoundEditable DEF Follows, Sound, Drawable
<1> QED
  BY <1>1, <1>3, <1>4
  DEF Entered, Fresh, IsTerminal, IsContext, BufferFields, TerminalFields

LEMMA OscFollows ==
  ASSUME IsTerminal(ctx), Sound(ctx), osc_parse
  PROVE  Follows(ctx, ctx')
<1> DEFINE e == [Entered EXCEPT !.osc_escape = TRUE]
           u == NoSequence([Entered EXCEPT !.osc_escape = FALSE, !.osc = FALSE,
                                           !.escape = FALSE])
<1>1. (ctx' = e \/ ctx' = u) /\ ctx.osc
  BY DEF osc_parse, Takes
<1>2. Alike(ctx, e) /\ Alike(ctx, u)
  BY ZenonT(60) DEF NoSequence, Entered, Fresh, IsTerminal, IsContext, BufferFields,
         TerminalFields, Alike, Drawing
<1>3. Parsing(e) /\ e.scroll_enabled = TRUE
  BY DEF Entered, Fresh, IsTerminal, IsContext, BufferFields, TerminalFields,
         Sound, Parsing
<1>4. Parsing(u) /\ u.scroll_enabled = TRUE
  BY <1>1, FlantermAssumption
  DEF NoSequence, NoValues, Entered, Fresh, IsTerminal, IsContext, BufferFields,
      TerminalFields, Sound, Parsing
<1> HIDE DEF e, u
<1>5. Follows(ctx, e) /\ Follows(ctx, u)
  BY <1>2, <1>3, <1>4, AlikeFollows DEF Sound
<1> QED
  BY <1>1, <1>5

\* The end of an escape sequence.
Closed(t) == NoSequence([t EXCEPT !.escape = FALSE])

\* The end of an escape sequence.
LEMMA ClosedFollows ==
  ASSUME NEW s, NEW t, IsTerminal(t), Drawable(t), Still(s, t),
         t.scroll_enabled = TRUE, t.unicode_remaining \in 0 .. 3,
         t.g_select \in 0 .. 2, ~t.osc, ~t.control_sequence
  PROVE  Follows(s, Closed(t))
<1> DEFINE u == Closed(t)
<1>1. Alike(t, u)
  BY DEF Closed, NoSequence, IsTerminal, IsContext, BufferFields, TerminalFields,
         Alike, Drawing
<1>2. Parsing(u) /\ u.scroll_enabled = TRUE
  BY FlantermAssumption
  DEF Closed, NoSequence, NoValues, IsTerminal, IsContext, BufferFields,
      TerminalFields, Parsing
<1> HIDE DEF u
<1>3. Follows(t, u)
  BY <1>1, <1>2, AlikeFollows
<1>4. Follows(s, u)
  BY <1>3, StillTwice DEF Follows
<1> QED
  BY <1>4 DEF u

\* What an escape sequence without parameters may do.
LEMMA EscapeEditFollows ==
  ASSUME IsTerminal(ctx), Sound(ctx), ~ctx.osc, ~ctx.control_sequence,
         NEW t \in Placed(Entered)
  PROVE  Follows(ctx, Closed(t))
<1>1. /\ IsTerminal(Entered) /\ Steady(Entered) /\ Still(ctx, Entered)
      /\ Parsing(Entered) /\ Entered.scroll_enabled = TRUE
      /\ ~Entered.osc /\ ~Entered.control_sequence
  BY EnteredFollows DEF Follows, Sound, Drawable
<1>2. t \in Edited(Entered) /\ IsTerminal(t) /\ Still(Entered, t) /\ Drawable(t)
  BY <1>1, PlacedDraws
<1>3. /\ t.scroll_enabled = TRUE /\ t.unicode_remaining \in 0 .. 3
      /\ t.g_select \in 0 .. 2 /\ ~t.osc /\ ~t.control_sequence
  BY <1>1, <1>2, EditedFields DEF Parsing
<1>4. Still(ctx, t)
  BY <1>1, <1>2, StillTwice
<1> QED
  BY <1>2, <1>3, <1>4, ClosedFollows

\* ESC 7 and ESC 8: the only other way below the screen is what was saved there.
LEMMA SaveFollows ==
  ASSUME IsTerminal(ctx), Sound(ctx), ~ctx.osc, ~ctx.control_sequence
  PROVE  Follows(ctx, Closed(SaveState(Entered)))
<1> DEFINE e == Entered
           t == SaveState(e)
<1>1. /\ IsTerminal(e) /\ Still(ctx, e)
      /\ Drawable(e) /\ Parsing(e) /\ e.scroll_enabled = TRUE
      /\ ~e.osc /\ ~e.control_sequence
  BY EnteredFollows DEF Follows, Sound
<1> HIDE DEF e
<1>2. /\ t.saved_text = << e.text_fg, e.text_bg, e.cursor_x, e.cursor_y >>
      /\ t.saved_state = << e.bold, e.bg_bold, e.reverse_video, e.current_charset,
                            e.current_primary, e.current_bg >>
  BY <1>1 DEF SaveState, save_state, IsTerminal, IsContext, BufferFields, TerminalFields
<1>3. /\ IsContext(t) /\ TerminalFields \subseteq DOMAIN t
      /\ t.queue = e.queue /\ t.map = e.map /\ Still(e, t)
  BY <1>1 DEF SaveState, save_state, IsTerminal, IsContext, BufferFields,
              TerminalFields, Still
<1>4. /\ t.text_fg = e.text_fg /\ t.text_bg = e.text_bg
      /\ t.cursor_x = e.cursor_x /\ t.cursor_y = e.cursor_y
      /\ t.saved_cursor = e.saved_cursor /\ t.bold = e.bold
      /\ t.bg_bold = e.bg_bold /\ t.reverse_video = e.reverse_video
      /\ t.current_primary = e.current_primary /\ t.current_bg = e.current_bg
      /\ t.top = e.top /\ t.bottom = e.bottom
      /\ t.scroll_enabled = e.scroll_enabled
      /\ t.unicode_remaining = e.unicode_remaining /\ t.g_select = e.g_select
      /\ t.osc = e.osc /\ t.control_sequence = e.control_sequence
  BY <1>1 DEF SaveState, save_state, IsTerminal, IsContext, BufferFields, TerminalFields
<1> HIDE DEF t
<1>5. IsTerminal(t)
  BY <1>1, <1>3 DEF IsTerminal, Linked
<1>6. e.cursor_x \in Nat /\ e.cursor_y \in Nat
  BY <1>1 DEF IsTerminal, IsContext
<1>7. Painted(t)
  BY <1>1, <1>2, <1>4 DEF Drawable, Steady, Painted
<1>8. Region(t) /\ Saved(t) /\ OnOrBelow(t)
  BY <1>1, <1>2, <1>4, <1>6, ScreenAssumption
  DEF Drawable, Steady, Region, Saved, OnOrBelow
<1>9. Still(ctx, t)
  BY <1>1, <1>3, StillTwice
<1>10. Follows(ctx, Closed(t))
  BY <1>1, <1>4, <1>5, <1>7, <1>8, <1>9, ClosedFollows DEF Drawable, Steady, Parsing
<1> QED
  BY <1>10 DEF t, e

LEMMA RestoreFollows ==
  ASSUME IsTerminal(ctx), Sound(ctx), ~ctx.osc, ~ctx.control_sequence
  PROVE  Follows(ctx, Closed(RestoreState(Entered)))
<1> DEFINE e == Entered
           t == RestoreState(e)
<1>1. /\ IsTerminal(e) /\ Still(ctx, e)
      /\ Drawable(e) /\ Parsing(e) /\ e.scroll_enabled = TRUE
      /\ ~e.osc /\ ~e.control_sequence
  BY EnteredFollows DEF Follows, Sound
<1> HIDE DEF e
<1>2. /\ t.text_fg = e.saved_text[1] /\ t.text_bg = e.saved_text[2]
      /\ t.cursor_x = e.saved_text[3] /\ t.cursor_y = e.saved_text[4]
      /\ t.bold = e.saved_state[1] /\ t.bg_bold = e.saved_state[2]
      /\ t.reverse_video = e.saved_state[3]
      /\ t.current_primary = e.saved_state[5] /\ t.current_bg = e.saved_state[6]
  BY <1>1 DEF RestoreState, restore_state, IsTerminal, IsContext, BufferFields,
              TerminalFields
<1>3. /\ TerminalFields \subseteq DOMAIN t
      /\ t = [field \in DOMAIN t |-> t[field]] /\ DOMAIN t = DOMAIN e
      /\ t.queue = e.queue /\ t.map = e.map /\ Still(e, t) /\ t.grid = e.grid
      /\ t.cursor_enabled = e.cursor_enabled
  BY <1>1 DEF RestoreState, restore_state, IsTerminal, IsContext, BufferFields,
              TerminalFields, Still
<1>4. /\ t.saved_text = e.saved_text /\ t.saved_state = e.saved_state
      /\ t.saved_cursor = e.saved_cursor
      /\ t.top = e.top /\ t.bottom = e.bottom
      /\ t.scroll_enabled = e.scroll_enabled
      /\ t.unicode_remaining = e.unicode_remaining /\ t.g_select = e.g_select
      /\ t.osc = e.osc /\ t.control_sequence = e.control_sequence
  BY <1>1 DEF RestoreState, restore_state, IsTerminal, IsContext, BufferFields,
              TerminalFields
<1> HIDE DEF t
<1>5. e.saved_text[3] \in 0 .. cols /\ e.saved_text[4] \in Nat
  BY <1>1 DEF Drawable, Steady, Saved
<1>6. t.cursor_x \in Nat /\ t.cursor_y \in Nat
  BY <1>2, <1>5, ScreenAssumption
<1>7. IsContext(t)
  BY <1>1, <1>3, <1>6 DEF IsTerminal, IsContext, Still
<1>8. IsTerminal(t)
  BY <1>1, <1>3, <1>7 DEF IsTerminal, Linked
<1>9. Painted(t)
  BY <1>1, <1>2, <1>4 DEF Drawable, Steady, Painted
<1>10. Region(t) /\ Saved(t) /\ OnOrBelow(t)
  BY <1>1, <1>2, <1>4, <1>5, ScreenAssumption
  DEF Drawable, Steady, Region, Saved, OnOrBelow
<1>11. Still(ctx, t)
  BY <1>1, <1>3, StillTwice
<1>12. Follows(ctx, Closed(t))
  BY <1>1, <1>4, <1>8, <1>9, <1>10, <1>11, ClosedFollows
  DEF Drawable, Steady, Parsing
<1> QED
  BY <1>12 DEF t, e

\* A reset: the cells and the cursor go, what was saved stays.
LEMMA ResetFields ==
  ASSUME NEW s, IsTerminal(s), Drawable(s), Parsing(s)
  PROVE  /\ IsTerminal(reinit(s)) /\ Still(s, reinit(s)) /\ Steady(reinit(s))
         /\ reinit(s).scroll_enabled = TRUE /\ reinit(s).unicode_remaining = 0
         /\ reinit(s).g_select = 0 /\ reinit(s).osc = FALSE
         /\ reinit(s).control_sequence = FALSE
<1> DEFINE t == reinit(s)
           D == DOMAIN s \cup DOMAIN Reinit
<1>1. /\ t = [field \in DOMAIN t |-> t[field]] /\ TerminalFields \subseteq DOMAIN t
  BY DEF reinit, IsTerminal
<1>2. /\ t.grid = s.grid /\ t.queue = s.queue /\ t.map = s.map
      /\ t.cursor_x = s.cursor_x /\ t.cursor_y = s.cursor_y
      /\ t.old_cursor_x = s.old_cursor_x /\ t.old_cursor_y = s.old_cursor_y
      /\ t.text_fg = s.text_fg /\ t.text_bg = s.text_bg
      /\ t.saved_text = s.saved_text /\ t.saved_state = s.saved_state
  BY DEF reinit, Reinit, IsTerminal, TerminalFields, BufferFields
<1>3. /\ t.cursor_enabled = TRUE /\ t.scroll_enabled = TRUE
      /\ t.control_sequence = FALSE /\ t.osc = FALSE
      /\ t.bold = FALSE /\ t.bg_bold = FALSE /\ t.reverse_video = FALSE
      /\ t.unicode_remaining = 0 /\ t.g_select = 0
      /\ t.saved_cursor = << 0, 0 >> /\ t.current_primary = None
      /\ t.current_bg = None /\ t.top = 0 /\ t.bottom = rows
  BY DEF reinit, Reinit
<1> HIDE DEF t
<1>4. IsContext(t)
  BY <1>1, <1>2, <1>3 DEF IsTerminal, IsContext, TerminalFields
<1>5. IsTerminal(t) /\ Still(s, t)
  BY <1>1, <1>2, <1>4 DEF IsTerminal, Linked, Still
<1>6. Painted(t)
  <2>1. Painted(s)
    BY DEF Drawable, Steady
  <2>2. None \in Colours
    BY DEF None, Colours
  <2>3. /\ t.text_fg \in Int /\ t.text_bg \in Int
        /\ t.saved_text[1] \in Int /\ t.saved_text[2] \in Int
        /\ t.saved_state[5] \in Colours /\ t.saved_state[6] \in Colours
        /\ t.saved_state[1] \in BOOLEAN /\ t.saved_state[2] \in BOOLEAN
        /\ t.saved_state[3] \in BOOLEAN
    BY <1>2, <2>1 DEF Painted
  <2>4. /\ t.current_primary \in Colours /\ t.current_bg \in Colours
        /\ t.bold \in BOOLEAN /\ t.bg_bold \in BOOLEAN /\ t.reverse_video \in BOOLEAN
    BY <1>3, <2>2
  <2> QED
    BY <2>3, <2>4 DEF Painted
<1>7. Region(t) /\ Saved(t)
  BY <1>2, <1>3, ScreenAssumption DEF Drawable, Steady, Region, Saved
<1> QED
  BY <1>3, <1>5, <1>6, <1>7 DEF t, Steady

LEMMA ResetFollows ==
  ASSUME IsTerminal(ctx), Sound(ctx)
  PROVE  Follows(ctx, Closed(clear(reinit(Entered), TRUE)))
<1> DEFINE e == Entered
           r == reinit(e)
           t == clear(r, TRUE)
<1>1. IsTerminal(e) /\ Still(ctx, e) /\ Drawable(e) /\ Parsing(e)
  BY EnteredFollows DEF Follows, Sound
<1> HIDE DEF e
<1>2. /\ IsTerminal(r) /\ Still(e, r) /\ Steady(r) /\ Editable(r)
      /\ r.scroll_enabled = TRUE /\ r.unicode_remaining = 0
      /\ r.g_select = 0 /\ r.osc = FALSE /\ r.control_sequence = FALSE
  BY <1>1, ResetFields, SoundEditable
<1> HIDE DEF r
<1>3. t \in Edited(r) /\ t.cursor_x = 0 /\ t.cursor_y = 0
  BY <1>2, ClearEdits
<1> HIDE DEF t
<1>4. OnOrBelow(t)
  BY <1>3, ScreenAssumption DEF OnOrBelow
<1>5. IsTerminal(t) /\ Still(r, t) /\ Drawable(t)
  BY <1>2, <1>3, <1>4, EditedDraws
<1>6. /\ t.scroll_enabled = TRUE /\ t.unicode_remaining \in 0 .. 3
      /\ t.g_select \in 0 .. 2 /\ ~t.osc /\ ~t.control_sequence
  BY <1>2, <1>3, EditedFields
<1>7. Still(ctx, t)
  BY <1>1, <1>2, <1>5, StillTwice
<1>8. Follows(ctx, Closed(t))
  BY <1>5, <1>6, <1>7, ClosedFollows
<1> QED
  BY <1>8 DEF t, r, e

LEMMA EscapeFollows ==
  ASSUME IsTerminal(ctx), Sound(ctx), escape_parse
  PROVE  Follows(ctx, ctx')
<1> DEFINE x == X(ctx)
           y == Y(ctx)
           o == [Entered EXCEPT !.osc = TRUE, !.osc_escape = FALSE]
           c == [Entered EXCEPT !.control_sequence = TRUE, !.esc_values = NoValues,
                                !.esc_values_i = 0, !.rrr = FALSE]
           g(n) == [Entered EXCEPT !.g_select = n]
           up == IF y = ctx.top THEN set_cursor_pos(revscroll(Entered), 0, y)
                 ELSE set_cursor_pos(Entered, 0, y - 1)
<1>1. /\ \/ ctx' = o
         \/ ctx' = c
         \/ ctx' = Closed(SaveState(Entered))
         \/ ctx' = Closed(RestoreState(Entered))
         \/ ctx' = Closed(clear(reinit(Entered), TRUE))
         \/ ctx' = Closed(LineFeed(Entered, x))
         \/ ctx' = Closed(LineFeed(Entered, 0))
         \/ ctx' = Closed(up)
         \/ ctx' = Closed(g(1))
         \/ ctx' = Closed(g(2))
         \/ ctx' = Closed(Entered)
      /\ ctx.escape /\ ~ctx.osc /\ ~ctx.control_sequence
  BY DEF escape_parse, Ended, Takes, Sequence, Closed
<1>2. x \in Int /\ y \in Int /\ y - 1 \in Int
  <2>1. x \in Int /\ y \in Int
    BY CursorPlace, ScreenAssumption
  <2> HIDE DEF x, y
  <2> QED
    BY <2>1
<1> HIDE DEF x, y
<1>3. /\ Editable(Entered) /\ IsTerminal(Entered) /\ Drawable(Entered)
      /\ Parsing(Entered) /\ Still(ctx, Entered) /\ Entered.scroll_enabled = TRUE
      /\ ~Entered.osc /\ ~Entered.control_sequence
  BY <1>1, EnteredFollows DEF Follows, Sound
<1>4. Follows(ctx, o)
  <2>1. Alike(ctx, o)
    BY DEF Entered, Fresh, IsTerminal, IsContext, BufferFields, TerminalFields,
           Alike, Drawing
  <2>2. Parsing(o) /\ o.scroll_enabled = TRUE
    BY <1>1 DEF Entered, Fresh, IsTerminal, IsContext, BufferFields,
                TerminalFields, Sound, Parsing
  <2> HIDE DEF o
  <2> QED
    BY <2>1, <2>2, AlikeFollows DEF Sound
<1>5. Follows(ctx, c)
  <2>1. Alike(ctx, c)
    BY DEF Entered, Fresh, IsTerminal, IsContext, BufferFields, TerminalFields,
           Alike, Drawing
  <2>2. Parsing(c) /\ c.scroll_enabled = TRUE
    BY <1>1, FlantermAssumption
    DEF NoValues, Entered, Fresh, IsTerminal, IsContext, BufferFields,
        TerminalFields, Sound, Parsing
  <2> HIDE DEF c
  <2> QED
    BY <2>1, <2>2, AlikeFollows DEF Sound
<1>6. /\ Follows(ctx, Closed(SaveState(Entered)))
      /\ Follows(ctx, Closed(RestoreState(Entered)))
      /\ Follows(ctx, Closed(clear(reinit(Entered), TRUE)))
  BY <1>1, SaveFollows, RestoreFollows, ResetFollows
<1>7. /\ Follows(ctx, Closed(LineFeed(Entered, x)))
      /\ Follows(ctx, Closed(LineFeed(Entered, 0)))
  BY <1>1, <1>2, <1>3, LineFeedPlaced, EscapeEditFollows
<1>8. Follows(ctx, Closed(up))
  <2>1. revscroll(Entered) \in Edited(Entered) /\ Entered \in Edited(Entered)
    BY <1>3, RevscrollRewrites, RewrittenIsEdited, NothingRewritten DEF Editable
  <2>2. up \in Placed(Entered)
    BY <1>2, <1>3, <2>1, SetAfterEdit
  <2> HIDE DEF up
  <2> QED
    BY <1>1, <2>2, EscapeEditFollows
<1>9. ASSUME NEW n \in 1 .. 2
      PROVE  Follows(ctx, Closed(g(n)))
  <2> DEFINE t == g(n)
  <2>1. Alike(Entered, t)
    BY <1>3 DEF IsTerminal, IsContext, BufferFields, TerminalFields, Alike, Drawing
  <2>2. /\ t.scroll_enabled = TRUE /\ t.unicode_remaining \in 0 .. 3
        /\ t.g_select \in 0 .. 2 /\ ~t.osc /\ ~t.control_sequence
    BY <1>3 DEF IsTerminal, IsContext, BufferFields, TerminalFields, Parsing
  <2> HIDE DEF t
  <2>3. IsTerminal(t) /\ Drawable(t) /\ Still(ctx, t)
    BY <1>3, <2>1, AlikeDraws, StillTwice
  <2>4. Follows(ctx, Closed(t))
    BY <2>2, <2>3, ClosedFollows
  <2> QED
    BY <2>4 DEF t
<1>10. Follows(ctx, Closed(Entered))
  BY <1>3, ClosedFollows DEF Parsing
<1>11. Follows(ctx, Closed(g(1))) /\ Follows(ctx, Closed(g(2)))
  BY <1>9
<1> HIDE DEF o, c, g, up
<1> QED
  BY <1>1, <1>4, <1>5, <1>6, <1>7, <1>8, <1>10, <1>11

LEMMA MarkFollows ==
  ASSUME IsTerminal(ctx), Sound(ctx), Mark
  PROVE  Follows(ctx, ctx')
<1> DEFINE u == [SequenceEnded(Entered) EXCEPT !.discard_next = TRUE]
           t == [Entered EXCEPT !.dec_private = TRUE]
<1>1. (ctx' = u \/ ctx' = t) /\ ~ctx.osc /\ ctx.escape
  BY DEF Mark, Takes, ControlSequence, Sequence
<1>2. Alike(ctx, u) /\ Alike(ctx, t)
  BY ZenonT(60) DEF SequenceEnded, NoSequence, Entered, Fresh, IsTerminal, IsContext,
         BufferFields, TerminalFields, Alike, Drawing
<1>3. Parsing(u) /\ u.scroll_enabled = TRUE
  BY <1>1, FlantermAssumption
  DEF SequenceEnded, NoSequence, NoValues, Entered, Fresh, IsTerminal, IsContext,
      BufferFields, TerminalFields, Sound, Parsing
<1>4. Parsing(t) /\ t.scroll_enabled = TRUE
  BY DEF Entered, Fresh, IsTerminal, IsContext, BufferFields, TerminalFields,
         Sound, Parsing
<1> HIDE DEF u, t
<1>5. Follows(ctx, u) /\ Follows(ctx, t)
  BY <1>2, <1>3, <1>4, AlikeFollows DEF Sound
<1> QED
  BY <1>1, <1>5

LEMMA DigitFollows ==
  ASSUME IsTerminal(ctx), Sound(ctx), Digit
  PROVE  Follows(ctx, ctx')
<1> DEFINE k == CHOOSE k \in 1 .. 10 : Digits[k] = Byte
           i == ctx.esc_values_i + 1
           values == [Entered.esc_values EXCEPT ![i] = (@ * 10 + k - 1) % ValueWrap]
           u == [Entered EXCEPT !.rrr = TRUE, !.esc_values = values]
<1>1. /\ \/ ctx' = Entered
         \/ ctx.esc_values_i # FLANTERM_MAX_ESC_VALUES /\ ctx' = u
      /\ \E l \in 1 .. 10 : Digits[l] = Byte
  <2>1. /\ ControlSequence /\ Byte \in Range(Digits)
        /\ \/ ctx' = Entered
           \/ ctx.esc_values_i # FLANTERM_MAX_ESC_VALUES /\ ctx' = u
    BY DEF Digit, Takes
  <2>2. DOMAIN Digits = 1 .. 10
    BY DEF Digits
  <2>3. \E l \in 1 .. 10 : Digits[l] = Byte
    BY <2>1, <2>2 DEF Range
  <2> QED
    BY <2>1, <2>3
<1>2. k \in 1 .. 10
  BY <1>1
<1>3. Follows(ctx, Entered)
  BY EnteredFollows
<1>4. ctx.esc_values_i # FLANTERM_MAX_ESC_VALUES => Follows(ctx, u)
  <2>1. SUFFICES ASSUME ctx.esc_values_i # FLANTERM_MAX_ESC_VALUES
                 PROVE  Follows(ctx, u)
    OBVIOUS
  <2>2. /\ Entered.esc_values \in [1 .. FLANTERM_MAX_ESC_VALUES -> Nat]
        /\ ctx.esc_values_i < FLANTERM_MAX_ESC_VALUES /\ ctx.esc_values_i \in Nat
    <3>1. /\ ctx.esc_values \in [1 .. FLANTERM_MAX_ESC_VALUES -> Nat]
          /\ ctx.esc_values_i \in Nat
          /\ ctx.esc_values_i <= FLANTERM_MAX_ESC_VALUES
      BY DEF Sound, Parsing
    <3>2. Entered.esc_values = ctx.esc_values
      BY EnteredFollows
    <3> QED
      BY <2>1, <3>1, <3>2, FlantermAssumption
  <2>3. i \in 1 .. FLANTERM_MAX_ESC_VALUES
    BY <2>2, FlantermAssumption
  <2> HIDE DEF k, i
  <2>4. values \in [1 .. FLANTERM_MAX_ESC_VALUES -> Nat]
    <3>1. Entered.esc_values[i] \in Nat
      BY <2>2, <2>3
    <3>2. Entered.esc_values[i] * 10 + k - 1 \in Nat
      BY <1>2, <3>1
    <3>3. \A n \in Nat : n % ValueWrap \in Nat
      BY FlantermAssumption
    <3>4. (Entered.esc_values[i] * 10 + k - 1) % ValueWrap \in Nat
      BY <3>2, <3>3
    <3> QED
      BY <2>2, <2>3, <3>4
  <2> HIDE DEF values
  <2>5. Alike(ctx, u)
    BY DEF Entered, Fresh, IsTerminal, IsContext, BufferFields, TerminalFields,
           Alike, Drawing
  <2>6. Parsing(u) /\ u.scroll_enabled = TRUE
    BY <2>2, <2>4 DEF Entered, Fresh, IsTerminal, IsContext, BufferFields,
                      TerminalFields, Sound, Parsing
  <2> HIDE DEF u
  <2> QED
    BY <2>5, <2>6, AlikeFollows DEF Sound
<1> HIDE DEF u
<1> QED
  BY <1>1, <1>3, <1>4

LEMMA SeparatorFollows ==
  ASSUME IsTerminal(ctx), Sound(ctx), Separator
  PROVE  Follows(ctx, ctx')
<1> DEFINE m == Clamp(Entered.esc_values_i + 1, FLANTERM_MAX_ESC_VALUES + 1)
           u == [Entered EXCEPT !.rrr = FALSE, !.esc_values_i = m]
<1>1. ctx' = u
  BY DEF Separator, Takes
<1>2. m \in Nat /\ m <= FLANTERM_MAX_ESC_VALUES
  <2> DEFINE i == Entered.esc_values_i + 1
             n == FLANTERM_MAX_ESC_VALUES + 1
  <2>1. ctx.esc_values_i \in Nat
    BY DEF Sound, Parsing
  <2>2. Entered.esc_values_i = ctx.esc_values_i
    BY EnteredFollows
  <2>3. i \in Int /\ n \in Nat \ {0}
    BY <2>1, <2>2, FlantermAssumption
  <2>4. m = Clamp(i, n)
    OBVIOUS
  <2> HIDE DEF i, n, m
  <2>5. m \in 0 .. n - 1
    BY <2>3, <2>4, ClampIn
  <2> QED
    BY <2>5, FlantermAssumption DEF n
<1> HIDE DEF m
<1>3. Alike(ctx, u)
  BY DEF Entered, Fresh, IsTerminal, IsContext, BufferFields, TerminalFields,
         Alike, Drawing
<1>4. Parsing(u) /\ u.scroll_enabled = TRUE
  BY <1>2 DEF Entered, Fresh, IsTerminal, IsContext, BufferFields,
              TerminalFields, Sound, Parsing
<1> HIDE DEF u
<1>5. Follows(ctx, u)
  BY <1>3, <1>4, AlikeFollows DEF Sound
<1> QED
  BY <1>1, <1>5

LEMMA PrivateFollows ==
  ASSUME IsTerminal(ctx), Sound(ctx), dec_private_parse
  PROVE  Follows(ctx, ctx')
<1> DEFINE on == IF Given > 0 /\ P[1] = 25 /\ Byte \in {"h", "l"}
                   THEN Byte = "h" ELSE Entered.cursor_enabled
           u == SequenceEnded([Entered EXCEPT !.dec_private = FALSE,
                                              !.cursor_enabled = on])
<1>1. ctx' = u /\ ~ctx.osc /\ ctx.escape
  BY DEF dec_private_parse, Takes, Final, ControlSequence, Sequence
<1>2. on \in BOOLEAN
  <2>1. Entered.cursor_enabled \in BOOLEAN
    BY EnteredFollows DEF Alike
  <2> QED
    BY <2>1
<1> HIDE DEF on
<1>3. Alike(ctx, u)
  BY ZenonT(60), <1>2
  DEF SequenceEnded, NoSequence, Entered, Fresh, IsTerminal, IsContext,
      BufferFields, TerminalFields, Alike, Drawing
<1>4. Parsing(u) /\ u.scroll_enabled = TRUE
  BY <1>1, FlantermAssumption
  DEF SequenceEnded, NoSequence, NoValues, Entered, Fresh, IsTerminal, IsContext,
      BufferFields, TerminalFields, Sound, Parsing
<1> HIDE DEF u
<1>5. Follows(ctx, u)
  BY <1>3, <1>4, AlikeFollows DEF Sound
<1> QED
  BY <1>1, <1>5

-----------------------------------------------------------------------------
(* The commands *)

\* What was given and what is taken for granted.
LEMMA ParametersTyped ==
  ASSUME IsTerminal(ctx), Sound(ctx)
  PROVE  /\ Given \in 0 .. FLANTERM_MAX_ESC_VALUES
         /\ P \in [1 .. FLANTERM_MAX_ESC_VALUES -> Nat]
         /\ P[1] \in Nat /\ P[2] \in Nat
<1>1. Given \in 0 .. FLANTERM_MAX_ESC_VALUES
  BY FlantermAssumption DEF Given, Sound, Parsing
<1>2. ctx.esc_values \in [1 .. FLANTERM_MAX_ESC_VALUES -> Nat]
  BY DEF Sound, Parsing
<1>3. P \in [1 .. FLANTERM_MAX_ESC_VALUES -> Nat]
  <2> DEFINE g == Given
  <2>1. g \in Int
    BY <1>1, FlantermAssumption
  <2> HIDE DEF g
  <2>2. P = [i \in 1 .. FLANTERM_MAX_ESC_VALUES |->
               CASE i <= g -> ctx.esc_values[i]
                 [] i > g -> IF Byte \in {"J", "K", "q"} THEN 0 ELSE 1]
    BY DEF P, g
  <2>3. ASSUME NEW i \in 1 .. FLANTERM_MAX_ESC_VALUES
        PROVE  P[i] \in Nat
    <3>1. ctx.esc_values[i] \in Nat
      BY <1>2
    <3>2. i <= g \/ i > g
      BY <2>1
    <3> QED
      BY <2>2, <3>1, <3>2
  <2> HIDE DEF P
  <2> QED
    BY <2>2, <2>3
<1>4. 1 \in 1 .. FLANTERM_MAX_ESC_VALUES /\ 2 \in 1 .. FLANTERM_MAX_ESC_VALUES
  BY FlantermAssumption
<1> QED
  BY <1>1, <1>3, <1>4

\* While a command is carried out only the scrolling is off.
LEMMA DuringFields ==
  ASSUME IsTerminal(ctx), Sound(ctx), Command
  PROVE  /\ IsTerminal(During) /\ Still(ctx, During) /\ Drawable(During)
         /\ Editable(During) /\ Parsing(During) /\ During.osc = FALSE
<1>1. Alike(ctx, During) /\ Parsing(During)
  <2>1. Alike(ctx, During)
    BY DEF During, Entered, Fresh, IsTerminal, IsContext, BufferFields,
           TerminalFields, Alike, Drawing
  <2>2. Parsing(During)
    BY DEF During, Entered, Fresh, IsTerminal, IsContext, BufferFields,
           TerminalFields, Sound, Parsing
  <2> QED
    BY <2>1, <2>2
<1>2. ~ctx.osc /\ During.osc = ctx.osc
  BY DEF During, Entered, Fresh, IsTerminal, IsContext, BufferFields,
         TerminalFields, Command, Final, ControlSequence, Sequence
<1>3. IsTerminal(During) /\ Still(ctx, During) /\ Drawable(During)
  BY <1>1, AlikeDraws DEF Sound
<1> QED
  BY <1>1, <1>2, <1>3, SoundEditable DEF Drawable

\* The end of a command.
LEMMA DoneFollows ==
  ASSUME IsTerminal(ctx), Sound(ctx), NEW t, IsTerminal(t), Drawable(t),
         Still(ctx, t), Parsing(t), ~t.osc, Done(t)
  PROVE  Follows(ctx, ctx')
<1> DEFINE u == SequenceEnded([t EXCEPT !.scroll_enabled = ctx.scroll_enabled])
<1>1. ctx' = u
  BY DEF Done, Takes
<1>2. Alike(t, u)
  BY ZenonT(60) DEF SequenceEnded, NoSequence, IsTerminal, IsContext, BufferFields,
         TerminalFields, Alike, Drawing
<1>3. Parsing(u) /\ u.scroll_enabled = TRUE
  BY FlantermAssumption
  DEF SequenceEnded, NoSequence, NoValues, IsTerminal, IsContext, BufferFields,
      TerminalFields, Parsing, Sound
<1> HIDE DEF u
<1>4. Follows(t, u)
  BY <1>2, <1>3, AlikeFollows
<1> QED
  BY <1>1, <1>4, StillTwice DEF Follows

\* A command that edits the text.
LEMMA EditFollows ==
  ASSUME IsTerminal(ctx), Sound(ctx), Command,
         NEW t \in Placed(During) \cup Rewritten(During), Done(t)
  PROVE  Follows(ctx, ctx')
<1>1. /\ IsTerminal(During) /\ Still(ctx, During) /\ Drawable(During)
      /\ Steady(During) /\ Parsing(During) /\ During.osc = FALSE
  BY DuringFields DEF Drawable
<1>2. t \in Edited(During) /\ IsTerminal(t) /\ Still(During, t) /\ Drawable(t)
  BY <1>1, PlacedDraws, RewrittenDraws
<1>3. Parsing(t) /\ ~t.osc /\ Still(ctx, t)
  BY <1>1, <1>2, EditedParses, StillTwice
<1> QED
  BY <1>2, <1>3, DoneFollows

LEMMA LinesTyped ==
  ASSUME IsTerminal(ctx), Sound(ctx), NEW y \in Int, NEW n \in Nat
  PROVE  LineAbove(y, n) \in Int /\ LineBelow(y, n) \in Int
<1>1. ctx.top \in Int /\ ctx.bottom \in Int
  BY DEF Sound, Drawable, Steady, Region
<1>2. Clamp(y - n, rows) \in Int /\ Clamp(y + n, rows) \in Int
  BY ScreenAssumption DEF Clamp
<1> QED
  BY <1>1, <1>2 DEF LineAbove, LineBelow

LEMMA MoveFollows ==
  ASSUME IsTerminal(ctx), Sound(ctx), MoveTo
  PROVE  Follows(ctx, ctx')
<1>1. Command /\ \E u \in Int, v \in Int : To(u, v)
  <2> DEFINE x == X(ctx)
             y == Y(ctx)
             p == P[1]
             q == P[2]
  <2>1. x \in Int /\ y \in Int
    BY CursorPlace, ScreenAssumption
  <2>2. p \in Nat /\ q \in Nat
    BY ParametersTyped
  <2>3. ctx.saved_cursor[1] \in Int /\ ctx.saved_cursor[2] \in Int
    BY DEF Sound, Drawable, Steady, Saved
  <2>4. /\ \/ To(IF Byte = "F" THEN 0 ELSE x, LineAbove(y, p))
           \/ To(IF Byte = "E" THEN 0 ELSE x, LineBelow(y, p))
           \/ To(x + p, y)
           \/ To(x - p, y)
           \/ To(x, IF p = 0 THEN rows - 1 ELSE p - 1)
           \/ To(IF p = 0 THEN cols - 1 ELSE p - 1, y)
           \/ To(q - 1, p - 1)
           \/ To(ctx.saved_cursor[1], ctx.saved_cursor[2])
        /\ Command
    BY DEF MoveTo
  <2> HIDE DEF x, y, p, q
  <2>5. LineAbove(y, p) \in Int /\ LineBelow(y, p) \in Int
    BY <2>1, <2>2, LinesTyped
  <2>6. /\ (IF Byte = "F" THEN 0 ELSE x) \in Int
        /\ (IF Byte = "E" THEN 0 ELSE x) \in Int
        /\ x + p \in Int /\ x - p \in Int /\ q - 1 \in Int /\ p - 1 \in Int
        /\ (IF p = 0 THEN rows - 1 ELSE p - 1) \in Int
        /\ (IF p = 0 THEN cols - 1 ELSE p - 1) \in Int
    BY <2>1, <2>2, ScreenAssumption
  <2> QED
    BY <2>1, <2>3, <2>4, <2>5, <2>6, Zenon
<1>2. PICK u \in Int, v \in Int : To(u, v)
  BY <1>1
<1>3. Editable(During) /\ During \in Edited(During)
  BY <1>1, DuringFields, NothingRewritten DEF Editable
<1>4. set_cursor_pos(During, u, v) \in Placed(During)
  BY <1>3, SetAfterEdit
<1>5. Done(set_cursor_pos(During, u, v))
  BY <1>2 DEF To
<1> QED
  BY <1>1, <1>4, <1>5, EditFollows

LEMMA ScrollLinesFollows ==
  ASSUME IsTerminal(ctx), Sound(ctx), ScrollLines
  PROVE  Follows(ctx, ctx')
<1> DEFINE n == AtMost(P[1], rows)
           d == During
           a == [d EXCEPT !.top = Y(ctx)]
           t == Times(revscroll, a, n)
           u == [t EXCEPT !.top = ctx.top]
<1>1. Command /\ (Done(Times(scroll, d, n)) \/ Done(u))
  BY DEF ScrollLines
<1>2. n \in Int
  <2>1. P[1] \in Nat /\ rows \in Nat
    BY ParametersTyped, ScreenAssumption
  <2>2. AtMost(P[1], rows) \in Nat
    BY <2>1, Amounts
  <2> QED
    BY <2>2
<1> HIDE DEF n
<1>3. IsTerminal(d) /\ Editable(d) /\ d.top = ctx.top
  <2>1. Alike(ctx, d)
    BY DEF During, Entered, Fresh, IsTerminal, IsContext, BufferFields,
           TerminalFields, Alike, Drawing
  <2> QED
    BY <1>1, <2>1, DuringFields, AlikeFields
<1>4. Y(ctx) \in Nat
  BY CursorPlace, ScreenAssumption
<1> HIDE DEF d
<1>5. Times(scroll, d, n) \in Rewritten(d)
  BY <1>2, <1>3, ScrollsRewrite
<1>6. /\ IsTerminal(a) /\ Editable(a)
      /\ a.queue = d.queue /\ a.map = d.map
      /\ a.cursor_x = d.cursor_x /\ a.cursor_y = d.cursor_y
  <2>1. /\ IsContext(a) /\ TerminalFields \subseteq DOMAIN a
        /\ a.queue = d.queue /\ a.map = d.map
        /\ a.cursor_x = d.cursor_x /\ a.cursor_y = d.cursor_y
    BY <1>3 DEF IsTerminal, IsContext, BufferFields, TerminalFields
  <2>2. IsTerminal(a)
    BY <1>3, <2>1 DEF IsTerminal, Linked
  <2>3. /\ a.top = Y(ctx) /\ a.bottom = d.bottom
        /\ a.text_fg = d.text_fg /\ a.text_bg = d.text_bg
        /\ a.saved_text = d.saved_text /\ a.saved_state = d.saved_state
        /\ a.current_primary = d.current_primary /\ a.current_bg = d.current_bg
        /\ a.bold = d.bold /\ a.bg_bold = d.bg_bold
        /\ a.reverse_video = d.reverse_video
    BY <1>3 DEF IsTerminal, IsContext, BufferFields, TerminalFields
  <2> HIDE DEF a
  <2>4. Painted(a)
    BY <1>3, <2>3 DEF Editable, Painted
  <2> QED
    BY <1>3, <1>4, <2>1, <2>2, <2>3, <2>4 DEF Editable
<1>7. t \in Rewritten(a)
  <2> HIDE DEF a
  <2> QED
    BY <1>2, <1>6, RevscrollsRewrite
<1>8. PICK q, m, x, y : t = Edit(a, q, m, x, y)
  BY <1>7, EditedBy DEF Rewritten
<1>9. IsTerminal(t) /\ t.cursor_x = d.cursor_x /\ t.cursor_y = d.cursor_y
  BY <1>6, <1>7, EditedFields DEF Rewritten
<1> HIDE DEF t
<1>10. u = Edit(d, q, m, x, y)
  BY <1>3, <1>8 DEF Edit, IsTerminal, IsContext, BufferFields, TerminalFields
<1>11. /\ IsContext(u) /\ TerminalFields \subseteq DOMAIN u
       /\ u.queue = t.queue /\ u.map = t.map
       /\ u.cursor_x = t.cursor_x /\ u.cursor_y = t.cursor_y
  BY <1>9 DEF IsTerminal, IsContext, BufferFields, TerminalFields
<1> HIDE DEF u
<1>12. IsTerminal(u)
  BY <1>9, <1>11 DEF IsTerminal, Linked
<1>13. u \in Rewritten(d)
  BY <1>3, <1>9, <1>10, <1>11, <1>12, EditedIf DEF Rewritten
<1> QED
  BY <1>1, <1>5, <1>13, EditFollows DEF d

LEMMA EditCellsFollows ==
  ASSUME IsTerminal(ctx), Sound(ctx), EditCells
  PROVE  Follows(ctx, ctx')
<1> DEFINE x == X(ctx)
           y == Y(ctx)
           p == P[1]
           d == During
<1>1. /\ Command
      /\ \/ Done(ErasedDisplay(d, p, x, y))
         \/ Done(ErasedLine(d, p, x, y))
         \/ Done(Erased(d, p, x, y))
         \/ Done(Inserted(d, p, x, y))
         \/ Done(Deleted(d, p, x, y))
  BY DEF EditCells
<1>2. x \in 0 .. cols - 1 /\ y \in 0 .. rows - 1
  BY CursorPlace
<1>3. p \in Nat
  BY ParametersTyped
<1>4. Editable(d)
  BY <1>1, DuringFields
<1> HIDE DEF x, y, p, d
<1>5. x \in Nat /\ y \in Nat /\ x \in Int /\ y \in Int
  BY <1>2, ScreenAssumption
<1>6. /\ ErasedDisplay(d, p, x, y) \in Placed(d) \cup Rewritten(d)
      /\ ErasedLine(d, p, x, y) \in Placed(d) \cup Rewritten(d)
  BY <1>2, <1>4, DisplayErased, LineErased
<1>7. /\ Erased(d, p, x, y) \in Placed(d) /\ Inserted(d, p, x, y) \in Placed(d)
      /\ Deleted(d, p, x, y) \in Placed(d)
  BY <1>3, <1>4, <1>5, ErasedPlaced, InsertedPlaced, DeletedPlaced
<1>8. PICK t \in Placed(d) \cup Rewritten(d) : Done(t)
  BY <1>1, <1>6, <1>7
<1> QED
  BY <1>1, <1>8, EditFollows DEF d

LEMMA GraphicsFollows ==
  ASSUME IsTerminal(ctx), Sound(ctx), SelectGraphics
  PROVE  Follows(ctx, ctx')
<1> DEFINE values == IF Given = 0 THEN << 0 >> ELSE SubSeq(P, 1, Given)
           d == During
           t == sgr(d, values)
<1>1. Command /\ Done(t)
  BY DEF SelectGraphics
<1>2. values \in Seq(Nat)
  <2> DEFINE g == Given
             p == P
  <2>1. /\ g \in 0 .. FLANTERM_MAX_ESC_VALUES
        /\ p \in [1 .. FLANTERM_MAX_ESC_VALUES -> Nat]
    BY ParametersTyped
  <2> HIDE DEF g, p
  <2>2. p \in Seq(Nat) /\ Len(p) = FLANTERM_MAX_ESC_VALUES
    BY <2>1, FlantermAssumption
  <2>3. SubSeq(p, 1, g) \in Seq(Nat)
    BY <2>1, <2>2, FlantermAssumption
  <2>4. << 0 >> \in Seq(Nat)
    OBVIOUS
  <2> QED
    BY <2>3, <2>4 DEF g, p
<1> HIDE DEF values
<1>3. /\ IsTerminal(d) /\ Still(ctx, d) /\ Drawable(d) /\ Parsing(d)
      /\ d.osc = FALSE
  BY <1>1, DuringFields
<1> HIDE DEF d
<1>4. t \in Recoloured(d)
  BY <1>2, <1>3, SgrRecolours DEF Drawable, Steady
<1> HIDE DEF t
<1>5. IsTerminal(t) /\ Painted(t) /\ Still(d, t)
  BY <1>3, <1>4, RecolouredFields DEF Drawable, Steady
<1>6. Region(t) /\ Saved(t) /\ OnOrBelow(t)
  BY <1>3, <1>4, RecolouredFields DEF Drawable, Steady, Region, Saved, OnOrBelow
<1>7. Parsing(t) /\ ~t.osc
  BY <1>3, <1>4, RecolouredFields DEF Drawable, Steady, Parsing
<1>8. Still(ctx, t)
  BY <1>3, <1>5, StillTwice
<1> QED
  BY <1>1, <1>5, <1>6, <1>7, <1>8, DoneFollows DEF Drawable, Steady

LEMMA SetModeFollows ==
  ASSUME IsTerminal(ctx), Sound(ctx), SetMode
  PROVE  Follows(ctx, ctx')
<1> DEFINE d == During
           s == [d EXCEPT !.saved_cursor = << X(ctx), Y(ctx) >>]
           first == IF Given > 0 /\ P[1] > 0 THEN P[1] - 1 ELSE 0
           last == IF Given <= 1 THEN rows ELSE IF P[2] = 0 THEN 1 ELSE P[2]
           m == Margins(first, last)
           a == [d EXCEPT !.top = m[1], !.bottom = m[2]]
           r == set_cursor_pos(a, 0, 0)
           on == IF Given > 0 /\ P[1] = 4 THEN Byte = "h" ELSE d.insert_mode
           i == [d EXCEPT !.insert_mode = on]
<1>1. Command /\ (Done(s) \/ Done(r) \/ Done(i))
  BY DEF SetMode
<1>2. /\ IsTerminal(d) /\ Still(ctx, d) /\ Drawable(d) /\ Parsing(d)
      /\ d.osc = FALSE
  BY <1>1, DuringFields
<1>3. first \in Nat /\ last \in Nat
  BY ParametersTyped, ScreenAssumption
<1>4. X(ctx) \in Int /\ Y(ctx) \in Int
  BY CursorPlace, ScreenAssumption
<1> HIDE DEF d, first, last, on
<1>5. Done(s) => Follows(ctx, ctx')
  <2>1. /\ IsContext(s) /\ TerminalFields \subseteq DOMAIN s
        /\ s.queue = d.queue /\ s.map = d.map /\ Still(d, s)
    BY <1>2 DEF IsTerminal, IsContext, BufferFields, TerminalFields, Still
  <2>2. Painted(s)
    BY <1>2 DEF IsTerminal, IsContext, BufferFields, TerminalFields, Drawable,
                Steady, Painted
  <2>3. Region(s) /\ Saved(s) /\ OnOrBelow(s)
    BY <1>2, <1>4 DEF IsTerminal, IsContext, BufferFields, TerminalFields,
                      Drawable, Steady, Region, Saved, OnOrBelow
  <2>4. Parsing(s) /\ ~s.osc
    BY <1>2 DEF IsTerminal, IsContext, BufferFields, TerminalFields, Parsing
  <2> HIDE DEF s
  <2>5. IsTerminal(s) /\ Still(ctx, s)
    BY <1>2, <2>1, StillTwice DEF IsTerminal, Linked
  <2> QED
    BY <2>2, <2>3, <2>4, <2>5, DoneFollows DEF Drawable, Steady
<1>6. Done(i) => Follows(ctx, ctx')
  <2>1. Alike(d, i)
    BY <1>2 DEF IsTerminal, IsContext, BufferFields, TerminalFields, Alike, Drawing
  <2>2. Parsing(i) /\ ~i.osc
    BY <1>2 DEF IsTerminal, IsContext, BufferFields, TerminalFields, Parsing
  <2> HIDE DEF i
  <2>3. IsTerminal(i) /\ Drawable(i) /\ Still(ctx, i)
    BY <1>2, <2>1, AlikeDraws, StillTwice
  <2> QED
    BY <2>2, <2>3, DoneFollows
<1>7. Done(r) => Follows(ctx, ctx')
  <2>1. /\ m[1] \in Nat /\ m[2] \in Nat /\ m[2] <= rows
        /\ m[1] + 1 < m[2] \/ (m[1] = 0 /\ m[2] = rows)
    BY <1>3, ScreenAssumption DEF Margins
  <2> HIDE DEF m
  <2>2. /\ IsContext(a) /\ TerminalFields \subseteq DOMAIN a
        /\ a.queue = d.queue /\ a.map = d.map /\ Still(d, a)
    BY <1>2 DEF IsTerminal, IsContext, BufferFields, TerminalFields, Still
  <2>3. Painted(a)
    BY <1>2 DEF IsTerminal, IsContext, BufferFields, TerminalFields, Drawable,
                Steady, Painted
  <2>4. Region(a) /\ Saved(a)
    BY <1>2, <2>1 DEF IsTerminal, IsContext, BufferFields, TerminalFields,
                      Drawable, Steady, Region, Saved
  <2>5. Parsing(a) /\ ~a.osc
    BY <1>2 DEF IsTerminal, IsContext, BufferFields, TerminalFields, Parsing
  <2> HIDE DEF a
  <2>6. IsTerminal(a) /\ Still(ctx, a) /\ Steady(a)
    BY <1>2, <2>2, <2>3, <2>4, StillTwice DEF IsTerminal, Linked, Steady
  <2>7. Editable(a) /\ a \in Edited(a)
    BY <2>6, SoundEditable, NothingRewritten
  <2>8. r \in Placed(a)
    BY <2>7, SetAfterEdit
  <2> HIDE DEF r
  <2>9. r \in Edited(a) /\ IsTerminal(r) /\ Still(a, r) /\ Drawable(r)
    BY <2>6, <2>8, PlacedDraws
  <2>10. Parsing(r) /\ ~r.osc /\ Still(ctx, r)
    BY <2>5, <2>6, <2>9, EditedParses, StillTwice
  <2> QED
    BY <2>9, <2>10, DoneFollows
<1> HIDE DEF s, r, i
<1> QED
  BY <1>1, <1>5, <1>6, <1>7

LEMMA UnansweredFollows ==
  ASSUME IsTerminal(ctx), Sound(ctx), Unanswered
  PROVE  Follows(ctx, ctx')
BY DuringFields, DoneFollows DEF Unanswered

\* Every byte, in every state of the parser.
LEMMA ByteFollows ==
  ASSUME IsTerminal(ctx), Sound(ctx), flanterm_putchar
  PROVE  Follows(ctx, ctx') /\ framebuffer' = framebuffer
<1>1. CASE Cancel
  BY <1>1, CancelFollows DEF Cancel, Takes
<1>2. CASE Utf8Lead
  BY <1>2, Utf8LeadFollows DEF Utf8Lead, Takes
<1>3. CASE Utf8Continue
  <2>1. \E t : Takes(t)
    BY <1>3, Zenon DEF Utf8Continue
  <2> QED
    BY <1>3, <2>1, Utf8ContinueFollows DEF Takes
<1>4. CASE SelectCharset
  BY <1>4, SelectCharsetFollows DEF SelectCharset, Takes
<1>5. CASE Control
  BY <1>5, ControlFollows DEF Control, Takes
<1>6. CASE Printed
  BY <1>6, PrintedFollows DEF Printed, Takes
<1>7. CASE osc_parse
  BY <1>7, OscFollows DEF osc_parse, Takes
<1>8. CASE escape_parse
  BY <1>8, EscapeFollows DEF escape_parse, Ended, Takes
<1>9. CASE Mark
  BY <1>9, MarkFollows DEF Mark, Takes
<1>10. CASE Digit
  BY <1>10, DigitFollows DEF Digit, Takes
<1>11. CASE Separator
  BY <1>11, SeparatorFollows DEF Separator, Takes
<1>12. CASE dec_private_parse
  BY <1>12, PrivateFollows DEF dec_private_parse, Takes
<1>13. CASE MoveTo
  BY <1>13, MoveFollows DEF MoveTo, To, Done, Takes
<1>14. CASE ScrollLines
  BY <1>14, ScrollLinesFollows DEF ScrollLines, Done, Takes
<1>15. CASE EditCells
  BY <1>15, EditCellsFollows DEF EditCells, Done, Takes
<1>16. CASE SelectGraphics
  BY <1>16, GraphicsFollows DEF SelectGraphics, Done, Takes
<1>17. CASE SetMode
  BY <1>17, SetModeFollows DEF SetMode, Done, Takes
<1>18. CASE Unanswered
  BY <1>18, UnansweredFollows DEF Unanswered, Done, Takes
<1> QED
  BY <1>1, <1>2, <1>3, <1>4, <1>5, <1>6, <1>7, <1>8, <1>9, <1>10, <1>11, <1>12,
     <1>13, <1>14, <1>15, <1>16, <1>17, <1>18 DEF flanterm_putchar

-----------------------------------------------------------------------------
(* The terminal's specification *)

TermInv == IsTerminal(ctx) /\ Sound(ctx) /\ FramebufferShowsGrid

\* flanterm_fb_init.
LEMMA FirstIsSound == IsTerminal(FirstContext) /\ Sound(FirstContext)
<1> DEFINE s == FirstContext
           blank == [c |-> Space, fg |-> default_fg, bg |-> Transparent]
<1>1. /\ s = [field \in DOMAIN s |-> s[field]] /\ TerminalFields \subseteq DOMAIN s
  BY DEF FirstContext, reinit, Reinit, TerminalFields, BufferFields
<1>2. /\ s.grid = [i \in Cells |-> blank]
      /\ s.queue = << >> /\ s.map = [i \in Cells |-> NULL]
      /\ s.cursor_x = 0 /\ s.cursor_y = 0
      /\ s.old_cursor_x = 0 /\ s.old_cursor_y = 0
      /\ s.text_fg = default_fg /\ s.text_bg = Transparent
      /\ s.saved_text = << 0, 0, 0, 0 >>
      /\ s.saved_state = << FALSE, FALSE, FALSE, 1, 0, 0 >>
      /\ s.esc_values = NoValues
  BY DEF FirstContext, reinit, Reinit
<1>3. /\ s.cursor_enabled = TRUE /\ s.scroll_enabled = TRUE
      /\ s.control_sequence = FALSE /\ s.osc = FALSE /\ s.escape = FALSE
      /\ s.rrr = FALSE /\ s.discard_next = FALSE
      /\ s.bold = FALSE /\ s.bg_bold = FALSE /\ s.reverse_video = FALSE
      /\ s.unicode_remaining = 0 /\ s.g_select = 0 /\ s.esc_values_i = 0
      /\ s.saved_cursor = << 0, 0 >> /\ s.current_primary = None
      /\ s.current_bg = None /\ s.top = 0 /\ s.bottom = rows
  BY DEF FirstContext, reinit, Reinit
<1>4. default_fg \in Int /\ Transparent \in Int /\ Space \in 0 .. 255
  BY SMT DEF Space, default_fg, Transparent
<1>9. blank \in Chars
  BY <1>4 DEF Chars
<1> HIDE DEF s, blank
<1>5. IsTerminal(s)
  <2>1. << >> \in Seq(Items)
    OBVIOUS
  <2>2. Linked(s)
    BY <1>2 DEF Linked
  <2>3. s.map \in [Cells -> Nat] /\ s.grid \in [Cells -> Chars]
    BY <1>2, <1>9 DEF NULL
  <2>4. BufferFields \subseteq DOMAIN s
    BY <1>1 DEF TerminalFields
  <2>5. /\ s.queue \in Seq(Items) /\ s.cursor_x \in Nat /\ s.cursor_y \in Nat
        /\ s.old_cursor_x \in Nat /\ s.old_cursor_y \in Nat
        /\ s.cursor_enabled \in BOOLEAN
    <3>1. 0 \in Nat /\ TRUE \in BOOLEAN
      OBVIOUS
    <3> QED
      BY <1>2, <1>3, <2>1, <3>1, Zenon
  <2>6. IsContext(s)
    BY <1>1, <2>3, <2>4, <2>5 DEF IsContext
  <2> QED
    BY <1>1, <2>2, <2>6 DEF IsTerminal
<1>6. Painted(s)
  <2>1. None \in Colours /\ 0 \in Colours
    BY DEF Colours, None
  <2>2. /\ s.text_fg \in Int /\ s.text_bg \in Int
        /\ s.saved_text[1] \in Int /\ s.saved_text[2] \in Int
        /\ s.saved_state[5] \in Colours /\ s.saved_state[6] \in Colours
        /\ s.saved_state[1] \in BOOLEAN /\ s.saved_state[2] \in BOOLEAN
        /\ s.saved_state[3] \in BOOLEAN
    BY <1>2, <1>4, <2>1
  <2>3. /\ s.current_primary \in Colours /\ s.current_bg \in Colours
        /\ s.bold \in BOOLEAN /\ s.bg_bold \in BOOLEAN /\ s.reverse_video \in BOOLEAN
    BY <1>3, <2>1
  <2> QED
    BY <2>2, <2>3 DEF Painted
<1>7. Region(s) /\ Saved(s) /\ OnOrBelow(s)
  BY <1>2, <1>3, ScreenAssumption DEF Region, Saved, OnOrBelow
<1>8. Parsing(s)
  BY <1>2, <1>3, FlantermAssumption DEF Parsing, NoValues
<1> QED
  BY <1>3, <1>5, <1>6, <1>7, <1>8 DEF s, Sound, Drawable, Steady

LEMMA InitTerm == Init => TermInv
<1>1. SUFFICES ASSUME Init PROVE TermInv
  OBVIOUS
<1>2. IsTerminal(ctx) /\ Sound(ctx)
  BY <1>1, FirstIsSound DEF Init
<1>3. /\ ctx.map = [i \in Cells |-> NULL] /\ ctx.cursor_x = 0 /\ ctx.cursor_y = 0
      /\ ctx.old_cursor_x = 0 /\ ctx.old_cursor_y = 0 /\ ctx.cursor_enabled
  BY <1>1 DEF Init, FirstContext, reinit, Reinit
<1>4. CursorOnScreen(ctx) /\ Cursor(ctx) = 0 /\ LastCursor = 0
  BY <1>3, ScreenAssumption DEF CursorOnScreen, Cursor, LastCursor, OnScreen, CellOf
<1>5. \A i \in Cells : CharAt(ctx, i) = ctx.grid[i]
  BY <1>3 DEF CharAt
<1>6. framebuffer = Shown(ctx.grid, 0)
  <2>1. framebuffer = Refreshed(ctx)
    BY <1>1 DEF Init
  <2>2. \A i \in Cells :
          (IF CursorOnScreen(ctx) /\ i = Cursor(ctx) THEN Plot(Inverted(CharAt(ctx, i)))
           ELSE Plot(ctx.grid[i]))
          = Plot(IF i = 0 THEN Inverted(ctx.grid[i]) ELSE ctx.grid[i])
    BY <1>4, <1>5
  <2> QED
    BY <2>1, <2>2 DEF Refreshed, Shown
<1> QED
  BY <1>2, <1>4, <1>6 DEF TermInv, FramebufferShowsGrid

\* A flush moves nothing but the cells and the cursor that is drawn.
LEMMA FlushedAlike ==
  ASSUME NEW s, IsTerminal(s), Sound(s)
  PROVE  IsTerminal(Flushed(s)) /\ Sound(Flushed(s))
<1> DEFINE t == draw_cursor(s)
           u == Flushed(s)
           grid == [i \in Cells |-> IF t.map[i] = NULL THEN t.grid[i]
                                    ELSE t.queue[FirstItem(t, i)].c]
           Kept(v) ==
             /\ v.cursor_x = s.cursor_x /\ v.cursor_y = s.cursor_y
             /\ v.text_fg = s.text_fg /\ v.text_bg = s.text_bg
             /\ v.saved_text = s.saved_text /\ v.saved_state = s.saved_state
             /\ v.saved_cursor = s.saved_cursor
             /\ v.current_primary = s.current_primary
             /\ v.current_bg = s.current_bg
             /\ v.bold = s.bold /\ v.bg_bold = s.bg_bold
             /\ v.reverse_video = s.reverse_video
             /\ v.top = s.top /\ v.bottom = s.bottom
             /\ v.scroll_enabled = s.scroll_enabled
             /\ v.esc_values = s.esc_values /\ v.esc_values_i = s.esc_values_i
             /\ v.rrr = s.rrr /\ v.unicode_remaining = s.unicode_remaining
             /\ v.g_select = s.g_select /\ v.escape = s.escape /\ v.osc = s.osc
             /\ v.control_sequence = s.control_sequence
             /\ v.discard_next = s.discard_next
             /\ DOMAIN v = DOMAIN s
             /\ v = [field \in DOMAIN v |-> v[field]]
<1>1. Kept(t)
  <2>1. \E g, m : t = [s EXCEPT !.grid = g, !.map = m]
    <3>1. s = [s EXCEPT !.grid = s.grid, !.map = s.map]
      BY DEF IsTerminal, IsContext
    <3>2. \/ t = s
          \/ t = [s EXCEPT !.grid = [s.grid EXCEPT ![Cursor(s)] = CharAt(s, Cursor(s))],
                           !.map = [s.map EXCEPT ![Cursor(s)] = NULL]]
      BY DEF draw_cursor
    <3> HIDE DEF t
    <3> QED
      BY <3>1, <3>2
  <2>2. PICK g, m : t = [s EXCEPT !.grid = g, !.map = m]
    BY <2>1
  <2> HIDE DEF t
  <2> QED
    BY <2>2 DEF IsTerminal, IsContext, TerminalFields, BufferFields
<1>2. u = [t EXCEPT !.grid = grid, !.map = [i \in Cells |-> NULL],
                    !.queue = << >>, !.old_cursor_x = t.cursor_x,
                    !.old_cursor_y = t.cursor_y]
  BY DEF Flushed
<1> HIDE DEF t, u, grid
<1>3. Kept(u)
  BY <1>1, <1>2 DEF IsTerminal, TerminalFields, BufferFields
<1>4. IsContext(u) /\ Linked(u)
  BY FlushedFields DEF IsTerminal, u
<1>5. IsTerminal(u)
  BY <1>3, <1>4 DEF IsTerminal
<1>6. Painted(u) /\ Region(u) /\ Saved(u) /\ OnOrBelow(u)
  BY <1>3 DEF Sound, Drawable, Steady, Painted, Region, Saved, OnOrBelow
<1>7. Parsing(u) /\ u.scroll_enabled = TRUE
  BY <1>3 DEF Sound, Parsing
<1> QED
  BY <1>5, <1>6, <1>7 DEF u, Sound, Drawable, Steady

LEMMA StepTerm == TermInv /\ [Next]_vars => TermInv'
<1>1. SUFFICES ASSUME TermInv, [Next]_vars PROVE TermInv'
  OBVIOUS
<1>2. ASSUME ctx' = ctx, framebuffer' = framebuffer PROVE TermInv'
  <2>1. IsTerminal(ctx') /\ Sound(ctx')
    BY <1>1, <1>2 DEF TermInv
  <2>2. FramebufferShowsGrid'
    BY <1>1, <1>2 DEF TermInv, FramebufferShowsGrid, LastCursor
  <2> QED
    BY <2>1, <2>2 DEF TermInv
<1>3. CASE flanterm_putchar
  <2>1. Follows(ctx, ctx') /\ framebuffer' = framebuffer
    BY <1>1, <1>3, ByteFollows DEF TermInv
  <2>2. /\ ctx'.grid = ctx.grid
        /\ ctx'.old_cursor_x = ctx.old_cursor_x
        /\ ctx'.old_cursor_y = ctx.old_cursor_y
    BY <2>1 DEF Follows, Still
  <2>3. FramebufferShowsGrid'
    BY <1>1, <2>1, <2>2 DEF TermInv, FramebufferShowsGrid, LastCursor
  <2> QED
    BY <2>1, <2>3 DEF TermInv, Follows
<1>4. CASE flush
  <2>1. double_buffer_flush
    BY <1>4 DEF flush
  <2>2. BufferInv
    BY <1>1 DEF TermInv, BufferInv, IsTerminal
  <2>3. FramebufferShowsGrid'
    BY <2>1, <2>2, FlushStep DEF BufferInv
  <2>4. IsTerminal(ctx') /\ Sound(ctx')
    BY <1>1, <2>1, FlushedAlike DEF TermInv, double_buffer_flush
  <2> QED
    BY <2>3, <2>4 DEF TermInv
<1> QED
  BY <1>1, <1>2, <1>3, <1>4 DEF Next, put, kpanic, vars

LEMMA TerminalAlwaysInv == Spec => []TermInv
BY InitTerm, StepTerm, PTL DEF Spec

\* For every screen, every array of parameters and every sequence of bytes: the
\* parameters fit, the region is one, at most one construct is being parsed, and
\* the cursor is where the next byte may find it (flanterm_putchar).
THEOREM ContextAlwaysSound == Spec => []ContextSound
<1>1. TermInv => ContextSound
  <2>1. SUFFICES ASSUME TermInv PROVE ContextSound
    OBVIOUS
  <2>2. /\ Region(ctx) /\ OnOrBelow(ctx) /\ Parsing(ctx)
        /\ ctx.scroll_enabled = TRUE /\ ctx.cursor_y \in Nat
    BY <2>1 DEF TermInv, Sound, Drawable, Steady, IsTerminal, IsContext
  <2>3. ctx.cursor_y < rows => ctx.cursor_y \in 0 .. rows - 1
    BY <2>2, ScreenAssumption
  <2>4. ctx.esc_values_i + (IF ctx.rrr THEN 1 ELSE 0) <= FLANTERM_MAX_ESC_VALUES
    BY <2>2, FlantermAssumption DEF Parsing
  <2> QED
    BY <2>2, <2>3, <2>4 DEF ContextSound, Region, OnOrBelow, Parsing
<1> QED
  BY <1>1, TerminalAlwaysInv, PTL

\* Whatever the terminal writes, in every order, fits the queue, and the map finds
\* it (push_to_queue, called by each command of flanterm.c).
THEOREM TerminalQueueSound == Spec => []QueueSound
<1>1. TermInv => QueueSound
  BY LinkedIsSound DEF TermInv, IsTerminal
<1> QED
  BY <1>1, TerminalAlwaysInv, PTL

\* Between two flushes of the terminal what can be seen is what was plotted,
\* whatever it parses and writes meanwhile (flanterm_write, double_buffer_flush).
THEOREM TerminalShowsGrid == Spec => []FramebufferShowsGrid
<1>1. TermInv => FramebufferShowsGrid
  BY DEF TermInv
<1> QED
  BY <1>1, TerminalAlwaysInv, PTL

-----------------------------------------------------------------------------
(* The colours of the text *)

\* A side that is painted in a colour that it may have keeps the other as it is.
LEMMA SidesPainted ==
  ASSUME NEW s, IsTerminal(s), Painted(s), ColoursMatch(s), NEW c \in Int,
         NEW p \in Colours, NEW on \in BOOLEAN
  PROVE  /\ c \in Meant(p, s.bold, FgDefault(s.bold)) =>
              ColoursMatch(PaintPrimary([s EXCEPT !.current_primary = p], c))
         /\ c \in Meant(p, s.bg_bold, BgDefault(s.bg_bold)) =>
              ColoursMatch(PaintBg([s EXCEPT !.current_bg = p], c))
         /\ c \in Meant(s.current_primary, on, FgDefault(on)) =>
              ColoursMatch(PaintPrimary([s EXCEPT !.bold = on], c))
         /\ c \in Meant(s.current_bg, on, BgDefault(on)) =>
              ColoursMatch(PaintBg([s EXCEPT !.bg_bold = on], c))
         /\ ColoursMatch(Reversed(s, on))
<1> DEFINE v == s.reverse_video
           front == IF v THEN s.text_bg ELSE s.text_fg
           back == IF v THEN s.text_fg ELSE s.text_bg
           a == PaintPrimary([s EXCEPT !.current_primary = p], c)
           b == PaintBg([s EXCEPT !.current_bg = p], c)
           d == PaintPrimary([s EXCEPT !.bold = on], c)
           e == PaintBg([s EXCEPT !.bg_bold = on], c)
           r == Reversed(s, on)
           Is(t, fore, aft, bold, bg_bold, primary, background) ==
             /\ (IF t.reverse_video THEN t.text_bg ELSE t.text_fg) = fore
             /\ (IF t.reverse_video THEN t.text_fg ELSE t.text_bg) = aft
             /\ t.bold = bold /\ t.bg_bold = bg_bold
             /\ t.current_primary = primary /\ t.current_bg = background
<1>1. v \in BOOLEAN
  BY DEF Painted
<1>2. Is(s, front, back, s.bold, s.bg_bold, s.current_primary, s.current_bg)
  OBVIOUS
<1>3. Is(a, c, back, s.bold, s.bg_bold, p, s.current_bg)
  BY <1>1 DEF PaintPrimary, Fg, Bg, IsTerminal, IsContext, TerminalFields
<1>4. Is(b, front, c, s.bold, s.bg_bold, s.current_primary, p)
  BY <1>1 DEF PaintBg, Fg, Bg, IsTerminal, IsContext, TerminalFields
<1>5. Is(d, c, back, on, s.bg_bold, s.current_primary, s.current_bg)
  BY <1>1 DEF PaintPrimary, Fg, Bg, IsTerminal, IsContext, TerminalFields
<1>6. Is(e, front, c, s.bold, on, s.current_primary, s.current_bg)
  BY <1>1 DEF PaintBg, Fg, Bg, IsTerminal, IsContext, TerminalFields
<1>7. Is(r, front, back, s.bold, s.bg_bold, s.current_primary, s.current_bg)
  BY <1>1 DEF Reversed, swap_palette, IsTerminal, IsContext, TerminalFields
<1>8. ASSUME NEW t, NEW f, NEW g, NEW h, NEW i, NEW j, NEW k, Is(t, f, g, h, i, j, k)
      PROVE  ColoursMatch(t) <=>
               f \in Meant(j, h, FgDefault(h)) /\ g \in Meant(k, i, BgDefault(i))
  BY <1>8 DEF ColoursMatch
<1> HIDE DEF a, b, d, e, r, Is, front, back, v
<1>9. /\ front \in Meant(s.current_primary, s.bold, FgDefault(s.bold))
      /\ back \in Meant(s.current_bg, s.bg_bold, BgDefault(s.bg_bold))
  BY <1>2, <1>8, Zenon
<1> QED
  BY <1>3, <1>4, <1>5, <1>6, <1>7, <1>8, <1>9, Zenon DEF a, b, d, e, r

\* Attribute 0 makes everything plain, whatever it was.
LEMMA PlainMatches ==
  ASSUME NEW s, IsTerminal(s)
  PROVE  ColoursMatch(Plain(s)) /\ Plain(s).reverse_video = FALSE
<1> DEFINE t == Plain(s)
<1>1. /\ t.reverse_video = FALSE /\ t.bold = FALSE /\ t.bg_bold = FALSE
      /\ t.current_primary = None /\ t.current_bg = None
      /\ t.text_fg = default_fg /\ t.text_bg = Transparent
  BY DEF Plain, IsTerminal, IsContext, TerminalFields
<1> HIDE DEF t
<1>2. ColoursMatch(t)
  BY <1>1, SMT DEF ColoursMatch, Meant, FgDefault, BgDefault
<1> QED
  BY <1>1, <1>2 DEF t

\* Each attribute, but for brightness on a reversed terminal and 7 on a bright one.
LEMMA AttributeMatches ==
  ASSUME NEW s, IsTerminal(s), Painted(s), ColoursMatch(s), NEW v \in Nat,
         v \in {1, 5, 22, 25} => ~s.reverse_video
  PROVE  /\ ColoursMatch(Attribute(s, v))
         /\ v # 7 /\ ~s.reverse_video => ~Attribute(s, v).reverse_video
<1> DEFINE Good(t) == /\ ColoursMatch(t)
                      /\ v # 7 /\ ~s.reverse_video => ~t.reverse_video
           video == s.reverse_video
<1>0. /\ s.bold \in BOOLEAN /\ s.bg_bold \in BOOLEAN /\ s.reverse_video \in BOOLEAN
      /\ s.current_primary \in Colours /\ s.current_bg \in Colours
      /\ None \in Colours /\ TRUE \in BOOLEAN /\ 0 \in Int
  BY DEF Painted, Colours, None
<1>1. Good(s) /\ Good(Plain(s))
  BY PlainMatches
<1>2. Good(Reversed(s, v = 7))
  <2>1. ColoursMatch(Reversed(s, v = 7))
    <3> DEFINE on == v = 7
    <3>1. on \in BOOLEAN
      OBVIOUS
    <3> HIDE DEF on
    <3>2. ColoursMatch(Reversed(s, on))
      BY <1>0, <3>1, SidesPainted
    <3> QED
      BY <3>2 DEF on
  <2>2. v # 7 => Reversed(s, v = 7).reverse_video = FALSE
    BY <1>0 DEF Reversed, swap_palette, IsTerminal, IsContext, TerminalFields
  <2> QED
    BY <2>1, <2>2
\* What paints one side keeps the video.
<1>3. ASSUME NEW c, NEW p, NEW on
      PROVE  /\ PaintPrimary([s EXCEPT !.current_primary = p], c).reverse_video = video
             /\ PaintBg([s EXCEPT !.current_bg = p], c).reverse_video = video
             /\ PaintPrimary([s EXCEPT !.bold = on], c).reverse_video = video
             /\ PaintBg([s EXCEPT !.bg_bold = on], c).reverse_video = video
  BY DEF PaintPrimary, PaintBg, Fg, Bg, IsTerminal, IsContext, TerminalFields
<1>4. v \in {1, 22} => Good(Bold(s, v = 1))
  <2> DEFINE on == v = 1
             q == s.current_primary
             c == IF q = None THEN PrimaryDefault(s, on) ELSE Palette(on, q)
             t == PaintPrimary([s EXCEPT !.bold = on], c)
  <2>1. SUFFICES ASSUME v \in {1, 22} PROVE Good(Bold(s, v = 1))
    OBVIOUS
  <2>2. on \in BOOLEAN /\ video = FALSE /\ Bold(s, v = 1) = t
    BY <1>0, <2>1 DEF Bold
  <2> HIDE DEF on
  <2>3. c = (IF q = None THEN FgDefault(on) ELSE Palette(on, q))
    BY <2>2 DEF PrimaryDefault
  <2>4. c \in Meant(q, on, FgDefault(on))
    BY <2>3 DEF Meant
  <2>5. c \in Int
    <3>1. q # None => q \in 0 .. 7
      BY <1>0 DEF Colours, None
    <3> QED
      BY <2>2, <2>3, <3>1, ColoursTyped
  <2> HIDE DEF c
  <2>6. ColoursMatch(t)
    BY <1>0, <2>2, <2>4, <2>5, SidesPainted
  <2>7. t.reverse_video = video
    BY <1>3
  <2> QED
    BY <2>2, <2>6, <2>7
<1>5. v \in {5, 25} => Good(BgBold(s, v = 5))
  <2> DEFINE on == v = 5
             q == s.current_bg
             c == IF q = None THEN BackgroundDefault(s, on) ELSE Palette(on, q)
             t == PaintBg([s EXCEPT !.bg_bold = on], c)
  <2>1. SUFFICES ASSUME v \in {5, 25} PROVE Good(BgBold(s, v = 5))
    OBVIOUS
  <2>2. on \in BOOLEAN /\ video = FALSE /\ BgBold(s, v = 5) = t
    BY <1>0, <2>1 DEF BgBold
  <2> HIDE DEF on
  <2>3. c = (IF q = None THEN BgDefault(on) ELSE Palette(on, q))
    BY <2>2 DEF BackgroundDefault
  <2>4. c \in Meant(q, on, BgDefault(on))
    BY <2>3 DEF Meant
  <2>5. c \in Int
    <3>1. q # None => q \in 0 .. 7
      BY <1>0 DEF Colours, None
    <3> QED
      BY <2>2, <2>3, <3>1, ColoursTyped
  <2> HIDE DEF c
  <2>6. ColoursMatch(t)
    BY <1>0, <2>2, <2>4, <2>5, SidesPainted
  <2>7. t.reverse_video = video
    BY <1>3
  <2> QED
    BY <2>2, <2>6, <2>7
<1>6. ASSUME NEW p \in 0 .. 7
      PROVE  /\ Good(PaintPrimary([s EXCEPT !.current_primary = p], Palette(s.bold, p)))
             /\ Good(PaintPrimary([s EXCEPT !.current_primary = p], Palette(TRUE, p)))
             /\ Good(PaintBg([s EXCEPT !.current_bg = p], Palette(s.bg_bold, p)))
             /\ Good(PaintBg([s EXCEPT !.current_bg = p], Palette(TRUE, p)))
  <2>1. p \in Colours /\ p # None
    BY DEF Colours, None
  <2>2. /\ Palette(s.bold, p) \in Int /\ Palette(s.bg_bold, p) \in Int
        /\ Palette(TRUE, p) \in Int
    BY <1>0, ColoursTyped
  <2>3. /\ Palette(s.bold, p) \in Meant(p, s.bold, FgDefault(s.bold))
        /\ Palette(TRUE, p) \in Meant(p, s.bold, FgDefault(s.bold))
        /\ Palette(s.bg_bold, p) \in Meant(p, s.bg_bold, BgDefault(s.bg_bold))
        /\ Palette(TRUE, p) \in Meant(p, s.bg_bold, BgDefault(s.bg_bold))
    BY <2>1 DEF Meant
  <2>4. /\ ColoursMatch(PaintPrimary([s EXCEPT !.current_primary = p], Palette(s.bold, p)))
        /\ ColoursMatch(PaintPrimary([s EXCEPT !.current_primary = p], Palette(TRUE, p)))
        /\ ColoursMatch(PaintBg([s EXCEPT !.current_bg = p], Palette(s.bg_bold, p)))
        /\ ColoursMatch(PaintBg([s EXCEPT !.current_bg = p], Palette(TRUE, p)))
    BY <1>0, <2>1, <2>2, <2>3, SidesPainted, Zenon
  <2> QED
    BY <1>3, <2>4, Zenon
<1>7. /\ Good(PaintPrimary([s EXCEPT !.current_primary = None], FgDefault(s.bold)))
      /\ Good(PaintBg([s EXCEPT !.current_bg = None], BgDefault(s.bg_bold)))
  <2>1. FgDefault(s.bold) \in Int /\ BgDefault(s.bg_bold) \in Int
    BY <1>0, ColoursTyped
  <2>2. /\ FgDefault(s.bold) \in Meant(None, s.bold, FgDefault(s.bold))
        /\ BgDefault(s.bg_bold) \in Meant(None, s.bg_bold, BgDefault(s.bg_bold))
    BY DEF Meant
  <2>3. /\ ColoursMatch(PaintPrimary([s EXCEPT !.current_primary = None], FgDefault(s.bold)))
        /\ ColoursMatch(PaintBg([s EXCEPT !.current_bg = None], BgDefault(s.bg_bold)))
    BY <1>0, <2>1, <2>2, SidesPainted, Zenon
  <2> QED
    BY <1>3, <2>3, Zenon
<1> HIDE DEF Good
<1>8. /\ v \in 30 .. 37 => v - 30 \in 0 .. 7
      /\ v \in 40 .. 47 => v - 40 \in 0 .. 7
      /\ v \in 90 .. 97 => v - 90 \in 0 .. 7
      /\ v \in 100 .. 107 => v - 100 \in 0 .. 7
  OBVIOUS
<1>9. /\ v \in 30 .. 37 => Good(PaintPrimary([s EXCEPT !.current_primary = v - 30],
                                             Palette(s.bold, v - 30)))
      /\ v \in 40 .. 47 => Good(PaintBg([s EXCEPT !.current_bg = v - 40],
                                        Palette(s.bg_bold, v - 40)))
      /\ v \in 90 .. 97 => Good(PaintPrimary([s EXCEPT !.current_primary = v - 90],
                                             Palette(TRUE, v - 90)))
      /\ v \in 100 .. 107 => Good(PaintBg([s EXCEPT !.current_bg = v - 100],
                                          Palette(TRUE, v - 100)))
  BY <1>6, <1>8, Zenon
<1>10. Good(Attribute(s, v))
  <2> DEFINE plain == Plain(s)
             bold == Bold(s, v = 1)
             bg_bold == BgBold(s, v = 5)
             reversed == Reversed(s, v = 7)
             fg == PaintPrimary([s EXCEPT !.current_primary = v - 30],
                                Palette(s.bold, v - 30))
             bg == PaintBg([s EXCEPT !.current_bg = v - 40],
                           Palette(s.bg_bold, v - 40))
             bright_fg == PaintPrimary([s EXCEPT !.current_primary = v - 90],
                                       Palette(TRUE, v - 90))
             bright_bg == PaintBg([s EXCEPT !.current_bg = v - 100],
                                  Palette(TRUE, v - 100))
             plain_fg == PaintPrimary([s EXCEPT !.current_primary = None],
                                      FgDefault(s.bold))
             plain_bg == PaintBg([s EXCEPT !.current_bg = None],
                                 BgDefault(s.bg_bold))
  <2>1. Attribute(s, v) =
          CASE v = 0 -> plain
            [] v \in {1, 22} -> bold
            [] v \in {5, 25} -> bg_bold
            [] v \in {7, 27} -> reversed
            [] v \in 30 .. 37 -> fg
            [] v \in 40 .. 47 -> bg
            [] v \in 90 .. 97 -> bright_fg
            [] v \in 100 .. 107 -> bright_bg
            [] v = 39 -> plain_fg
            [] v = 49 -> plain_bg
            [] OTHER -> s
    BY DEF Attribute
  <2>2. /\ Good(s) /\ Good(plain) /\ Good(reversed)
        /\ Good(plain_fg) /\ Good(plain_bg)
        /\ v \in {1, 22} => Good(bold)
        /\ v \in {5, 25} => Good(bg_bold)
        /\ v \in 30 .. 37 => Good(fg)
        /\ v \in 40 .. 47 => Good(bg)
        /\ v \in 90 .. 97 => Good(bright_fg)
        /\ v \in 100 .. 107 => Good(bright_bg)
    BY <1>1, <1>2, <1>4, <1>5, <1>7, <1>9, Zenon
  <2> HIDE DEF plain, bold, bg_bold, reversed, fg, bg, bright_fg, bright_bg,
               plain_fg, plain_bg
  <2> DEFINE t == Attribute(s, v)
  <2>3. \/ t \in {s, plain, reversed, plain_fg, plain_bg}
        \/ v \in {1, 22} /\ t = bold
        \/ v \in {5, 25} /\ t = bg_bold
        \/ v \in 30 .. 37 /\ t = fg
        \/ v \in 40 .. 47 /\ t = bg
        \/ v \in 90 .. 97 /\ t = bright_fg
        \/ v \in 100 .. 107 /\ t = bright_bg
    BY <2>1, SMTT(60)
  <2> HIDE DEF t
  <2>4. Good(t)
    BY <2>2, <2>3, Zenon
  <2> QED
    BY <2>4 DEF t
<1> QED
  BY <1>10 DEF Good

\* All parameters, each of which may follow any other.
LEMMA SgrMatches ==
  ASSUME NEW s, IsTerminal(s), Painted(s), ColoursMatch(s), NEW values \in Seq(Nat),
         \A i \in 1 .. Len(values) : values[i] \notin {38, 48},
         \A i, j \in 1 .. Len(values) :
           values[i] \in {1, 5, 22, 25} => ~s.reverse_video /\ values[j] # 7
  PROVE  ColoursMatch(sgr(s, values))
<1> DEFINE D == 1 .. Len(values)
           bright == \E i \in D : values[i] \in {1, 5, 22, 25}
           T == {t \in Recoloured(s) :
                   ColoursMatch(t) /\ (bright => t.reverse_video = FALSE)}
<1>1. s \in T
  <2>1. s \in Recoloured(s) /\ s.reverse_video \in BOOLEAN
    BY NothingRecoloured DEF Painted
  <2> QED
    BY <2>1
<1>2. ASSUME NEW t \in T, NEW i \in D
      PROVE  Rendition(t, values, i) \in T
  <2> DEFINE u == Attribute(t, values[i])
  <2>1. IsTerminal(t) /\ Painted(t) /\ t.reverse_video \in BOOLEAN
    BY RecolouredFields DEF Painted
  <2>2. Rendition(t, values, i) = u
    BY DEF Rendition
  <2>3. u \in Recoloured(s)
    <3>1. Rendition(t, values, i) \in Recoloured(t)
      BY <2>1, RenditionRecolours
    <3> QED
      BY <2>2, <3>1, RecolouredTwice
  <2>4. values[i] \in Nat
    OBVIOUS
  <2>5. values[i] \in {1, 5, 22, 25} => ~t.reverse_video
    OBVIOUS
  <2>6. ColoursMatch(u) /\ (values[i] # 7 /\ ~t.reverse_video => ~u.reverse_video)
    BY <2>1, <2>4, <2>5, AttributeMatches
  <2>7. bright => u.reverse_video = FALSE
    <3>1. SUFFICES ASSUME bright PROVE u.reverse_video = FALSE
      OBVIOUS
    <3>2. values[i] # 7 /\ ~t.reverse_video
      BY <3>1
    <3>3. u.reverse_video \in BOOLEAN
      BY <2>3, RecolouredFields DEF Painted
    <3> QED
      BY <2>6, <3>2, <3>3
  <2> HIDE DEF u, bright
  <2> QED
    BY <2>2, <2>3, <2>6, <2>7
<1> HIDE DEF T
<1>3. sgr(s, values) \in T
  BY <1>1, <1>2, SgrStays
<1> QED
  BY <1>3 DEF T

\* Nothing but the colours and attributes of a context matters to ColoursMatch.
LEMMA SameColours ==
  ASSUME NEW s, NEW t, t.text_fg = s.text_fg, t.text_bg = s.text_bg,
         t.bold = s.bold, t.bg_bold = s.bg_bold,
         t.reverse_video = s.reverse_video,
         t.current_primary = s.current_primary, t.current_bg = s.current_bg
  PROVE  ColoursMatch(t) <=> ColoursMatch(s)
BY DEF ColoursMatch

\* One attribute is one turn of the loop.
LEMMA OneParameter ==
  ASSUME NEW s
  PROVE  sgr(s, << 0 >>) = Plain(s)
<1> DEFINE values == << 0 >>
           b == [s |-> s, next |-> 1]
           N == Len(Upwards(1, Len(values)))
           op(t, n) == Parameter(t, values, Upwards(1, Len(values))[n])
           c == op(b, 1)
           g == [n \in 0 .. N |-> IF n = 0 THEN b ELSE c]
           Is(h) == h = [n \in 0 .. N |-> IF n = 0 THEN b ELSE op(h[n - 1], n)]
           f == CHOOSE h : Is(h)
<1>1. values \in Seq(Nat) /\ Len(values) = 1 /\ values[1] = 0
  OBVIOUS
<1>2. N = 1 /\ Upwards(1, Len(values))[1] = 1
  BY <1>1 DEF Upwards
<1>3. c.s = Plain(s)
  <2>1. Rendition(s, values, 1) = Plain(s)
    BY <1>1 DEF Rendition, Attribute
  <2>2. c = Parameter(b, values, 1)
    BY <1>2
  <2> HIDE DEF values, c
  <2>3. c = [s |-> Rendition(s, values, 1), next |-> 1 + Taken(values, 1)]
    BY <2>2 DEF Parameter
  <2> QED
    BY <2>1, <2>3
<1>4. sgr(s, values) = f[N].s
  BY DEF sgr, Loop
<1> HIDE DEF b, N, op
<1>5. Is(g)
  <2>1. g[0] = b
    BY <1>2
  <2>2. \A n \in 0 .. N : n # 0 => n = 1 /\ op(g[n - 1], n) = c
    BY <1>2, <2>1
  <2> HIDE DEF c
  <2>3. \A n \in 0 .. N : g[n] = IF n = 0 THEN b ELSE op(g[n - 1], n)
    BY <2>2
  <2>4. g = [n \in 0 .. N |-> g[n]]
    OBVIOUS
  <2> HIDE DEF g
  <2> QED
    BY <2>3, <2>4
<1> HIDE DEF g, c, f
<1>6. Is(f)
  <2> HIDE DEF Is
  <2> QED
    BY <1>5 DEF f
<1>7. f[0] = b /\ f[1] = op(f[0], 1)
  BY <1>2, <1>6
<1>8. f[N] = c
  BY <1>2, <1>7 DEF c
<1> QED
  BY <1>3, <1>4, <1>8

\* The whole of an SGR sequence.
LEMMA GraphicsMatch ==
  ASSUME IsTerminal(ctx), Sound(ctx), SelectGraphics
  PROVE  /\ Given = 0 => ColoursMatch(ctx')
         /\ /\ ColoursMatch(ctx)
            /\ {P[i] : i \in 1 .. Given} \cap {38, 48} = {}
            /\ {P[i] : i \in 1 .. Given} \cap {1, 5, 22, 25} # {} =>
                 ~ctx.reverse_video /\ 7 \notin {P[i] : i \in 1 .. Given}
            => ColoursMatch(ctx')
<1> DEFINE values == IF Given = 0 THEN << 0 >> ELSE SubSeq(P, 1, Given)
           d == During
           t == sgr(d, values)
<1>1. /\ Command
      /\ ctx' = SequenceEnded([t EXCEPT !.scroll_enabled = ctx.scroll_enabled])
  BY DEF SelectGraphics, Done, Takes
<1>2. /\ IsTerminal(d) /\ Painted(d)
  BY <1>1, DuringFields DEF Drawable, Steady
<1>3. /\ d.reverse_video = ctx.reverse_video
      /\ ColoursMatch(d) <=> ColoursMatch(ctx)
  <2>1. /\ d.text_fg = ctx.text_fg /\ d.text_bg = ctx.text_bg
        /\ d.bold = ctx.bold /\ d.bg_bold = ctx.bg_bold
        /\ d.reverse_video = ctx.reverse_video
        /\ d.current_primary = ctx.current_primary /\ d.current_bg = ctx.current_bg
    BY DEF During, Entered, Fresh, IsTerminal, IsContext, TerminalFields
  <2> HIDE DEF d
  <2> QED
    BY <2>1, SameColours
<1>4. /\ Given \in 0 .. FLANTERM_MAX_ESC_VALUES
      /\ P \in [1 .. FLANTERM_MAX_ESC_VALUES -> Nat]
  BY ParametersTyped
<1>5. /\ values \in Seq(Nat)
      /\ Given = 0 => values = << 0 >>
      /\ Given # 0 => /\ Len(values) = Given
                      /\ \A i \in 1 .. Given : values[i] = P[i]
  <2> DEFINE g == Given
             p == P
  <2>1. /\ g \in 0 .. FLANTERM_MAX_ESC_VALUES
        /\ p \in [1 .. FLANTERM_MAX_ESC_VALUES -> Nat]
    BY <1>4
  <2> HIDE DEF g, p
  <2>2. p \in Seq(Nat) /\ Len(p) = FLANTERM_MAX_ESC_VALUES
    BY <2>1, FlantermAssumption
  <2>3. /\ SubSeq(p, 1, g) \in Seq(Nat) /\ Len(SubSeq(p, 1, g)) = g
        /\ \A i \in 1 .. g : SubSeq(p, 1, g)[i] = p[i]
    BY <2>1, <2>2, FlantermAssumption
  <2>4. << 0 >> \in Seq(Nat)
    OBVIOUS
  <2> QED
    BY <2>3, <2>4 DEF g, p
<1> HIDE DEF values, d
<1>6. t \in Recoloured(d)
  BY <1>2, <1>5, SgrRecolours
<1>7. ColoursMatch(ctx') <=> ColoursMatch(t)
  <2>1. IsTerminal(t)
    BY <1>2, <1>6, RecolouredFields
  <2> HIDE DEF t
  <2>2. /\ ctx'.text_fg = t.text_fg /\ ctx'.text_bg = t.text_bg
        /\ ctx'.bold = t.bold /\ ctx'.bg_bold = t.bg_bold
        /\ ctx'.reverse_video = t.reverse_video
        /\ ctx'.current_primary = t.current_primary /\ ctx'.current_bg = t.current_bg
    BY <1>1, <2>1 DEF SequenceEnded, NoSequence, IsTerminal, IsContext, TerminalFields
  <2> QED
    BY <2>2, SameColours
\* Without parameters everything is plain, whatever it was.
<1>8. Given = 0 => ColoursMatch(t)
  <2>1. SUFFICES ASSUME Given = 0 PROVE ColoursMatch(t)
    OBVIOUS
  <2>2. t = Plain(d)
    <3>1. values = << 0 >>
      BY <1>5, <2>1
    <3> QED
      BY <3>1, OneParameter
  <2> QED
    BY <1>2, <2>2, PlainMatches
<1>9. ASSUME ColoursMatch(ctx), Given # 0,
             {P[i] : i \in 1 .. Given} \cap {38, 48} = {},
             {P[i] : i \in 1 .. Given} \cap {1, 5, 22, 25} # {} =>
               ~ctx.reverse_video /\ 7 \notin {P[i] : i \in 1 .. Given}
      PROVE  ColoursMatch(t)
  <2> DEFINE g == Given
             p == P
             S == {p[i] : i \in 1 .. g}
  <2>1. \A i \in 1 .. Len(values) : values[i] = p[i] /\ p[i] \in S
    BY <1>5, <1>9
  <2>2. S \cap {38, 48} = {}
    BY <1>9
  <2>3. S \cap {1, 5, 22, 25} # {} => ~d.reverse_video /\ 7 \notin S
    BY <1>3, <1>9
  <2> HIDE DEF g, p, S
  <2>4. \A i \in 1 .. Len(values) : values[i] \notin {38, 48}
    BY <2>1, <2>2
  <2>5. \A i, j \in 1 .. Len(values) :
          values[i] \in {1, 5, 22, 25} => ~d.reverse_video /\ values[j] # 7
    BY <2>1, <2>3
  <2> QED
    BY <1>2, <1>3, <1>5, <1>9, <2>4, <2>5, SgrMatches
<1> QED
  BY <1>7, <1>8, <1>9

\* For every sequence of attributes, in one sequence or many: the colours of the
\* text are those that the attributes stand for (sgr), but for the exceptions
\* that ColoursFollowVideo makes.
THEOREM ColoursAlwaysFollow == Spec => ColoursFollowVideo
<1>1. TermInv => [pending # << >> /\ SelectGraphics =>
                    /\ Given = 0 => ColoursMatch(ctx')
                    /\ /\ ColoursMatch(ctx)
                       /\ {P[i] : i \in 1 .. Given} \cap {38, 48} = {}
                       /\ {P[i] : i \in 1 .. Given} \cap {1, 5, 22, 25} # {} =>
                            ~ctx.reverse_video /\ 7 \notin {P[i] : i \in 1 .. Given}
                       => ColoursMatch(ctx')]_vars
  BY GraphicsMatch DEF TermInv
<1> QED
  BY <1>1, TerminalAlwaysInv, PTL DEF ColoursFollowVideo

-----------------------------------------------------------------------------
(* What loops over cells leave *)

LEMMA BlankRounds ==
  ASSUME NEW s, IsTerminal(s), Painted(s), NEW p, Len(p) \in Nat,
         \A n \in 1 .. Len(p) : p[n] \in Nat
  PROVE  \E f : /\ f[0] = s
                /\ \A n \in 1 .. Len(p) :
                     f[n] = push_to_queue(f[n - 1], Char(s, Space), p[n] % cols, p[n] \div cols)
                /\ \A n \in 0 .. Len(p) : f[n] \in Rewritten(s)
                /\ Blank(s, p) = f[Len(p)]
<1> DEFINE S == Rewritten(s)
           N == Len(p)
           op(t, n) == push_to_queue(t, Char(s, Space), p[n] % cols, p[n] \div cols)
           F == [a \in S \X (1 .. N) |-> op(a[1], a[2])]
           Is(g) == g = [n \in 0 .. N |-> IF n = 0 THEN s ELSE op(g[n - 1], n)]
           f == CHOOSE g : Is(g)
<1>1. \A t \in S, n \in 1 .. N : op(t, n) \in S
  <2>1. SUFFICES ASSUME NEW t \in S, NEW n \in 1 .. N PROVE op(t, n) \in S
    OBVIOUS
  <2>2. IsTerminal(t)
    BY EditedFields DEF Rewritten
  <2>3. p[n] % cols \in Nat /\ p[n] \div cols \in Nat
    <3>1. p[n] \in Nat
      OBVIOUS
    <3> QED
      BY <3>1, PlaceOfCell
  <2>4. Char(s, Space) \in Chars
    BY CharTyped DEF Space
  <2>5. op(t, n) \in Rewritten(t)
    BY <2>2, <2>3, <2>4, PushRewrites
  <2> QED
    BY <2>5, RewrittenTwice
<1>2. N \in Nat
  OBVIOUS
<1>3. s \in S
  BY NothingRewritten
<1>4. Blank(s, p) = f[N]
  BY DEF Blank, Loop
<1> HIDE DEF S, N, op
<1>5. F \in [S \X (1 .. N) -> S] /\ \A t \in S, n \in 1 .. N : F[<< t, n >>] = op(t, n)
  BY <1>1
<1> HIDE DEF F, f
<1>6. PICK g : g \in States(F, s, N, S)
  BY <1>2, <1>3, <1>5, LoopExists
<1>7. Is(g)
  <2>1. /\ g \in [0 .. N -> S] /\ g[0] = s
        /\ \A n \in 1 .. N : g[n] = F[<< g[n - 1], n >>]
    BY <1>6 DEF States
  <2>2. \A n \in 1 .. N : n - 1 \in 0 .. N /\ g[n - 1] \in S
    BY <1>2, <2>1
  <2>3. \A n \in 1 .. N : g[n] = op(g[n - 1], n)
    BY <1>5, <2>1, <2>2
  <2>4. \A n \in 0 .. N : g[n] = IF n = 0 THEN s ELSE op(g[n - 1], n)
    BY <1>2, <2>1, <2>3
  <2>5. g = [n \in 0 .. N |-> g[n]]
    BY <2>1
  <2> QED
    BY <2>4, <2>5
<1>8. Is(f)
  <2> HIDE DEF Is
  <2> QED
    BY <1>7 DEF f
<1>9. f = [n \in 0 .. N |-> IF n = 0 THEN s ELSE op(f[n - 1], n)]
  BY <1>8
<1>10. f[0] = s /\ \A n \in 1 .. N : f[n] = op(f[n - 1], n)
  BY <1>2, <1>9
<1>11. \A n \in 0 .. N : f[n] \in S
  <2>1. \A n \in 1 .. N : f[n - 1] \in S => f[n] \in S
    BY <1>1, <1>10
  <2> QED
    BY <1>2, <1>3, <1>10, <2>1, LoopStays
<1> QED
  BY <1>4, <1>10, <1>11 DEF S, N, op

LEMMA CopyRounds ==
  ASSUME NEW s, IsTerminal(s), NEW d \in Int, NEW p, FromCells(p, d)
  PROVE  \E f : /\ f[0] = s
                /\ \A n \in 1 .. Len(p) : f[n] = CopyCell(f[n - 1], p[n], p[n] + d)
                /\ \A n \in 0 .. Len(p) : f[n] \in Rewritten(s)
                /\ CopyCells(s, d, p) = f[Len(p)]
<1> DEFINE S == Rewritten(s)
           N == Len(p)
           op(t, n) == CopyCell(t, p[n], p[n] + d)
           F == [a \in S \X (1 .. N) |-> op(a[1], a[2])]
           Is(g) == g = [n \in 0 .. N |-> IF n = 0 THEN s ELSE op(g[n - 1], n)]
           f == CHOOSE g : Is(g)
<1>1. \A t \in S, n \in 1 .. N : op(t, n) \in S
  <2>1. SUFFICES ASSUME NEW t \in S, NEW n \in 1 .. N PROVE op(t, n) \in S
    OBVIOUS
  <2>2. IsTerminal(t)
    BY EditedFields DEF Rewritten
  <2>3. op(t, n) \in Rewritten(t)
    BY <2>2, CopyCellRewrites DEF FromCells
  <2> QED
    BY <2>3, RewrittenTwice
<1>2. N \in Nat
  BY DEF FromCells
<1>3. s \in S
  BY NothingRewritten
<1>4. CopyCells(s, d, p) = f[N]
  BY DEF CopyCells, Loop
<1> HIDE DEF S, N, op
<1>5. F \in [S \X (1 .. N) -> S] /\ \A t \in S, n \in 1 .. N : F[<< t, n >>] = op(t, n)
  BY <1>1
<1> HIDE DEF F, f
<1>6. PICK g : g \in States(F, s, N, S)
  BY <1>2, <1>3, <1>5, LoopExists
<1>7. Is(g)
  <2>1. /\ g \in [0 .. N -> S] /\ g[0] = s
        /\ \A n \in 1 .. N : g[n] = F[<< g[n - 1], n >>]
    BY <1>6 DEF States
  <2>2. \A n \in 1 .. N : n - 1 \in 0 .. N /\ g[n - 1] \in S
    BY <1>2, <2>1
  <2>3. \A n \in 1 .. N : g[n] = op(g[n - 1], n)
    BY <1>5, <2>1, <2>2
  <2>4. \A n \in 0 .. N : g[n] = IF n = 0 THEN s ELSE op(g[n - 1], n)
    BY <1>2, <2>1, <2>3
  <2>5. g = [n \in 0 .. N |-> g[n]]
    BY <2>1
  <2> QED
    BY <2>4, <2>5
<1>8. Is(f)
  <2> HIDE DEF Is
  <2> QED
    BY <1>7 DEF f
<1>9. f = [n \in 0 .. N |-> IF n = 0 THEN s ELSE op(f[n - 1], n)]
  BY <1>8
<1>10. f[0] = s /\ \A n \in 1 .. N : f[n] = op(f[n - 1], n)
  BY <1>2, <1>9
<1>11. \A n \in 0 .. N : f[n] \in S
  <2>1. \A n \in 1 .. N : f[n - 1] \in S => f[n] \in S
    BY <1>1, <1>10
  <2> QED
    BY <1>2, <1>3, <1>10, <2>1, LoopStays
<1> QED
  BY <1>4, <1>10, <1>11 DEF S, N, op

LEMMA MoveRounds ==
  ASSUME NEW s, IsTerminal(s), NEW d \in Int, NEW y \in Nat, NEW p, FromColumns(p, d)
  PROVE  \E f : /\ f[0] = s
                /\ \A n \in 1 .. Len(p) : f[n] = move_character(f[n - 1], p[n] + d, y, p[n], y)
                /\ \A n \in 0 .. Len(p) : f[n] \in Rewritten(s)
                /\ MoveCharacters(s, d, y, p) = f[Len(p)]
<1> DEFINE S == Rewritten(s)
           N == Len(p)
           op(t, n) == move_character(t, p[n] + d, y, p[n], y)
           F == [a \in S \X (1 .. N) |-> op(a[1], a[2])]
           Is(g) == g = [n \in 0 .. N |-> IF n = 0 THEN s ELSE op(g[n - 1], n)]
           f == CHOOSE g : Is(g)
<1>1. \A t \in S, n \in 1 .. N : op(t, n) \in S
  <2>1. SUFFICES ASSUME NEW t \in S, NEW n \in 1 .. N PROVE op(t, n) \in S
    OBVIOUS
  <2>2. IsTerminal(t)
    BY EditedFields DEF Rewritten
  <2>3. p[n] \in Nat /\ p[n] + d \in Nat
    BY DEF FromColumns
  <2>4. op(t, n) \in Rewritten(t)
    BY <2>2, <2>3, MoveCharacterRewrites
  <2> QED
    BY <2>4, RewrittenTwice
<1>2. N \in Nat
  BY DEF FromColumns
<1>3. s \in S
  BY NothingRewritten
<1>4. MoveCharacters(s, d, y, p) = f[N]
  BY DEF MoveCharacters, Loop
<1> HIDE DEF S, N, op
<1>5. F \in [S \X (1 .. N) -> S] /\ \A t \in S, n \in 1 .. N : F[<< t, n >>] = op(t, n)
  BY <1>1
<1> HIDE DEF F, f
<1>6. PICK g : g \in States(F, s, N, S)
  BY <1>2, <1>3, <1>5, LoopExists
<1>7. Is(g)
  <2>1. /\ g \in [0 .. N -> S] /\ g[0] = s
        /\ \A n \in 1 .. N : g[n] = F[<< g[n - 1], n >>]
    BY <1>6 DEF States
  <2>2. \A n \in 1 .. N : n - 1 \in 0 .. N /\ g[n - 1] \in S
    BY <1>2, <2>1
  <2>3. \A n \in 1 .. N : g[n] = op(g[n - 1], n)
    BY <1>5, <2>1, <2>2
  <2>4. \A n \in 0 .. N : g[n] = IF n = 0 THEN s ELSE op(g[n - 1], n)
    BY <1>2, <2>1, <2>3
  <2>5. g = [n \in 0 .. N |-> g[n]]
    BY <2>1
  <2> QED
    BY <2>4, <2>5
<1>8. Is(f)
  <2> HIDE DEF Is
  <2> QED
    BY <1>7 DEF f
<1>9. f = [n \in 0 .. N |-> IF n = 0 THEN s ELSE op(f[n - 1], n)]
  BY <1>8
<1>10. f[0] = s /\ \A n \in 1 .. N : f[n] = op(f[n - 1], n)
  BY <1>2, <1>9
<1>11. \A n \in 0 .. N : f[n] \in S
  <2>1. \A n \in 1 .. N : f[n - 1] \in S => f[n] \in S
    BY <1>1, <1>10
  <2> QED
    BY <1>2, <1>3, <1>10, <2>1, LoopStays
<1> QED
  BY <1>4, <1>10, <1>11 DEF S, N, op

LEMMA PutcharRounds ==
  ASSUME NEW s, Editable(s), NEW c \in 0 .. 255, NEW k \in Int
  PROVE  \E f : /\ f[0] = s
                /\ \A n \in 1 .. Len(Upwards(1, k)) : f[n] = raw_putchar(f[n - 1], c)
                /\ \A n \in 0 .. Len(Upwards(1, k)) : f[n] \in Edited(s)
                /\ Putchars(s, c, k) = f[Len(Upwards(1, k))]
<1> DEFINE S == Edited(s)
           N == Len(Upwards(1, k))
           op(t, n) == raw_putchar(t, c)
           F == [a \in S \X (1 .. N) |-> op(a[1], a[2])]
           Is(g) == g = [n \in 0 .. N |-> IF n = 0 THEN s ELSE op(g[n - 1], n)]
           f == CHOOSE g : Is(g)
<1>1. \A t \in S, n \in 1 .. N : op(t, n) \in S
  <2>1. SUFFICES ASSUME NEW t \in S, NEW n \in 1 .. N PROVE op(t, n) \in S
    OBVIOUS
  <2>2. Editable(t)
    BY EditedEditable DEF Rewritten
  <2>3. op(t, n) \in Edited(t)
    BY <2>2, PutcharEdits
  <2> QED
    BY <2>3, EditedTwice DEF Editable
<1>2. N \in Nat
  BY UpwardsAre
<1>3. s \in S
  BY NothingRewritten DEF Editable
<1>4. Putchars(s, c, k) = f[N]
  BY DEF Putchars, Loop
<1> HIDE DEF S, N, op
<1>5. F \in [S \X (1 .. N) -> S] /\ \A t \in S, n \in 1 .. N : F[<< t, n >>] = op(t, n)
  BY <1>1
<1> HIDE DEF F, f
<1>6. PICK g : g \in States(F, s, N, S)
  BY <1>2, <1>3, <1>5, LoopExists
<1>7. Is(g)
  <2>1. /\ g \in [0 .. N -> S] /\ g[0] = s
        /\ \A n \in 1 .. N : g[n] = F[<< g[n - 1], n >>]
    BY <1>6 DEF States
  <2>2. \A n \in 1 .. N : n - 1 \in 0 .. N /\ g[n - 1] \in S
    BY <1>2, <2>1
  <2>3. \A n \in 1 .. N : g[n] = op(g[n - 1], n)
    BY <1>5, <2>1, <2>2
  <2>4. \A n \in 0 .. N : g[n] = IF n = 0 THEN s ELSE op(g[n - 1], n)
    BY <1>2, <2>1, <2>3
  <2>5. g = [n \in 0 .. N |-> g[n]]
    BY <2>1
  <2> QED
    BY <2>4, <2>5
<1>8. Is(f)
  <2> HIDE DEF Is
  <2> QED
    BY <1>7 DEF f
<1>9. f = [n \in 0 .. N |-> IF n = 0 THEN s ELSE op(f[n - 1], n)]
  BY <1>8
<1>10. f[0] = s /\ \A n \in 1 .. N : f[n] = op(f[n - 1], n)
  BY <1>2, <1>9
<1>11. \A n \in 0 .. N : f[n] \in S
  <2>1. \A n \in 1 .. N : f[n - 1] \in S => f[n] \in S
    BY <1>1, <1>10
  <2> QED
    BY <1>2, <1>3, <1>10, <2>1, LoopStays
<1> QED
  BY <1>4, <1>10, <1>11 DEF S, N, op

\* The cell at column i, moved d further on, and blanked.
PutBlank(t, d, i, y) ==
  raw_putchar(set_cursor_pos(move_character(t, i + d, y, i, y), i, y), Space)

InsertedBy(f, s, d, x, y) ==
  /\ f[0] = s
  /\ \A n \in 1 .. Len(Downwards(cols - 1, x)) :
       f[n] = PutBlank(f[n - 1], d, Downwards(cols - 1, x)[n], y)
  /\ \A n \in 0 .. Len(Downwards(cols - 1, x)) : f[n] \in Edited(s)
  /\ Inserted(s, d, x, y) = set_cursor_pos(f[Len(Downwards(cols - 1, x))], x, y)

LEMMA InsertRounds ==
  ASSUME NEW s, Editable(s), NEW d \in Nat, NEW x \in Nat, NEW y \in Nat
  PROVE  \E f : InsertedBy(f, s, d, x, y)
<1> DEFINE S == Edited(s)
           N == Len(Downwards(cols - 1, x))
           column(n) == Downwards(cols - 1, x)[n]
           moved(t, n) == move_character(t, column(n) + d, y, column(n), y)
           op(t, n) == raw_putchar(set_cursor_pos(moved(t, n), column(n), y), Space)
           F == [a \in S \X (1 .. N) |-> op(a[1], a[2])]
           Is(g) == g = [n \in 0 .. N |-> IF n = 0 THEN s ELSE op(g[n - 1], n)]
           f == CHOOSE g : Is(g)
<1>1. \A t \in S, n \in 1 .. N : op(t, n) \in S
  <2>1. SUFFICES ASSUME NEW t \in S, NEW n \in 1 .. N PROVE op(t, n) \in S
    OBVIOUS
  <2>2. Editable(t)
    BY EditedEditable DEF Rewritten
  <2> DEFINE i == Downwards(cols - 1, x)[n]
             a == move_character(t, i + d, y, i, y)
             b == set_cursor_pos(a, i, y)
  <2>3. i \in Nat
    <3>1. cols - 1 \in Int /\ x \in Int
      BY ScreenAssumption
    <3>2. i \in x .. cols - 1
      BY <3>1, DownwardsAre
    <3> QED
      BY <3>1, <3>2
  <2>4. op(t, n) = raw_putchar(b, Space)
    OBVIOUS
  <2> HIDE DEF i, op
  <2>5. a \in Rewritten(t)
    <3>1. i + d \in Nat
      BY <2>3
    <3> QED
      BY <2>2, <2>3, <3>1, MoveCharacterRewrites DEF Editable
  <2>6. a \in Edited(t) /\ Editable(a)
    BY <2>2, <2>5, RewrittenIsEdited, EditedEditable
  <2> HIDE DEF a
  <2>7. b \in Edited(a)
    BY <2>3, <2>6, CursorSet DEF Editable
  <2>8. b \in Edited(t) /\ Editable(b)
    BY <2>2, <2>6, <2>7, EditedTwice, EditedEditable DEF Editable
  <2> HIDE DEF b
  <2>9. raw_putchar(b, Space) \in Edited(b)
    BY <2>8, PutcharEdits DEF Space
  <2>10. raw_putchar(b, Space) \in Edited(t)
    BY <2>2, <2>8, <2>9, EditedTwice DEF Editable
  <2> QED
    BY <2>4, <2>10, EditedTwice DEF Editable
<1>2. N \in Nat
  BY DownwardsAre, ScreenAssumption
<1>3. s \in S
  BY NothingRewritten DEF Editable
<1>4. Inserted(s, d, x, y) = set_cursor_pos(f[N], x, y)
  BY DEF Inserted, Loop
<1> HIDE DEF S, N, op, moved, column, PutBlank
<1>5. F \in [S \X (1 .. N) -> S] /\ \A t \in S, n \in 1 .. N : F[<< t, n >>] = op(t, n)
  BY <1>1
<1> HIDE DEF F, f
<1>6. PICK g : g \in States(F, s, N, S)
  BY <1>2, <1>3, <1>5, LoopExists
<1>7. Is(g)
  <2>1. /\ g \in [0 .. N -> S] /\ g[0] = s
        /\ \A n \in 1 .. N : g[n] = F[<< g[n - 1], n >>]
    BY <1>6 DEF States
  <2>2. \A n \in 1 .. N : n - 1 \in 0 .. N /\ g[n - 1] \in S
    BY <1>2, <2>1
  <2>3. \A n \in 1 .. N : g[n] = op(g[n - 1], n)
    BY <1>5, <2>1, <2>2
  <2>4. \A n \in 0 .. N : g[n] = IF n = 0 THEN s ELSE op(g[n - 1], n)
    BY <1>2, <2>1, <2>3
  <2>5. g = [n \in 0 .. N |-> g[n]]
    BY <2>1
  <2> QED
    BY <2>4, <2>5
<1>8. Is(f)
  <2> HIDE DEF Is
  <2> QED
    BY <1>7 DEF f
<1>9. f = [n \in 0 .. N |-> IF n = 0 THEN s ELSE op(f[n - 1], n)]
  BY <1>8
<1>10. f[0] = s /\ \A n \in 1 .. N : f[n] = op(f[n - 1], n)
  BY <1>2, <1>9
<1>11. \A n \in 0 .. N : f[n] \in S
  <2>1. \A n \in 1 .. N : f[n - 1] \in S => f[n] \in S
    BY <1>1, <1>10
  <2> QED
    BY <1>2, <1>3, <1>10, <2>1, LoopStays
<1>12. InsertedBy(f, s, d, x, y)
  BY <1>4, <1>10, <1>11 DEF S, N, op, moved, column, PutBlank, InsertedBy
<1> QED
  BY <1>12

\* Counting up.
LEMMA CountUp ==
  ASSUME NEW N \in Nat, NEW G, 0 \in G, \A n \in 1 .. N : n - 1 \in G => n \in G
  PROVE  \A n \in 0 .. N : n \in G
<1> DEFINE T == {n \in 0 .. N : n \notin G}
<1>1. SUFFICES ASSUME T # {} PROVE FALSE
  OBVIOUS
<1>2. PICK n \in T : \A m \in T : n <= m
  <2>1. T \subseteq Nat
    OBVIOUS
  <2> HIDE DEF T
  <2> QED
    BY <1>1, <2>1, LeastNumber
<1>3. n \in 1 .. N
  BY <1>2
<1>4. n - 1 \in 0 .. N /\ n - 1 < n
  BY <1>3
<1>5. n - 1 \in G
  BY <1>2, <1>4
<1> QED
  BY <1>2, <1>3, <1>5

-----------------------------------------------------------------------------
(* What the cells hold afterwards *)

\* A number of a cell is its place.
LEMMA CellAgain ==
  ASSUME NEW i \in Cells
  PROVE  /\ OnScreen(i % cols, i \div cols)
         /\ CellOf(i % cols, i \div cols) = i
         /\ i \in Nat /\ i % cols \in Nat /\ i \div cols \in Nat
<1>1. i \in Nat /\ i < rows * cols
  BY CellsCounted DEF Cells
<1>2. /\ i % cols \in 0 .. cols - 1 /\ i \div cols \in Nat
      /\ i = (i \div cols) * cols + (i % cols)
  BY <1>1, PlaceOfCell
<1> DEFINE x == i % cols
           y == i \div cols
<1>3. x \in 0 .. cols - 1 /\ x \in Nat /\ y \in Nat /\ i = y * cols + x
  BY <1>2, ScreenAssumption
<1> HIDE DEF x, y
<1>4. y < rows
  <2>1. SUFFICES ASSUME rows <= y PROVE FALSE
    BY <1>3, ScreenAssumption
  <2>2. rows * cols <= y * cols
    <3>1. CASE rows = y
      BY <3>1, ScreenAssumption
    <3>2. CASE rows # y
      <4>1. rows * cols + cols <= y * cols
        BY <2>1, <3>2, <1>3, LinesInOrder, ScreenAssumption
      <4>2. rows * cols \in Nat /\ y * cols \in Nat
        BY <1>3, ScreenAssumption
      <4> QED
        BY <4>1, <4>2, ScreenAssumption
    <3> QED
      BY <3>1, <3>2
  <2>3. rows * cols \in Nat /\ y * cols \in Nat
    BY <1>3, ScreenAssumption
  <2> QED
    BY <1>1, <1>3, <2>2, <2>3, ScreenAssumption
<1>5. OnScreen(x, y) /\ CellOf(x, y) = i
  <2>1. y * cols \in Nat
    BY <1>3, ScreenAssumption
  <2> QED
    BY <1>3, <1>4, <2>1, ScreenAssumption DEF OnScreen, CellOf
<1> QED
  BY <1>1, <1>3, <1>5 DEF x, y

LEMMA PushCell ==
  ASSUME NEW s, IsTerminal(s), NEW c \in Chars, NEW i \in Cells, NEW j \in Cells
  PROVE  CharAt(push_to_queue(s, c, i % cols, i \div cols), j) =
           IF j = i THEN c ELSE CharAt(s, j)
<1> DEFINE x == i % cols
           y == i \div cols
<1>1. OnScreen(x, y) /\ CellOf(x, y) = i /\ x \in Nat /\ y \in Nat
  BY CellAgain
<1> HIDE DEF x, y
<1>2. CharAt(push_to_queue(s, c, x, y), j) =
        IF OnScreen(x, y) /\ j = CellOf(x, y) THEN c ELSE CharAt(s, j)
  BY <1>1, PushContents DEF IsTerminal
<1> QED
  BY <1>1, <1>2 DEF x, y

\* Cells that become blank, in any order.
LEMMA BlankText ==
  ASSUME NEW s, IsTerminal(s), Painted(s), NEW p, Len(p) \in Nat,
         \A n \in 1 .. Len(p) : p[n] \in Cells
  PROVE  \A j \in Cells :
           CharAt(Blank(s, p), j) =
             IF \E n \in 1 .. Len(p) : p[n] = j THEN Char(s, Space) ELSE CharAt(s, j)
<1> DEFINE N == Len(p)
           blank == Char(s, Space)
<1>1. \A n \in 1 .. N : p[n] \in Nat
  BY CellAgain
<1>2. PICK f : /\ f[0] = s
               /\ \A n \in 1 .. N :
                    f[n] = push_to_queue(f[n - 1], blank, p[n] % cols, p[n] \div cols)
               /\ \A n \in 0 .. N : f[n] \in Rewritten(s)
               /\ Blank(s, p) = f[N]
  BY ZenonT(60), <1>1, BlankRounds
<1>3. blank \in Chars
  BY CharTyped DEF Space
<1> HIDE DEF blank
<1> DEFINE Right(n) ==
             \A j \in Cells :
               CharAt(f[n], j) = IF \E k \in 1 .. n : p[k] = j THEN blank
                                 ELSE CharAt(s, j)
           G == {n \in 0 .. N : Right(n)}
<1>4. 0 \in G
  BY <1>2
<1>5. ASSUME NEW n \in 1 .. N, n - 1 \in G
      PROVE  n \in G
  <2>1. n - 1 \in 0 .. N /\ n \in 0 .. N
    OBVIOUS
  <2>2. IsTerminal(f[n - 1])
    BY <1>2, <2>1, EditedFields DEF Rewritten
  <2>3. p[n] \in Cells
    OBVIOUS
  <2>4. ASSUME NEW j \in Cells
        PROVE  CharAt(f[n], j) = IF j = p[n] THEN blank ELSE CharAt(f[n - 1], j)
    BY <1>2, <1>3, <2>2, <2>3, PushCell
  <2>5. Right(n - 1)
    BY <1>5
  <2>6. ASSUME NEW j \in Cells
        PROVE  (\E k \in 1 .. n : p[k] = j) <=>
                 j = p[n] \/ \E k \in 1 .. n - 1 : p[k] = j
    OBVIOUS
  <2>7. Right(n)
    BY <2>4, <2>5, <2>6
  <2> QED
    BY <2>1, <2>7
<1> HIDE DEF G
<1>6. N \in G
  <2> HIDE DEF N
  <2>1. N \in Nat
    BY DEF N
  <2>2. \A n \in 1 .. N : n - 1 \in G => n \in G
    BY <1>5
  <2>3. \A n \in 0 .. N : n \in G
    BY <1>4, <2>1, <2>2, CountUp
  <2> QED
    BY <2>1, <2>3
<1> QED
  BY <1>2, <1>6 DEF G, blank

LEMMA BlankRange ==
  ASSUME NEW s, IsTerminal(s), Painted(s), NEW a \in Int, NEW b \in Int,
         a .. b \subseteq Cells
  PROVE  \A j \in Cells :
           CharAt(Blank(s, Upwards(a, b)), j) =
             IF j \in a .. b THEN Char(s, Space) ELSE CharAt(s, j)
<1> DEFINE p == Upwards(a, b)
<1>1. /\ Len(p) = IF b < a THEN 0 ELSE b - a + 1
      /\ Len(p) \in Nat
      /\ \A n \in 1 .. Len(p) : p[n] = a + n - 1 /\ p[n] \in a .. b
  BY UpwardsAre
<1> HIDE DEF p
<1>2. \A j \in a .. b : j - a + 1 \in 1 .. Len(p) /\ p[j - a + 1] = j
  <2>1. ASSUME NEW j \in a .. b PROVE j - a + 1 \in 1 .. Len(p) /\ j = a + (j - a + 1) - 1
    BY <1>1
  <2> QED
    BY <1>1, <2>1
<1>3. \A j : (\E n \in 1 .. Len(p) : p[n] = j) <=> j \in a .. b
  BY <1>1, <1>2
<1>4. \A j \in Cells :
        CharAt(Blank(s, p), j) =
          IF \E n \in 1 .. Len(p) : p[n] = j THEN Char(s, Space) ELSE CharAt(s, j)
  BY <1>1, BlankText
<1> QED
  BY <1>3, <1>4 DEF p

\* Cells that move d back, from the first to the last.
LEMMA CopiedBack ==
  ASSUME NEW s, IsTerminal(s), NEW d \in Nat \ {0}, NEW a \in Int, NEW b \in Int,
         a .. b \subseteq Cells, a - d \in Nat
  PROVE  \A j \in Cells :
           CharAt(CopyCells(s, -d, Upwards(a, b)), j) =
             IF j + d \in a .. b THEN CharAt(s, j + d) ELSE CharAt(s, j)
<1> DEFINE p == Upwards(a, b)
           N == Len(p)
           e == -d
<1>1. /\ Len(p) = IF b < a THEN 0 ELSE b - a + 1
      /\ Len(p) \in Nat
      /\ \A n \in 1 .. Len(p) : p[n] = a + n - 1 /\ p[n] \in a .. b
  BY UpwardsAre
<1> HIDE DEF p
<1>2. \A n \in 1 .. N : /\ p[n] \in Cells /\ p[n] + e \in Cells /\ p[n] \in Nat
                        /\ p[n] + e \in Nat
  <2>1. \A i \in a .. b : i \in Nat /\ i + e \in Nat /\ i + e <= i
    BY CellAgain
  <2>2. \A i \in a .. b : i + e \in Cells
    BY <2>1, CellsCounted DEF Cells
  <2> QED
    BY <1>1, <2>1, <2>2
<1>3. FromCells(p, e) /\ e \in Int
  <2>1. e \in Int
    OBVIOUS
  <2> HIDE DEF e
  <2>2. FromCells(p, e)
    BY <1>1, <1>2 DEF FromCells
  <2> QED
    BY <2>1, <2>2
<1>4. PICK f : /\ f[0] = s
               /\ \A n \in 1 .. N : f[n] = CopyCell(f[n - 1], p[n], p[n] + e)
               /\ \A n \in 0 .. N : f[n] \in Rewritten(s)
               /\ CopyCells(s, e, p) = f[N]
  BY <1>3, CopyRounds
<1> DEFINE Right(n) ==
             \A j \in Cells :
               CharAt(f[n], j) = IF j + d \in a .. a + n - 1 THEN CharAt(s, j + d)
                                 ELSE CharAt(s, j)
           G == {n \in 0 .. N : Right(n)}
<1>5. 0 \in G
  BY <1>1, <1>4
<1>6. ASSUME NEW n \in 1 .. N, n - 1 \in G
      PROVE  n \in G
  <2>1. n - 1 \in 0 .. N /\ n \in 0 .. N /\ n \in Int
    BY <1>1
  <2>2. IsTerminal(f[n - 1])
    BY <1>4, <2>1, EditedFields DEF Rewritten
  <2> DEFINE i == p[n]
             c == CharAt(f[n - 1], i)
  <2>3. i \in Cells /\ i + e \in Cells /\ i = a + n - 1 /\ i \in Int
    BY <1>1, <1>2
  <2>4. c \in Chars
    BY <2>2, <2>3, CharAtTyped DEF IsTerminal
  <2>5. f[n] = push_to_queue(f[n - 1], c, (i + e) % cols, (i + e) \div cols)
    BY <1>4 DEF CopyCell
  <2> HIDE DEF i, c
  <2>6. ASSUME NEW j \in Cells
        PROVE  CharAt(f[n], j) = IF j = i + e THEN c ELSE CharAt(f[n - 1], j)
    BY <2>2, <2>3, <2>4, <2>5, PushCell
  <2>7. Right(n - 1)
    BY <1>6
  <2>8. c = CharAt(s, i)
    <3>1. i + d \notin a .. a + (n - 1) - 1
      BY <2>1, <2>3
    <3> QED
      BY <2>3, <2>7, <3>1 DEF c
  <2>9. ASSUME NEW j \in Cells
        PROVE  /\ j = i + e <=> j + d = i
               /\ j + d \in a .. a + n - 1 <=>
                    j + d = i \/ j + d \in a .. a + (n - 1) - 1
    <3>1. j \in Int
      BY CellAgain
    <3> QED
      BY <2>1, <2>3, <3>1
  <2>10. Right(n)
    BY <2>6, <2>7, <2>8, <2>9
  <2> QED
    BY <2>1, <2>10
<1> HIDE DEF G
<1>7. N \in G
  <2> HIDE DEF N
  <2>1. N \in Nat
    BY <1>1 DEF N
  <2>2. \A n \in 1 .. N : n - 1 \in G => n \in G
    BY <1>6
  <2>3. \A n \in 0 .. N : n \in G
    BY <1>5, <2>1, <2>2, CountUp
  <2> QED
    BY <2>1, <2>3
<1>8. \A j : j \in a .. b <=> j \in a .. a + N - 1
  BY <1>1
<1>9. ASSUME NEW j \in Cells
      PROVE  CharAt(f[N], j) = IF j + d \in a .. b THEN CharAt(s, j + d)
                               ELSE CharAt(s, j)
  BY <1>7, <1>8 DEF G
<1> QED
  BY <1>4, <1>9 DEF p, e

\* Cells that move d on, from the last to the first.
LEMMA CopiedForth ==
  ASSUME NEW s, IsTerminal(s), NEW d \in Nat \ {0}, NEW a \in Int, NEW b \in Int,
         a .. b \subseteq Cells, a .. b + d \subseteq Cells
  PROVE  \A j \in Cells :
           CharAt(CopyCells(s, d, Downwards(b, a)), j) =
             IF j - d \in a .. b THEN CharAt(s, j - d) ELSE CharAt(s, j)
<1> DEFINE p == Downwards(b, a)
           N == Len(p)
<1>1. /\ Len(p) = IF b < a THEN 0 ELSE b - a + 1
      /\ Len(p) \in Nat
      /\ \A n \in 1 .. Len(p) : p[n] = b - n + 1 /\ p[n] \in a .. b
  BY DownwardsAre
<1> HIDE DEF p
<1>2. \A n \in 1 .. N : p[n] \in Cells /\ p[n] + d \in Cells /\ p[n] \in Nat
  <2>1. \A i \in a .. b : i \in Nat /\ i + d \in a .. b + d
    BY CellAgain
  <2> QED
    BY <1>1, <2>1
<1>3. FromCells(p, d) /\ d \in Int
  BY <1>1, <1>2, CellAgain DEF FromCells
<1>4. PICK f : /\ f[0] = s
               /\ \A n \in 1 .. N : f[n] = CopyCell(f[n - 1], p[n], p[n] + d)
               /\ \A n \in 0 .. N : f[n] \in Rewritten(s)
               /\ CopyCells(s, d, p) = f[N]
  BY <1>3, CopyRounds
<1> DEFINE Right(n) ==
             \A j \in Cells :
               CharAt(f[n], j) = IF j - d \in b - n + 1 .. b THEN CharAt(s, j - d)
                                 ELSE CharAt(s, j)
           G == {n \in 0 .. N : Right(n)}
<1>5. 0 \in G
  BY <1>1, <1>4
<1>6. ASSUME NEW n \in 1 .. N, n - 1 \in G
      PROVE  n \in G
  <2>1. n - 1 \in 0 .. N /\ n \in 0 .. N /\ n \in Int
    BY <1>1
  <2>2. IsTerminal(f[n - 1])
    BY <1>4, <2>1, EditedFields DEF Rewritten
  <2> DEFINE i == p[n]
             c == CharAt(f[n - 1], i)
  <2>3. i \in Cells /\ i + d \in Cells /\ i = b - n + 1 /\ i \in Int
    BY <1>1, <1>2
  <2>4. c \in Chars
    BY <2>2, <2>3, CharAtTyped DEF IsTerminal
  <2>5. f[n] = push_to_queue(f[n - 1], c, (i + d) % cols, (i + d) \div cols)
    BY <1>4 DEF CopyCell
  <2> HIDE DEF i, c
  <2>6. ASSUME NEW j \in Cells
        PROVE  CharAt(f[n], j) = IF j = i + d THEN c ELSE CharAt(f[n - 1], j)
    BY <2>2, <2>3, <2>4, <2>5, PushCell
  <2>7. Right(n - 1)
    BY <1>6
  <2>8. c = CharAt(s, i)
    <3>1. i - d \notin b - (n - 1) + 1 .. b
      BY <2>1, <2>3
    <3> QED
      BY <2>3, <2>7, <3>1 DEF c
  <2>9. ASSUME NEW j \in Cells
        PROVE  /\ j = i + d <=> j - d = i
               /\ j - d \in b - n + 1 .. b <=>
                    j - d = i \/ j - d \in b - (n - 1) + 1 .. b
    <3>1. j \in Int
      BY CellAgain
    <3> QED
      BY <1>1, <2>1, <2>3, <3>1
  <2>10. Right(n)
    BY <2>6, <2>7, <2>8, <2>9
  <2> QED
    BY <2>1, <2>10
<1> HIDE DEF G
<1>7. N \in G
  <2> HIDE DEF N
  <2>1. N \in Nat
    BY <1>1 DEF N
  <2>2. \A n \in 1 .. N : n - 1 \in G => n \in G
    BY <1>6
  <2>3. \A n \in 0 .. N : n \in G
    BY <1>5, <2>1, <2>2, CountUp
  <2> QED
    BY <2>1, <2>3
<1>8. \A j : j \in a .. b <=> j \in b - N + 1 .. b
  BY <1>1
<1>9. ASSUME NEW j \in Cells
      PROVE  CharAt(f[N], j) = IF j - d \in a .. b THEN CharAt(s, j - d)
                               ELSE CharAt(s, j)
  BY <1>7, <1>8 DEF G
<1> QED
  BY <1>4, <1>9 DEF p

\* Lines top to bottom - 1 go up or down by d cells.
RowsUp(t, u, a, b, d, blank) ==
  \A j \in Cells :
    CharAt(u, j) = IF j < a \/ j >= b THEN CharAt(t, j)
                   ELSE IF j + d < b THEN CharAt(t, j + d)
                   ELSE blank
RowsDown(t, u, a, b, d, blank) ==
  \A j \in Cells :
    CharAt(u, j) = IF j < a \/ j >= b THEN CharAt(t, j)
                   ELSE IF j - d >= a THEN CharAt(t, j - d)
                   ELSE blank

\* The first cells of lines.
LEMMA RegionCells ==
  ASSUME NEW top \in Nat, NEW bottom \in 1 .. rows, top < bottom
  PROVE  /\ top * cols \in Nat /\ bottom * cols \in Nat
         /\ (top + 1) * cols = top * cols + cols
         /\ (bottom - 1) * cols = bottom * cols - cols
         /\ top * cols + cols <= bottom * cols
         /\ top * cols .. bottom * cols - 1 \subseteq Cells
<1>1. bottom \in Nat /\ bottom <= rows /\ bottom - 1 \in Nat
  BY ScreenAssumption
<1>2. /\ top * cols \in Nat /\ bottom * cols \in Nat
      /\ (top + 1) * cols = top * cols + cols
      /\ top * cols .. bottom * cols - 1 \subseteq Cells
  BY <1>1, LinesOfScreen
<1>3. (bottom - 1 + 1) * cols = (bottom - 1) * cols + cols
  BY <1>1, LinesOfScreen
<1>4. (bottom - 1) * cols = bottom * cols - cols
  <2>1. bottom - 1 + 1 = bottom
    BY <1>1
  <2>2. (bottom - 1) * cols \in Int
    BY <1>1, ScreenAssumption
  <2> QED
    BY <1>2, <1>3, <2>1, <2>2, ScreenAssumption
<1>5. top * cols + cols <= bottom * cols
  BY <1>1, LinesInOrder
<1> QED
  BY <1>2, <1>4, <1>5

LEMMA ScrollText ==
  ASSUME NEW s, Editable(s), s.top < s.bottom
  PROVE  RowsUp(s, scroll(s), s.top * cols, s.bottom * cols, cols, Char(s, Space))
<1> DEFINE a == s.top * cols
           b == s.bottom * cols
           t == CopyCells(s, -cols, Upwards(a + cols, b - 1))
           u == Blank(t, Upwards(b - cols, b - 1))
<1>1. /\ a \in Nat /\ b \in Nat /\ (s.top + 1) * cols = a + cols
      /\ (s.bottom - 1) * cols = b - cols /\ a + cols <= b
      /\ a .. b - 1 \subseteq Cells
  BY RegionCells DEF Editable
<1>2. scroll(s) = u
  <2>1. (s.bottom - 1 + 1) * cols = b
    BY DEF Editable
  <2> QED
    BY <1>1, <2>1 DEF scroll, BlankLine
<1> HIDE DEF a, b
<1>3. cols \in Nat \ {0}
  BY ScreenAssumption
<1>4. /\ a + cols \in Int /\ b - 1 \in Int /\ (a + cols) - cols \in Nat
      /\ a + cols .. b - 1 \subseteq Cells
      /\ b - cols \in Int /\ b - cols .. b - 1 \subseteq Cells
  BY <1>1, <1>3
<1>5. \A j \in Cells : CharAt(t, j) = IF j + cols \in a + cols .. b - 1
                                        THEN CharAt(s, j + cols) ELSE CharAt(s, j)
  BY ZenonT(60), <1>3, <1>4, CopiedBack DEF Editable
<1>6. t \in Rewritten(s)
  <2>1. \A n \in 1 .. Len(Upwards(a + cols, b - 1)) :
          Upwards(a + cols, b - 1)[n] \in a + cols .. b - 1
    BY <1>4, UpwardsAre
  <2>2. \A i \in a + cols .. b - 1 : i \in Cells /\ i + (-cols) \in Nat
    BY <1>1, <1>3, <1>4
  <2>3. FromCells(Upwards(a + cols, b - 1), -cols)
    BY <1>4, <2>1, <2>2, UpwardsAre DEF FromCells
  <2>4. -cols \in Int
    BY <1>3
  <2> QED
    BY <2>3, <2>4, CopyCellsRewrite DEF Editable
<1>7. IsTerminal(t) /\ Painted(t) /\ Char(t, Space) = Char(s, Space)
  BY <1>6, EditedFields DEF Rewritten, Painted, Editable, Char
<1> HIDE DEF t
<1>8. \A j \in Cells : CharAt(u, j) = IF j \in b - cols .. b - 1 THEN Char(s, Space)
                                      ELSE CharAt(t, j)
  BY <1>4, <1>7, BlankRange
<1> HIDE DEF u
<1>9. ASSUME NEW j \in Cells
      PROVE  CharAt(u, j) = IF j < a \/ j >= b THEN CharAt(s, j)
                            ELSE IF j + cols < b THEN CharAt(s, j + cols)
                            ELSE Char(s, Space)
  <2>1. j \in Nat
    BY CellAgain
  <2>2. /\ j \in b - cols .. b - 1 <=> j >= b - cols /\ j < b
        /\ j + cols \in a + cols .. b - 1 <=> j >= a /\ j + cols < b
        /\ j >= b - cols <=> ~(j + cols < b)
        /\ j >= b => j >= a
        /\ j < a => j + cols < b
        /\ j < a => j < b
        /\ j >= b => ~(j + cols < b)
    BY <1>1, <1>3, <2>1
  <2> QED
    BY <1>5, <1>8, <2>1, <2>2, <1>1
<1> QED
  BY <1>2, <1>9 DEF RowsUp, a, b

LEMMA RevscrollText ==
  ASSUME NEW s, Editable(s), s.top < s.bottom
  PROVE  RowsDown(s, revscroll(s), s.top * cols, s.bottom * cols, cols,
                  Char(s, Space))
<1> DEFINE a == s.top * cols
           b == s.bottom * cols
           t == CopyCells(s, cols, Downwards(b - cols - 1, a))
           u == Blank(t, Upwards(a, a + cols - 1))
<1>1. /\ a \in Nat /\ b \in Nat /\ (s.top + 1) * cols = a + cols
      /\ (s.bottom - 1) * cols = b - cols /\ a + cols <= b
      /\ a .. b - 1 \subseteq Cells
  BY RegionCells DEF Editable
<1>2. revscroll(s) = u
  <2> DEFINE c == (s.bottom - 1) * cols
             e == (s.top + 1) * cols
  <2>1. c = b - cols /\ e = a + cols /\ a \in Nat /\ b \in Nat
    BY <1>1
  <2> HIDE DEF a, b, c, e
  <2>2. c - 1 = b - cols - 1 /\ e - 1 = a + cols - 1
    BY <2>1, ScreenAssumption
  <2> QED
    BY <2>2 DEF revscroll, BlankLine, a, c, e
<1> HIDE DEF a, b
<1>3. cols \in Nat \ {0}
  BY ScreenAssumption
<1>4. /\ a \in Int /\ b - cols - 1 \in Int /\ a + cols - 1 \in Int
      /\ a .. b - cols - 1 \subseteq Cells
      /\ a .. (b - cols - 1) + cols \subseteq Cells
      /\ a .. a + cols - 1 \subseteq Cells
  BY <1>1, <1>3
<1>5. \A j \in Cells : CharAt(t, j) = IF j - cols \in a .. b - cols - 1
                                        THEN CharAt(s, j - cols) ELSE CharAt(s, j)
  <2> DEFINE m == b - cols - 1
  <2>1. m \in Int /\ a .. m \subseteq Cells /\ a .. m + cols \subseteq Cells
    BY <1>4
  <2> HIDE DEF m
  <2>2. \A j \in Cells : CharAt(CopyCells(s, cols, Downwards(m, a)), j) =
                         IF j - cols \in a .. m THEN CharAt(s, j - cols) ELSE CharAt(s, j)
    <3>1. IsTerminal(s) /\ a \in Int
      BY <1>4 DEF Editable
    <3> QED
      BY <1>3, <2>1, <3>1, CopiedForth, Zenon
  <2> QED
    BY <2>2 DEF m
<1>6. t \in Rewritten(s)
  <2>1. \A n \in 1 .. Len(Downwards(b - cols - 1, a)) :
          Downwards(b - cols - 1, a)[n] \in a .. b - cols - 1
    BY <1>4, DownwardsAre
  <2>2. \A i \in a .. b - cols - 1 : i \in Cells /\ i + cols \in Nat
    BY <1>1, <1>3, <1>4
  <2>3. FromCells(Downwards(b - cols - 1, a), cols)
    BY <1>4, <2>1, <2>2, DownwardsAre DEF FromCells
  <2>4. cols \in Int
    BY <1>3
  <2> QED
    BY <2>3, <2>4, CopyCellsRewrite DEF Editable
<1>7. IsTerminal(t) /\ Painted(t) /\ Char(t, Space) = Char(s, Space)
  BY <1>6, EditedFields DEF Rewritten, Painted, Editable, Char
<1> HIDE DEF t
<1>8. \A j \in Cells : CharAt(u, j) = IF j \in a .. a + cols - 1 THEN Char(s, Space)
                                      ELSE CharAt(t, j)
  BY <1>4, <1>7, BlankRange
<1> HIDE DEF u
<1>9. ASSUME NEW j \in Cells
      PROVE  CharAt(u, j) = IF j < a \/ j >= b THEN CharAt(s, j)
                            ELSE IF j - cols >= a THEN CharAt(s, j - cols)
                            ELSE Char(s, Space)
  <2>1. j \in Nat
    BY CellAgain
  <2>2. /\ j \in a .. a + cols - 1 <=> j >= a /\ ~(j - cols >= a)
        /\ j - cols \in a .. b - cols - 1 <=> j - cols >= a /\ j < b
        /\ j < a => ~(j - cols >= a)
        /\ j >= b => j - cols >= a /\ j >= a
    BY <1>1, <1>3, <2>1
  <2> QED
    BY <1>5, <1>8, <2>1, <2>2, <1>1
<1> QED
  BY <1>2, <1>9 DEF RowsDown, a, b

\* A loop of k rounds.
LEMMA Rounds ==
  ASSUME NEW k \in Nat
  PROVE  Len(Upwards(1, k)) = k
<1> DEFINE one == 1
<1>1. one \in Int
  OBVIOUS
<1> HIDE DEF one
<1>2. Len(Upwards(one, k)) = IF k < one THEN 0 ELSE k - one + 1
  BY <1>1, UpwardsAre
<1> QED
  BY <1>2 DEF one

\* Below the region revscroll blanks the line at its top.
Blanked(s, t, a, b, blank) ==
  \A j \in Cells : CharAt(t, j) = IF j \in a .. b THEN blank ELSE CharAt(s, j)

-----------------------------------------------------------------------------
(* Bytes that move up and down *)

\* Contexts that hold the same text.
SameText(s, t) == t.grid = s.grid /\ t.queue = s.queue /\ t.map = s.map

LEMMA SameCells ==
  ASSUME NEW s, NEW t, SameText(s, t)
  PROVE  /\ \A i : CharAt(t, i) = CharAt(s, i)
         /\ Contents(t) = Contents(s)
BY DEF SameText, CharAt, Contents

LEMMA SameTwice ==
  ASSUME NEW s, NEW t, NEW u, SameText(s, t), SameText(t, u)
  PROVE  SameText(s, u)
BY DEF SameText

LEMMA CursorKeepsText ==
  ASSUME NEW s, IsTerminal(s), NEW x, NEW y
  PROVE  /\ SameText(s, set_cursor_pos(s, x, y))
         /\ set_cursor_pos(s, x, y).top = s.top
         /\ set_cursor_pos(s, x, y).bottom = s.bottom
BY DEF set_cursor_pos, SameText, IsTerminal, IsContext, BufferFields, TerminalFields

LEMMA AlikeText ==
  ASSUME NEW s, NEW t, Alike(s, t)
  PROVE  /\ SameText(s, t) /\ X(t) = X(s) /\ Y(t) = Y(s)
         /\ t.top = s.top /\ t.bottom = s.bottom
BY AlikeFields DEF SameText, X, Y

\* The end of a sequence.
LEMMA ClosedAlike ==
  ASSUME NEW t, IsTerminal(t)
  PROVE  Alike(t, Closed(t))
BY DEF Closed, NoSequence, IsTerminal, IsContext, BufferFields, TerminalFields,
       Alike, Drawing

LEMMA DoneAlike ==
  ASSUME NEW t, IsTerminal(t), Done(t)
  PROVE  Alike(t, ctx')
BY DEF Done, Takes, SequenceEnded, NoSequence, IsTerminal, IsContext,
       BufferFields, TerminalFields, Alike, Drawing

LEMMA DuringAlike ==
  ASSUME IsTerminal(ctx), Sound(ctx)
  PROVE  Alike(ctx, During)
BY DEF During, Entered, Fresh, IsTerminal, IsContext, BufferFields,
       TerminalFields, Alike, Drawing

\* The line of a cell.
LEMMA LineOf ==
  ASSUME NEW i \in Cells, NEW y \in Nat
  PROVE  i < y * cols <=> i \div cols < y
<1> DEFINE l == i \div cols
           c == i % cols
           a == y * cols
           b == l * cols
<1>1. /\ i \in Nat /\ l \in Nat /\ c \in 0 .. cols - 1
      /\ i = b + c /\ a \in Nat /\ b \in Nat
  <2>1. i \in Nat
    BY CellAgain
  <2>2. l \in Nat /\ c \in 0 .. cols - 1 /\ i = b + c
    BY <2>1, PlaceOfCell
  <2> HIDE DEF l, c
  <2>3. a \in Nat /\ b \in Nat
    BY <2>2, ScreenAssumption
  <2> QED
    BY <2>1, <2>2, <2>3
<1>2. l < y => b + cols <= a
  BY <1>1, LinesInOrder
<1>3. y <= l => a <= b
  <2>1. y < l => a + cols <= b
    BY <1>1, LinesInOrder
  <2>2. y = l => a = b
    OBVIOUS
  <2> HIDE DEF l, a, b
  <2> QED
    BY <1>1, <2>1, <2>2, ScreenAssumption
<1> HIDE DEF l, c, a, b
<1>4. i < a <=> l < y
  BY <1>1, <1>2, <1>3, ScreenAssumption
<1> QED
  BY <1>4 DEF l, a

\* What a vertical move keeps.
Vertically(s, t) ==
  /\ t.top = s.top /\ t.bottom = s.bottom
  /\ Y(s) \in s.top .. s.bottom - 1 => Y(t) \in s.top .. s.bottom - 1
  /\ \A i \in Cells : i \div cols \notin s.top .. s.bottom - 1
                        => CharAt(t, i) = CharAt(s, i)

LEMMA VerticallyAlike ==
  ASSUME NEW s, NEW t, NEW u, Vertically(s, t), Alike(t, u)
  PROVE  Vertically(s, u)
<1>1. SameText(t, u) /\ Y(u) = Y(t) /\ u.top = t.top /\ u.bottom = t.bottom
  BY AlikeText
<1>2. \A i : CharAt(u, i) = CharAt(t, i)
  BY <1>1, SameCells
<1> QED
  BY <1>1, <1>2 DEF Vertically

LEMMA AlikeVertically ==
  ASSUME NEW s, NEW t, NEW u, Alike(s, t), Vertically(t, u)
  PROVE  Vertically(s, u)
<1>1. SameText(s, t) /\ Y(t) = Y(s) /\ t.top = s.top /\ t.bottom = s.bottom
  BY AlikeText
<1>2. \A i : CharAt(t, i) = CharAt(s, i)
  BY <1>1, SameCells
<1> QED
  BY <1>1, <1>2 DEF Vertically

\* The cells outside of the region.
LEMMA OutsideOf ==
  ASSUME NEW s, Editable(s), s.top < s.bottom, NEW i \in Cells,
         i \div cols \notin s.top .. s.bottom - 1
  PROVE  i < s.top * cols \/ i >= s.bottom * cols
<1>1. s.top \in Nat /\ s.bottom \in Nat
  BY ScreenAssumption DEF Editable
<1>2. /\ i < s.top * cols <=> i \div cols < s.top
      /\ i < s.bottom * cols <=> i \div cols < s.bottom
  BY <1>1, LineOf
<1> DEFINE l == i \div cols
           a == s.top * cols
           b == s.bottom * cols
<1>3. l \in Nat /\ i \in Nat /\ a \in Nat /\ b \in Nat
  BY <1>1, CellAgain, ScreenAssumption
<1> HIDE DEF l, a, b
<1> QED
  BY <1>1, <1>2, <1>3 DEF l, a, b

\* A cursor that is set to a line of the region, whether or not it scrolled.
LEMMA SetVertically ==
  ASSUME NEW s, Editable(s), s.top < s.bottom, NEW t \in {s, scroll(s), revscroll(s)},
         NEW x \in Int, NEW y \in Int,
         Y(s) \in s.top .. s.bottom - 1 => y \in s.top .. s.bottom - 1
  PROVE  /\ Vertically(s, set_cursor_pos(t, x, y))
         /\ y \in 0 .. rows - 1 => Y(set_cursor_pos(t, x, y)) = y
<1> DEFINE u == set_cursor_pos(t, x, y)
<1>1. t \in Rewritten(s)
  BY ScrollRewrites, RevscrollRewrites, NothingRewritten DEF Editable
<1>2. IsTerminal(t) /\ t.top = s.top /\ t.bottom = s.bottom
  BY <1>1, EditedFields DEF Editable, Rewritten
<1>3. /\ SameText(t, u) /\ u.top = t.top /\ u.bottom = t.bottom
      /\ u.cursor_y = Clamp(y, rows)
  BY <1>2, CursorKeepsText, CursorSet
<1>4. y \in 0 .. rows - 1 => Y(u) = y
  BY <1>3, ScreenAssumption DEF Y, Clamp
<1>5. s.top .. s.bottom - 1 \subseteq 0 .. rows - 1
  BY ScreenAssumption DEF Editable
<1>6. ASSUME NEW i \in Cells, i \div cols \notin s.top .. s.bottom - 1
      PROVE  CharAt(u, i) = CharAt(s, i)
  <2>1. i < s.top * cols \/ i >= s.bottom * cols
    BY <1>6, OutsideOf
  <2>2. CharAt(scroll(s), i) = CharAt(s, i) /\ CharAt(revscroll(s), i) = CharAt(s, i)
    BY <2>1, ScrollText, RevscrollText DEF RowsUp, RowsDown
  <2>3. CharAt(u, i) = CharAt(t, i)
    BY <1>3, SameCells
  <2> QED
    BY <2>2, <2>3
<1> HIDE DEF u
<1>7. Vertically(s, u)
  BY <1>2, <1>3, <1>4, <1>5, <1>6 DEF Vertically
<1> QED
  BY <1>4, <1>7 DEF u

LEMMA FeedVertically ==
  ASSUME NEW s, Editable(s), s.top < s.bottom, NEW x \in Int
  PROVE  Vertically(s, LineFeed(s, x))
<1> DEFINE y == Y(s)
<1>1. y \in Int /\ y + 1 \in Int
  BY CursorPlace, ScreenAssumption DEF Editable
<1>2. LineFeed(s, x) = IF y = s.bottom - 1 THEN set_cursor_pos(scroll(s), x, y)
                       ELSE set_cursor_pos(s, x, y + 1)
  BY DEF LineFeed
<1>3. CASE y = s.bottom - 1
  <2>1. Vertically(s, set_cursor_pos(scroll(s), x, y))
    BY <1>1, SetVertically
  <2> QED
    BY <1>2, <1>3, <2>1
<1>4. CASE y # s.bottom - 1
  <2>1. s.top \in Int /\ s.bottom \in Int
    BY ScreenAssumption DEF Editable
  <2>2. Y(s) \in s.top .. s.bottom - 1 => y + 1 \in s.top .. s.bottom - 1
    BY <1>1, <1>4, <2>1
  <2>3. Vertically(s, set_cursor_pos(s, x, y + 1))
    BY <1>1, <2>2, SetVertically
  <2> QED
    BY <1>2, <1>4, <2>3
<1> QED
  BY <1>3, <1>4

LEMMA RegionOfContext ==
  ASSUME IsTerminal(ctx), Sound(ctx)
  PROVE  /\ ctx.top \in Nat /\ ctx.bottom \in Nat /\ ctx.top < ctx.bottom
         /\ ctx.bottom <= rows
         /\ Editable(ctx)
<1>1. Region(ctx) /\ Editable(ctx)
  BY SoundEditable DEF Sound, Drawable, Steady
<1> QED
  BY <1>1, ScreenAssumption DEF Region

\* The lines that A and B come to.
LEMMA LinesBetween ==
  ASSUME IsTerminal(ctx), Sound(ctx), NEW y \in 0 .. rows - 1, NEW n \in Nat
  PROVE  /\ LineAbove(y, n) \in 0 .. y
         /\ LineBelow(y, n) \in 0 .. rows - 1
         /\ y # ctx.bottom => LineBelow(y, n) >= y
         /\ y \in ctx.top .. ctx.bottom - 1 =>
              /\ LineAbove(y, n) \in ctx.top .. ctx.bottom - 1
              /\ LineBelow(y, n) \in ctx.top .. ctx.bottom - 1
<1> DEFINE top == ctx.top
           bottom == ctx.bottom
           up == Clamp(y - n, rows)
           down == Clamp(y + n, rows)
<1>1. top \in Nat /\ bottom \in Nat /\ top < bottom /\ bottom <= rows
  BY RegionOfContext
<1>2. up \in 0 .. y /\ down \in y .. rows - 1
  BY ScreenAssumption DEF Clamp
<1>3. /\ LineAbove(y, n) = IF {top, bottom} \cap (up .. y) # {} /\ up < top
                             THEN top ELSE up
      /\ LineBelow(y, n) = IF {top, bottom} \cap (y .. down) # {} /\ down >= bottom
                             THEN bottom - 1 ELSE down
  BY DEF LineAbove, LineBelow
<1> HIDE DEF top, bottom, up, down
<1>4. /\ {top, bottom} \cap (up .. y) # {} <=>
           top \in up .. y \/ bottom \in up .. y
      /\ {top, bottom} \cap (y .. down) # {} <=>
           top \in y .. down \/ bottom \in y .. down
  OBVIOUS
<1> QED
  BY <1>1, <1>2, <1>3, <1>4, ScreenAssumption DEF top, bottom

LEMMA MoveVertical ==
  ASSUME IsTerminal(ctx), Sound(ctx), MoveTo, Byte \in {"A", "F", "B", "e", "E"}
  PROVE  /\ Vertically(ctx, ctx')
         /\ Byte \in {"A", "F"} => Y(ctx') <= Y(ctx)
         /\ Byte \in {"B", "E", "e"} /\ Y(ctx) # ctx.bottom => Y(ctx') >= Y(ctx)
<1> DEFINE x == X(ctx)
           y == Y(ctx)
           n == P[1]
           d == During
           Right(u, v) ==
             /\ u \in Int /\ v \in 0 .. rows - 1
             /\ y \in ctx.top .. ctx.bottom - 1 => v \in ctx.top .. ctx.bottom - 1
             /\ Byte \in {"A", "F"} => v <= y
             /\ Byte \in {"B", "E", "e"} /\ y # ctx.bottom => v >= y
<1>1. x \in Int /\ y \in 0 .. rows - 1 /\ n \in Nat
  BY CursorPlace, ParametersTyped, ScreenAssumption
<1>2. /\ LineAbove(y, n) \in 0 .. y
      /\ LineBelow(y, n) \in 0 .. rows - 1
      /\ y # ctx.bottom => LineBelow(y, n) >= y
      /\ y \in ctx.top .. ctx.bottom - 1 =>
           /\ LineAbove(y, n) \in ctx.top .. ctx.bottom - 1
           /\ LineBelow(y, n) \in ctx.top .. ctx.bottom - 1
  BY <1>1, LinesBetween
<1>3. /\ Command
      /\ \/ Byte \in {"A", "F"} /\ To(IF Byte = "F" THEN 0 ELSE x, LineAbove(y, n))
         \/ /\ Byte \in {"B", "e", "E"}
            /\ To(IF Byte = "E" THEN 0 ELSE x, LineBelow(y, n))
  BY DEF MoveTo
<1>4. Alike(ctx, d) /\ Editable(d) /\ IsTerminal(d)
  BY <1>3, DuringAlike, DuringFields
<1>5. d.top = ctx.top /\ d.bottom = ctx.bottom /\ Y(d) = y /\ d.top < d.bottom
  BY <1>4, AlikeText, RegionOfContext
<1> HIDE DEF x, y, n
<1>6. PICK u, v : To(u, v) /\ Right(u, v)
  <2>1. CASE /\ Byte \in {"A", "F"}
             /\ To(IF Byte = "F" THEN 0 ELSE x, LineAbove(y, n))
    <3> DEFINE v == LineAbove(y, n)
               u == IF Byte = "F" THEN 0 ELSE x
    <3>1. v \in 0 .. y
      BY <1>2
    <3>2. y \in ctx.top .. ctx.bottom - 1 => v \in ctx.top .. ctx.bottom - 1
      BY <1>2
    <3>3. u \in Int
      BY <1>1
    <3>4. To(u, v)
      BY <2>1
    <3> HIDE DEF u, v
    <3>5. v \in 0 .. rows - 1 /\ v <= y
      BY <1>1, <3>1, ScreenAssumption
    <3>6. Right(u, v)
      BY <2>1, <3>2, <3>3, <3>5
    <3> QED
      BY <3>4, <3>6
  <2>2. CASE /\ Byte \in {"B", "e", "E"}
             /\ To(IF Byte = "E" THEN 0 ELSE x, LineBelow(y, n))
    <3> DEFINE v == LineBelow(y, n)
               u == IF Byte = "E" THEN 0 ELSE x
    <3>1. v \in 0 .. rows - 1 /\ (y # ctx.bottom => v >= y)
      BY <1>2
    <3>2. y \in ctx.top .. ctx.bottom - 1 => v \in ctx.top .. ctx.bottom - 1
      BY <1>2
    <3>3. u \in Int
      BY <1>1
    <3>4. To(u, v)
      BY <2>2
    <3> HIDE DEF u, v
    <3>5. Right(u, v)
      BY <2>2, <3>1, <3>2, <3>3
    <3> QED
      BY <3>4, <3>5
  <2> QED
    BY <1>3, <2>1, <2>2
<1> DEFINE t == set_cursor_pos(d, u, v)
<1>7. Done(t)
  BY <1>6 DEF To
<1>8. v \in Int /\ u \in Int
  BY <1>6
<1> HIDE DEF d
<1>9. Vertically(d, t) /\ Y(t) = v
  BY <1>4, <1>5, <1>6, <1>8, SetVertically
<1>10. IsTerminal(t)
  BY <1>4, <1>8, CursorSet, EditedFields
<1> HIDE DEF t
<1>11. Alike(t, ctx')
  BY <1>7, <1>10, DoneAlike
<1>12. Vertically(ctx, ctx') /\ Y(ctx') = v
  BY <1>4, <1>9, <1>11, AlikeVertically, VerticallyAlike, AlikeText
<1> QED
  BY <1>6, <1>12 DEF y

LEMMA ControlVertical ==
  ASSUME IsTerminal(ctx), Sound(ctx), Control, Byte \in {"LF", "VT", "FF"}
  PROVE  Vertically(ctx, ctx')
<1>1. ctx' = LineFeed(Fresh, 0)
  BY DEF Control, Takes
<1>2. Alike(ctx, Fresh) /\ Editable(Fresh)
  BY FreshAlike, FreshFollows
<1>3. Fresh.top < Fresh.bottom
  BY <1>2, AlikeText, RegionOfContext
<1>4. Vertically(Fresh, LineFeed(Fresh, 0))
  BY <1>2, <1>3, FeedVertically
<1> QED
  BY <1>1, <1>2, <1>4, AlikeVertically

LEMMA EscapeVertical ==
  ASSUME IsTerminal(ctx), Sound(ctx), escape_parse, Byte \in {"D", "E", "M"}
  PROVE  Vertically(ctx, ctx')
<1> DEFINE x == X(ctx)
           y == Y(ctx)
           e == Entered
           up == IF y = ctx.top THEN set_cursor_pos(revscroll(e), 0, y)
                 ELSE set_cursor_pos(e, 0, y - 1)
<1>1. PICK t \in {LineFeed(e, x), LineFeed(e, 0), up} : ctx' = Closed(t)
  BY DEF escape_parse, Ended, Takes, Closed
<1>2. Alike(ctx, e) /\ Editable(e)
  BY EnteredFollows
<1>3. /\ e.top = ctx.top /\ e.bottom = ctx.bottom /\ e.top < e.bottom /\ Y(e) = y
      /\ ctx.top \in Nat /\ ctx.bottom \in Nat
  BY <1>2, AlikeText, RegionOfContext
<1>4. x \in Int /\ y \in Int /\ y - 1 \in Int
  <2>1. x \in Int /\ y \in Int
    BY CursorPlace, ScreenAssumption
  <2> HIDE DEF x, y
  <2> QED
    BY <2>1
<1> HIDE DEF e, x, y
<1>5. Vertically(e, LineFeed(e, x)) /\ Vertically(e, LineFeed(e, 0))
  BY <1>2, <1>3, <1>4, FeedVertically
<1>6. Vertically(e, up)
  <2>1. CASE y = ctx.top
    <3> DEFINE t2 == revscroll(e)
               zero == 0
    <3>1. t2 \in {e, scroll(e), revscroll(e)} /\ zero \in Int
      OBVIOUS
    <3> HIDE DEF t2, zero
    <3>2. Vertically(e, set_cursor_pos(t2, zero, y))
      BY <1>2, <1>3, <1>4, <3>1, SetVertically
    <3> QED
      BY <2>1, <3>2 DEF t2, zero
  <2>2. CASE y # ctx.top
    <3> DEFINE z == y - 1
    <3>1. z \in Int /\ (y \in e.top .. e.bottom - 1 => z \in e.top .. e.bottom - 1)
      BY <1>3, <1>4, <2>2
    <3> HIDE DEF z
    <3>2. Vertically(e, set_cursor_pos(e, 0, z))
      BY <1>2, <1>3, <3>1, SetVertically
    <3> QED
      BY <2>2, <3>2 DEF z
  <2> QED
    BY <2>1, <2>2
<1>7. IsTerminal(t)
  <2>1. LineFeed(e, x) \in Edited(e) /\ LineFeed(e, 0) \in Edited(e)
    BY <1>2, <1>4, LineFeedPlaced DEF Placed
  <2>2. up \in Edited(e)
    <3>1. revscroll(e) \in Edited(e) /\ e \in Edited(e)
      BY <1>2, RevscrollRewrites, RewrittenIsEdited, NothingRewritten DEF Editable
    <3> QED
      BY <1>2, <1>4, <3>1, SetAfterEdit DEF Placed
  <2> HIDE DEF up
  <2> QED
    BY <1>2, <2>1, <2>2, EditedFields DEF Editable
<1>8. Vertically(e, t)
  BY <1>5, <1>6
<1>9. Alike(t, Closed(t))
  BY <1>7, ClosedAlike
<1> QED
  BY <1>1, <1>2, <1>8, <1>9, AlikeVertically, VerticallyAlike

\* For every screen, every region and every number of lines: a cursor in the
\* region stays in it when it moves up or down, nothing outside of the region
\* changes, and A never goes down nor B up, but from the line below the region
\* (escape_parse, control_sequence_parse).
THEOREM RegionKept == Spec => KeepsToRegion
<1> DEFINE In(s) == Y(s) \in s.top .. s.bottom - 1
           Vertical == \/ MoveTo /\ Byte \in {"A", "F", "B", "e", "E"}
                       \/ Control /\ Byte \in {"LF", "VT", "FF"}
                       \/ escape_parse /\ Byte \in {"D", "E", "M"}
           Kept == /\ In(ctx) => In(ctx')
                   /\ \A i \in Cells : i \div cols \notin ctx.top .. ctx.bottom - 1
                                         => Contents(ctx')[i] = Contents(ctx)[i]
                   /\ MoveTo /\ Byte \in {"A", "F"} => Y(ctx') <= Y(ctx)
                   /\ MoveTo /\ Byte \in {"B", "E", "e"} /\ Y(ctx) # ctx.bottom
                        => Y(ctx') >= Y(ctx)
<1>1. ASSUME TermInv, Vertical PROVE Kept
  <2>1. Vertically(ctx, ctx')
    BY <1>1, MoveVertical, ControlVertical, EscapeVertical DEF TermInv
  <2>2. In(ctx) => In(ctx')
    BY <2>1 DEF Vertically
  <2>3. \A i \in Cells : i \div cols \notin ctx.top .. ctx.bottom - 1
                           => Contents(ctx')[i] = Contents(ctx)[i]
    BY <2>1 DEF Vertically, Contents
  <2>4. /\ MoveTo /\ Byte \in {"A", "F"} => Y(ctx') <= Y(ctx)
        /\ MoveTo /\ Byte \in {"B", "E", "e"} /\ Y(ctx) # ctx.bottom
             => Y(ctx') >= Y(ctx)
    BY <1>1, MoveVertical DEF TermInv
  <2> QED
    BY <2>2, <2>3, <2>4
<1>2. TermInv => [pending # << >> /\ Vertical => Kept]_vars
  BY <1>1
<1> QED
  BY <1>2, TerminalAlwaysInv, PTL DEF KeepsToRegion

-----------------------------------------------------------------------------
(* Printing: what the cells hold afterwards *)

\* Where a line goes on.
LEMMA WrappedText ==
  ASSUME NEW s, Editable(s), s.top < s.bottom, rows <= cols
  PROVE  /\ s.cursor_y + 1 = s.bottom =>
              /\ RowsUp(s, Wrapped(s), s.top * cols, s.bottom * cols, cols,
                        Char(s, Space))
              /\ Wrapped(s).cursor_y = s.cursor_y
         /\ s.cursor_y + 1 # s.bottom =>
              /\ SameText(s, Wrapped(s))
              /\ Wrapped(s).cursor_y = IF s.cursor_y + 1 >= cols THEN cols - 1
                                       ELSE s.cursor_y + 1
<1> DEFINE y == s.cursor_y + 1
           a == CursorAt(s, 0, s.cursor_y)
           w == CursorAt(s, 0, y)
           t == IF y = s.bottom THEN scroll(a) ELSE w
<1>1. /\ s.cursor_y \in Nat /\ y \in Nat /\ s.bottom \in Nat /\ s.bottom <= rows
      /\ s.top \in Nat /\ IsTerminal(s)
  BY ScreenAssumption DEF Editable, IsTerminal, IsContext
<1>2. /\ a \in Edited(s) /\ a.cursor_y = s.cursor_y /\ SameText(s, a)
      /\ w \in Edited(s) /\ w.cursor_y = y /\ SameText(s, w)
  <2>1. 0 \in Nat
    OBVIOUS
  <2>2. /\ a \in Edited(s) /\ a.cursor_y = s.cursor_y
        /\ w \in Edited(s) /\ w.cursor_y = y
    BY <1>1, <2>1, CursorMoved
  <2>3. SameText(s, a) /\ SameText(s, w)
    BY <1>1 DEF CursorAt, SameText, IsTerminal, IsContext, BufferFields
  <2> QED
    BY <2>2, <2>3
<1>3. Wrapped(s) = IF t.cursor_y >= cols THEN [t EXCEPT !.cursor_y = cols - 1] ELSE t
  <2>1. a = [s EXCEPT !.cursor_x = 0]
    BY DEF CursorAt, Editable, IsTerminal, IsContext, BufferFields
  <2> HIDE DEF a
  <2> QED
    BY <2>1 DEF Wrapped, CursorAt
<1>4. CASE y = s.bottom
  <2>1. Editable(a) /\ a.top = s.top /\ a.bottom = s.bottom
        /\ Char(a, Space) = Char(s, Space)
    BY <1>1, <1>2, EditedEditable, EditedFields DEF Char
  <2> HIDE DEF a
  <2>2. scroll(a).cursor_y = s.cursor_y
    BY <1>2, <2>1, ScrollRewrites DEF Editable, Rewritten
  <2>3. Wrapped(s) = scroll(a)
    <3>1. ~(s.cursor_y >= cols)
      BY <1>1, <1>4, ScreenAssumption
    <3> QED
      BY <1>3, <1>4, <2>2, <3>1
  <2>4. RowsUp(a, scroll(a), s.top * cols, s.bottom * cols, cols, Char(s, Space))
    BY <2>1, ScrollText
  <2>5. \A i : CharAt(a, i) = CharAt(s, i)
    BY <1>2, SameCells
  <2>6. RowsUp(s, scroll(a), s.top * cols, s.bottom * cols, cols, Char(s, Space))
    BY <2>4, <2>5 DEF RowsUp
  <2> QED
    BY <1>4, <2>2, <2>3, <2>6
<1>5. CASE y # s.bottom
  <2>1. t = w
    BY <1>5
  <2>2. IsTerminal(w)
    BY <1>1, <1>2, EditedFields
  <2> HIDE DEF w, t
  <2>3. Wrapped(s) = IF y >= cols THEN [w EXCEPT !.cursor_y = cols - 1] ELSE w
    BY <1>2, <1>3, <2>1
  <2>4. /\ SameText(w, [w EXCEPT !.cursor_y = cols - 1])
        /\ [w EXCEPT !.cursor_y = cols - 1].cursor_y = cols - 1
    BY <2>2 DEF SameText, IsTerminal, IsContext, BufferFields
  <2>5. SameText(s, Wrapped(s))
    BY <1>2, <2>3, <2>4, SameTwice
  <2>6. Wrapped(s).cursor_y = IF y >= cols THEN cols - 1 ELSE y
    BY <1>2, <2>3, <2>4
  <2> QED
    BY <1>5, <2>5, <2>6
<1> QED
  BY <1>4, <1>5

\* One glyph goes to the cursor, once the line has gone on.
Ready(s) == IF Wraps(s) THEN Wrapped(s) ELSE s

LEMMA ReadyFields ==
  ASSUME NEW s, Editable(s)
  PROVE  /\ Ready(s) \in Edited(s) /\ Editable(Ready(s))
         /\ Ready(s).cursor_x = IF Wraps(s) THEN 0 ELSE s.cursor_x
         /\ \A c : Char(Ready(s), c) = Char(s, c)
<1>1. Ready(s) \in Edited(s)
  BY WrappedEdits, NothingRewritten DEF Editable, Ready
<1>2. Ready(s).cursor_x = IF Wraps(s) THEN 0 ELSE s.cursor_x
  BY WrappedEdits DEF Ready
<1> QED
  BY <1>1, <1>2, EditedEditable, EditedFields DEF Editable, Char

LEMMA PutcharText ==
  ASSUME NEW s, Editable(s), NEW c \in 0 .. 255
  PROVE  /\ \A j \in Cells :
              CharAt(raw_putchar(s, c), j) =
                IF /\ OnScreen(Ready(s).cursor_x, Ready(s).cursor_y)
                   /\ j = CellOf(Ready(s).cursor_x, Ready(s).cursor_y)
                  THEN Char(s, c) ELSE CharAt(Ready(s), j)
         /\ raw_putchar(s, c).cursor_x = Ready(s).cursor_x + 1
         /\ raw_putchar(s, c).cursor_y = Ready(s).cursor_y
         /\ raw_putchar(s, c) \in Edited(s)
<1> DEFINE t == Ready(s)
           u == push_to_queue(t, Char(t, c), t.cursor_x, t.cursor_y)
           v == [u EXCEPT !.cursor_x = t.cursor_x + 1]
<1>1. raw_putchar(s, c) = v
  BY DEF raw_putchar, Ready
<1>2. t \in Edited(s) /\ Editable(t) /\ Char(t, c) = Char(s, c)
  BY ReadyFields
<1> HIDE DEF t
<1>3. t.cursor_x \in Nat /\ t.cursor_y \in Nat /\ Char(t, c) \in Chars
  BY <1>2, CharTyped DEF Editable, IsTerminal, IsContext
<1>4. u \in Rewritten(t)
  BY <1>2, <1>3, PushRewrites DEF Editable
<1>5. u.cursor_x = t.cursor_x /\ u.cursor_y = t.cursor_y /\ IsTerminal(u)
  BY <1>2, <1>4, RewrittenIsEdited, EditedFields DEF Editable
<1>6. \A j \in Cells :
        CharAt(u, j) = IF OnScreen(t.cursor_x, t.cursor_y)
                            /\ j = CellOf(t.cursor_x, t.cursor_y)
                         THEN Char(t, c) ELSE CharAt(t, j)
  BY <1>2, <1>3, PushContents DEF Editable, IsTerminal
<1> HIDE DEF u
<1>7. v.cursor_x = t.cursor_x + 1 /\ v.cursor_y = t.cursor_y /\ SameText(u, v)
  BY <1>5 DEF SameText, IsTerminal, IsContext, BufferFields
<1> HIDE DEF v
<1>8. \A j : CharAt(v, j) = CharAt(u, j)
  BY <1>7, SameCells
<1>9. raw_putchar(s, c) \in Edited(s)
  BY PutcharEdits
<1> QED
  BY <1>1, <1>2, <1>6, <1>7, <1>8, <1>9 DEF t

\* The rounds of Putchars.
LEMMA CharRounds ==
  ASSUME NEW s, Editable(s), NEW c \in 0 .. 255, NEW k \in Nat
  PROVE  \E f : /\ f[0] = s
                /\ \A n \in 1 .. k : f[n] = raw_putchar(f[n - 1], c)
                /\ \A n \in 0 .. k : f[n] \in Edited(s)
                /\ Putchars(s, c, k) = f[k]
<1>1. k \in Int /\ Len(Upwards(1, k)) = k
  BY Rounds
<1>2. \E f : /\ f[0] = s
             /\ \A n \in 1 .. Len(Upwards(1, k)) : f[n] = raw_putchar(f[n - 1], c)
             /\ \A n \in 0 .. Len(Upwards(1, k)) : f[n] \in Edited(s)
             /\ Putchars(s, c, k) = f[Len(Upwards(1, k))]
  BY <1>1, PutcharRounds
<1> QED
  BY <1>1, <1>2

\* One glyph when the region may not scroll.
Quiet(s) == s.scroll_enabled = FALSE

LEMMA QuietPutchar ==
  ASSUME NEW s, Editable(s), s.top < s.bottom, rows <= cols,
         Quiet(s), NEW c \in 0 .. 255
  PROVE  /\ s.cursor_x < cols \/ s.cursor_y >= s.bottom - 1 =>
              /\ raw_putchar(s, c).cursor_x = s.cursor_x + 1
              /\ raw_putchar(s, c).cursor_y = s.cursor_y
              /\ \A j \in Cells :
                   CharAt(raw_putchar(s, c), j) =
                     IF /\ s.cursor_x < cols /\ s.cursor_y < rows
                        /\ j = s.cursor_y * cols + s.cursor_x
                       THEN Char(s, c) ELSE CharAt(s, j)
         /\ ~(s.cursor_x < cols \/ s.cursor_y >= s.bottom - 1) =>
              /\ raw_putchar(s, c).cursor_x = 1
              /\ raw_putchar(s, c).cursor_y = s.cursor_y + 1
              /\ \A j \in Cells :
                   CharAt(raw_putchar(s, c), j) =
                     IF j = (s.cursor_y + 1) * cols THEN Char(s, c) ELSE CharAt(s, j)
<1> DEFINE t == raw_putchar(s, c)
           x == s.cursor_x
           y == s.cursor_y
           r == Ready(s)
<1>1. x \in Nat /\ y \in Nat /\ s.bottom \in Nat /\ s.bottom <= rows
  BY ScreenAssumption DEF Editable, IsTerminal, IsContext
<1>2. Wraps(s) <=> ~(x < cols \/ y >= s.bottom - 1)
  BY <1>1, ScreenAssumption DEF Wraps, Quiet
<1>3. /\ t.cursor_x = r.cursor_x + 1 /\ t.cursor_y = r.cursor_y
      /\ \A j \in Cells :
           CharAt(t, j) = IF /\ OnScreen(r.cursor_x, r.cursor_y)
                             /\ j = CellOf(r.cursor_x, r.cursor_y)
                            THEN Char(s, c) ELSE CharAt(r, j)
  BY PutcharText
<1>4. CASE x < cols \/ y >= s.bottom - 1
  <2>1. r = s
    BY <1>2, <1>4 DEF Ready
  <2>2. \A j \in Cells : (OnScreen(x, y) /\ j = CellOf(x, y)) <=>
                           (x < cols /\ y < rows /\ j = y * cols + x)
    <3> DEFINE a == y * cols
    <3>1. a \in Nat
      BY <1>1, ScreenAssumption
    <3> HIDE DEF a
    <3> QED
      BY <1>1, <3>1 DEF OnScreen, CellOf, a
  <2>3. \A j \in Cells : CharAt(t, j) = IF x < cols /\ y < rows /\ j = y * cols + x
                                        THEN Char(s, c) ELSE CharAt(s, j)
    BY <1>3, <2>1, <2>2
  <2> QED
    BY <1>3, <1>4, <2>1, <2>3
<1>5. CASE ~(x < cols \/ y >= s.bottom - 1)
  <2>1. r = Wrapped(s)
    BY <1>2, <1>5 DEF Ready
  <2>2. y + 1 # s.bottom /\ ~(y + 1 >= cols) /\ y + 1 < rows
    BY <1>1, <1>5, ScreenAssumption
  <2>3. SameText(s, r) /\ r.cursor_y = y + 1 /\ r.cursor_x = 0
    BY <2>1, <2>2, WrappedText, WrappedEdits
  <2>4. \A j : CharAt(r, j) = CharAt(s, j)
    BY <2>3, SameCells
  <2>5. OnScreen(0, y + 1) /\ CellOf(0, y + 1) = (y + 1) * cols
    <3> DEFINE a == (y + 1) * cols
    <3>1. a \in Nat
      BY <1>1, ScreenAssumption
    <3> HIDE DEF a
    <3>2. 0 + a = a
      BY <3>1
    <3> QED
      BY <2>2, <3>2, ScreenAssumption DEF OnScreen, CellOf, a
  <2>6. \A j \in Cells : CharAt(t, j) = IF j = (y + 1) * cols THEN Char(s, c)
                                        ELSE CharAt(s, j)
    BY <1>3, <2>3, <2>4, <2>5
  <2>7. t.cursor_x = 1 /\ t.cursor_y = y + 1
    BY <1>3, <2>3
  <2> QED
    BY <1>5, <2>6, <2>7
<1> QED
  BY <1>4, <1>5

\* The cells that text written without scrolling runs through: from the
\* cursor to the end of the region, or of the line if that is below.
Place(s) == s.cursor_y * cols + s.cursor_x
LastLine(s) == IF s.cursor_y < s.bottom - 1 THEN s.bottom - 1 ELSE s.cursor_y
Limit(s) == (LastLine(s) + 1) * cols

\* Where k glyphs bring the cursor.
RunTo(s, t, k) ==
  /\ t.cursor_y \in s.cursor_y .. LastLine(s)
  /\ \/ t.cursor_x \in 0 .. cols /\ Place(t) = Place(s) + k
     \/ t.cursor_x > cols /\ t.cursor_y = LastLine(s) /\ Place(s) + k > Limit(s)

LEMMA RunStep ==
  ASSUME NEW s, NEW t, Editable(s), s.top < s.bottom, rows <= cols,
         Quiet(s), s.cursor_x \in 0 .. cols, s.cursor_y < rows,
         t \in Edited(s), NEW c \in 0 .. 255, NEW k \in Nat, RunTo(s, t, k)
  PROVE  /\ RunTo(s, raw_putchar(t, c), k + 1)
         /\ \A j \in Cells :
              CharAt(raw_putchar(t, c), j) =
                IF j = Place(s) + k /\ j < Limit(s) THEN Char(s, c) ELSE CharAt(t, j)
<1> DEFINE u == raw_putchar(t, c)
           x == t.cursor_x
           y == t.cursor_y
           last == LastLine(s)
           from == Place(s)
           end == Limit(s)
           here == y * cols
           next == (y + 1) * cols
           blank == Char(s, c)
           bottom == s.bottom
           y0 == s.cursor_y
<1>1. /\ Editable(t) /\ t.top = s.top /\ t.bottom = s.bottom
      /\ Quiet(t) /\ Char(t, c) = blank
  BY EditedEditable, EditedFields DEF Editable, Char, Quiet
<1>2. /\ x \in Nat /\ y \in Nat /\ bottom \in Nat /\ bottom <= rows
      /\ y0 \in Nat /\ y0 < rows /\ s.cursor_x \in Nat
  BY <1>1, ScreenAssumption DEF Editable, IsTerminal, IsContext
<1>3. /\ last \in Nat /\ last < rows /\ last = IF y0 < bottom - 1 THEN bottom - 1 ELSE y0
  <2>1. last = IF y0 < bottom - 1 THEN bottom - 1 ELSE y0
    BY DEF LastLine
  <2> HIDE DEF last, y0, bottom
  <2> QED
    BY <1>2, <2>1, ScreenAssumption
<1>4. /\ here \in Nat /\ next = here + cols /\ from \in Nat /\ end \in Nat
      /\ y < last => next + cols <= end
      /\ y = last => next = end
  <2>1. here \in Nat /\ next = here + cols
    BY <1>2, LinesOfScreen, ScreenAssumption
  <2>2. from \in Nat
    BY <1>2, ScreenAssumption DEF Place
  <2>3. end \in Nat /\ (y = last => next = end)
    BY <1>3, ScreenAssumption DEF Limit
  <2>4. y < last => next + cols <= end
    <3>1. y + 1 \in Nat /\ last + 1 \in Nat /\ (y < last => y + 1 < last + 1)
      BY <1>2, <1>3
    <3>2. y + 1 < last + 1 => (y + 1) * cols + cols <= (last + 1) * cols
      BY <3>1, LinesInOrder
    <3> QED
      BY <3>1, <3>2 DEF Limit
  <2> QED
    BY <2>1, <2>2, <2>3, <2>4
<1>5. Place(t) = here + x
  BY DEF Place
<1>6. /\ y \in y0 .. last
      /\ \/ x \in 0 .. cols /\ here + x = from + k
         \/ x > cols /\ y = last /\ from + k > end
  BY <1>5 DEF RunTo
<1>7. /\ x < cols \/ y >= bottom - 1 =>
           /\ u.cursor_x = x + 1 /\ u.cursor_y = y
           /\ \A j \in Cells :
                CharAt(u, j) = IF x < cols /\ y < rows /\ j = here + x
                                 THEN blank ELSE CharAt(t, j)
      /\ ~(x < cols \/ y >= bottom - 1) =>
           /\ u.cursor_x = 1 /\ u.cursor_y = y + 1
           /\ \A j \in Cells : CharAt(u, j) = IF j = next THEN blank ELSE CharAt(t, j)
  BY ZenonT(60), <1>1, QuietPutchar
<1>8. /\ u.cursor_y = y => Place(u) = here + u.cursor_x
      /\ u.cursor_y = y + 1 => Place(u) = next + u.cursor_x
  BY DEF Place
<1>9. \A j \in Cells : j \in Int
  BY CellAgain
<1> HIDE DEF u, x, y, last, from, end, here, next, blank, bottom, y0
<1>10. cols \in Nat /\ cols >= 1 /\ rows \in Nat /\ k \in Nat
  BY ScreenAssumption
<1>11. CASE x < cols
  <2>1. here + x = from + k /\ u.cursor_x = x + 1 /\ u.cursor_y = y
    BY <1>2, <1>6, <1>7, <1>10, <1>11
  <2>2. y < rows /\ here + x < end
    BY <1>2, <1>3, <1>4, <1>6, <1>10, <1>11
  <2>3. \A j \in Cells : CharAt(u, j) = IF j = from + k /\ j < end THEN blank
                                        ELSE CharAt(t, j)
    BY <1>7, <1>11, <2>1, <2>2
  <2>4. u.cursor_x \in 0 .. cols /\ Place(u) = from + (k + 1)
    BY <1>2, <1>4, <1>8, <1>10, <1>11, <2>1
  <2>5. RunTo(s, u, k + 1)
    BY <1>6, <2>1, <2>4 DEF RunTo, last, from, y0
  <2> QED
    BY <2>3, <2>5 DEF u, blank, from, end
<1>12. CASE x = cols /\ y < last
  <2>1. ~(x < cols \/ y >= bottom - 1) /\ here + x = from + k
    BY <1>2, <1>3, <1>6, <1>10, <1>12
  <2>2. next = from + k /\ next < end
    BY <1>4, <1>10, <1>12, <2>1
  <2>3. \A j \in Cells : CharAt(u, j) = IF j = from + k /\ j < end THEN blank
                                        ELSE CharAt(t, j)
    BY <1>7, <2>1, <2>2
  <2>4. u.cursor_x \in 0 .. cols /\ Place(u) = from + (k + 1)
    BY <1>4, <1>7, <1>8, <1>10, <2>1, <2>2
  <2>5. u.cursor_y \in y0 .. last
    BY <1>2, <1>3, <1>6, <1>7, <1>12, <2>1
  <2>6. RunTo(s, u, k + 1)
    BY <2>4, <2>5 DEF RunTo, last, from, y0
  <2> QED
    BY <2>3, <2>6 DEF u, blank, from, end
<1>13. CASE x >= cols /\ y = last
  <2>1. /\ ~(x < cols) /\ y >= bottom - 1
    BY <1>2, <1>3, <1>10, <1>13
  <2>2. from + k >= end
    BY <1>2, <1>4, <1>6, <1>10, <1>13
  <2>3. \A j \in Cells : CharAt(u, j) = IF j = from + k /\ j < end THEN blank
                                        ELSE CharAt(t, j)
    <3>1. \A j \in Cells : ~(j = from + k /\ j < end)
      BY <1>4, <1>10, <2>2
    <3> QED
      BY <1>7, <2>1, <3>1
  <2>4. u.cursor_x > cols /\ u.cursor_y = last /\ from + (k + 1) > end
    BY <1>2, <1>4, <1>7, <1>10, <1>13, <2>1, <2>2
  <2>5. u.cursor_y \in y0 .. last
    BY <1>6, <1>13, <2>4
  <2>6. RunTo(s, u, k + 1)
    BY <2>4, <2>5 DEF RunTo, last, from, y0, end
  <2> QED
    BY <2>3, <2>6 DEF u, blank, from, end
<1>14. x < cols \/ (x = cols /\ y < last) \/ (x >= cols /\ y = last)
  BY <1>2, <1>3, <1>6, <1>10
<1> QED
  BY <1>11, <1>12, <1>13, <1>14

\* k glyphs when the region may not scroll.
LEMMA RunText ==
  ASSUME NEW s, Editable(s), s.top < s.bottom, rows <= cols,
         Quiet(s), s.cursor_x \in 0 .. cols, s.cursor_y < rows,
         NEW c \in 0 .. 255, NEW k \in Nat
  PROVE  \A j \in Cells :
           CharAt(Putchars(s, c, k), j) =
             IF j >= Place(s) /\ j < Place(s) + k /\ j < Limit(s) THEN Char(s, c)
             ELSE CharAt(s, j)
<1> DEFINE N == k
           from == Place(s)
           end == Limit(s)
           blank == Char(s, c)
<1>0. N = k /\ N \in Nat
  OBVIOUS
<1>1. PICK f : /\ f[0] = s
               /\ \A n \in 1 .. N : f[n] = raw_putchar(f[n - 1], c)
               /\ \A n \in 0 .. N : f[n] \in Edited(s)
               /\ Putchars(s, c, k) = f[N]
  <2>1. \E f : /\ f[0] = s
               /\ \A n \in 1 .. k : f[n] = raw_putchar(f[n - 1], c)
               /\ \A n \in 0 .. k : f[n] \in Edited(s)
               /\ Putchars(s, c, k) = f[k]
    BY CharRounds
  <2> QED
    BY <2>1
<1>2. /\ s.cursor_x \in Nat /\ s.cursor_y \in Nat /\ from \in Nat
      /\ LastLine(s) \in Nat /\ s.cursor_y \in s.cursor_y .. LastLine(s)
  <2>1. s.cursor_x \in Nat /\ s.cursor_y \in Nat /\ s.bottom \in Nat
    BY ScreenAssumption DEF Editable, IsTerminal, IsContext
  <2>2. from \in Nat
    BY <2>1, ScreenAssumption DEF Place
  <2>3. LastLine(s) \in Nat /\ s.cursor_y \in s.cursor_y .. LastLine(s)
    BY <2>1 DEF LastLine
  <2> QED
    BY <2>1, <2>2, <2>3
<1> DEFINE Right(n) ==
             /\ RunTo(s, f[n], n)
             /\ \A j \in Cells :
                  CharAt(f[n], j) = IF j >= from /\ j < from + n /\ j < end
                                      THEN blank ELSE CharAt(s, j)
           G == {n \in 0 .. N : Right(n)}
<1>9. \A j \in Cells : j \in Int
  BY CellAgain
<1>3. 0 \in G
  <2>1. RunTo(s, f[0], 0)
    BY <1>1, <1>2 DEF RunTo
  <2> HIDE DEF from, end, blank
  <2>2. \A j \in Cells : ~(j >= from /\ j < from + 0)
    BY <1>2, <1>9
  <2> QED
    BY <1>0, <1>1, <2>1, <2>2
<1> HIDE DEF from, end, blank
<1>4. ASSUME NEW n \in 1 .. N, n - 1 \in G
      PROVE  n \in G
  <2> DEFINE t == f[n - 1]
             m == n - 1
  <2>1. m \in 0 .. N /\ n \in 0 .. N /\ m \in Nat /\ m + 1 = n
    BY <1>0
  <2>2. t \in Edited(s) /\ f[n] = raw_putchar(t, c)
    BY <1>1, <2>1
  <2>3. /\ RunTo(s, t, m)
        /\ \A j \in Cells :
             CharAt(t, j) = IF j >= from /\ j < from + m /\ j < end
                              THEN blank ELSE CharAt(s, j)
    BY <1>4
  <2> HIDE DEF t, m
  <2>4. /\ RunTo(s, raw_putchar(t, c), m + 1)
        /\ \A j \in Cells :
             CharAt(raw_putchar(t, c), j) =
               IF j = from + m /\ j < end THEN blank ELSE CharAt(t, j)
    <3>1. t \in Edited(s) /\ m \in Nat /\ RunTo(s, t, m)
      BY <2>1, <2>2, <2>3
    <3>2. /\ RunTo(s, raw_putchar(t, c), m + 1)
          /\ \A j \in Cells :
               CharAt(raw_putchar(t, c), j) =
                 IF j = Place(s) + m /\ j < Limit(s) THEN Char(s, c) ELSE CharAt(t, j)
      BY SMTT(30), <3>1, RunStep
    <3> QED
      BY <3>2 DEF from, end, blank
  <2>5. \A j \in Cells :
          (j >= from /\ j < from + n /\ j < end) <=>
            \/ j = from + m /\ j < end
            \/ j >= from /\ j < from + m /\ j < end
    BY <1>2, <1>9, <2>1
  <2>6. Right(n)
    BY <2>1, <2>2, <2>3, <2>4, <2>5
  <2> QED
    BY <2>1, <2>6
<1> HIDE DEF G
<1>5. N \in G
  <2>1. \A n \in 1 .. N : n - 1 \in G => n \in G
    BY <1>4
  <2>2. N \in Nat
    BY <1>0
  <2> HIDE DEF N
  <2>3. \A n \in 0 .. N : n \in G
    BY <1>3, <2>1, <2>2, CountUp
  <2> QED
    BY <2>2, <2>3
<1>6. Right(N)
  BY <1>5 DEF G
<1> QED
  BY <1>0, <1>1, <1>6 DEF from, end, blank

-----------------------------------------------------------------------------
(* Moving characters along a line: what the cells hold afterwards *)

LEMMA LineCells ==
  ASSUME NEW y \in 0 .. rows - 1
  PROVE  /\ y * cols \in Nat
         /\ (y + 1) * cols = y * cols + cols
         /\ y * cols + cols <= rows * cols
         /\ \A j \in y * cols .. y * cols + cols - 1 : j \in Cells
<1> DEFINE a == y * cols
           b == (y + 1) * cols
<1>1. y \in Nat /\ y + 1 \in Nat /\ y + 1 <= rows
  BY ScreenAssumption
<1>2. /\ a \in Nat /\ b \in Nat /\ rows * cols \in Nat /\ b <= rows * cols
  BY <1>1, LinesOfScreen
<1>3. b = a + cols
  BY <1>1, LinesOfScreen
<1>4. Cells = 0 .. rows * cols - 1
  BY DEF Cells
<1> DEFINE e == rows * cols
<1> HIDE DEF a, b, e
<1>5. \A j \in a .. a + cols - 1 : j \in 0 .. e - 1
  BY <1>2, <1>3, ScreenAssumption DEF e
<1> QED
  BY <1>2, <1>3, <1>4, <1>5 DEF a, b, e

LEMMA MoveCharacterText ==
  ASSUME NEW s, IsTerminal(s), NEW y \in 0 .. rows - 1, NEW u \in Nat, NEW x \in Nat
  PROVE  \A j \in Cells :
           CharAt(move_character(s, u, y, x, y), j) =
             IF x < cols /\ u < cols /\ j = y * cols + u THEN CharAt(s, y * cols + x)
             ELSE CharAt(s, j)
<1> DEFINE a == y * cols
           c == CharAt(s, a + x)
           to == a + u
           t == move_character(s, u, y, x, y)
<1>1. a \in Nat /\ y < rows /\ \A j \in a .. a + cols - 1 : j \in Cells
  BY LineCells, ScreenAssumption
<1>2. CellOf(x, y) = a + x /\ CellOf(u, y) = to
  <2> HIDE DEF a
  <2>1. x + a = a + x /\ u + a = a + u
    BY <1>1
  <2> QED
    BY <2>1 DEF CellOf, a
<1>3. t = IF x < cols /\ u < cols
            THEN push_to_queue(s, c, to % cols, to \div cols) ELSE s
  BY <1>1, <1>2 DEF move_character, OnScreen, CopyCell
<1> HIDE DEF a, t
<1>4. CASE x < cols /\ u < cols
  <2>1. a + x \in Cells /\ to \in Cells
    BY <1>1, <1>4, ScreenAssumption
  <2>2. c \in Chars
    BY <2>1, CharAtTyped DEF IsTerminal
  <2> HIDE DEF c, to
  <2>3. \A j \in Cells : CharAt(push_to_queue(s, c, to % cols, to \div cols), j) =
                         IF j = to THEN c ELSE CharAt(s, j)
    BY <2>1, <2>2, PushCell
  <2> QED
    BY <1>3, <1>4, <2>3 DEF c, to, a, t
<1>5. CASE ~(x < cols /\ u < cols)
  BY <1>3, <1>5 DEF t
<1> QED
  BY <1>4, <1>5

\* P: the cells from n after x on move n back.
LEMMA MovedBack ==
  ASSUME NEW s, IsTerminal(s), NEW y \in 0 .. rows - 1, NEW n \in Nat, NEW x \in Nat
  PROVE  \A j \in Cells :
           CharAt(MoveCharacters(s, -n, y, Upwards(x + n, cols - 1)), j) =
             IF j \in y * cols + x .. y * cols + cols - 1 - n THEN CharAt(s, j + n)
             ELSE CharAt(s, j)
<1> DEFINE a == y * cols
           first == x + n
           end == cols - 1
           p == Upwards(first, end)
           N == Len(p)
           e == -n
<1>0. a \in Nat /\ cols \in Nat /\ \A j \in a .. a + cols - 1 : j \in Cells
  BY LineCells, ScreenAssumption
<1>1. /\ N = IF end < first THEN 0 ELSE end - first + 1
      /\ N \in Nat
      /\ \A m \in 1 .. N : p[m] = first + m - 1 /\ p[m] \in first .. end
  <2>1. first \in Int /\ end \in Int
    BY <1>0
  <2> HIDE DEF first, end
  <2> QED
    BY <2>1, UpwardsAre
<1> HIDE DEF p, a
<1>2. \A m \in 1 .. N : /\ p[m] \in Nat /\ p[m] < cols /\ p[m] + e \in Nat
                        /\ p[m] + e < cols /\ p[m] + e = x + m - 1
                        /\ p[m] = x + n + m - 1
  BY <1>0, <1>1
<1>3. FromColumns(p, e) /\ e \in Int /\ y \in Nat
  BY <1>1, <1>2, ScreenAssumption DEF FromColumns
<1> HIDE DEF e
<1>4. PICK f : /\ f[0] = s
               /\ \A m \in 1 .. N : f[m] = move_character(f[m - 1], p[m] + e, y, p[m], y)
               /\ \A m \in 0 .. N : f[m] \in Rewritten(s)
               /\ MoveCharacters(s, e, y, p) = f[N]
  BY <1>3, MoveRounds
<1> DEFINE Right(m) ==
             \A j \in Cells :
               CharAt(f[m], j) = IF j \in a + x .. a + x + m - 1 THEN CharAt(s, j + n)
                                 ELSE CharAt(s, j)
           G == {m \in 0 .. N : Right(m)}
<1>5. 0 \in G
  <2>1. ~(\E j : j \in a + x .. a + x + 0 - 1)
    BY <1>0
  <2> QED
    BY <1>1, <1>4, <2>1
<1>6. ASSUME NEW m \in 1 .. N, m - 1 \in G
      PROVE  m \in G
  <2>1. m - 1 \in 0 .. N /\ m \in 0 .. N /\ m \in Int
    BY <1>1
  <2>2. IsTerminal(f[m - 1])
    BY <1>4, <2>1, EditedFields DEF Rewritten
  <2> DEFINE i == p[m]
             u == i + e
             t == f[m - 1]
  <2>3. i \in Nat /\ i < cols /\ u \in Nat /\ u < cols /\ u = x + m - 1 /\ i = x + n + m - 1
    BY <1>2
  <2>4. f[m] = move_character(t, u, y, i, y)
    BY <1>4
  <2> HIDE DEF t, i, u
  <2>5. \A j \in Cells : CharAt(f[m], j) = IF j = a + u THEN CharAt(t, a + i)
                                           ELSE CharAt(t, j)
    BY <2>2, <2>3, <2>4, MoveCharacterText DEF t, a
  <2>6. \A j \in Cells :
          CharAt(t, j) = IF j \in a + x .. a + x + (m - 1) - 1 THEN CharAt(s, j + n)
                         ELSE CharAt(s, j)
    BY <1>6 DEF t
  <2>7. CharAt(t, a + i) = CharAt(s, a + i) /\ a + i = a + u + n
    <3>1. a + i \in Cells /\ a + i \notin a + x .. a + x + (m - 1) - 1
      BY <1>0, <2>1, <2>3
    <3>2. a + i = a + u + n
      BY <1>0, <2>1, <2>3
    <3> QED
      BY <2>6, <3>1, <3>2
  <2>8. ASSUME NEW j \in Cells
        PROVE  j \in a + x .. a + x + m - 1 <=>
                 j = a + u \/ j \in a + x .. a + x + (m - 1) - 1
    <3>1. j \in Int
      BY CellAgain
    <3> QED
      BY <1>0, <2>1, <2>3, <3>1
  <2>9. Right(m)
    BY <2>5, <2>6, <2>7, <2>8
  <2> QED
    BY <2>1, <2>9
<1> HIDE DEF G
<1>7. N \in G
  <2> HIDE DEF N
  <2>1. N \in Nat
    BY <1>1
  <2>2. \A m \in 1 .. N : m - 1 \in G => m \in G
    BY <1>6
  <2>3. \A m \in 0 .. N : m \in G
    BY <1>5, <2>1, <2>2, CountUp
  <2> QED
    BY <2>1, <2>3
<1>8. Right(N)
  BY <1>7 DEF G
<1>9. \A j \in Cells : j \in a + x .. a + x + N - 1 <=> j \in a + x .. a + cols - 1 - n
  BY <1>0, <1>1, CellAgain
<1>10. \A j \in Cells :
         CharAt(f[N], j) = IF j \in a + x .. a + cols - 1 - n THEN CharAt(s, j + n)
                           ELSE CharAt(s, j)
  BY <1>8, <1>9
<1> QED
  BY <1>4, <1>10 DEF p, e, a

\* Insert mode: the cells from x on move one on.
LEMMA MovedForth ==
  ASSUME NEW s, IsTerminal(s), NEW y \in 0 .. rows - 1, NEW x \in 0 .. cols - 1
  PROVE  \A j \in Cells :
           CharAt(MoveCharacters(s, 1, y, Downwards(cols - 1, x)), j) =
             IF j \in y * cols + x + 1 .. y * cols + cols - 1 THEN CharAt(s, j - 1)
             ELSE CharAt(s, j)
<1> DEFINE a == y * cols
           end == cols - 1
           p == Downwards(end, x)
           N == Len(p)
           one == 1
<1>0. /\ a \in Nat /\ cols \in Nat /\ cols >= 1 /\ x \in Nat
      /\ \A j \in a .. a + cols - 1 : j \in Cells
  BY LineCells, ScreenAssumption
<1>1. /\ N = cols - x /\ N \in Nat
      /\ \A m \in 1 .. N : p[m] = cols - m
  <2>1. x \in Int /\ end \in Int /\ x <= end /\ end - x + 1 = cols - x
    BY <1>0
  <2>2. \A m \in Nat : end - m + 1 = cols - m
    BY <1>0
  <2> HIDE DEF end
  <2>3. /\ N = IF end < x THEN 0 ELSE end - x + 1
        /\ N \in Nat
        /\ \A m \in 1 .. N : p[m] = end - m + 1
    BY <2>1, DownwardsAre
  <2> HIDE DEF N, p
  <2> QED
    BY <1>0, <2>1, <2>2, <2>3
<1>2. \A m \in 1 .. N : p[m] \in Nat /\ p[m] + one \in Nat
  BY <1>0, <1>1
<1>3. FromColumns(p, one) /\ one \in Int /\ y \in Nat
  BY <1>1, <1>2, ScreenAssumption DEF FromColumns
<1> HIDE DEF p, a, one
<1>4. PICK f : /\ f[0] = s
               /\ \A m \in 1 .. N : f[m] = move_character(f[m - 1], p[m] + one, y, p[m], y)
               /\ \A m \in 0 .. N : f[m] \in Rewritten(s)
               /\ MoveCharacters(s, one, y, p) = f[N]
  BY <1>3, MoveRounds
<1> DEFINE Right(m) ==
             \A j \in Cells :
               CharAt(f[m], j) = IF j \in a + cols - m + 1 .. a + cols - 1
                                   THEN CharAt(s, j - 1) ELSE CharAt(s, j)
           G == {m \in 0 .. N : Right(m)}
<1>5. 0 \in G
  <2>1. ~(\E j : j \in a + cols - 0 + 1 .. a + cols - 1)
    BY <1>0
  <2> QED
    BY <1>1, <1>4, <2>1
<1>6. ASSUME NEW m \in 1 .. N, m - 1 \in G
      PROVE  m \in G
  <2>1. m - 1 \in 0 .. N /\ m \in 0 .. N /\ m \in Int
    BY <1>1
  <2>2. IsTerminal(f[m - 1])
    BY <1>4, <2>1, EditedFields DEF Rewritten
  <2> DEFINE i == p[m]
             u == i + one
             t == f[m - 1]
  <2>3. i \in Nat /\ i < cols /\ u \in Nat /\ u = i + 1 /\ i = cols - m
    BY <1>0, <1>1 DEF one
  <2>4. f[m] = move_character(t, u, y, i, y)
    BY <1>4
  <2> HIDE DEF t, i, u
  <2>5. \A j \in Cells : CharAt(f[m], j) = IF u < cols /\ j = a + u THEN CharAt(t, a + i)
                                           ELSE CharAt(t, j)
    BY <2>2, <2>3, <2>4, MoveCharacterText DEF t, a
  <2>6. \A j \in Cells :
          CharAt(t, j) = IF j \in a + cols - (m - 1) + 1 .. a + cols - 1
                           THEN CharAt(s, j - 1) ELSE CharAt(s, j)
    BY <1>6 DEF t
  <2>7. CharAt(t, a + i) = CharAt(s, a + i) /\ a + i = a + u - 1
    <3>1. a + i \in Cells /\ a + i \notin a + cols - (m - 1) + 1 .. a + cols - 1
      BY <1>0, <2>1, <2>3
    <3>2. a + i = a + u - 1
      BY <1>0, <2>1, <2>3
    <3> QED
      BY <2>6, <3>1, <3>2
  <2>8. ASSUME NEW j \in Cells
        PROVE  j \in a + cols - m + 1 .. a + cols - 1 <=>
                 (u < cols /\ j = a + u) \/ j \in a + cols - (m - 1) + 1 .. a + cols - 1
    <3>1. j \in Int
      BY CellAgain
    <3> QED
      BY <1>0, <2>1, <2>3, <3>1
  <2>9. ASSUME NEW j \in Cells
        PROVE  CharAt(f[m], j) = IF j \in a + cols - m + 1 .. a + cols - 1
                                   THEN CharAt(s, j - 1) ELSE CharAt(s, j)
    <3>1. CASE u < cols /\ j = a + u
      <4>1. a + i = j - 1
        BY <1>0, <2>3, <3>1
      <4>2. CharAt(f[m], j) = CharAt(t, a + i)
        BY <2>5, <3>1, ZenonT(20)
      <4> QED
        BY <2>7, <2>8, <3>1, <4>1, <4>2
    <3>2. CASE ~(u < cols /\ j = a + u)
      <4>1. CharAt(f[m], j) = CharAt(t, j)
        BY <2>5, <3>2
      <4> QED
        BY <2>6, <2>8, <3>2, <4>1
    <3> QED
      BY <3>1, <3>2
  <2>10. Right(m)
    BY <2>9
  <2> QED
    BY <2>1, <2>10
<1> HIDE DEF G
<1>7. N \in G
  <2> HIDE DEF N
  <2>1. N \in Nat
    BY <1>1
  <2>2. \A m \in 1 .. N : m - 1 \in G => m \in G
    BY <1>6
  <2>3. \A m \in 0 .. N : m \in G
    BY <1>5, <2>1, <2>2, CountUp
  <2> QED
    BY <2>1, <2>3
<1>8. Right(N)
  BY <1>7 DEF G
<1>9. a + cols - N + 1 = a + x + 1
  BY <1>0, <1>1
<1>10. \A j \in Cells :
         CharAt(f[N], j) = IF j \in a + x + 1 .. a + cols - 1 THEN CharAt(s, j - 1)
                           ELSE CharAt(s, j)
  BY <1>8, <1>9
<1> QED
  BY <1>4, <1>10 DEF p, one, a

\* One round of @: a cell moves and a blank takes its place.
LEMMA PutBlankText ==
  ASSUME NEW t, Editable(t), NEW d \in Nat, NEW y \in 0 .. rows - 1,
         NEW i \in 0 .. cols - 1
  PROVE  \A j \in Cells :
           CharAt(PutBlank(t, d, i, y), j) =
             IF j = y * cols + i THEN Char(t, Space)
             ELSE IF i + d < cols /\ j = y * cols + (i + d) THEN CharAt(t, y * cols + i)
             ELSE CharAt(t, j)
<1> DEFINE a == y * cols
           u == move_character(t, i + d, y, i, y)
           v == set_cursor_pos(u, i, y)
           w == raw_putchar(v, Space)
<1>1. /\ i \in Nat /\ i < cols /\ y \in Nat /\ y < rows /\ i + d \in Nat
      /\ i \in Int /\ y \in Int
  BY ScreenAssumption
<1>2. u \in Rewritten(t)
  BY <1>1, MoveCharacterRewrites DEF Editable
<1>3. \A j \in Cells : CharAt(u, j) = IF i + d < cols /\ j = a + (i + d)
                                        THEN CharAt(t, a + i) ELSE CharAt(t, j)
  BY <1>1, MoveCharacterText DEF Editable
<1>4. PutBlank(t, d, i, y) = w
  BY DEF PutBlank
<1> HIDE DEF u
<1>5. Editable(u) /\ Char(u, Space) = Char(t, Space)
  BY <1>2, RewrittenIsEdited, EditedEditable, EditedFields DEF Editable, Char
<1>6. Clamp(i, cols) = i /\ Clamp(y, rows) = y
  BY <1>1, ScreenAssumption DEF Clamp
<1>7. /\ v \in Edited(u) /\ v.cursor_x = i /\ v.cursor_y = y /\ SameText(u, v)
  BY <1>1, <1>5, <1>6, CursorSet, CursorKeepsText DEF Editable
<1> HIDE DEF v
<1>8. Editable(v) /\ Char(v, Space) = Char(t, Space) /\ \A j : CharAt(v, j) = CharAt(u, j)
  BY <1>5, <1>7, EditedEditable, EditedFields, SameCells DEF Editable, Char
<1>9. Ready(v) = v
  <2>1. ~Wraps(v)
    BY <1>1, <1>7, ScreenAssumption DEF Wraps
  <2> QED
    BY <2>1 DEF Ready
<1>10. Space \in 0 .. 255
  BY DEF Space
<1>11. OnScreen(i, y) /\ CellOf(i, y) = a + i
  <2>1. a \in Nat
    BY <1>1, ScreenAssumption
  <2> HIDE DEF a
  <2>2. i + a = a + i
    BY <1>1, <2>1
  <2> QED
    BY <1>1, <2>2 DEF OnScreen, CellOf, a
<1>12. \A j \in Cells : CharAt(w, j) = IF j = a + i THEN Char(v, Space) ELSE CharAt(v, j)
  BY ZenonT(60), <1>7, <1>8, <1>9, <1>10, <1>11, PutcharText
<1> HIDE DEF w, a
<1>13. \A j \in Cells :
         CharAt(w, j) = IF j = a + i THEN Char(t, Space)
                        ELSE IF i + d < cols /\ j = a + (i + d) THEN CharAt(t, a + i)
                        ELSE CharAt(t, j)
  BY <1>3, <1>8, <1>12
<1> QED
  BY <1>4, <1>13 DEF a

\* @: the line from x on makes room for d blanks; for 0 it is blanked.
LEMMA InsertedText ==
  ASSUME NEW s, Editable(s), NEW d \in Nat, NEW x \in 0 .. cols - 1,
         NEW y \in 0 .. rows - 1
  PROVE  \A j \in Cells :
           CharAt(Inserted(s, d, x, y), j) =
             IF j \in y * cols + x .. y * cols + cols - 1
               THEN IF d = 0 \/ j < y * cols + x + d THEN Char(s, Space)
                    ELSE CharAt(s, j - d)
             ELSE CharAt(s, j)
<1> DEFINE a == y * cols
           end == cols - 1
           p == Downwards(end, x)
           N == Len(p)
           blank == Char(s, Space)
<1>0. /\ a \in Nat /\ cols \in Nat /\ cols >= 1 /\ x \in Nat /\ x < cols /\ y \in Nat
      /\ \A j \in a .. a + cols - 1 : j \in Cells
  BY LineCells, ScreenAssumption
<1>1. /\ N = cols - x /\ N \in Nat
      /\ \A m \in 1 .. N : p[m] = cols - m
  <2>1. x \in Int /\ end \in Int /\ x <= end /\ end - x + 1 = cols - x
    BY <1>0
  <2>2. \A m \in Nat : end - m + 1 = cols - m
    BY <1>0
  <2> HIDE DEF end
  <2>3. /\ N = IF end < x THEN 0 ELSE end - x + 1
        /\ N \in Nat
        /\ \A m \in 1 .. N : p[m] = end - m + 1
    BY <2>1, DownwardsAre
  <2> HIDE DEF N, p
  <2> QED
    BY <1>0, <2>1, <2>2, <2>3
<1>2. PICK f : /\ f[0] = s
               /\ \A m \in 1 .. N : f[m] = PutBlank(f[m - 1], d, p[m], y)
               /\ \A m \in 0 .. N : f[m] \in Edited(s)
               /\ Inserted(s, d, x, y) = set_cursor_pos(f[N], x, y)
  <2>1. x \in Nat /\ y \in Nat
    BY <1>0
  <2>2. \E f : InsertedBy(f, s, d, x, y)
    BY <2>1, InsertRounds
  <2> QED
    BY <2>2 DEF InsertedBy
<1> HIDE DEF p, a, blank
<1> DEFINE Right(m) ==
             \A j \in Cells :
               CharAt(f[m], j) = IF j \in a + cols - m .. a + cols - 1
                                   THEN IF d = 0 \/ j < a + cols - m + d THEN blank
                                        ELSE CharAt(s, j - d)
                                 ELSE CharAt(s, j)
           G == {m \in 0 .. N : Right(m)}
<1>5. 0 \in G
  <2>1. ~(\E j : j \in a + cols - 0 .. a + cols - 1)
    BY <1>0
  <2> QED
    BY <1>1, <1>2, <2>1
<1>6. ASSUME NEW m \in 1 .. N, m - 1 \in G
      PROVE  m \in G
  <2>1. m - 1 \in 0 .. N /\ m \in 0 .. N /\ m \in Int
    BY <1>1
  <2>2. Editable(f[m - 1]) /\ Char(f[m - 1], Space) = blank
    BY <1>2, <2>1, EditedEditable, EditedFields DEF Editable, Char, blank
  <2> DEFINE i == p[m]
             t == f[m - 1]
  <2>3. i \in 0 .. cols - 1 /\ i = cols - m /\ i \in Nat
    BY <1>0, <1>1
  <2>4. f[m] = PutBlank(t, d, i, y)
    BY <1>2
  <2> HIDE DEF t, i
  <2>5. \A j \in Cells : CharAt(f[m], j) =
          IF j = a + i THEN blank
          ELSE IF i + d < cols /\ j = a + (i + d) THEN CharAt(t, a + i)
          ELSE CharAt(t, j)
    BY <2>2, <2>3, <2>4, PutBlankText DEF t, a
  <2>6. \A j \in Cells :
          CharAt(t, j) = IF j \in a + i + 1 .. a + cols - 1
                           THEN IF d = 0 \/ j < a + i + 1 + d THEN blank
                                ELSE CharAt(s, j - d)
                         ELSE CharAt(s, j)
    <3>1. a + cols - (m - 1) = a + i + 1
      BY <1>0, <2>1, <2>3
    <3>2. Right(m - 1)
      BY <1>6
    <3> QED
      BY <3>1, <3>2 DEF t
  <2>7. CharAt(t, a + i) = CharAt(s, a + i)
    <3>1. a + i \in Cells /\ a + i \notin a + i + 1 .. a + cols - 1
      BY <1>0, <2>1, <2>3
    <3> QED
      BY <2>6, <3>1
  <2>8. ASSUME NEW j \in Cells
        PROVE  CharAt(f[m], j) = IF j \in a + i .. a + cols - 1
                                   THEN IF d = 0 \/ j < a + i + d THEN blank
                                        ELSE CharAt(s, j - d)
                                 ELSE CharAt(s, j)
    <3>1. j \in Int
      BY CellAgain
    <3>2. CASE j = a + i
      <4>1. CharAt(f[m], j) = blank
        BY <2>5, <3>2
      <4>2. j \in a + i .. a + cols - 1 /\ (d = 0 \/ j < a + i + d)
        BY <1>0, <2>3, <3>2
      <4> QED
        BY <4>1, <4>2
    <3>3. CASE j # a + i /\ i + d < cols /\ j = a + (i + d)
      <4>1. CharAt(f[m], j) = CharAt(t, a + i)
        BY <2>5, <3>3, ZenonT(20)
      <4>2. j \in a + i .. a + cols - 1 /\ ~(d = 0 \/ j < a + i + d) /\ j - d = a + i
        BY <1>0, <2>3, <3>3
      <4> QED
        BY <2>7, <4>1, <4>2
    <3>4. CASE j # a + i /\ ~(i + d < cols /\ j = a + (i + d))
      <4>1. CharAt(f[m], j) = CharAt(t, j)
        BY <2>5, <3>4, ZenonT(20)
      <4>2. j \in a + i + 1 .. a + cols - 1 <=> j \in a + i .. a + cols - 1
        BY <1>0, <2>3, <3>1, <3>4
      <4>3. j \in a + i .. a + cols - 1 =>
              ((d = 0 \/ j < a + i + 1 + d) <=> (d = 0 \/ j < a + i + d))
        BY <1>0, <2>3, <3>1, <3>4
      <4> QED
        BY <2>6, <4>1, <4>2, <4>3
    <3> QED
      BY <3>2, <3>3, <3>4
  <2>9. a + cols - m = a + i
    BY <1>0, <2>1, <2>3
  <2>10. Right(m)
    BY <2>8, <2>9
  <2> QED
    BY <2>1, <2>10
<1> HIDE DEF G
<1>7. N \in G
  <2> HIDE DEF N
  <2>1. N \in Nat
    BY <1>1
  <2>2. \A m \in 1 .. N : m - 1 \in G => m \in G
    BY <1>6
  <2>3. \A m \in 0 .. N : m \in G
    BY <1>5, <2>1, <2>2, CountUp
  <2> QED
    BY <2>1, <2>3
<1>8. Right(N)
  BY <1>7 DEF G
<1>9. a + cols - N = a + x
  BY <1>0, <1>1
<1>10. \A j \in Cells : CharAt(f[N], j) = IF j \in a + x .. a + cols - 1
                                            THEN IF d = 0 \/ j < a + x + d THEN blank
                                                 ELSE CharAt(s, j - d)
                                          ELSE CharAt(s, j)
  BY <1>8, <1>9
<1>11. \A j : CharAt(set_cursor_pos(f[N], x, y), j) = CharAt(f[N], j)
  <2>1. IsTerminal(f[N])
    BY <1>1, <1>2, EditedFields DEF Editable
  <2> QED
    BY <2>1, CursorKeepsText, SameCells
<1> QED
  BY <1>2, <1>10, <1>11 DEF p, a, blank

-----------------------------------------------------------------------------
(* The commands that edit cells: what the cells hold afterwards *)

\* During a command, the region does not scroll.
Writable(s) == Editable(s) /\ s.top < s.bottom /\ Quiet(s)
OnLine(s) == s.cursor_x \in 0 .. cols /\ s.cursor_y < rows
RunEnd(s, k) == IF Place(s) + k < Limit(s) THEN Place(s) + k ELSE Limit(s)

LEMMA StaysWritable ==
  ASSUME NEW s, Writable(s), NEW t \in Edited(s)
  PROVE  /\ Writable(t) /\ \A c : Char(t, c) = Char(s, c)
         /\ t.top = s.top /\ t.bottom = s.bottom
BY EditedEditable, EditedFields DEF Writable, Editable, Quiet, Char

LEMMA PlaceTyped ==
  ASSUME NEW s, Writable(s), OnLine(s)
  PROVE  /\ Place(s) \in Nat /\ Limit(s) \in Nat /\ Limit(s) <= rows * cols
         /\ s.cursor_y \in Nat /\ s.cursor_y * cols + cols <= Limit(s)
<1>1. /\ s.cursor_x \in Nat /\ s.cursor_y \in Nat /\ s.cursor_y < rows
      /\ s.bottom \in Nat /\ s.bottom <= rows
  BY ScreenAssumption DEF Writable, Editable, IsTerminal, IsContext, OnLine
<1> DEFINE l == LastLine(s)
           y == s.cursor_y
<1>2. l \in Nat /\ l + 1 \in Nat /\ l + 1 <= rows /\ y <= l
  BY <1>1, ScreenAssumption DEF LastLine
<1>3. Place(s) \in Nat
  BY <1>1, ScreenAssumption DEF Place
<1>4. Limit(s) = (l + 1) * cols
  BY DEF Limit
<1> HIDE DEF l, y
<1>5. (l + 1) * cols \in Nat /\ (l + 1) * cols <= rows * cols
  BY <1>2, LinesOfScreen
<1>6. y * cols + cols <= (l + 1) * cols
  <2> DEFINE m == l + 1
  <2>1. y \in Nat /\ m \in Nat /\ y < m
    BY <1>1, <1>2 DEF y
  <2> HIDE DEF m
  <2>2. y * cols + cols <= m * cols
    BY <2>1, LinesInOrder
  <2> QED
    BY <2>2 DEF m
<1> QED
  BY <1>1, <1>3, <1>4, <1>5, <1>6 DEF y

\* A run of blanks from the cursor.
LEMMA BlankRun ==
  ASSUME NEW s, Writable(s), OnLine(s), rows <= cols, NEW k \in Nat
  PROVE  Blanked(s, Putchars(s, Space, k), Place(s), RunEnd(s, k) - 1, Char(s, Space))
<1> DEFINE t == Putchars(s, Space, k)
           from == Place(s)
           end == Limit(s)
           blank == Char(s, Space)
<1>1. Space \in 0 .. 255
  BY DEF Space
<1>2. \A j \in Cells :
        CharAt(t, j) = IF j >= from /\ j < from + k /\ j < end THEN blank
                       ELSE CharAt(s, j)
  BY <1>1, RunText DEF Writable, OnLine
<1>3. from \in Nat /\ end \in Nat /\ RunEnd(s, k) = IF from + k < end THEN from + k ELSE end
  BY PlaceTyped DEF RunEnd
<1>4. \A j \in Cells : j \in Int
  BY CellAgain
<1> HIDE DEF t, from, end, blank
<1>5. \A j \in Cells : j \in from .. RunEnd(s, k) - 1
                         <=> j >= from /\ j < from + k /\ j < end
  BY <1>3, <1>4
<1>6. \A j \in Cells : CharAt(t, j) = IF j \in from .. RunEnd(s, k) - 1 THEN blank
                                      ELSE CharAt(s, j)
  BY <1>2, <1>5
<1> QED
  BY <1>6 DEF Blanked, t, from, blank

\* The cursor set to a place on the screen.
LEMMA AtPlace ==
  ASSUME NEW s, Writable(s), NEW u \in 0 .. cols - 1, NEW v \in 0 .. rows - 1
  PROVE  /\ set_cursor_pos(s, u, v) \in Edited(s)
         /\ Writable(set_cursor_pos(s, u, v)) /\ OnLine(set_cursor_pos(s, u, v))
         /\ set_cursor_pos(s, u, v).cursor_x = u /\ set_cursor_pos(s, u, v).cursor_y = v
         /\ Place(set_cursor_pos(s, u, v)) = v * cols + u
         /\ Limit(set_cursor_pos(s, u, v)) =
              (IF v < s.bottom - 1 THEN s.bottom - 1 + 1 ELSE v + 1) * cols
         /\ Char(set_cursor_pos(s, u, v), Space) = Char(s, Space)
         /\ \A j : CharAt(set_cursor_pos(s, u, v), j) = CharAt(s, j)
<1> DEFINE t == set_cursor_pos(s, u, v)
<1>1. u \in Int /\ v \in Int /\ u \in Nat /\ v \in Nat /\ u < cols /\ v < rows
  BY ScreenAssumption
<1>2. Clamp(u, cols) = u /\ Clamp(v, rows) = v
  BY <1>1, ScreenAssumption DEF Clamp
<1>3. /\ t \in Edited(s) /\ t.cursor_x = u /\ t.cursor_y = v /\ SameText(s, t)
      /\ t.bottom = s.bottom
  BY <1>1, <1>2, CursorSet, CursorKeepsText DEF Writable, Editable
<1> HIDE DEF t
<1>4. Writable(t) /\ Char(t, Space) = Char(s, Space)
  BY <1>3, StaysWritable
<1>5. OnLine(t)
  BY <1>1, <1>3, ScreenAssumption DEF OnLine
<1>6. Place(t) = v * cols + u
  BY <1>3 DEF Place
<1>7. Limit(t) = (IF v < s.bottom - 1 THEN s.bottom - 1 + 1 ELSE v + 1) * cols
  BY <1>3 DEF Limit, LastLine
<1>8. \A j : CharAt(t, j) = CharAt(s, j)
  BY <1>3, SameCells
<1> QED
  BY <1>3, <1>4, <1>5, <1>6, <1>7, <1>8 DEF t

\* The cursor set afterwards changes no cell.
LEMMA BlankedThenSet ==
  ASSUME NEW s, Editable(s), NEW t \in Edited(s), NEW a, NEW b, NEW blank,
         Blanked(s, t, a, b, blank), NEW x, NEW y
  PROVE  Blanked(s, set_cursor_pos(t, x, y), a, b, blank)
<1>1. IsTerminal(t)
  BY EditedFields DEF Editable
<1>2. \A j : CharAt(set_cursor_pos(t, x, y), j) = CharAt(t, j)
  BY <1>1, CursorKeepsText, SameCells
<1> QED
  BY <1>2 DEF Blanked

LEMMA RunThenSet ==
  ASSUME NEW s, Writable(s), OnLine(s), rows <= cols, NEW k \in Nat, NEW x, NEW y
  PROVE  Blanked(s, set_cursor_pos(Putchars(s, Space, k), x, y), Place(s),
                 RunEnd(s, k) - 1, Char(s, Space))
<1>1. Space \in 0 .. 255 /\ k \in Int
  BY DEF Space
<1>2. Putchars(s, Space, k) \in Edited(s)
  BY <1>1, PutcharsEdit DEF Writable
<1>3. Blanked(s, Putchars(s, Space, k), Place(s), RunEnd(s, k) - 1, Char(s, Space))
  BY BlankRun
<1> QED
  BY <1>2, <1>3, BlankedThenSet DEF Writable

\* X.
LEMMA ErasedText ==
  ASSUME NEW s, Writable(s), OnLine(s), rows <= cols, NEW n \in Nat, NEW x, NEW y
  PROVE  Blanked(s, Erased(s, n, x, y), Place(s), RunEnd(s, AtMost(n, cols)) - 1,
                 Char(s, Space))
<1> DEFINE k == AtMost(n, cols)
<1>1. k \in Nat
  BY ScreenAssumption DEF AtMost
<1>2. Erased(s, n, x, y) = set_cursor_pos(Putchars(s, Space, k), x, y)
  BY DEF Erased
<1> HIDE DEF k
<1>3. Blanked(s, set_cursor_pos(Putchars(s, Space, k), x, y), Place(s),
              RunEnd(s, k) - 1, Char(s, Space))
  BY <1>1, RunThenSet
<1> QED
  BY <1>2, <1>3 DEF k

\* J and K from the cursor.
LEMMA ErasedToEnd ==
  ASSUME NEW s, Writable(s), OnLine(s), rows <= cols,
         NEW x \in 0 .. cols - 1, NEW y \in 0 .. rows - 1
  PROVE  /\ (rows - y) * cols - x \in Nat /\ cols - x \in Nat
         /\ Blanked(s, ErasedDisplay(s, 0, x, y), Place(s),
                    RunEnd(s, (rows - y) * cols - x) - 1, Char(s, Space))
         /\ Blanked(s, ErasedLine(s, 0, x, y), Place(s), RunEnd(s, cols - x) - 1,
                    Char(s, Space))
<1> DEFINE k == (rows - y) * cols - x
           l == cols - x
<1>1. k \in Nat
  <2>1. rows - y \in Nat \ {0}
    BY ScreenAssumption
  <2> DEFINE m == rows - y - 1
  <2>2. m \in Nat /\ (rows - y) * cols = m * cols + cols
    <3>1. m \in Nat /\ rows - y = m + 1
      BY <2>1
    <3> HIDE DEF m
    <3>2. (m + 1) * cols = m * cols + cols
      BY <3>1, ScreenAssumption
    <3> QED
      BY <3>1, <3>2
  <2> HIDE DEF m
  <2>3. m * cols \in Nat
    BY <2>2, ScreenAssumption
  <2> QED
    BY <2>2, <2>3, ScreenAssumption
<1>2. l \in Nat
  BY ScreenAssumption
<1>3. /\ ErasedDisplay(s, 0, x, y) = set_cursor_pos(Putchars(s, Space, k), x, y)
      /\ ErasedLine(s, 0, x, y) = set_cursor_pos(Putchars(s, Space, l), x, y)
  BY DEF ErasedDisplay, ErasedLine
<1> HIDE DEF k, l
<1>4. /\ Blanked(s, set_cursor_pos(Putchars(s, Space, k), x, y), Place(s),
                 RunEnd(s, k) - 1, Char(s, Space))
      /\ Blanked(s, set_cursor_pos(Putchars(s, Space, l), x, y), Place(s),
                 RunEnd(s, l) - 1, Char(s, Space))
  BY <1>1, <1>2, RunThenSet
<1> QED
  BY <1>1, <1>2, <1>3, <1>4 DEF k, l

\* Blanks from a place on the screen.
LEMMA BlankedFrom ==
  ASSUME NEW s, Writable(s), rows <= cols, NEW k \in Nat,
         NEW u \in 0 .. cols - 1, NEW v \in 0 .. rows - 1
  PROVE  /\ Putchars(set_cursor_pos(s, u, v), Space, k) \in Edited(s)
         /\ Blanked(s, Putchars(set_cursor_pos(s, u, v), Space, k), v * cols + u,
                    RunEnd(set_cursor_pos(s, u, v), k) - 1, Char(s, Space))
<1> DEFINE t == set_cursor_pos(s, u, v)
           e == RunEnd(t, k) - 1
           r == Putchars(t, Space, k)
<1>1. /\ t \in Edited(s) /\ Writable(t) /\ OnLine(t) /\ Place(t) = v * cols + u
      /\ Char(t, Space) = Char(s, Space) /\ \A j : CharAt(t, j) = CharAt(s, j)
  BY AtPlace
<1>2. Space \in 0 .. 255 /\ k \in Int
  BY DEF Space
<1> HIDE DEF t
<1>3. r \in Edited(t)
  BY <1>1, <1>2, PutcharsEdit DEF Writable
<1>4. r \in Edited(s)
  BY <1>1, <1>3, EditedTwice DEF Writable, Editable
<1>5. Blanked(t, r, Place(t), e, Char(t, Space))
  BY <1>1, BlankRun
<1> HIDE DEF r, e
<1>6. Blanked(s, r, Place(t), e, Char(s, Space))
  BY <1>1, <1>5 DEF Blanked
<1> QED
  BY <1>1, <1>4, <1>6 DEF r, e, t

\* J 1, K 1 and K 2.
LEMMA ErasedFromStart ==
  ASSUME NEW s, Writable(s), rows <= cols,
         NEW x \in 0 .. cols - 1, NEW y \in 0 .. rows - 1
  PROVE  /\ y * cols + x + 1 \in Nat
         /\ Blanked(s, ErasedDisplay(s, 1, x, y), 0,
                    (IF y * cols + x + 1 < s.bottom * cols THEN y * cols + x + 1
                     ELSE s.bottom * cols) - 1, Char(s, Space))
         /\ Blanked(s, ErasedLine(s, 1, x, y), y * cols, y * cols + x - 1,
                    Char(s, Space))
         /\ Blanked(s, ErasedLine(s, 2, x, y), y * cols, y * cols + cols - 1,
                    Char(s, Space))
<1> DEFINE a == y * cols
           k == a + x + 1
           zero == 0
           u == set_cursor_pos(s, zero, zero)
           w == set_cursor_pos(s, zero, y)
<1>1. /\ a \in Nat /\ k \in Nat /\ x \in Nat /\ cols \in Nat
      /\ zero \in 0 .. cols - 1 /\ zero \in 0 .. rows - 1
  <2>1. a \in Nat
    BY LineCells
  <2> HIDE DEF a
  <2> QED
    BY <2>1, ScreenAssumption
<1>2. /\ ErasedDisplay(s, 1, x, y) = set_cursor_pos(Putchars(u, Space, k), x, y)
      /\ ErasedLine(s, 1, x, y) = Putchars(w, Space, x)
      /\ ErasedLine(s, 2, x, y) = set_cursor_pos(Putchars(w, Space, cols), x, y)
  BY DEF ErasedDisplay, ErasedLine
<1>3. s.bottom \in 1 .. rows /\ s.bottom * cols \in Nat /\ Editable(s)
  BY ScreenAssumption DEF Writable, Editable
<1>4. /\ Place(u) = zero * cols + zero
      /\ Limit(u) = (IF zero < s.bottom - 1 THEN s.bottom - 1 + 1 ELSE zero + 1) * cols
      /\ Place(w) = a + zero
      /\ Limit(w) = (IF y < s.bottom - 1 THEN s.bottom - 1 + 1 ELSE y + 1) * cols
      /\ Writable(w) /\ OnLine(w) /\ w.cursor_y = y
  BY <1>1, AtPlace
<1>5. zero * cols + zero = 0 /\ a + zero = a /\ Limit(u) = s.bottom * cols
  <2>1. zero * cols + zero = 0 /\ a + zero = a
    BY <1>1, ScreenAssumption
  <2>2. (IF zero < s.bottom - 1 THEN s.bottom - 1 + 1 ELSE zero + 1) = s.bottom
    BY <1>3, ScreenAssumption
  <2> QED
    BY <1>4, <2>1, <2>2
<1>6. a + cols <= Limit(w) /\ Limit(w) \in Nat
  BY <1>4, PlaceTyped
<1> HIDE DEF zero, a, k
<1>7. RunEnd(u, k) = IF k < s.bottom * cols THEN k ELSE s.bottom * cols
  <2>1. Place(u) = 0 /\ 0 + k = k
    BY <1>1, <1>4, <1>5
  <2> QED
    BY <1>5, <2>1 DEF RunEnd
<1>8. RunEnd(w, x) = a + x /\ RunEnd(w, cols) = a + cols
  <2>1. Place(w) = a /\ a + x < Limit(w) /\ a + cols <= Limit(w)
    BY <1>1, <1>4, <1>5, <1>6, ScreenAssumption
  <2> HIDE DEF w
  <2> QED
    BY <1>1, <1>6, <2>1 DEF RunEnd
<1>9. /\ Putchars(u, Space, k) \in Edited(s)
      /\ Blanked(s, Putchars(u, Space, k), zero * cols + zero, RunEnd(u, k) - 1,
                 Char(s, Space))
  BY <1>1, BlankedFrom
<1>10. /\ Putchars(w, Space, x) \in Edited(s) /\ Putchars(w, Space, cols) \in Edited(s)
       /\ Blanked(s, Putchars(w, Space, x), y * cols + zero, RunEnd(w, x) - 1,
                  Char(s, Space))
       /\ Blanked(s, Putchars(w, Space, cols), y * cols + zero, RunEnd(w, cols) - 1,
                  Char(s, Space))
  BY <1>1, BlankedFrom
<1> HIDE DEF u, w
<1>11. Blanked(s, set_cursor_pos(Putchars(u, Space, k), x, y), zero * cols + zero,
               RunEnd(u, k) - 1, Char(s, Space))
  BY <1>3, <1>9, BlankedThenSet
<1>12. Blanked(s, set_cursor_pos(Putchars(w, Space, cols), x, y), y * cols + zero,
               RunEnd(w, cols) - 1, Char(s, Space))
  BY <1>3, <1>10, BlankedThenSet
<1>13. y * cols + zero = a
  BY <1>5 DEF a
<1> QED
  BY <1>1, <1>2, <1>5, <1>7, <1>8, <1>10, <1>11, <1>12, <1>13 DEF a, k

\* J 2.
LEMMA ClearText ==
  ASSUME NEW s, Editable(s)
  PROVE  /\ Blanked(s, clear(s, FALSE), 0, rows * cols - 1, Char(s, Space))
         /\ Blanked(s, clear(s, TRUE), 0, rows * cols - 1, Char(s, Space))
<1> DEFINE e == rows * cols - 1
           zero == 0
           t == Blank(s, Upwards(zero, e))
           u == [t EXCEPT !.cursor_x = 0, !.cursor_y = 0]
<1>1. zero \in Int /\ e \in Int /\ zero .. e \subseteq Cells
  <2>1. rows * cols \in Nat
    BY ScreenAssumption
  <2> QED
    BY <2>1 DEF Cells
<1>2. clear(s, FALSE) = t /\ clear(s, TRUE) = u
  BY DEF clear
<1> HIDE DEF zero, e
<1>3. Blanked(s, t, zero, e, Char(s, Space))
  BY <1>1, BlankRange DEF Blanked, Editable
<1>4. SameText(t, u)
  <2>1. t \in Rewritten(s)
    BY <1>2, ClearEdits
  <2>2. IsTerminal(t)
    BY <2>1, RewrittenIsEdited, EditedFields DEF Editable
  <2> HIDE DEF t
  <2> QED
    BY <2>2 DEF SameText, IsTerminal, IsContext, BufferFields
<1>5. Blanked(s, u, zero, e, Char(s, Space))
  BY <1>3, <1>4, SameCells DEF Blanked
<1> QED
  BY <1>2, <1>3, <1>5 DEF zero, e

LEMMA BackEdits ==
  ASSUME NEW s, Editable(s), NEW n \in Nat, NEW x \in Nat, NEW y \in Nat
  PROVE  MoveCharacters(s, -n, y, Upwards(x + n, cols - 1)) \in Edited(s)
<1> DEFINE a == x + n
           b == cols - 1
           p == Upwards(a, b)
<1>1. a \in Int /\ a >= n /\ b \in Int
  BY ScreenAssumption
<1> HIDE DEF a, b
<1>2. Len(p) \in Nat /\ \A k \in 1 .. Len(p) : p[k] \in a .. b
  BY <1>1, UpwardsAre
<1>3. \A i \in a .. b : i \in Nat /\ i + (-n) \in Nat
  BY <1>1
<1>4. FromColumns(p, -n)
  BY <1>2, <1>3 DEF FromColumns
<1> HIDE DEF p
<1>5. MoveCharacters(s, -n, y, p) \in Rewritten(s)
  BY <1>4, MoveCharactersRewrite DEF Editable
<1>6. MoveCharacters(s, -n, y, p) \in Edited(s)
  BY <1>5, RewrittenIsEdited
<1> QED
  BY <1>6 DEF p, a, b

\* P: what is n further on moves to x; the last n cells of the line are blank.
LEMMA DeletedText ==
  ASSUME NEW s, Writable(s), rows <= cols, NEW n \in Nat,
         NEW x \in 0 .. cols - 1, NEW y \in 0 .. rows - 1
  PROVE  \A j \in Cells :
           CharAt(Deleted(s, n, x, y), j) =
             IF j \in y * cols + (IF n >= cols THEN 0 ELSE cols - n)
                        .. y * cols + cols - 1
               THEN Char(s, Space)
             ELSE IF j \in y * cols + x .. y * cols + cols - 1 - n THEN CharAt(s, j + n)
             ELSE CharAt(s, j)
<1> DEFINE a == y * cols
           m == MoveCharacters(s, -n, y, Upwards(x + n, cols - 1))
           u == Clamp(cols - n, cols)
           k == AtMost(n, cols)
           w == IF n >= cols THEN 0 ELSE cols - n
           t == set_cursor_pos(m, u, y)
           r == Putchars(t, Space, k)
           blank == Char(s, Space)
<1>0. y \in Nat
  BY ScreenAssumption
<1>1. /\ a \in Nat /\ cols \in Nat /\ cols >= 1 /\ x \in Nat /\ x < cols
  BY LineCells, ScreenAssumption
<1>2. /\ u \in 0 .. cols - 1 /\ k \in Nat
      /\ n = 0 => k = 0
      /\ n > 0 => u = w /\ w + k = cols
  BY <1>1 DEF Clamp, AtMost
<1>3. m \in Edited(s)
  BY <1>0, <1>1, BackEdits DEF Writable
<1>4. \A j \in Cells :
        CharAt(m, j) = IF j \in a + x .. a + cols - 1 - n THEN CharAt(s, j + n)
                       ELSE CharAt(s, j)
  <2>1. IsTerminal(s) /\ x \in Nat
    BY <1>1 DEF Writable, Editable
  <2>2. \A j \in Cells :
          CharAt(MoveCharacters(s, -n, y, Upwards(x + n, cols - 1)), j) =
            IF j \in y * cols + x .. y * cols + cols - 1 - n THEN CharAt(s, j + n)
            ELSE CharAt(s, j)
    BY ZenonT(60), <2>1, MovedBack
  <2> QED
    BY <2>2
<1>5. Deleted(s, n, x, y) = set_cursor_pos(r, x, y)
  <2>1. set_cursor_pos(m, cols - n, y) = t
    <3>1. Clamp(u, cols) = u
      BY <1>1, <1>2 DEF Clamp
    <3> HIDE DEF u, m
    <3>2. set_cursor_pos(m, cols - n, y) = [m EXCEPT !.cursor_x = u, !.cursor_y = Clamp(y, rows)]
      BY DEF set_cursor_pos, u
    <3> QED
      BY <3>1, <3>2 DEF set_cursor_pos
  <2> HIDE DEF t, m
  <2> QED
    BY <2>1 DEF Deleted, Erased, m
<1> HIDE DEF m, u, k
<1>6. Writable(m) /\ Char(m, Space) = blank
  BY <1>3, StaysWritable
<1>7. /\ r \in Edited(m)
      /\ Blanked(m, r, y * cols + u, RunEnd(t, k) - 1, Char(m, Space))
      /\ Place(t) = y * cols + u
      /\ Writable(t) /\ OnLine(t) /\ t.cursor_y = y
  BY <1>2, <1>6, BlankedFrom, AtPlace
<1>8. Limit(t) \in Nat /\ a + cols <= Limit(t)
  BY <1>7, PlaceTyped
<1> HIDE DEF t, r
<1>9. \A j : CharAt(Deleted(s, n, x, y), j) = CharAt(r, j)
  <2>1. IsTerminal(r)
    BY <1>6, <1>7, EditedFields DEF Writable, Editable
  <2> QED
    BY <1>5, <2>1, CursorKeepsText, SameCells
<1> HIDE DEF a, w, blank
<1>10. \A j \in Cells : CharAt(r, j) = IF j \in a + u .. RunEnd(t, k) - 1 THEN blank
                                       ELSE CharAt(m, j)
  BY <1>6, <1>7 DEF Blanked, a
<1>11. \A j \in Cells : j \in a + u .. RunEnd(t, k) - 1 <=> j \in a + w .. a + cols - 1
  <2>1. Place(t) = a + u
    BY <1>7 DEF a
  <2>2. CASE n = 0
    <3>1. RunEnd(t, k) <= a + u
      BY <1>1, <1>2, <1>8, <2>1, <2>2 DEF RunEnd
    <3>2. w = cols
      BY <1>1, <2>2 DEF w
    <3>3. RunEnd(t, k) \in Int
      BY <1>1, <1>2, <1>8, <2>1 DEF RunEnd
    <3> QED
      BY <1>1, <1>2, <3>1, <3>2, <3>3, CellAgain
  <2>3. CASE n > 0
    <3>1. u = w /\ a + u + k = a + cols
      BY <1>1, <1>2, <2>3
    <3>2. RunEnd(t, k) = a + cols
      BY <1>1, <1>8, <2>1, <3>1 DEF RunEnd
    <3> QED
      BY <1>1, <1>2, <3>1, <3>2, CellAgain
  <2> QED
    BY <2>2, <2>3
<1>12. \A j \in Cells :
         CharAt(r, j) = IF j \in a + w .. a + cols - 1 THEN blank
                        ELSE IF j \in a + x .. a + cols - 1 - n THEN CharAt(s, j + n)
                        ELSE CharAt(s, j)
  BY <1>4, <1>10, <1>11
<1> QED
  BY <1>9, <1>12 DEF a, w, blank

-----------------------------------------------------------------------------
(* The commands that edit cells, as the documentation has them *)

At(t, x, y) == t.cursor_x = x /\ t.cursor_y = y

LEMMA SetAt ==
  ASSUME NEW s, Editable(s), NEW t \in Edited(s),
         NEW x \in 0 .. cols - 1, NEW y \in 0 .. rows - 1
  PROVE  set_cursor_pos(t, x, y) \in Edited(s) /\ At(set_cursor_pos(t, x, y), x, y)
<1>1. x \in Int /\ y \in Int /\ Clamp(x, cols) = x /\ Clamp(y, rows) = y
  BY ScreenAssumption DEF Clamp
<1>2. IsTerminal(t)
  BY EditedFields DEF Editable
<1>3. set_cursor_pos(t, x, y) \in Edited(t) /\ At(set_cursor_pos(t, x, y), x, y)
  BY <1>1, <1>2, CursorSet DEF At
<1> QED
  BY <1>3, EditedTwice DEF Editable

LEMMA RunAt ==
  ASSUME NEW s, Editable(s), NEW t \in Edited(s), NEW k \in Int,
         NEW x \in 0 .. cols - 1, NEW y \in 0 .. rows - 1
  PROVE  /\ set_cursor_pos(Putchars(t, Space, k), x, y) \in Edited(s)
         /\ At(set_cursor_pos(Putchars(t, Space, k), x, y), x, y)
<1>1. Editable(t) /\ Space \in 0 .. 255
  BY EditedEditable DEF Space
<1>2. Putchars(t, Space, k) \in Edited(t)
  BY <1>1, PutcharsEdit
<1>3. Putchars(t, Space, k) \in Edited(s)
  BY <1>2, EditedTwice DEF Editable
<1> QED
  BY <1>3, SetAt

\* The cursor is left where it was.
LEMMA CursorBack ==
  ASSUME NEW s, Editable(s), NEW n \in Nat,
         NEW x \in 0 .. cols - 1, NEW y \in 0 .. rows - 1, At(s, x, y)
  PROVE  \A t \in {ErasedDisplay(s, n, x, y), ErasedLine(s, n, x, y),
                   Erased(s, n, x, y), Inserted(s, n, x, y), Deleted(s, n, x, y)} :
           t \in Edited(s) /\ At(t, x, y)
<1> DEFINE zero == 0
           u == set_cursor_pos(s, zero, zero)
           w == set_cursor_pos(s, zero, y)
           Back(t) == t \in Edited(s) /\ At(t, x, y)
<1>1. /\ s \in Edited(s) /\ zero \in Int /\ y \in Int /\ x \in Nat /\ y \in Nat /\ x \in Int
      /\ zero \in 0 .. cols - 1 /\ cols \in Int /\ x \in 0 .. cols
      /\ (rows - y) * cols - x \in Int /\ cols - x \in Int /\ y * cols + x + 1 \in Int
      /\ AtMost(n, cols) \in Int
  BY NothingRewritten, ScreenAssumption DEF Editable, AtMost, Rewritten
<1>2. u \in Edited(s) /\ w \in Edited(s) /\ w.cursor_x = zero /\ w.cursor_y = y
  <2>1. u \in Edited(s)
    BY <1>1, CursorSet DEF Editable
  <2>2. w \in Edited(s) /\ At(w, zero, y)
    BY <1>1, SetAt
  <2> QED
    BY <2>1, <2>2 DEF At
<1>3. Back(ErasedDisplay(s, n, x, y))
  <2>1. \/ ErasedDisplay(s, n, x, y)
             = set_cursor_pos(Putchars(s, Space, (rows - y) * cols - x), x, y)
        \/ ErasedDisplay(s, n, x, y)
             = set_cursor_pos(Putchars(u, Space, y * cols + x + 1), x, y)
        \/ ErasedDisplay(s, n, x, y) = clear(s, FALSE)
        \/ ErasedDisplay(s, n, x, y) = s
    <3>1. CASE n = 0
      <4>1. n # 1 /\ n \notin {2, 3}
        BY <3>1
      <4> QED
        BY <3>1, <4>1, Zenon DEF ErasedDisplay
    <3>2. CASE n = 1
      <4>1. n # 0 /\ n \notin {2, 3}
        BY <3>2
      <4> QED
        BY <3>2, <4>1, Zenon DEF ErasedDisplay
    <3>3. CASE n \in {2, 3}
      <4>1. n # 0 /\ n # 1
        BY <3>3
      <4> QED
        BY <3>3, <4>1, Zenon DEF ErasedDisplay
    <3>4. CASE n \notin {0, 1, 2, 3}
      BY <3>4, Zenon DEF ErasedDisplay
    <3> QED
      BY <3>1, <3>2, <3>3, <3>4
  <2>2. clear(s, FALSE) \in Edited(s) /\ At(clear(s, FALSE), x, y)
    BY ClearEdits, RewrittenIsEdited DEF At
  <2>3. /\ Back(set_cursor_pos(Putchars(s, Space, (rows - y) * cols - x), x, y))
        /\ Back(set_cursor_pos(Putchars(u, Space, y * cols + x + 1), x, y))
    <3> HIDE DEF u
    <3> QED
      BY <1>1, <1>2, RunAt
  <2> QED
    BY <1>1, <2>1, <2>2, <2>3
<1>4. Back(ErasedLine(s, n, x, y))
  <2>1. \/ ErasedLine(s, n, x, y) = set_cursor_pos(Putchars(s, Space, cols - x), x, y)
        \/ ErasedLine(s, n, x, y) = Putchars(w, Space, x)
        \/ ErasedLine(s, n, x, y) = set_cursor_pos(Putchars(w, Space, cols), x, y)
        \/ ErasedLine(s, n, x, y) = s
    <3> HIDE DEF Back
    <3>1. n \in {0, 1, 2} \/ n \notin {0, 1, 2}
      OBVIOUS
    <3> QED
      BY <3>1 DEF ErasedLine
  <2> HIDE DEF w, zero
  <2>2. Back(Putchars(w, Space, x))
    <3>1. Editable(w) /\ Space \in 0 .. 255 /\ w.cursor_x = 0
      BY <1>2, EditedEditable DEF Space, zero
    <3>2. /\ Putchars(w, Space, x) \in Edited(w)
          /\ w.cursor_x = 0 /\ x \in 0 .. cols =>
               /\ Putchars(w, Space, x).cursor_x = x
               /\ Putchars(w, Space, x).cursor_y = w.cursor_y
      <4>1. x \in Int /\ Editable(w) /\ Space \in 0 .. 255
        BY <1>1, <3>1
      <4> QED
        BY <4>1, PutcharsEdit, Zenon
    <3>3. Putchars(w, Space, x) \in Edited(s)
      BY <1>2, <3>2, EditedTwice DEF Editable
    <3> QED
      BY <1>1, <1>2, <3>1, <3>2, <3>3 DEF At
  <2>3. /\ Back(set_cursor_pos(Putchars(s, Space, cols - x), x, y))
        /\ Back(set_cursor_pos(Putchars(w, Space, cols), x, y))
    BY <1>1, <1>2, RunAt
  <2> QED
    BY <1>1, <2>1, <2>2, <2>3
<1>5. Back(Erased(s, n, x, y))
  BY <1>1, RunAt DEF Erased
<1>6. Back(Inserted(s, n, x, y))
  <2>1. PICK f : InsertedBy(f, s, n, x, y)
    BY <1>1, InsertRounds
  <2> DEFINE N == Len(Downwards(cols - 1, x))
  <2>2. N \in 0 .. N
    <3>1. cols - 1 \in Int
      BY ScreenAssumption
    <3>2. N \in Nat
      BY <1>1, <3>1, DownwardsAre
    <3> QED
      BY <3>2
  <2>3. f[N] \in Edited(s) /\ Inserted(s, n, x, y) = set_cursor_pos(f[N], x, y)
    BY <2>1, <2>2 DEF InsertedBy
  <2> QED
    BY <2>3, SetAt
<1>7. Back(Deleted(s, n, x, y))
  <2> DEFINE m == MoveCharacters(s, -n, y, Upwards(x + n, cols - 1))
             t == set_cursor_pos(m, cols - n, y)
  <2>1. Deleted(s, n, x, y) = set_cursor_pos(Putchars(t, Space, AtMost(n, cols)), x, y)
    BY DEF Deleted, Erased
  <2>2. m \in Edited(s)
    BY <1>1, BackEdits
  <2>3. IsTerminal(m) /\ cols - n \in Int
    BY <2>2, EditedFields, ScreenAssumption DEF Editable
  <2> HIDE DEF m
  <2>4. t \in Edited(m)
    BY <1>1, <2>3, CursorSet
  <2>5. t \in Edited(s)
    BY <2>2, <2>4, EditedTwice DEF Editable
  <2> HIDE DEF t
  <2> QED
    BY <1>1, <2>1, <2>5, RunAt
<1> HIDE DEF Back
<1>8. \A t \in {ErasedDisplay(s, n, x, y), ErasedLine(s, n, x, y),
                Erased(s, n, x, y), Inserted(s, n, x, y), Deleted(s, n, x, y)} : Back(t)
  BY <1>3, <1>4, <1>5, <1>6, <1>7
<1> QED
  BY <1>8 DEF Back

\* What a command works on.
LEMMA Commanded ==
  ASSUME IsTerminal(ctx), Sound(ctx), Command
  PROVE  /\ Writable(During) /\ Alike(ctx, During)
         /\ Char(During, Space) = Char(ctx, Space)
         /\ \A j : CharAt(During, j) = CharAt(ctx, j)
         /\ Contents(During) = Contents(ctx)
         /\ ctx.cursor_y < rows => OnLine(During)
<1>1. Alike(ctx, During) /\ Editable(During)
  BY DuringAlike, DuringFields
<1>2. /\ SameText(ctx, During) /\ During.top = ctx.top /\ During.bottom = ctx.bottom
      /\ During.top < During.bottom
  BY <1>1, AlikeText, RegionOfContext
<1>3. Quiet(During)
  BY DEF Quiet, During, Entered, Fresh, IsTerminal, IsContext, BufferFields,
         TerminalFields
<1>4. Char(During, Space) = Char(ctx, Space)
  BY <1>1, AlikeFields DEF Char
<1>5. ctx.cursor_y < rows => OnLine(During)
  BY <1>1, AlikeFields DEF OnLine, Sound, Drawable, OnOrBelow
<1> QED
  BY <1>1, <1>2, <1>3, <1>4, <1>5, SameCells DEF Writable

\* What it leaves.
LEMMA EditLeaves ==
  ASSUME IsTerminal(ctx), Sound(ctx), Command, NEW t \in Edited(During), Done(t)
  PROVE  /\ \A j : CharAt(ctx', j) = CharAt(t, j)
         /\ Contents(ctx') = [j \in Cells |-> CharAt(t, j)]
         /\ ctx'.cursor_x = t.cursor_x /\ ctx'.cursor_y = t.cursor_y
<1>1. IsTerminal(t)
  BY DuringFields, EditedFields
<1>2. Alike(t, ctx')
  BY <1>1, DoneAlike
<1> QED
  BY <1>2, AlikeText, AlikeFields, SameCells DEF Contents

\* The contents after a run of blanks.
LEMMA BlankedLeaves ==
  ASSUME IsTerminal(ctx), Sound(ctx), Command, NEW t \in Edited(During), Done(t),
         NEW a, NEW b, Blanked(During, t, a, b, Char(During, Space))
  PROVE  Contents(ctx') = [j \in Cells |-> IF j \in a .. b THEN Char(ctx, Space)
                                          ELSE Contents(ctx)[j]]
<1>1. /\ Contents(ctx') = [j \in Cells |-> CharAt(t, j)]
      /\ Char(During, Space) = Char(ctx, Space)
      /\ \A j : CharAt(During, j) = CharAt(ctx, j)
  BY EditLeaves, Commanded
<1>2. \A j \in Cells : CharAt(t, j) = IF j \in a .. b THEN Char(ctx, Space)
                                      ELSE CharAt(ctx, j)
  BY <1>1 DEF Blanked
<1>3. \A j \in Cells : Contents(ctx)[j] = CharAt(ctx, j)
  BY DEF Contents
<1> QED
  BY <1>1, <1>2, <1>3

\* The cells about a cursor on a screen that is the whole region.
LEMMA WholeScreen ==
  ASSUME IsTerminal(ctx), Sound(ctx), Command, ctx.bottom = rows,
         OnScreen(ctx.cursor_x, ctx.cursor_y)
  PROVE  /\ X(ctx) = ctx.cursor_x /\ Y(ctx) = ctx.cursor_y
         /\ X(ctx) \in 0 .. cols - 1 /\ Y(ctx) \in 0 .. rows - 1
         /\ At(During, X(ctx), Y(ctx)) /\ OnLine(During)
         /\ Cursor(ctx) = Y(ctx) * cols + X(ctx)
         /\ Place(During) = Y(ctx) * cols + X(ctx)
         /\ Limit(During) = rows * cols /\ rows * cols \in Nat
         /\ During.bottom = rows
         /\ Y(ctx) * cols \in Nat
         /\ (rows - Y(ctx)) * cols = rows * cols - Y(ctx) * cols
<1> DEFINE x == X(ctx)
           y == Y(ctx)
           d == During
<1>1. /\ ctx.cursor_x \in Nat /\ ctx.cursor_y \in Nat
      /\ ctx.cursor_x < cols /\ ctx.cursor_y < rows
  BY DEF IsTerminal, IsContext, OnScreen
<1>2. x = ctx.cursor_x /\ y = ctx.cursor_y
  BY <1>1, ScreenAssumption DEF X, Y, Clamp
<1>3. x \in 0 .. cols - 1 /\ y \in 0 .. rows - 1 /\ x \in Nat /\ y \in Nat
  BY <1>1, <1>2, ScreenAssumption
<1>4. /\ d.cursor_x = ctx.cursor_x /\ d.cursor_y = ctx.cursor_y /\ d.bottom = rows
      /\ OnLine(d)
  BY <1>1, Commanded, AlikeFields
<1> HIDE DEF x, y, d
<1>5. Place(d) = y * cols + x
  BY <1>2, <1>4 DEF Place
<1>6. Limit(d) = rows * cols /\ rows * cols \in Nat
  <2>1. LastLine(d) + 1 = rows
    BY <1>2, <1>3, <1>4, ScreenAssumption DEF LastLine
  <2> QED
    BY <2>1, ScreenAssumption DEF Limit
<1>7. y * cols \in Nat /\ (rows - y) * cols = rows * cols - y * cols
  BY <1>3, ScreenAssumption
<1>8. Cursor(ctx) = y * cols + x
  <2> DEFINE a == y * cols
  <2>1. x + a = a + x
    <3> HIDE DEF a
    <3> QED
      BY <1>3, <1>7 DEF a
  <2> QED
    BY <1>2, <2>1 DEF Cursor, CellOf
<1>9. At(d, x, y)
  BY <1>2, <1>4 DEF At
<1> QED
  BY <1>2, <1>3, <1>4, <1>5, <1>6, <1>7, <1>8, <1>9 DEF x, y, d

\* What each of the commands leaves when the whole screen is the region.
Wiped(a, b) ==
  Contents(ctx') = [i \in Cells |-> IF i \in a .. b THEN Char(ctx, Space)
                                    ELSE Contents(ctx)[i]]

LEMMA DisplayDocumented ==
  ASSUME IsTerminal(ctx), Sound(ctx), Command, rows <= cols, ctx.bottom = rows,
         OnScreen(ctx.cursor_x, ctx.cursor_y),
         Done(ErasedDisplay(During, P[1], X(ctx), Y(ctx)))
  PROVE  /\ P[1] = 0 => Wiped(Cursor(ctx), rows * cols - 1)
         /\ P[1] = 1 => Wiped(0, Cursor(ctx))
         /\ P[1] = 2 => Wiped(0, rows * cols - 1)
<1> DEFINE d == During
           x == X(ctx)
           y == Y(ctx)
           n == P[1]
           t == ErasedDisplay(d, n, x, y)
           a == y * cols
           all == rows * cols
           blank == Char(d, Space)
           rest == (rows - y) * cols - x
<1>1. /\ x \in 0 .. cols - 1 /\ y \in 0 .. rows - 1 /\ At(d, x, y) /\ OnLine(d)
      /\ Cursor(ctx) = a + x /\ Place(d) = a + x /\ Limit(d) = all /\ all \in Nat
      /\ d.bottom = rows /\ a \in Nat /\ (rows - y) * cols = all - a
  BY WholeScreen
<1>2. Writable(d) /\ n \in Nat /\ Editable(d)
  BY Commanded, ParametersTyped DEF Writable
<1>3. Done(t)
  OBVIOUS
<1>4. x \in Nat /\ cols \in Nat /\ a + cols <= all
  BY <1>1, LineCells, ScreenAssumption
<1>5. rest = all - a - x
  BY <1>1, <1>4
<1> HIDE DEF d, x, y, n, a, all, rest
<1>6. t \in Edited(d)
  BY <1>1, <1>2, CursorBack
<1> HIDE DEF blank
<1>7. ASSUME n = 0 PROVE Wiped(a + x, all - 1)
  <2>1. Blanked(d, ErasedDisplay(d, 0, x, y), Place(d), RunEnd(d, rest) - 1, blank)
    BY <1>1, <1>2, ErasedToEnd DEF blank, rest
  <2>2. RunEnd(d, rest) = all
    <3>1. a + x + rest = all
      BY <1>1, <1>4, <1>5
    <3> QED
      BY <1>1, <3>1 DEF RunEnd
  <2>3. Blanked(d, t, a + x, all - 1, blank)
    BY <1>1, <1>7, <2>1, <2>2
  <2> HIDE DEF t
  <2> QED
    BY <1>3, <1>6, <2>3, BlankedLeaves DEF Wiped, d, blank
<1>8. ASSUME n = 1 PROVE Wiped(0, a + x)
  <2> DEFINE k == a + x + 1
             e == IF k < d.bottom * cols THEN k ELSE d.bottom * cols
  <2>1. Blanked(d, ErasedDisplay(d, 1, x, y), 0, e - 1, blank)
    BY <1>1, <1>2, ErasedFromStart DEF blank, a
  <2>2. e - 1 = a + x
    <3>1. k <= all /\ d.bottom * cols = all
      BY <1>1, <1>4 DEF all
    <3> QED
      BY <1>1, <1>4, <3>1
  <2>3. Blanked(d, t, 0, a + x, blank)
    BY <1>8, <2>1, <2>2
  <2> HIDE DEF t
  <2> QED
    BY <1>3, <1>6, <2>3, BlankedLeaves DEF Wiped, d, blank
<1>9. ASSUME n = 2 PROVE Wiped(0, all - 1)
  <2>1. t = clear(d, FALSE)
    <3>1. n # 0 /\ n # 1 /\ n \in {2, 3}
      BY <1>9
    <3> QED
      BY <3>1, Zenon DEF ErasedDisplay
  <2>2. Blanked(d, t, 0, all - 1, blank)
    BY <1>2, <2>1, ClearText DEF blank, all
  <2> HIDE DEF t
  <2> QED
    BY <1>3, <1>6, <2>2, BlankedLeaves DEF Wiped, d, blank
<1> QED
  BY <1>1, <1>7, <1>8, <1>9 DEF n, all

LEMMA LineDocumented ==
  ASSUME IsTerminal(ctx), Sound(ctx), Command, rows <= cols, ctx.bottom = rows,
         OnScreen(ctx.cursor_x, ctx.cursor_y),
         Done(ErasedLine(During, P[1], X(ctx), Y(ctx)))
  PROVE  /\ P[1] = 0 => Wiped(Cursor(ctx), Y(ctx) * cols + cols - 1)
         /\ P[1] = 1 => Wiped(Y(ctx) * cols, Cursor(ctx) - 1)
         /\ P[1] = 2 => Wiped(Y(ctx) * cols, Y(ctx) * cols + cols - 1)
<1> DEFINE d == During
           x == X(ctx)
           y == Y(ctx)
           n == P[1]
           t == ErasedLine(d, n, x, y)
           a == y * cols
           all == rows * cols
           blank == Char(d, Space)
           rest == cols - x
<1>1. /\ x \in 0 .. cols - 1 /\ y \in 0 .. rows - 1 /\ At(d, x, y) /\ OnLine(d)
      /\ Cursor(ctx) = a + x /\ Place(d) = a + x /\ Limit(d) = all /\ all \in Nat
      /\ a \in Nat
  BY WholeScreen
<1>2. Writable(d) /\ n \in Nat /\ Editable(d)
  BY Commanded, ParametersTyped DEF Writable
<1>3. Done(t)
  OBVIOUS
<1>4. x \in Nat /\ cols \in Nat /\ a + cols <= all
  BY <1>1, LineCells, ScreenAssumption
<1>5. rest \in Nat /\ a + x + rest = a + cols
  BY <1>1, <1>4
<1> HIDE DEF d, x, y, n, a, all, rest
<1>6. t \in Edited(d)
  BY <1>1, <1>2, CursorBack
<1> HIDE DEF blank
<1>7. ASSUME n = 0 PROVE Wiped(a + x, a + cols - 1)
  <2>1. Blanked(d, ErasedLine(d, 0, x, y), Place(d), RunEnd(d, rest) - 1, blank)
    BY <1>1, <1>2, ErasedToEnd DEF blank, rest
  <2>2. RunEnd(d, rest) = a + cols
    BY <1>1, <1>4, <1>5 DEF RunEnd
  <2>3. Blanked(d, t, a + x, a + cols - 1, blank)
    <3>1. Place(d) = a + x /\ t = ErasedLine(d, 0, x, y)
      BY <1>1, <1>7
    <3> HIDE DEF t
    <3> QED
      BY <1>1, <1>4, <2>1, <2>2, <3>1
  <2> HIDE DEF t
  <2> QED
    BY <1>3, <1>6, <2>3, BlankedLeaves DEF Wiped, d, blank
<1>8. ASSUME n = 1 PROVE Wiped(a, a + x - 1)
  <2>1. Blanked(d, ErasedLine(d, 1, x, y), a, a + x - 1, blank)
    BY <1>1, <1>2, ErasedFromStart DEF blank, a
  <2>2. Blanked(d, t, a, a + x - 1, blank)
    BY <1>8, <2>1
  <2> HIDE DEF t
  <2> QED
    BY <1>3, <1>6, <2>2, BlankedLeaves DEF Wiped, d, blank
<1>9. ASSUME n = 2 PROVE Wiped(a, a + cols - 1)
  <2>1. Blanked(d, ErasedLine(d, 2, x, y), a, a + cols - 1, blank)
    BY <1>1, <1>2, ErasedFromStart DEF blank, a
  <2>2. Blanked(d, t, a, a + cols - 1, blank)
    BY <1>9, <2>1
  <2> HIDE DEF t
  <2> QED
    BY <1>3, <1>6, <2>2, BlankedLeaves DEF Wiped, d, blank
<1> QED
  BY <1>1, <1>7, <1>8, <1>9 DEF n, a, y

LEMMA CharactersDocumented ==
  ASSUME IsTerminal(ctx), Sound(ctx), Command, rows <= cols, ctx.bottom = rows,
         OnScreen(ctx.cursor_x, ctx.cursor_y),
         Done(Erased(During, P[1], X(ctx), Y(ctx))),
         Cursor(ctx) + P[1] <= Y(ctx) * cols + cols - 1 + 1
  PROVE  Wiped(Cursor(ctx), Cursor(ctx) + P[1] - 1)
<1> DEFINE d == During
           x == X(ctx)
           y == Y(ctx)
           n == P[1]
           t == Erased(d, n, x, y)
           a == y * cols
           all == rows * cols
           blank == Char(d, Space)
<1>1. /\ x \in 0 .. cols - 1 /\ y \in 0 .. rows - 1 /\ At(d, x, y) /\ OnLine(d)
      /\ Cursor(ctx) = a + x /\ Place(d) = a + x /\ Limit(d) = all /\ all \in Nat
      /\ a \in Nat
  BY WholeScreen
<1>2. Writable(d) /\ n \in Nat /\ Editable(d)
  BY Commanded, ParametersTyped DEF Writable
<1>3. Done(t)
  OBVIOUS
<1>4. x \in Nat /\ cols \in Nat /\ a + cols <= all
  BY <1>1, LineCells, ScreenAssumption
<1>5. Cursor(ctx) + n <= a + cols - 1 + 1
  OBVIOUS
<1> HIDE DEF d, x, y, n, a, all
<1>6. t \in Edited(d)
  BY <1>1, <1>2, CursorBack
<1> HIDE DEF blank
<1>7. Blanked(d, t, Place(d), RunEnd(d, AtMost(n, cols)) - 1, blank)
  BY <1>1, <1>2, ErasedText DEF blank
<1>8. AtMost(n, cols) = n /\ a + x + n <= all
  BY <1>1, <1>2, <1>4, <1>5 DEF AtMost
<1>9. RunEnd(d, AtMost(n, cols)) = a + x + n
  <2>1. RunEnd(d, n) = IF a + x + n < all THEN a + x + n ELSE all
    BY <1>1 DEF RunEnd
  <2> QED
    BY <1>1, <1>2, <1>4, <1>8, <2>1
<1>10. Blanked(d, t, a + x, a + x + n - 1, blank)
  <2>1. Place(d) = a + x
    BY <1>1
  <2> HIDE DEF t
  <2> QED
    BY <1>1, <1>2, <1>4, <1>7, <1>9, <2>1
<1> HIDE DEF t
<1>11. Wiped(a + x, a + x + n - 1)
  BY <1>3, <1>6, <1>10, BlankedLeaves DEF Wiped, d, blank
<1> QED
  BY <1>1, <1>11 DEF n

LEMMA InsertDocumented ==
  ASSUME IsTerminal(ctx), Sound(ctx), Command, ctx.bottom = rows,
         OnScreen(ctx.cursor_x, ctx.cursor_y),
         Done(Inserted(During, P[1], X(ctx), Y(ctx))), P[1] > 0
  PROVE  Contents(ctx') =
           [i \in Cells |->
              IF i \notin Cursor(ctx) .. Y(ctx) * cols + cols - 1 THEN Contents(ctx)[i]
              ELSE IF i < Cursor(ctx) + P[1] THEN Char(ctx, Space)
              ELSE Contents(ctx)[i - P[1]]]
<1> DEFINE d == During
           x == X(ctx)
           y == Y(ctx)
           n == P[1]
           t == Inserted(d, n, x, y)
           a == y * cols
           at == Cursor(ctx)
           blank == Char(ctx, Space)
           old == Contents(ctx)
<1>1. /\ x \in 0 .. cols - 1 /\ y \in 0 .. rows - 1 /\ At(d, x, y)
      /\ at = a + x /\ a \in Nat
  BY WholeScreen
<1>2. Editable(d) /\ n \in Nat /\ n > 0 /\ Char(d, Space) = blank
      /\ \A j : CharAt(d, j) = CharAt(ctx, j)
  BY Commanded, ParametersTyped DEF Writable
<1>3. Done(t)
  OBVIOUS
<1>4. x \in Nat /\ cols \in Nat /\ \A j \in a .. a + cols - 1 : j \in Cells
  <2>1. x \in Nat /\ cols \in Nat
    BY <1>1, ScreenAssumption
  <2> HIDE DEF y
  <2>2. \A j \in y * cols .. y * cols + cols - 1 : j \in Cells
    BY <1>1, LineCells
  <2> QED
    BY <2>1, <2>2
<1> HIDE DEF d, x, y, n, a, at, blank
<1>5. t \in Edited(d)
  BY <1>1, <1>2, CursorBack
<1>6. \A j \in Cells :
        CharAt(t, j) =
          IF j \in a + x .. a + cols - 1
            THEN IF n = 0 \/ j < a + x + n THEN Char(d, Space) ELSE CharAt(d, j - n)
          ELSE CharAt(d, j)
  BY <1>1, <1>2, InsertedText DEF a
<1> HIDE DEF t
<1>7. Contents(ctx') = [j \in Cells |-> CharAt(t, j)]
  BY <1>3, <1>5, EditLeaves DEF d
<1>8. \A j \in Cells : old[j] = CharAt(ctx, j)
  BY DEF Contents
<1> HIDE DEF old
<1>9. ASSUME NEW j \in Cells
      PROVE  CharAt(t, j) = IF j \notin at .. a + cols - 1 THEN old[j]
                            ELSE IF j < at + n THEN blank ELSE old[j - n]
  <2>1. CASE j \in at .. a + cols - 1 /\ ~(j < at + n)
    <3>1. j - n \in Cells
      BY <1>1, <1>2, <1>4, <2>1
    <3> QED
      BY <1>1, <1>2, <1>6, <1>8, <2>1, <3>1
  <2>2. CASE ~(j \in at .. a + cols - 1 /\ ~(j < at + n))
    BY <1>1, <1>2, <1>6, <1>8, <2>2
  <2> QED
    BY <2>1, <2>2
<1> QED
  BY <1>7, <1>9 DEF at, a, y, n, blank, old

LEMMA DeleteDocumented ==
  ASSUME IsTerminal(ctx), Sound(ctx), Command, rows <= cols, ctx.bottom = rows,
         OnScreen(ctx.cursor_x, ctx.cursor_y),
         Done(Deleted(During, P[1], X(ctx), Y(ctx))),
         Cursor(ctx) + P[1] <= Y(ctx) * cols + cols - 1 + 1
  PROVE  Contents(ctx') =
           [i \in Cells |->
              IF i \notin Cursor(ctx) .. Y(ctx) * cols + cols - 1 THEN Contents(ctx)[i]
              ELSE IF i + P[1] <= Y(ctx) * cols + cols - 1 THEN Contents(ctx)[i + P[1]]
              ELSE Char(ctx, Space)]
<1> DEFINE d == During
           x == X(ctx)
           y == Y(ctx)
           n == P[1]
           t == Deleted(d, n, x, y)
           a == y * cols
           at == Cursor(ctx)
           blank == Char(ctx, Space)
           old == Contents(ctx)
           w == IF n >= cols THEN 0 ELSE cols - n
<1>1. /\ x \in 0 .. cols - 1 /\ y \in 0 .. rows - 1 /\ At(d, x, y)
      /\ at = a + x /\ a \in Nat
  BY WholeScreen
<1>2. /\ Writable(d) /\ Editable(d) /\ n \in Nat /\ Char(d, Space) = blank
      /\ \A j : CharAt(d, j) = CharAt(ctx, j)
  BY Commanded, ParametersTyped DEF Writable
<1>3. Done(t) /\ at + n <= a + cols - 1 + 1
  OBVIOUS
<1>4. x \in Nat /\ cols \in Nat /\ \A j \in a .. a + cols - 1 : j \in Cells
  <2>1. x \in Nat /\ cols \in Nat
    BY <1>1, ScreenAssumption
  <2> HIDE DEF y
  <2>2. \A j \in y * cols .. y * cols + cols - 1 : j \in Cells
    BY <1>1, LineCells
  <2> QED
    BY <2>1, <2>2
<1> HIDE DEF d, x, y, n, a, at, blank, w
<1>5. t \in Edited(d)
  BY <1>1, <1>2, CursorBack
<1>6. \A j \in Cells :
        CharAt(t, j) =
          IF j \in a + w .. a + cols - 1 THEN Char(d, Space)
          ELSE IF j \in a + x .. a + cols - 1 - n THEN CharAt(d, j + n)
          ELSE CharAt(d, j)
  BY <1>1, <1>2, DeletedText DEF a, w
<1> HIDE DEF t
<1>7. Contents(ctx') = [j \in Cells |-> CharAt(t, j)]
  BY <1>3, <1>5, EditLeaves DEF d
<1>8. \A j \in Cells : old[j] = CharAt(ctx, j)
  BY DEF Contents
<1> HIDE DEF old
<1>9. w = cols - n /\ cols - n >= x
  BY <1>1, <1>2, <1>3, <1>4 DEF w
<1>10. ASSUME NEW j \in Cells
       PROVE  CharAt(t, j) = IF j \notin at .. a + cols - 1 THEN old[j]
                             ELSE IF j + n <= a + cols - 1 THEN old[j + n] ELSE blank
  <2>0. j \in Int
    BY CellAgain
  <2>1. CASE j \in at .. a + cols - 1 /\ j + n <= a + cols - 1
    <3>1. j + n \in Cells /\ j \in a + x .. a + cols - 1 - n
      BY <1>1, <1>2, <1>4, <2>1
    <3>2. j \notin a + w .. a + cols - 1
      BY <1>1, <1>2, <1>4, <1>9, <2>1
    <3> QED
      BY <1>2, <1>6, <1>8, <2>1, <3>1, <3>2
  <2>2. CASE j \in at .. a + cols - 1 /\ ~(j + n <= a + cols - 1)
    <3>1. j \in a + w .. a + cols - 1
      BY <1>1, <1>2, <1>4, <1>9, <2>2
    <3> QED
      BY <1>2, <1>6, <2>2, <3>1
  <2>3. CASE j \notin at .. a + cols - 1
    <3>1. j \notin a + w .. a + cols - 1 /\ j \notin a + x .. a + cols - 1 - n
      BY <1>1, <1>2, <1>4, <1>9, <2>0, <2>3
    <3> QED
      BY <1>2, <1>6, <1>8, <2>3, <3>1
  <2> QED
    BY <2>1, <2>2, <2>3
<1> QED
  BY <1>7, <1>10 DEF at, a, y, n, blank, old

\* For every screen that is not taller than it is wide, and every number that
\* J, K, X, @ and P are given: they do to the text what console_codes(4) says,
\* if the cursor is on the screen and the region ends with it.  On a screen with
\* more lines than columns, Wrapped's bound on the cursor's line, which is cols
\* in the code, brings text that goes on below line cols back up.
THEOREM EditsDocumented ==
  ASSUME rows <= cols
  PROVE  Spec => EditsAsDocumented
<1> DEFINE at == Cursor(ctx)
           first == Y(ctx) * cols
           last == first + cols - 1
           n == P[1]
           old == Contents(ctx)
           new == Contents(ctx')
           BlankedTo(set) ==
             new = [i \in Cells |-> IF i \in set THEN Char(ctx, Space) ELSE old[i]]
<1>1. ASSUME TermInv, EditCells,
             OnScreen(ctx.cursor_x, ctx.cursor_y), ctx.bottom = rows
      PROVE  DocumentedEdit
  <2> DEFINE x == X(ctx)
             y == Y(ctx)
             d == During
  <2>1. IsTerminal(ctx) /\ Sound(ctx) /\ Command
    BY <1>1 DEF TermInv, EditCells
  <2>2. /\ \/ Byte = "J" /\ Done(ErasedDisplay(d, n, x, y))
           \/ Byte = "K" /\ Done(ErasedLine(d, n, x, y))
           \/ Byte = "X" /\ Done(Erased(d, n, x, y))
           \/ Byte = "@" /\ Done(Inserted(d, n, x, y))
           \/ Byte = "P" /\ Done(Deleted(d, n, x, y))
    BY <1>1 DEF EditCells
  <2>3. /\ x = ctx.cursor_x /\ y = ctx.cursor_y /\ At(d, x, y)
        /\ x \in 0 .. cols - 1 /\ y \in 0 .. rows - 1
    BY <1>1, <2>1, WholeScreen
  <2>4. Editable(d) /\ n \in Nat
    BY <2>1, DuringFields, ParametersTyped
  <2> HIDE DEF at, last, first, BlankedTo, old, new
  <2>5. << ctx'.cursor_x, ctx'.cursor_y >> = << ctx.cursor_x, ctx.cursor_y >>
    <3> HIDE DEF d, x, y, n
    <3>1. PICK t \in {ErasedDisplay(d, n, x, y), ErasedLine(d, n, x, y),
                      Erased(d, n, x, y), Inserted(d, n, x, y), Deleted(d, n, x, y)} :
            Done(t)
      BY <2>2
    <3>2. t \in Edited(d) /\ At(t, x, y)
      BY <2>3, <2>4, <3>1, CursorBack
    <3>3. ctx'.cursor_x = t.cursor_x /\ ctx'.cursor_y = t.cursor_y
      BY <2>1, <3>1, <3>2, EditLeaves DEF d
    <3> QED
      BY <2>3, <3>2, <3>3 DEF At
  <2>6. CASE Byte = "J"
    <3>1. /\ n = 0 => Wiped(at, rows * cols - 1)
          /\ n = 1 => Wiped(0, at)
          /\ n = 2 => Wiped(0, rows * cols - 1)
      BY <1>1, <2>1, <2>2, <2>6, DisplayDocumented DEF at
    <3>2. Cells = 0 .. rows * cols - 1
      BY DEF Cells
    <3>3. /\ n = 0 => BlankedTo(at .. rows * cols - 1)
          /\ n = 1 => BlankedTo(0 .. at)
          /\ n = 2 => BlankedTo(Cells)
      BY <3>1, <3>2 DEF Wiped, BlankedTo, old, new
    <3> QED
      BY <2>5, <2>6, <3>3 DEF DocumentedEdit, at, last, first, BlankedTo, old, new
  <2>7. CASE Byte = "K"
    <3>1. /\ n = 0 => Wiped(at, last)
          /\ n = 1 => Wiped(first, at - 1)
          /\ n = 2 => Wiped(first, last)
      BY <1>1, <2>1, <2>2, <2>7, LineDocumented DEF at, first, last
    <3>2. /\ n = 0 => BlankedTo(at .. last)
          /\ n = 1 => BlankedTo(first .. at - 1)
          /\ n = 2 => BlankedTo(first .. last)
      BY <3>1 DEF Wiped, BlankedTo, old, new
    <3> QED
      BY <2>5, <2>7, <3>2 DEF DocumentedEdit, at, last, first, BlankedTo, old, new
  <2>8. CASE Byte = "X"
    <3>1. ASSUME at + n <= last + 1 PROVE Wiped(at, at + n - 1)
      <4>1. Done(Erased(During, P[1], X(ctx), Y(ctx)))
        BY <2>2, <2>8
      <4>2. Cursor(ctx) + P[1] <= Y(ctx) * cols + cols - 1 + 1
        BY <3>1 DEF at, last, first
      <4> QED
        BY <1>1, <2>1, <4>1, <4>2, CharactersDocumented DEF at
    <3>2. at + n <= last + 1 => BlankedTo(at .. at + n - 1)
      BY <3>1 DEF Wiped, BlankedTo, old, new
    <3> QED
      BY <2>5, <2>8, <3>2 DEF DocumentedEdit, at, last, first, BlankedTo, old, new
  <2>9. CASE Byte = "@"
    <3>1. ASSUME n > 0
          PROVE  new = [i \in Cells |-> IF i \notin at .. last THEN old[i]
                                        ELSE IF i < at + n THEN Char(ctx, Space)
                                        ELSE old[i - n]]
      <4>1. Done(Inserted(During, P[1], X(ctx), Y(ctx))) /\ P[1] > 0
        BY <2>2, <2>9, <3>1
      <4> QED
        BY <1>1, <2>1, <4>1, InsertDocumented DEF at, last, first, old, new
    <3> QED
      BY <2>5, <2>9, <3>1 DEF DocumentedEdit, at, last, first, BlankedTo, old, new
  <2>10. CASE Byte = "P"
    <3>1. ASSUME at + n <= last + 1
          PROVE  new = [i \in Cells |-> IF i \notin at .. last THEN old[i]
                                        ELSE IF i + n <= last THEN old[i + n]
                                        ELSE Char(ctx, Space)]
      <4>1. Done(Deleted(During, P[1], X(ctx), Y(ctx)))
        BY <2>2, <2>10
      <4>2. Cursor(ctx) + P[1] <= Y(ctx) * cols + cols - 1 + 1
        BY <3>1 DEF at, last, first
      <4> QED
        BY <1>1, <2>1, <4>1, <4>2, DeleteDocumented DEF at, last, first, old, new
    <3> QED
      BY <2>5, <2>10, <3>1 DEF DocumentedEdit, at, last, first, BlankedTo, old, new
  <2> QED
    BY <2>2, <2>6, <2>7, <2>8, <2>9, <2>10
<1>2. TermInv =>
        [pending # << >> /\ EditCells /\ OnScreen(ctx.cursor_x, ctx.cursor_y)
           /\ ctx.bottom = rows => DocumentedEdit]_vars
  BY <1>1
<1> QED
  BY <1>2, TerminalAlwaysInv, PTL DEF EditsAsDocumented

-----------------------------------------------------------------------------
(* The end of a panic *)

\* The next byte starts something new.
Waiting(s) == ~s.escape /\ s.g_select = 0 /\ ~s.discard_next

LEMMA OrdinaryParsed ==
  ASSUME Ordinary(Byte)
  PROVE  /\ ~Continues /\ ~Leads
         /\ Byte \notin {"CAN", "SUB", "[", "]", "(", ")", "?", ";", "ESC", "BEL"}
         /\ Byte \notin Controls \cup Range(Digits)
BY DEF Ordinary, Prints, Continues, Leads, IsHigh, Controls

\* The end of a command ends the sequence.
LEMMA DoneWaits ==
  ASSUME IsTerminal(ctx), Sound(ctx), Command, NEW t, TerminalFields \subseteq DOMAIN t,
         t = [field \in DOMAIN t |-> t[field]],
         t.g_select = During.g_select, t.discard_next = During.discard_next, Done(t)
  PROVE  Waiting(ctx')
<1> DEFINE u == SequenceEnded([t EXCEPT !.scroll_enabled = ctx.scroll_enabled])
<1>1. ctx' = u
  BY DEF Done, Takes
<1>2. ctx.g_select = 0 /\ ~ctx.discard_next
  BY DEF Command, Final, ControlSequence, Sequence, Sound, Parsing
<1>3. During.g_select = ctx.g_select /\ During.discard_next = ctx.discard_next
  BY DEF During, Entered, Fresh, IsTerminal, TerminalFields, BufferFields
<1>4. ~u.escape /\ u.g_select = t.g_select /\ u.discard_next = t.discard_next
  BY DEF SequenceEnded, NoSequence, TerminalFields, BufferFields
<1> QED
  BY <1>1, <1>2, <1>3, <1>4 DEF Waiting

LEMMA EditWaits ==
  ASSUME IsTerminal(ctx), Sound(ctx), Command,
         NEW t \in Placed(During) \cup Rewritten(During), Done(t)
  PROVE  Waiting(ctx')
<1>1. t \in Edited(During) /\ IsTerminal(During)
  BY DuringFields DEF Placed, Rewritten
<1>2. IsTerminal(t) /\ t.g_select = During.g_select /\ t.discard_next = During.discard_next
  BY <1>1, EditedFields
<1> QED
  BY <1>2, DoneWaits DEF IsTerminal, IsContext

\* Each kind of command.
LEMMA MoveWaits ==
  ASSUME IsTerminal(ctx), Sound(ctx), MoveTo
  PROVE  Waiting(ctx')
<1>1. Command /\ \E u, v : Done(set_cursor_pos(During, u, v))
  BY DEF MoveTo, To
<1>2. PICK u, v : Done(set_cursor_pos(During, u, v))
  BY <1>1
<1> DEFINE t == set_cursor_pos(During, u, v)
<1>3. /\ TerminalFields \subseteq DOMAIN t /\ t = [field \in DOMAIN t |-> t[field]]
      /\ t.g_select = During.g_select /\ t.discard_next = During.discard_next
  <2>1. IsTerminal(During)
    BY <1>1, DuringFields
  <2> QED
    BY <2>1 DEF set_cursor_pos, IsTerminal, IsContext, TerminalFields, BufferFields
<1> HIDE DEF t
<1> QED
  BY <1>1, <1>2, <1>3, DoneWaits DEF t

LEMMA ScrollLinesWait ==
  ASSUME IsTerminal(ctx), Sound(ctx), ScrollLines
  PROVE  Waiting(ctx')
<1> DEFINE n == AtMost(P[1], rows)
           d == During
           a == [d EXCEPT !.top = Y(ctx)]
           t == Times(revscroll, a, n)
           u == [t EXCEPT !.top = ctx.top]
<1>1. Command /\ (Done(Times(scroll, d, n)) \/ Done(u))
  BY DEF ScrollLines
<1>2. n \in Int
  <2>1. P[1] \in Nat /\ rows \in Nat
    BY ParametersTyped, ScreenAssumption
  <2>2. AtMost(P[1], rows) \in Nat
    BY <2>1, Amounts
  <2> QED
    BY <2>2
<1> HIDE DEF n
<1>3. IsTerminal(d) /\ Editable(d)
  BY <1>1, DuringFields
<1> HIDE DEF d
<1>4. Times(scroll, d, n) \in Rewritten(d)
  BY <1>2, <1>3, ScrollsRewrite
<1>5. /\ IsTerminal(a) /\ Editable(a)
      /\ a.g_select = d.g_select /\ a.discard_next = d.discard_next
  <2>1. /\ IsContext(a) /\ TerminalFields \subseteq DOMAIN a
        /\ a.queue = d.queue /\ a.map = d.map
    BY <1>3 DEF IsTerminal, IsContext, BufferFields, TerminalFields
  <2>2. IsTerminal(a)
    BY <1>3, <2>1 DEF IsTerminal, Linked
  <2>3. /\ a.top = Y(ctx) /\ a.bottom = d.bottom
        /\ a.text_fg = d.text_fg /\ a.text_bg = d.text_bg
        /\ a.saved_text = d.saved_text /\ a.saved_state = d.saved_state
        /\ a.current_primary = d.current_primary /\ a.current_bg = d.current_bg
        /\ a.bold = d.bold /\ a.bg_bold = d.bg_bold
        /\ a.reverse_video = d.reverse_video
        /\ a.g_select = d.g_select /\ a.discard_next = d.discard_next
    BY <1>3 DEF IsTerminal, IsContext, BufferFields, TerminalFields
  <2>4. Y(ctx) \in Nat
    BY CursorPlace, ScreenAssumption
  <2> HIDE DEF a
  <2>5. Painted(a)
    BY <1>3, <2>3 DEF Editable, Painted
  <2> QED
    BY <1>3, <2>2, <2>3, <2>4, <2>5 DEF Editable
<1> HIDE DEF a
<1>6. t \in Edited(a)
  BY <1>2, <1>5, RevscrollsRewrite DEF Rewritten
<1>7. IsTerminal(t) /\ t.g_select = d.g_select /\ t.discard_next = d.discard_next
  BY <1>5, <1>6, EditedFields
<1> HIDE DEF t
<1>8. /\ TerminalFields \subseteq DOMAIN u /\ u = [field \in DOMAIN u |-> u[field]]
      /\ u.g_select = d.g_select /\ u.discard_next = d.discard_next
  BY <1>7 DEF IsTerminal, IsContext, TerminalFields, BufferFields
<1> HIDE DEF u
<1>9. Done(u) => Waiting(ctx')
  BY <1>1, <1>8, DoneWaits DEF d
<1>10. Done(Times(scroll, d, n)) => Waiting(ctx')
  BY <1>1, <1>4, EditWaits DEF d
<1> QED
  BY <1>1, <1>9, <1>10

LEMMA EditCellsWait ==
  ASSUME IsTerminal(ctx), Sound(ctx), EditCells
  PROVE  Waiting(ctx')
<1> DEFINE x == X(ctx)
           y == Y(ctx)
           p == P[1]
           d == During
<1>1. /\ Command
      /\ \/ Done(ErasedDisplay(d, p, x, y))
         \/ Done(ErasedLine(d, p, x, y))
         \/ Done(Erased(d, p, x, y))
         \/ Done(Inserted(d, p, x, y))
         \/ Done(Deleted(d, p, x, y))
  BY DEF EditCells
<1>2. x \in 0 .. cols - 1 /\ y \in 0 .. rows - 1
  BY CursorPlace
<1>3. p \in Nat
  BY ParametersTyped
<1>4. Editable(d)
  BY <1>1, DuringFields
<1> HIDE DEF x, y, p, d
<1>5. x \in Nat /\ y \in Nat /\ x \in Int /\ y \in Int
  BY <1>2, ScreenAssumption
<1>6. /\ ErasedDisplay(d, p, x, y) \in Placed(d) \cup Rewritten(d)
      /\ ErasedLine(d, p, x, y) \in Placed(d) \cup Rewritten(d)
  BY <1>2, <1>4, DisplayErased, LineErased
<1>7. /\ Erased(d, p, x, y) \in Placed(d) /\ Inserted(d, p, x, y) \in Placed(d)
      /\ Deleted(d, p, x, y) \in Placed(d)
  BY <1>3, <1>4, <1>5, ErasedPlaced, InsertedPlaced, DeletedPlaced
<1>8. PICK t \in Placed(d) \cup Rewritten(d) : Done(t)
  BY <1>1, <1>6, <1>7
<1> QED
  BY <1>1, <1>8, EditWaits DEF d

\* The colours that a sequence selects are set while it is carried out.
LEMMA GraphicsRecolour ==
  ASSUME IsTerminal(ctx), Sound(ctx), SelectGraphics
  PROVE  /\ IsTerminal(During) /\ Painted(During)
         /\ sgr(During, IF Given = 0 THEN << 0 >> ELSE SubSeq(P, 1, Given))
              \in Recoloured(During)
<1> DEFINE values == IF Given = 0 THEN << 0 >> ELSE SubSeq(P, 1, Given)
           d == During
<1>1. Command
  BY DEF SelectGraphics
<1>2. values \in Seq(Nat)
  <2> DEFINE g == Given
             p == P
  <2>1. /\ g \in 0 .. FLANTERM_MAX_ESC_VALUES
        /\ p \in [1 .. FLANTERM_MAX_ESC_VALUES -> Nat]
    BY ParametersTyped
  <2> HIDE DEF g, p
  <2>2. p \in Seq(Nat) /\ Len(p) = FLANTERM_MAX_ESC_VALUES
    BY <2>1, FlantermAssumption
  <2>3. SubSeq(p, 1, g) \in Seq(Nat)
    BY <2>1, <2>2, FlantermAssumption
  <2>4. << 0 >> \in Seq(Nat)
    OBVIOUS
  <2> QED
    BY <2>3, <2>4 DEF g, p
<1> HIDE DEF values
<1>3. IsTerminal(d) /\ Painted(d)
  BY <1>1, DuringFields DEF Drawable, Steady
<1> HIDE DEF d
<1>4. sgr(d, values) \in Recoloured(d)
  BY <1>2, <1>3, SgrRecolours
<1> QED
  BY <1>3, <1>4 DEF d, values

LEMMA GraphicsWait ==
  ASSUME IsTerminal(ctx), Sound(ctx), SelectGraphics
  PROVE  Waiting(ctx')
<1> DEFINE values == IF Given = 0 THEN << 0 >> ELSE SubSeq(P, 1, Given)
           d == During
           t == sgr(d, values)
<1>1. Command /\ Done(t)
  BY DEF SelectGraphics
<1>2. IsTerminal(d) /\ Painted(d) /\ t \in Recoloured(d)
  BY GraphicsRecolour
<1> HIDE DEF t, d, values
<1>3. IsTerminal(t) /\ t.g_select = d.g_select /\ t.discard_next = d.discard_next
  BY <1>2, RecolouredFields
<1> QED
  BY <1>1, <1>3, DoneWaits DEF d, IsTerminal, IsContext

LEMMA SetModeWaits ==
  ASSUME IsTerminal(ctx), Sound(ctx), SetMode
  PROVE  Waiting(ctx')
<1> DEFINE Set(t) ==
             /\ TerminalFields \subseteq DOMAIN t /\ t = [field \in DOMAIN t |-> t[field]]
             /\ t.g_select = During.g_select /\ t.discard_next = During.discard_next
<1>1. /\ Command
      /\ \/ \E p : Done([During EXCEPT !.saved_cursor = p])
         \/ \E a, b : Done(set_cursor_pos([During EXCEPT !.top = a, !.bottom = b], 0, 0))
         \/ \E on : Done([During EXCEPT !.insert_mode = on])
  <2>1. /\ Command
        /\ \/ Done([During EXCEPT !.saved_cursor = << X(ctx), Y(ctx) >>])
           \/ \E m : Done(set_cursor_pos([During EXCEPT !.top = m[1], !.bottom = m[2]], 0, 0))
           \/ \E on : Done([During EXCEPT !.insert_mode = on])
    BY Zenon DEF SetMode
  <2> QED
    BY <2>1, Zenon
<1>2. IsTerminal(During)
  BY <1>1, DuringFields
<1>3. \A p : Set([During EXCEPT !.saved_cursor = p])
  BY <1>2 DEF IsTerminal, IsContext, TerminalFields, BufferFields
<1>4. \A a, b : Set(set_cursor_pos([During EXCEPT !.top = a, !.bottom = b], 0, 0))
  BY ZenonT(60), <1>2 DEF set_cursor_pos, IsTerminal, IsContext, TerminalFields, BufferFields
<1>5. \A on : Set([During EXCEPT !.insert_mode = on])
  BY <1>2 DEF IsTerminal, IsContext, TerminalFields, BufferFields
<1>6. \A t : Set(t) /\ Done(t) => Waiting(ctx')
  BY <1>1, DoneWaits
<1> HIDE DEF Set
<1> QED
  BY <1>1, <1>3, <1>4, <1>5, <1>6, Zenon

LEMMA ClosedWaits ==
  ASSUME NEW t, TerminalFields \subseteq DOMAIN t, t.g_select = 0, ~t.discard_next
  PROVE  Waiting(Closed(t))
BY DEF Closed, NoSequence, Waiting, TerminalFields, BufferFields

\* The end of an escape sequence.
LEMMA EscapeWaits ==
  ASSUME IsTerminal(ctx), Sound(ctx), escape_parse,
         Byte \notin {"[", "]", "(", ")"}
  PROVE  Waiting(ctx')
<1> DEFINE e == Entered
           x == X(ctx)
           y == Y(ctx)
           Over(t) == TerminalFields \subseteq DOMAIN t /\ t.g_select = 0 /\ ~t.discard_next
           up == IF y = ctx.top THEN set_cursor_pos(revscroll(e), 0, y)
                 ELSE set_cursor_pos(e, 0, y - 1)
<1>1. /\ \/ ctx' = Closed(SaveState(e))
         \/ ctx' = Closed(RestoreState(e))
         \/ ctx' = Closed(clear(reinit(e), TRUE))
         \/ ctx' = Closed(LineFeed(e, x))
         \/ ctx' = Closed(LineFeed(e, 0))
         \/ ctx' = Closed(up)
         \/ ctx' = Closed(e)
      /\ ctx.escape
  BY DEF escape_parse, Ended, Takes, Sequence, Closed
<1>2. x \in Int /\ y \in Int /\ y - 1 \in Int
  <2>1. x \in Int /\ y \in Int
    BY CursorPlace, ScreenAssumption
  <2> HIDE DEF x, y
  <2> QED
    BY <2>1
<1>3. /\ Editable(e) /\ IsTerminal(e) /\ Drawable(e) /\ Parsing(e)
      /\ e.g_select = ctx.g_select /\ e.discard_next = ctx.discard_next
  BY EnteredFollows DEF Follows, Sound
<1>4. ctx.g_select = 0 /\ ~ctx.discard_next
  BY <1>1 DEF Sound, Parsing
<1> HIDE DEF e, x, y
<1>5. Over(e)
  BY <1>3, <1>4 DEF IsTerminal
<1>6. Over(SaveState(e)) /\ Over(RestoreState(e))
  BY <1>3, <1>4
  DEF SaveState, save_state, RestoreState, restore_state, IsTerminal, IsContext,
      BufferFields, TerminalFields
<1>7. \A t \in Edited(e) : Over(t)
  BY <1>3, <1>4, EditedFields DEF IsTerminal
<1>8. LineFeed(e, x) \in Edited(e) /\ LineFeed(e, 0) \in Edited(e)
  BY <1>2, <1>3, LineFeedPlaced DEF Placed
<1>9. up \in Edited(e)
  <2>1. revscroll(e) \in Edited(e) /\ e \in Edited(e)
    BY <1>3, RevscrollRewrites, RewrittenIsEdited, NothingRewritten DEF Editable
  <2> QED
    BY <1>2, <1>3, <2>1, SetAfterEdit DEF Placed
<1> HIDE DEF up
<1>10. Over(clear(reinit(e), TRUE))
  <2> DEFINE r == reinit(e)
  <2>1. Editable(r) /\ IsTerminal(r) /\ r.g_select = 0
    BY <1>3, ResetFields, SoundEditable
  <2>2. ~r.discard_next
    BY DEF reinit, Reinit
  <2> HIDE DEF r
  <2>3. clear(r, TRUE) \in Edited(r)
    BY <2>1, ClearEdits
  <2>4. Over(clear(r, TRUE))
    BY <2>1, <2>2, <2>3, EditedFields DEF IsTerminal
  <2> QED
    BY <2>4 DEF r
<1>11. \A t : Over(t) => Waiting(Closed(t))
  BY ClosedWaits
<1> HIDE DEF Over
<1> QED
  BY <1>1, <1>5, <1>6, <1>7, <1>8, <1>9, <1>10, <1>11

\* A character outside of everything.
LEMMA PrintedWaits ==
  ASSUME IsTerminal(ctx), Sound(ctx), Printed
  PROVE  /\ \E s \in Rewritten(Fresh) : ctx' = raw_putchar(s, GlyphOf(Byte))
         /\ Waiting(ctx')
<1> DEFINE x == X(ctx)
           y == Y(ctx)
           p == Downwards(cols - 1, x)
           moved == MoveCharacters(Fresh, 1, y, p)
           room == IF ctx.insert_mode THEN moved ELSE Fresh
           c == GlyphOf(Byte)
<1>1. ctx' = raw_putchar(room, c) /\ ~ctx.escape /\ ctx.g_select = 0 /\ ~ctx.discard_next
  BY DEF Printed, Takes, Text7bit, Parsed, Cancelled
<1>2. x \in Nat /\ y \in Nat
  BY CursorPlace, ScreenAssumption
<1>3. FromColumns(p, 1)
  <2> DEFINE a == cols - 1
  <2>1. a \in Int /\ x \in Int
    BY <1>2, ScreenAssumption
  <2> HIDE DEF a, x
  <2>2. Len(Downwards(a, x)) \in Nat
        /\ \A n \in 1 .. Len(Downwards(a, x)) : Downwards(a, x)[n] \in x .. a
    BY <2>1, DownwardsAre
  <2>3. \A i \in x .. a : i \in Nat /\ i + 1 \in Nat
    BY <1>2, <2>1
  <2> QED
    BY <2>2, <2>3 DEF FromColumns, a
<1>4. c \in 0 .. 255
  BY ByteGlyph
<1> HIDE DEF x, y, p, c
<1>5. IsTerminal(Fresh) /\ Drawable(Fresh) /\ Editable(Fresh)
  BY FreshFollows, SoundEditable DEF Follows, Sound, Drawable
<1>6. moved \in Rewritten(Fresh)
  BY <1>2, <1>3, <1>5, MoveCharactersRewrite
<1>7. room \in Rewritten(Fresh)
  BY <1>5, <1>6, NothingRewritten
<1> HIDE DEF moved, room
<1>8. room \in Edited(Fresh) /\ Editable(room) /\ IsTerminal(room)
  BY <1>5, <1>7, RewrittenIsEdited, EditedEditable DEF Editable
<1>9. raw_putchar(room, c) \in Edited(room)
  BY <1>4, <1>8, PutcharEdits
<1>10. /\ Fresh.escape = ctx.escape /\ Fresh.g_select = ctx.g_select
       /\ Fresh.discard_next = ctx.discard_next
  BY DEF Fresh, IsTerminal, TerminalFields, BufferFields
<1>11. Waiting(ctx')
  BY <1>1, <1>5, <1>8, <1>9, <1>10, EditedFields DEF Waiting
<1> QED
  BY <1>1, <1>7, <1>11 DEF c

\* After an ordinary character nothing is half parsed.
LEMMA OrdinaryEnds ==
  ASSUME IsTerminal(ctx), Sound(ctx), flanterm_putchar, Ordinary(Byte)
  PROVE  Waiting(ctx')
<1>1. /\ ~Continues /\ ~Leads
      /\ Byte \notin {"CAN", "SUB", "[", "]", "(", ")", "?", ";", "ESC", "BEL"}
      /\ Byte \notin Controls \cup Range(Digits)
  BY OrdinaryParsed
<1>2. CASE Cancel
  BY <1>2 DEF Cancel, Takes, NoSequence, Fresh, Waiting, IsTerminal, TerminalFields,
              BufferFields
<1>3. CASE SelectCharset
  <2> DEFINE set == CASE Byte = "B" -> "default"
                      [] Byte = "0" -> "dec_special"
                      [] Byte \notin {"B", "0"} -> Fresh.charsets[ctx.g_select]
             t == [Fresh EXCEPT !.g_select = 0, !.charsets[ctx.g_select] = set]
  <2>1. ctx' = t /\ ~ctx.escape /\ ~ctx.discard_next
    BY <1>3 DEF SelectCharset, Takes, Parsed, Cancelled
  <2> HIDE DEF set
  <2>2. t.g_select = 0 /\ t.escape = ctx.escape /\ t.discard_next = ctx.discard_next
    BY DEF Fresh, IsTerminal, TerminalFields, BufferFields
  <2> QED
    BY <2>1, <2>2 DEF Waiting
<1>4. CASE osc_parse
  <2> DEFINE t == NoSequence([Entered EXCEPT !.osc_escape = FALSE, !.osc = FALSE,
                                             !.escape = FALSE])
  <2>1. ctx' = t /\ ctx.escape
    BY <1>1, <1>4 DEF osc_parse, Sequence, Takes
  <2>2. ctx.g_select = 0 /\ ~ctx.discard_next
    BY <2>1 DEF Sound, Parsing
  <2>3. ~t.escape /\ t.g_select = ctx.g_select /\ t.discard_next = ctx.discard_next
    BY DEF NoSequence, Entered, Fresh, IsTerminal, TerminalFields, BufferFields
  <2> QED
    BY <2>1, <2>2, <2>3 DEF Waiting
<1>5. CASE dec_private_parse
  <2> DEFINE on == IF Given > 0 /\ P[1] = 25 /\ Byte \in {"h", "l"}
                     THEN Byte = "h" ELSE Entered.cursor_enabled
             t == SequenceEnded([Entered EXCEPT !.dec_private = FALSE,
                                                !.cursor_enabled = on])
  <2>1. ctx' = t /\ ctx.escape
    BY <1>5 DEF dec_private_parse, Final, ControlSequence, Sequence, Takes
  <2> HIDE DEF on
  <2>2. ctx.g_select = 0 /\ ~ctx.discard_next
    BY <2>1 DEF Sound, Parsing
  <2>3. ~t.escape /\ t.g_select = ctx.g_select /\ t.discard_next = ctx.discard_next
    BY DEF SequenceEnded, NoSequence, Entered, Fresh, IsTerminal, TerminalFields,
           BufferFields
  <2> QED
    BY <2>1, <2>2, <2>3 DEF Waiting
<1>6. CASE Unanswered
  BY <1>6, DuringFields, DoneWaits DEF Unanswered, IsTerminal, IsContext
<1>7. ~Utf8Lead /\ ~Utf8Continue /\ ~Mark /\ ~Digit /\ ~Separator /\ ~Control
  <2>1. ~Utf8Lead /\ ~Utf8Continue
    BY <1>1 DEF Utf8Lead, Utf8Continue
  <2>2. ~Mark /\ ~Digit /\ ~Separator
    BY <1>1 DEF Mark, Marks, Digit, Separator
  <2>3. ~Control
    BY <1>1 DEF Control, Controls
  <2> QED
    BY <2>1, <2>2, <2>3
<1> QED
  BY <1>1, <1>2, <1>3, <1>4, <1>5, <1>6, <1>7, PrintedWaits, EscapeWaits, MoveWaits,
     ScrollLinesWait, EditCellsWait, GraphicsWait, SetModeWaits
  DEF flanterm_putchar

\* Every byte is taken from the message.
LEMMA ByteTaken ==
  ASSUME flanterm_putchar
  PROVE  pending # << >> /\ pending' = Tail(pending) /\ kernel' = kernel /\ report' = report
<1>1. \E t : Takes(t)
  <2>1. CASE Cancel
    BY <2>1 DEF Cancel
  <2>2. CASE Utf8Lead
    BY <2>2 DEF Utf8Lead
  <2>3. CASE Utf8Continue
    BY <2>3, Zenon DEF Utf8Continue
  <2>4. CASE SelectCharset
    BY <2>4 DEF SelectCharset
  <2>5. CASE Control
    BY <2>5, Zenon DEF Control
  <2>6. CASE Printed
    BY <2>6, Zenon DEF Printed
  <2>7. CASE osc_parse
    BY <2>7, Zenon DEF osc_parse
  <2>8. CASE escape_parse
    BY <2>8, Zenon DEF escape_parse, Ended
  <2>9. CASE Mark
    BY <2>9, Zenon DEF Mark
  <2>10. CASE Digit
    BY <2>10, Zenon DEF Digit
  <2>11. CASE Separator
    BY <2>11 DEF Separator
  <2>12. CASE dec_private_parse
    BY <2>12 DEF dec_private_parse
  <2>13. CASE MoveTo
    BY <2>13, Zenon DEF MoveTo, To, Done
  <2>14. CASE ScrollLines
    BY <2>14, Zenon DEF ScrollLines, Done
  <2>15. CASE EditCells
    BY <2>15, Zenon DEF EditCells, Done
  <2>16. CASE SelectGraphics
    BY <2>16 DEF SelectGraphics, Done
  <2>17. CASE SetMode
    BY <2>17, Zenon DEF SetMode, Done
  <2>18. CASE Unanswered
    BY <2>18 DEF Unanswered, Done
  <2> QED
    BY <2>1, <2>2, <2>3, <2>4, <2>5, <2>6, <2>7, <2>8, <2>9, <2>10, <2>11, <2>12,
       <2>13, <2>14, <2>15, <2>16, <2>17, <2>18 DEF flanterm_putchar
<1> QED
  BY <1>1 DEF Takes, flanterm_putchar

-----------------------------------------------------------------------------
(* The report of a panic *)

\* After ESC, and after ESC [ until the sequence ends.
Escaped(s) == s.escape /\ ~s.osc /\ ~s.control_sequence
InSequence(s) == s.escape /\ ~s.osc /\ s.control_sequence

\* The characters that a context shows for a byte.
Charset(s) == s.charsets[s.current_charset]
Shows(s, b) ==
  IF Charset(s) = "dec_special" /\ b \in DOMAIN DecSpecial THEN DecSpecial[b]
  ELSE IF b \in DOMAIN Ascii THEN Ascii[b] ELSE Unknown
SameCharset(s, t) == Charset(t) = Charset(s)

\* Nothing that can be seen changes.
Unseen(s, t) == /\ SameText(s, t) /\ SameCharset(s, t)
                /\ t.cursor_x = s.cursor_x /\ t.cursor_y = s.cursor_y

LEMMA AsciiByte ==
  ASSUME Byte \notin DOMAIN HighByte, Byte \notin {"CAN", "SUB"}
  PROVE  ~Continues /\ ~Leads /\ (Cancelled <=> ctx.discard_next)
BY DEF Continues, Leads, IsHigh, Cancelled

LEMMA CommandBytes ==
  \A b \in {"ESC", "[", "0", "1", "3", "m", "LF"} :
    b \notin DOMAIN HighByte /\ b \notin {"CAN", "SUB"}
BY DEF HighByte

\* What nothing half parsed makes of a byte ...
LEMMA WaitingByte ==
  ASSUME Waiting(ctx), flanterm_putchar, Byte \notin DOMAIN HighByte,
         Byte \notin {"CAN", "SUB"}
  PROVE  Control \/ Printed
<1>1. ~Continues /\ ~Leads /\ ~Cancelled /\ ~Sequence
  BY AsciiByte DEF Waiting, Sequence
<1>2. ~Cancel /\ ~Utf8Lead /\ ~Utf8Continue
  BY <1>1 DEF Cancel, Utf8Lead, Utf8Continue
<1>3. ~SelectCharset
  BY DEF SelectCharset, Waiting
<1>4. ~osc_parse /\ ~escape_parse /\ ~Mark /\ ~Digit /\ ~Separator
  BY <1>1 DEF osc_parse, escape_parse, Mark, Digit, Separator, ControlSequence
<1>5. ~dec_private_parse /\ ~Command
  BY <1>1 DEF dec_private_parse, Command, Final, ControlSequence
<1>6. ~MoveTo /\ ~ScrollLines /\ ~EditCells /\ ~SelectGraphics /\ ~SetMode /\ ~Unanswered
  BY <1>5 DEF MoveTo, ScrollLines, EditCells, SelectGraphics, SetMode, Unanswered
<1> QED
  BY <1>2, <1>3, <1>4, <1>5, <1>6 DEF flanterm_putchar

\* ... what one makes that follows ESC, and one in a sequence.
LEMMA SequenceByte ==
  ASSUME IsTerminal(ctx), Sound(ctx), ctx.escape, ~ctx.osc, flanterm_putchar,
         Byte \in {"[", "0", "1", "3", "m"}
  PROVE  /\ ~ctx.control_sequence => escape_parse
         /\ ctx.control_sequence /\ Byte \in {"0", "1", "3"} => Digit
         /\ ctx.control_sequence /\ Byte = "m" => dec_private_parse \/ SelectGraphics
<1>1. ctx.g_select = 0 /\ ~ctx.discard_next
  BY DEF Sound, Parsing
<1>2. ~Cancelled /\ ~Continues /\ ~Leads
  BY <1>1, AsciiByte, CommandBytes
<1>3. ~Cancel /\ ~Utf8Lead /\ ~Utf8Continue /\ ~SelectCharset /\ ~Control /\ ~Printed
        /\ ~osc_parse
  BY <1>1, <1>2
  DEF Cancel, Utf8Lead, Utf8Continue, SelectCharset, Control, Printed, Text7bit, osc_parse
<1>4. CASE ~ctx.control_sequence
  <2>1. ~ControlSequence
    BY <1>4 DEF ControlSequence
  <2>2. ~Mark /\ ~Digit /\ ~Separator /\ ~dec_private_parse /\ ~Command
    BY <2>1 DEF Mark, Digit, Separator, dec_private_parse, Command, Final
  <2>3. ~MoveTo /\ ~ScrollLines /\ ~EditCells /\ ~SelectGraphics /\ ~SetMode /\ ~Unanswered
    BY <2>2 DEF MoveTo, ScrollLines, EditCells, SelectGraphics, SetMode, Unanswered
  <2> QED
    BY <1>3, <1>4, <2>2, <2>3 DEF flanterm_putchar
<1>5. CASE ctx.control_sequence
  <2>1. ~escape_parse /\ ~Separator
    BY <1>5 DEF escape_parse, Separator
  <2>2. Range(Digits) = {Digits[k] : k \in 1 .. 10}
    BY DEF Digits, Range
  <2>3. {"0", "1", "3"} \subseteq Range(Digits) /\ "m" \notin Range(Digits)
    BY <2>2 DEF Digits
  <2>4. ASSUME Byte \in {"0", "1", "3"} PROVE Digit
    <3>1. ~Mark /\ ~Final
      BY <2>3, <2>4 DEF Mark, Marks, Final
    <3>2. ~dec_private_parse /\ ~MoveTo /\ ~ScrollLines /\ ~EditCells /\ ~SelectGraphics
            /\ ~SetMode /\ ~Unanswered
      BY <3>1
      DEF dec_private_parse, MoveTo, ScrollLines, EditCells, SelectGraphics, SetMode,
          Unanswered, Command
    <3> QED
      BY <1>3, <2>1, <3>1, <3>2 DEF flanterm_putchar
  <2>5. ASSUME Byte = "m" PROVE dec_private_parse \/ SelectGraphics
    <3>1. ~Mark /\ ~Digit
      BY <2>3, <2>5 DEF Mark, Marks, Digit
    <3>2. ~MoveTo /\ ~ScrollLines /\ ~EditCells
      BY <2>5 DEF MoveTo, ScrollLines, EditCells
    <3>3. ~SetMode /\ ~Unanswered
      BY <2>5 DEF SetMode, Unanswered, Commands
    <3> QED
      BY <1>3, <2>1, <3>1, <3>2, <3>3 DEF flanterm_putchar
  <2> QED
    BY <1>5, <2>4, <2>5
<1> QED
  BY <1>4, <1>5

\* What is kept while no character is printed.
LEMMA FreshUnseen ==
  ASSUME IsTerminal(ctx), Sound(ctx)
  PROVE  Unseen(ctx, Fresh) /\ Unseen(ctx, Entered)
<1>1. Alike(ctx, Fresh) /\ Alike(ctx, Entered)
  BY FreshAlike, EnteredFollows
<1>2. SameText(ctx, Fresh) /\ SameText(ctx, Entered)
  BY <1>1, AlikeText
<1>3. /\ Fresh.cursor_x = ctx.cursor_x /\ Fresh.cursor_y = ctx.cursor_y
      /\ Entered.cursor_x = ctx.cursor_x /\ Entered.cursor_y = ctx.cursor_y
  BY <1>1, AlikeFields
<1>4. SameCharset(ctx, Fresh) /\ SameCharset(ctx, Entered)
  BY DEF SameCharset, Charset, Fresh, Entered, IsTerminal, TerminalFields
<1> QED
  BY <1>2, <1>3, <1>4 DEF Unseen

LEMMA EscapeEntered ==
  ASSUME IsTerminal(ctx), Sound(ctx), Waiting(ctx), flanterm_putchar, Byte = "ESC"
  PROVE  Escaped(ctx') /\ Unseen(ctx, ctx')
<1> DEFINE t == [Fresh EXCEPT !.escape = TRUE, !.escape_offset = 0]
<1>1. Control
  <2>1. ~Printed
    BY DEF Printed, Controls
  <2> QED
    BY <2>1, WaitingByte, CommandBytes
<1>2. ctx' = t
  BY <1>1 DEF Control, Takes
<1>3. ~ctx.osc /\ ~ctx.control_sequence
  BY DEF Sound, Parsing, Waiting
<1>4. /\ t.escape /\ t.osc = ctx.osc /\ t.control_sequence = ctx.control_sequence
      /\ SameText(Fresh, t) /\ SameCharset(Fresh, t)
      /\ t.cursor_x = Fresh.cursor_x /\ t.cursor_y = Fresh.cursor_y
  BY DEF Fresh, SameText, SameCharset, Charset, IsTerminal, TerminalFields, BufferFields
<1> HIDE DEF t
<1>5. Unseen(ctx, t)
  BY <1>4, FreshUnseen, SameTwice DEF Unseen, SameCharset
<1> QED
  BY <1>2, <1>3, <1>4, <1>5 DEF Escaped

LEMMA BracketOpens ==
  ASSUME IsTerminal(ctx), Sound(ctx), Escaped(ctx), flanterm_putchar, Byte = "["
  PROVE  InSequence(ctx') /\ Unseen(ctx, ctx')
<1> DEFINE t == [Entered EXCEPT !.control_sequence = TRUE, !.esc_values = NoValues,
                                !.esc_values_i = 0, !.rrr = FALSE]
<1>1. escape_parse
  BY SequenceByte DEF Escaped
<1>2. ctx' = t
  BY <1>1 DEF escape_parse, Takes
<1>3. /\ t.escape = ctx.escape /\ t.osc = ctx.osc /\ t.control_sequence
      /\ SameText(Entered, t) /\ SameCharset(Entered, t)
      /\ t.cursor_x = Entered.cursor_x /\ t.cursor_y = Entered.cursor_y
  BY DEF Entered, Fresh, SameText, SameCharset, Charset, IsTerminal, TerminalFields,
         BufferFields
<1> HIDE DEF t
<1>4. Unseen(ctx, t)
  BY <1>3, FreshUnseen, SameTwice DEF Unseen, SameCharset
<1> QED
  BY <1>2, <1>3, <1>4 DEF Escaped, InSequence

LEMMA DigitRead ==
  ASSUME IsTerminal(ctx), Sound(ctx), InSequence(ctx), flanterm_putchar,
         Byte \in {"0", "1", "3"}
  PROVE  InSequence(ctx') /\ Unseen(ctx, ctx')
<1>1. Digit
  BY SequenceByte DEF InSequence
<1> DEFINE value == (Entered.esc_values[ctx.esc_values_i + 1] * 10
                       + (CHOOSE k \in 1 .. 10 : Digits[k] = Byte) - 1) % ValueWrap
           values == [Entered.esc_values EXCEPT ![ctx.esc_values_i + 1] = value]
           t == [Entered EXCEPT !.rrr = TRUE, !.esc_values = values]
<1>2. ctx' = Entered \/ ctx' = t
  BY <1>1 DEF Digit, Takes
<1> HIDE DEF values
<1>3. /\ t.escape = ctx.escape /\ t.osc = ctx.osc
      /\ t.control_sequence = ctx.control_sequence
      /\ SameText(Entered, t) /\ SameCharset(Entered, t)
      /\ t.cursor_x = Entered.cursor_x /\ t.cursor_y = Entered.cursor_y
  BY DEF Entered, Fresh, SameText, SameCharset, Charset, IsTerminal, TerminalFields,
         BufferFields
<1> HIDE DEF t
<1>4. Unseen(ctx, t) /\ Unseen(ctx, Entered)
  BY <1>3, FreshUnseen, SameTwice DEF Unseen, SameCharset
<1>5. /\ Entered.escape = ctx.escape /\ Entered.osc = ctx.osc
      /\ Entered.control_sequence = ctx.control_sequence
  BY EnteredFollows
<1> QED
  BY <1>2, <1>3, <1>4, <1>5 DEF InSequence

LEMMA GraphicsSet ==
  ASSUME IsTerminal(ctx), Sound(ctx), InSequence(ctx), flanterm_putchar, Byte = "m"
  PROVE  Waiting(ctx') /\ Unseen(ctx, ctx')
<1>1. CASE dec_private_parse
  <2> DEFINE t == SequenceEnded([Entered EXCEPT !.dec_private = FALSE,
                                                !.cursor_enabled = Entered.cursor_enabled])
  <2>1. ctx' = t
    BY <1>1 DEF dec_private_parse, Takes
  <2>2. ctx.g_select = 0 /\ ~ctx.discard_next
    BY DEF InSequence, Sound, Parsing
  <2>3. /\ ~t.escape /\ t.g_select = ctx.g_select /\ t.discard_next = ctx.discard_next
        /\ SameText(Entered, t) /\ SameCharset(Entered, t)
        /\ t.cursor_x = Entered.cursor_x /\ t.cursor_y = Entered.cursor_y
    BY DEF SequenceEnded, NoSequence, Entered, Fresh, SameText, SameCharset, Charset,
           IsTerminal, TerminalFields, BufferFields
  <2> HIDE DEF t
  <2>4. Unseen(ctx, t)
    BY <2>3, FreshUnseen, SameTwice DEF Unseen, SameCharset
  <2> QED
    BY <2>1, <2>2, <2>3, <2>4 DEF Waiting
<1>2. CASE SelectGraphics
  <2>1. Waiting(ctx')
    BY <1>2, GraphicsWait
  <2> DEFINE values == IF Given = 0 THEN << 0 >> ELSE SubSeq(P, 1, Given)
             d == During
             t == sgr(d, values)
  <2>2. Command /\ Done(t)
    BY <1>2 DEF SelectGraphics
  <2>3. t \in Recoloured(d) /\ IsTerminal(d) /\ Painted(d)
    BY <1>2, GraphicsRecolour
  <2>4. /\ SameText(ctx, d) /\ SameCharset(ctx, d)
        /\ d.cursor_x = ctx.cursor_x /\ d.cursor_y = ctx.cursor_y
    BY DEF During, Entered, Fresh, SameText, SameCharset, Charset,
           IsTerminal, TerminalFields, BufferFields
  <2> HIDE DEF d, values, t
  <2>5. IsTerminal(t)
    BY <2>3, RecolouredFields
  <2>6. /\ SameText(d, t) /\ SameCharset(d, t)
        /\ t.cursor_x = d.cursor_x /\ t.cursor_y = d.cursor_y
    <3>1. PICK fg, bg, bold, bg_bold, video, primary, background :
            t = Recolour(d, fg, bg, bold, bg_bold, video, primary, background)
      BY <2>3, RecolouredBy
    <3> QED
      BY <2>3, <3>1 DEF Recolour, SameText, SameCharset, Charset, IsTerminal, IsContext,
                        TerminalFields, BufferFields
  <2>7. /\ SameText(t, ctx') /\ SameCharset(t, ctx')
        /\ ctx'.cursor_x = t.cursor_x /\ ctx'.cursor_y = t.cursor_y
    BY <2>2, <2>5 DEF Done, Takes, SequenceEnded, NoSequence, SameText, SameCharset, Charset,
                      IsTerminal, IsContext, TerminalFields, BufferFields
  <2>8. SameText(ctx, ctx')
    BY <2>4, <2>6, <2>7, SameTwice
  <2> QED
    BY <2>1, <2>4, <2>6, <2>7, <2>8 DEF Unseen, SameCharset
<1> QED
  BY <1>1, <1>2, SequenceByte DEF InSequence

\* The first k characters of a text stand at the start of line y.
Stands(s, text, k, y) ==
  \A i \in 1 .. k : CharAt(s, CellOf(i - 1, y)).c = Shows(s, text[i])

LEMMA StandsUnseen ==
  ASSUME NEW s, NEW t, Unseen(s, t), NEW text, NEW k, NEW y, Stands(s, text, k, y)
  PROVE  Stands(t, text, k, y)
BY SameCells DEF Unseen, Stands, Shows, SameCharset

LEMMA EditedCharset ==
  ASSUME NEW s, IsTerminal(s), NEW t \in Edited(s)
  PROVE  SameCharset(s, t)
<1>1. PICK q, m, x, y : t = Edit(s, q, m, x, y)
  BY EditedBy
<1> QED
  BY <1>1 DEF Edit, SameCharset, Charset, IsTerminal, TerminalFields

\* A cell left of another one on its line.
LEMMA CellLeft ==
  ASSUME NEW x \in 0 .. cols - 1, NEW y \in 0 .. rows - 1, NEW i \in 1 .. x
  PROVE  /\ CellOf(i - 1, y) \in Cells /\ CellOf(i - 1, y) # CellOf(x, y)
         /\ CellOf(i - 1, y) \notin y * cols + x + 1 .. y * cols + cols - 1
<1> DEFINE a == y * cols
<1>1. /\ a \in Nat /\ x \in Nat /\ i \in Nat /\ i >= 1 /\ i <= x
  BY ScreenAssumption
<1>2. OnScreen(i - 1, y) /\ i - 1 \in Nat /\ y \in Nat
  BY <1>1, ScreenAssumption DEF OnScreen
<1>3. CellOf(i - 1, y) \in Cells
  BY <1>2, CellOnScreen
<1>4. CellOf(i - 1, y) = i - 1 + a /\ CellOf(x, y) = x + a
  BY DEF CellOf
<1> HIDE DEF a
<1>5. i - 1 + a # x + a /\ i - 1 + a \notin a + x + 1 .. a + cols - 1
  BY <1>1, ScreenAssumption
<1> QED
  BY <1>3, <1>4, <1>5 DEF a

\* A character that is printed where nothing is half parsed stands at the cursor,
\* in insert mode too.
LEMMA TextPrinted ==
  ASSUME IsTerminal(ctx), Sound(ctx), Waiting(ctx), flanterm_putchar, Prints(Byte)
  PROVE  /\ Waiting(ctx')
         /\ \A y \in 0 .. rows - 1, x \in 0 .. cols - 1 : \A text :
              At(ctx, x, y) /\ Stands(ctx, text, x, y) /\ text[x + 1] = Byte
                => At(ctx', x + 1, y) /\ Stands(ctx', text, x + 1, y)
<1>1. Printed
  <2>1. ~Control
    BY DEF Prints, Control, Controls
  <2> QED
    BY <2>1, WaitingByte DEF Prints
<1>2. Waiting(ctx')
  BY <1>1, PrintedWaits
<1>3. SUFFICES ASSUME NEW y \in 0 .. rows - 1, NEW x \in 0 .. cols - 1, NEW text,
                      At(ctx, x, y), Stands(ctx, text, x, y), text[x + 1] = Byte
               PROVE  At(ctx', x + 1, y) /\ Stands(ctx', text, x + 1, y)
  BY <1>2
<1> DEFINE p == Downwards(cols - 1, x)
           moved == MoveCharacters(Fresh, 1, y, p)
           room == IF ctx.insert_mode THEN moved ELSE Fresh
           c == Shows(ctx, Byte)
<1>4. X(ctx) = x /\ Y(ctx) = y
  BY <1>3, ScreenAssumption DEF X, Y, At, Clamp
<1>5. GlyphOf(Byte) = c /\ c \in 0 .. 255
  <2>1. GlyphOf(Byte) = c
    BY DEF GlyphOf, Shows, Charset
  <2> QED
    BY <2>1, ByteGlyph
<1>6. ctx' = raw_putchar(room, c)
  BY <1>1, <1>4, <1>5 DEF Printed, Takes
<1>7. x \in Nat /\ y \in Nat
  BY ScreenAssumption
<1>8. FromColumns(p, 1)
  <2> DEFINE a == cols - 1
  <2>1. a \in Int /\ x \in Int
    BY ScreenAssumption
  <2> HIDE DEF a
  <2>2. Len(Downwards(a, x)) \in Nat
        /\ \A n \in 1 .. Len(Downwards(a, x)) : Downwards(a, x)[n] \in x .. a
    BY <2>1, DownwardsAre
  <2>3. \A i \in x .. a : i \in Nat /\ i + 1 \in Nat
    BY <1>7, <2>1
  <2> QED
    BY <2>2, <2>3 DEF FromColumns, a
<1>9. IsTerminal(Fresh) /\ Editable(Fresh) /\ Unseen(ctx, Fresh)
  BY FreshFollows, FreshUnseen DEF Editable
<1>10. moved \in Rewritten(Fresh)
  BY <1>7, <1>8, <1>9, MoveCharactersRewrite
<1>11. room \in Rewritten(Fresh)
  BY <1>9, <1>10, NothingRewritten
<1>12. ASSUME NEW i \in 1 .. x
       PROVE  CharAt(room, CellOf(i - 1, y)) = CharAt(ctx, CellOf(i - 1, y))
  <2>1. /\ CellOf(i - 1, y) \in Cells
        /\ CellOf(i - 1, y) \notin y * cols + x + 1 .. y * cols + cols - 1
    BY CellLeft
  <2>2. CharAt(moved, CellOf(i - 1, y)) = CharAt(Fresh, CellOf(i - 1, y))
    BY <1>9, <2>1, MovedForth
  <2>3. CharAt(Fresh, CellOf(i - 1, y)) = CharAt(ctx, CellOf(i - 1, y))
    BY <1>9, SameCells DEF Unseen
  <2> QED
    BY <2>2, <2>3
<1> HIDE DEF p, moved, room, c
<1>13. /\ room \in Edited(Fresh) /\ Editable(room) /\ IsTerminal(room)
       /\ room.cursor_x = x /\ room.cursor_y = y
  <2>1. room \in Edited(Fresh) /\ room.cursor_x = Fresh.cursor_x
          /\ room.cursor_y = Fresh.cursor_y
    BY <1>11, RewrittenIsEdited
  <2> QED
    BY <1>3, <1>9, <2>1, EditedEditable DEF Unseen, At, Editable
<1>14. Ready(room) = room
  <2>1. ~Wraps(room)
    BY <1>7, <1>13, ScreenAssumption DEF Wraps
  <2> QED
    BY <2>1 DEF Ready
<1>15. /\ \A j \in Cells : CharAt(ctx', j) = IF OnScreen(x, y) /\ j = CellOf(x, y)
                                               THEN Char(room, c) ELSE CharAt(room, j)
       /\ ctx'.cursor_x = x + 1 /\ ctx'.cursor_y = y /\ ctx' \in Edited(room)
  BY <1>5, <1>6, <1>13, <1>14, PutcharText
<1>16. SameCharset(ctx, ctx')
  <2>1. SameCharset(Fresh, room) /\ SameCharset(room, ctx')
    BY <1>9, <1>13, <1>15, EditedCharset
  <2> QED
    BY <1>9, <2>1 DEF Unseen, SameCharset
<1>17. OnScreen(x, y) /\ CellOf(x, y) \in Cells
  <2>1. OnScreen(x, y)
    BY ScreenAssumption DEF OnScreen
  <2> QED
    BY <1>7, <2>1, CellOnScreen
<1>18. ASSUME NEW i \in 1 .. x + 1
       PROVE  CharAt(ctx', CellOf(i - 1, y)).c = Shows(ctx', text[i])
  <2>1. Shows(ctx', text[i]) = Shows(ctx, text[i])
    BY <1>16 DEF Shows, SameCharset
  <2>2. CASE i = x + 1
    <3>1. CellOf(i - 1, y) = CellOf(x, y)
      BY <1>7, <2>2 DEF CellOf
    <3>2. CharAt(ctx', CellOf(i - 1, y)).c = c
      BY <1>15, <1>17, <3>1 DEF Char
    <3> QED
      BY <1>3, <2>1, <2>2, <3>2 DEF c
  <2>3. CASE i # x + 1
    <3>1. i \in 1 .. x
      BY <1>7, <2>3
    <3>2. CellOf(i - 1, y) \in Cells /\ CellOf(i - 1, y) # CellOf(x, y)
      BY <3>1, CellLeft
    <3>3. CharAt(ctx', CellOf(i - 1, y)) = CharAt(ctx, CellOf(i - 1, y))
      BY <1>12, <1>15, <3>1, <3>2
    <3> QED
      BY <1>3, <2>1, <3>1, <3>3 DEF Stands
  <2> QED
    BY <2>2, <2>3
<1> QED
  BY <1>15, <1>18 DEF At, Stands

\* The cursor is at the start of a line of the screen.
Home(s) == s.cursor_x = 0 /\ s.cursor_y \in 0 .. rows - 1

\* The end of a line: the text of the line stays where it is, or moves up a line
\* with the region.
LEMMA LineFed ==
  ASSUME IsTerminal(ctx), Sound(ctx), Waiting(ctx), flanterm_putchar, Byte = "LF",
         rows >= 2
  PROVE  /\ Waiting(ctx') /\ Home(ctx')
         /\ \A y \in 0 .. rows - 1, n \in 0 .. cols : \A text :
              ctx.cursor_y = y /\ Stands(ctx, text, n, y)
                => \E z \in 0 .. rows - 1 : Stands(ctx', text, n, z)
<1>1. Control
  <2>1. ~Printed
    BY DEF Printed, Controls
  <2> QED
    BY <2>1, WaitingByte, CommandBytes
<1>2. ctx' = LineFeed(Fresh, 0)
  BY <1>1 DEF Control, Takes
<1>3. IsTerminal(Fresh) /\ Editable(Fresh) /\ Unseen(ctx, Fresh) /\ Alike(ctx, Fresh)
  BY FreshFollows, FreshUnseen, FreshAlike DEF Editable
<1> DEFINE f == Fresh
           v == Y(f)
<1>4. f.escape = ctx.escape /\ f.g_select = ctx.g_select /\ f.discard_next = ctx.discard_next
  BY FreshAlike
<1>5. f.top = ctx.top /\ f.bottom = ctx.bottom /\ Region(ctx)
  BY <1>3, AlikeFields DEF Sound, Drawable, Steady
<1> HIDE DEF f
<1>6. v \in 0 .. rows - 1 /\ v \in Int /\ v + 1 \in Int
  BY <1>3, CursorPlace, ScreenAssumption DEF f
<1>7. ctx' = IF v = f.bottom - 1 THEN set_cursor_pos(scroll(f), 0, v)
             ELSE set_cursor_pos(f, 0, v + 1)
  BY <1>2 DEF LineFeed, f
<1>8. IsTerminal(f) /\ Editable(f)
  BY <1>3 DEF f
<1> HIDE DEF v
<1>9. scroll(f) \in Edited(f) /\ f \in Edited(f)
  BY <1>8, ScrollRewrites, RewrittenIsEdited, NothingRewritten DEF Editable
<1>10. IsTerminal(scroll(f))
  BY <1>8, <1>9, EditedFields
<1>11. 0 \in Int /\ Clamp(0, cols) = 0
  BY ScreenAssumption DEF Clamp
<1>12. PICK t \in {f, scroll(f)}, u \in Int :
         /\ ctx' = set_cursor_pos(t, 0, u)
         /\ v = f.bottom - 1 => t = scroll(f)
         /\ v # f.bottom - 1 => t = f
  BY <1>6, <1>7
<1>13. t \in Edited(f) /\ IsTerminal(t)
  BY <1>8, <1>9, <1>10
<1>14. /\ ctx' \in Edited(t) /\ Home(ctx') /\ SameText(t, ctx')
  <2>1. ctx' \in Edited(t) /\ ctx'.cursor_x = 0 /\ ctx'.cursor_y \in 0 .. rows - 1
    BY <1>11, <1>12, <1>13, CursorSet
  <2>2. SameText(t, ctx')
    BY <1>12, <1>13, CursorKeepsText
  <2> QED
    BY <2>1, <2>2 DEF Home
<1>15. Waiting(ctx') /\ SameCharset(ctx, ctx')
  <2>1. /\ ctx'.escape = f.escape /\ ctx'.g_select = f.g_select
        /\ ctx'.discard_next = f.discard_next
    BY <1>8, <1>13, <1>14, EditedFields
  <2>2. SameCharset(f, t) /\ SameCharset(t, ctx')
    BY <1>8, <1>13, <1>14, EditedCharset
  <2> QED
    BY <1>3, <1>4, <2>1, <2>2 DEF Waiting, Unseen, SameCharset, f
<1>16. ASSUME NEW y \in 0 .. rows - 1, NEW n \in 0 .. cols, NEW text,
              ctx.cursor_y = y, Stands(ctx, text, n, y)
       PROVE  \E z \in 0 .. rows - 1 : Stands(ctx', text, n, z)
  <2>1. v = y
    <3>1. f.cursor_y = y
      BY <1>3, <1>16 DEF Unseen, f
    <3> QED
      BY <3>1, ScreenAssumption DEF v, Y, Clamp
  <2>2. \A i : CharAt(f, i) = CharAt(ctx, i) /\ CharAt(ctx', i) = CharAt(t, i)
    BY <1>3, <1>14, SameCells DEF Unseen, f
  <2>3. \A i : Shows(ctx', text[i]) = Shows(ctx, text[i])
    BY <1>15 DEF Shows, SameCharset
  <2>4. CASE v # f.bottom - 1
    <3>1. Stands(ctx', text, n, y)
      BY <1>12, <1>16, <2>2, <2>3, <2>4 DEF Stands
    <3> QED
      BY <3>1
  <2>5. CASE v = f.bottom - 1
    <3> DEFINE a == f.top * cols
               b == f.bottom * cols
    <3>1. /\ f.top \in Nat /\ f.bottom \in Nat /\ y = f.bottom - 1 /\ f.top < y
          /\ f.top < f.bottom /\ y - 1 \in 0 .. rows - 1
      <4>1. /\ f.top \in Nat /\ f.bottom \in Nat /\ f.bottom <= rows
            /\ f.top + 1 < f.bottom \/ (f.top = 0 /\ f.bottom = rows)
        BY <1>5 DEF Region
      <4> QED
        BY <2>1, <2>5, <4>1, ScreenAssumption
    <3>2. RowsUp(f, scroll(f), a, b, cols, Char(f, Space))
      BY <1>8, <3>1, ScrollText
    <3>3. ASSUME NEW i \in 1 .. n
          PROVE  CharAt(scroll(f), CellOf(i - 1, y - 1)) = CharAt(f, CellOf(i - 1, y))
      <4> DEFINE e == (y - 1) * cols
      <4>1. /\ a \in Nat /\ b \in Nat /\ e \in Nat /\ i \in Nat /\ i >= 1 /\ i <= cols
            /\ y * cols = e + cols /\ b = e + cols + cols
        <5>1. y \in Nat /\ f.bottom = y + 1 /\ y - 1 \in Nat
          BY <3>1, ScreenAssumption
        <5>2. e \in Nat /\ a \in Nat
          BY <3>1, <5>1, ScreenAssumption
        <5>3. \A m \in Int : (m + 1) * cols = m * cols + cols
          BY ScreenAssumption
        <5>4. (y - 1 + 1) * cols = e + cols /\ (y + 1) * cols = y * cols + cols
          BY <5>1, <5>3
        <5>5. y - 1 + 1 = y
          BY <5>1
        <5>6. y * cols = e + cols /\ b = y * cols + cols
          BY <5>1, <5>4, <5>5
        <5> HIDE DEF a, b, e
        <5> QED
          BY <5>2, <5>6, ScreenAssumption
      <4>2. a <= e
        <5>1. f.top < y - 1 => a + cols <= e
          BY <3>1, LinesInOrder
        <5>2. f.top = y - 1 => a = e
          OBVIOUS
        <5>3. f.top < y - 1 \/ f.top = y - 1
          BY <3>1
        <5> HIDE DEF a, e
        <5> QED
          BY <4>1, <5>1, <5>2, <5>3, ScreenAssumption
      <4>3. CellOf(i - 1, y - 1) = i - 1 + e /\ CellOf(i - 1, y) = i - 1 + y * cols
        BY DEF CellOf
      <4>4. CellOf(i - 1, y - 1) \in Cells
        <5>1. OnScreen(i - 1, y - 1) /\ i - 1 \in Nat /\ y - 1 \in Nat
          BY <3>1, <4>1, ScreenAssumption DEF OnScreen
        <5> QED
          BY <5>1, CellOnScreen
      <4> DEFINE j == CellOf(i - 1, y - 1)
      <4>5. /\ ~(j < a \/ j >= b) /\ j + cols < b /\ j + cols = CellOf(i - 1, y)
        <5> HIDE DEF a, b, e
        <5>1. ~(i - 1 + e < a \/ i - 1 + e >= b) /\ i - 1 + e + cols < b
          BY <4>1, <4>2, ScreenAssumption
        <5>2. i - 1 + e + cols = i - 1 + y * cols
          BY <4>1, ScreenAssumption
        <5> QED
          BY <4>3, <5>1, <5>2
      <4> HIDE DEF a, b, e
      <4> QED
        BY <3>2, <4>4, <4>5 DEF RowsUp
    <3>4. Stands(ctx', text, n, y - 1)
      BY <1>12, <1>16, <2>2, <2>3, <2>5, <3>3 DEF Stands
    <3> QED
      BY <3>1, <3>4
  <2> QED
    BY <2>4, <2>5
<1> QED
  BY <1>14, <1>15, <1>16

\* A line of the report of which j bytes are taken, where nothing was half parsed
\* at its start: what the parser is in the middle of ...
Phase(s, j, n) ==
  /\ j \in {0, n + 9, n + 10} \cup 5 .. n + 5 => Waiting(s)
  /\ j \in {1, n + 6} => Escaped(s)
  /\ j \in {2, 3, 4, n + 7, n + 8} => InSequence(s)

\* ... and what of the text stands on the screen.
Standing(s, text, k) ==
  \E y \in 0 .. rows - 1 : At(s, k, y) /\ Stands(s, text, k, y)
Written(s, text, j) ==
  LET n == Len(text) IN
  /\ j \in 5 .. n + 5 => Standing(s, text, j - 5)
  /\ j \in n + 5 .. n + 9 => Standing(s, text, n)
  /\ j = n + 10 => \E y \in 0 .. rows - 1 : Stands(s, text, n, y)
LineUnderWay(s, text, j, last) ==
  /\ Phase(s, j, Len(text))
  /\ j \in 0 .. 5 \cup {Len(text) + 10} => Home(s)
  /\ last => Written(s, text, j)

LineBytes == DOMAIN Ascii \cup {"ESC", "[", "3", "1", "m", "0", "LF"}
LEMMA CritIs ==
  ASSUME NEW text \in Seq(DOMAIN Ascii)
  PROVE  /\ Len(text) \in Nat /\ Crit(text) \in Seq(LineBytes)
         /\ Len(Crit(text)) = Len(text) + 10
         /\ Crit(text)[1] = "ESC" /\ Crit(text)[2] = "[" /\ Crit(text)[3] = "3"
         /\ Crit(text)[4] = "1" /\ Crit(text)[5] = "m"
         /\ \A i \in 1 .. Len(text) : Crit(text)[5 + i] = text[i]
         /\ Crit(text)[Len(text) + 6] = "ESC" /\ Crit(text)[Len(text) + 7] = "["
         /\ Crit(text)[Len(text) + 8] = "0" /\ Crit(text)[Len(text) + 9] = "m"
         /\ Crit(text)[Len(text) + 10] = "LF"
<1> DEFINE n == Len(text)
           a == << "ESC", "[", "3", "1", "m" >>
           z == << "ESC", "[", "0", "m", "LF" >>
           S == LineBytes
           t == text
<1>1. n \in Nat /\ t \in Seq(S)
  BY DEF LineBytes
<1>2. a \in Seq(S) /\ z \in Seq(S)
  BY DEF LineBytes
<1>3. /\ a[1] = "ESC" /\ a[2] = "[" /\ a[3] = "3" /\ a[4] = "1" /\ a[5] = "m"
      /\ z[1] = "ESC" /\ z[2] = "[" /\ z[3] = "0" /\ z[4] = "m" /\ z[5] = "LF"
      /\ Len(a) = 5 /\ Len(z) = 5
  OBVIOUS
<1>4. Crit(text) = a \o t \o z
  BY DEF Crit
<1> DEFINE l == a \o t
           c == Crit(text)
<1> HIDE DEF a, z, S
<1>5. /\ l \in Seq(S) /\ Len(l) = Len(a) + Len(t)
      /\ \A i \in 1 .. Len(a) : l[i] = a[i]
      /\ \A i \in 1 .. Len(t) : l[Len(a) + i] = t[i]
  BY <1>1, <1>2
<1>6. l \in Seq(S)
  BY <1>5
<1> HIDE DEF l
<1>7. /\ l \o z \in Seq(S) /\ Len(l \o z) = Len(l) + Len(z)
      /\ \A i \in 1 .. Len(l) : (l \o z)[i] = l[i]
      /\ \A i \in 1 .. Len(z) : (l \o z)[Len(l) + i] = z[i]
  BY <1>2, <1>6
<1>8. c = l \o z
  BY <1>4 DEF l
<1> HIDE DEF c, n
<1>9. Len(t) = n /\ Len(l) = n + 5
  BY <1>1, <1>3, <1>5 DEF n
<1>10. /\ c \in Seq(S) /\ Len(c) = Len(l) + Len(z)
       /\ \A i \in 1 .. Len(l) : c[i] = l[i]
       /\ \A i \in 1 .. Len(z) : c[Len(l) + i] = z[i]
  BY <1>7, <1>8
<1>11. Len(c) = n + 10
  BY <1>1, <1>3, <1>9, <1>10
<1>12. \A i \in 1 .. 5 : c[i] = a[i]
  BY <1>1, <1>3, <1>5, <1>9, <1>10
<1>13. \A i \in 1 .. n : c[5 + i] = t[i]
  <2>1. \A i \in 1 .. n : l[5 + i] = t[i]
    BY <1>3, <1>5, <1>9
  <2>2. \A i \in 1 .. n : 5 + i \in 1 .. n + 5
    BY <1>1
  <2> QED
    BY <1>9, <1>10, <2>1, <2>2
<1>14. \A i \in 1 .. 5 : c[n + 5 + i] = z[i]
  BY <1>1, <1>3, <1>9, <1>10
<1>15. /\ c[1] = a[1] /\ c[2] = a[2] /\ c[3] = a[3] /\ c[4] = a[4] /\ c[5] = a[5]
       /\ c[n + 5 + 1] = z[1] /\ c[n + 5 + 2] = z[2] /\ c[n + 5 + 3] = z[3]
       /\ c[n + 5 + 4] = z[4] /\ c[n + 5 + 5] = z[5]
  BY <1>12, <1>14
<1>16. /\ n + 5 + 1 = n + 6 /\ n + 5 + 2 = n + 7 /\ n + 5 + 3 = n + 8
       /\ n + 5 + 4 = n + 9 /\ n + 5 + 5 = n + 10
  BY <1>1
<1> QED
  BY <1>1, <1>3, <1>10, <1>11, <1>13, <1>15, <1>16 DEF n, c, S

\* What is not seen does not move what stands.
LEMMA StandingUnseen ==
  ASSUME NEW s, NEW t, Unseen(s, t), NEW text, NEW k, Standing(s, text, k)
  PROVE  Standing(t, text, k)
<1>1. PICK y \in 0 .. rows - 1 : At(s, k, y) /\ Stands(s, text, k, y)
  BY DEF Standing
<1>2. At(t, k, y)
  BY <1>1 DEF At, Unseen
<1>3. Stands(t, text, k, y)
  BY <1>1, StandsUnseen
<1> QED
  BY <1>2, <1>3 DEF Standing

\* The bytes of a line, one after the other: those before its text ...
LEMMA ColourByte ==
  ASSUME IsTerminal(ctx), Sound(ctx), flanterm_putchar, NEW text \in Seq(DOMAIN Ascii),
         NEW last, NEW j \in 0 .. 4, Byte = Crit(text)[j + 1],
         LineUnderWay(ctx, text, j, last)
  PROVE  LineUnderWay(ctx', text, j + 1, last)
<1> DEFINE n == Len(text)
<1>1. n \in Nat
  OBVIOUS
<1>2. /\ j = 0 => Byte = "ESC"
      /\ j = 1 => Byte = "["
      /\ j = 2 => Byte = "3"
      /\ j = 3 => Byte = "1"
      /\ j = 4 => Byte = "m"
  BY CritIs
<1>3. /\ j = 0 => Waiting(ctx)
      /\ j = 1 => Escaped(ctx)
      /\ j \in {2, 3, 4} => InSequence(ctx)
      /\ Home(ctx)
  <2>1. Phase(ctx, j, n) /\ j \in 0 .. 5 /\ Home(ctx)
    BY DEF LineUnderWay
  <2> HIDE DEF n
  <2> QED
    BY <2>1 DEF Phase
<1>4. /\ Unseen(ctx, ctx')
      /\ j = 0 => Escaped(ctx')
      /\ j \in {1, 2, 3} => InSequence(ctx')
      /\ j = 4 => Waiting(ctx')
  <2>1. CASE j = 0
    BY <1>2, <1>3, <2>1, EscapeEntered
  <2>2. CASE j = 1
    BY <1>2, <1>3, <2>2, BracketOpens
  <2>3. CASE j \in {2, 3}
    BY <1>2, <1>3, <2>3, DigitRead
  <2>4. CASE j = 4
    BY <1>2, <1>3, <2>4, GraphicsSet
  <2> QED
    BY <2>1, <2>2, <2>3, <2>4
<1>5. Home(ctx')
  BY <1>3, <1>4 DEF Home, Unseen
<1> HIDE DEF n
<1>6. Phase(ctx', j + 1, n)
  BY <1>1, <1>4 DEF Phase
<1>7. Written(ctx', text, j + 1)
  <2>1. ASSUME j = 4 PROVE Standing(ctx', text, 0)
    <3>1. At(ctx', 0, ctx'.cursor_y) /\ ctx'.cursor_y \in 0 .. rows - 1
      BY <1>5 DEF At, Home
    <3>2. Stands(ctx', text, 0, ctx'.cursor_y)
      BY DEF Stands
    <3> QED
      BY <3>1, <3>2 DEF Standing
  <2>2. /\ j + 1 \in 5 .. n + 5 => j = 4 /\ j + 1 - 5 = 0
        /\ j + 1 \in n + 5 .. n + 9 => j = 4 /\ n = 0
        /\ j + 1 # n + 10
    BY <1>1
  <2> QED
    BY <2>1, <2>2 DEF Written, n
<1> QED
  BY <1>5, <1>6, <1>7 DEF LineUnderWay, n

\* ... those of the text ...
LEMMA TextByte ==
  ASSUME IsTerminal(ctx), Sound(ctx), flanterm_putchar, NEW text \in Seq(DOMAIN Ascii),
         NEW last, NEW j \in 5 .. Len(text) + 4, Byte = Crit(text)[j + 1], Prints(Byte),
         last => Len(text) <= cols,
         LineUnderWay(ctx, text, j, last)
  PROVE  LineUnderWay(ctx', text, j + 1, last)
<1> DEFINE n == Len(text)
           k == j - 5
<1>1. /\ n \in Nat /\ j \in Nat /\ k \in Nat /\ k + 1 \in 1 .. n
      /\ 5 + (k + 1) = j + 1 /\ k + 1 = j + 1 - 5
  OBVIOUS
<1>2. Byte = text[k + 1]
  BY <1>1, CritIs
<1>3. Waiting(ctx)
  <2>1. Phase(ctx, j, n) /\ j \in 5 .. n + 5
    BY DEF LineUnderWay
  <2> HIDE DEF n
  <2> QED
    BY <2>1 DEF Phase
<1>4. Waiting(ctx')
  BY <1>3, TextPrinted
<1>5. ASSUME last PROVE Standing(ctx', text, k + 1)
  <2>1. Standing(ctx, text, k)
    <3>1. Written(ctx, text, j) /\ j \in 5 .. n + 5
      BY <1>1, <1>5 DEF LineUnderWay
    <3> QED
      BY <3>1 DEF Written
  <2>2. PICK y \in 0 .. rows - 1 : At(ctx, k, y) /\ Stands(ctx, text, k, y)
    BY <2>1 DEF Standing
  <2>3. k \in 0 .. cols - 1
    <3>1. n <= cols
      BY <1>5
    <3> HIDE DEF n, k
    <3> QED
      BY <1>1, <3>1, ScreenAssumption
  <2> HIDE DEF k
  <2>4. At(ctx', k + 1, y) /\ Stands(ctx', text, k + 1, y)
    BY <1>2, <1>3, <2>2, <2>3, TextPrinted
  <2> QED
    BY <2>4 DEF Standing
<1> HIDE DEF n, k
<1>6. Phase(ctx', j + 1, n)
  <2>1. j + 1 \notin {1, n + 6, 2, 3, 4, n + 7, n + 8}
    BY <1>1
  <2> QED
    BY <1>4, <2>1 DEF Phase
<1>7. last => Written(ctx', text, j + 1)
  <2>1. /\ j + 1 \in n + 5 .. n + 9 => n = k + 1
        /\ j + 1 # n + 10
    BY <1>1
  <2> QED
    BY <1>1, <1>5, <2>1 DEF Written, n
<1>8. j + 1 \notin 0 .. 5 \cup {n + 10}
  BY <1>1
<1> QED
  BY <1>6, <1>7, <1>8 DEF LineUnderWay, n

\* ... and those after it.
LEMMA EndByte ==
  ASSUME IsTerminal(ctx), Sound(ctx), flanterm_putchar, NEW text \in Seq(DOMAIN Ascii),
         NEW last, NEW j \in Len(text) + 5 .. Len(text) + 9, Byte = Crit(text)[j + 1],
         rows >= 2, last => Len(text) <= cols,
         LineUnderWay(ctx, text, j, last)
  PROVE  LineUnderWay(ctx', text, j + 1, last)
<1> DEFINE n == Len(text)
<1>1. n \in Nat /\ j \in Nat /\ j \in n + 5 .. n + 9
  OBVIOUS
<1>2. /\ j = n + 5 => Byte = "ESC"
      /\ j = n + 6 => Byte = "["
      /\ j = n + 7 => Byte = "0"
      /\ j = n + 8 => Byte = "m"
      /\ j = n + 9 => Byte = "LF"
  <2>1. /\ Crit(text)[n + 6] = "ESC" /\ Crit(text)[n + 7] = "["
        /\ Crit(text)[n + 8] = "0" /\ Crit(text)[n + 9] = "m"
        /\ Crit(text)[n + 10] = "LF"
    BY CritIs
  <2>2. /\ n + 5 + 1 = n + 6 /\ n + 6 + 1 = n + 7 /\ n + 7 + 1 = n + 8
        /\ n + 8 + 1 = n + 9 /\ n + 9 + 1 = n + 10
    BY <1>1
  <2> HIDE DEF n
  <2> QED
    BY <2>1, <2>2
<1>3. Phase(ctx, j, n) /\ (last => Written(ctx, text, j))
  BY DEF LineUnderWay
<1>4. last => Standing(ctx, text, n)
  BY <1>1, <1>3 DEF Written
<1> HIDE DEF n
<1>5. /\ j = n + 5 => Waiting(ctx)
      /\ j = n + 6 => Escaped(ctx)
      /\ j \in {n + 7, n + 8} => InSequence(ctx)
      /\ j = n + 9 => Waiting(ctx)
  <2>1. n + 5 \in 5 .. n + 5
    BY <1>1
  <2> QED
    BY <1>3, <2>1 DEF Phase
<1>6. ASSUME j # n + 9
      PROVE  /\ Unseen(ctx, ctx')
             /\ j = n + 5 => Escaped(ctx')
             /\ j \in {n + 6, n + 7} => InSequence(ctx')
             /\ j = n + 8 => Waiting(ctx')
  <2>1. n + 5 # n + 6 /\ n + 5 # n + 7 /\ n + 5 # n + 8 /\ n + 6 # n + 7
          /\ n + 6 # n + 8 /\ n + 7 # n + 8
    BY <1>1
  <2>2. CASE j = n + 5
    BY <1>2, <1>5, <2>1, <2>2, EscapeEntered
  <2>3. CASE j = n + 6
    BY <1>2, <1>5, <2>1, <2>3, BracketOpens
  <2>4. CASE j = n + 7
    BY <1>2, <1>5, <2>1, <2>4, DigitRead
  <2>5. CASE j = n + 8
    BY <1>2, <1>5, <2>1, <2>5, GraphicsSet
  <2>6. j \in {n + 5, n + 6, n + 7, n + 8}
    BY <1>1, <1>6
  <2> QED
    BY <2>2, <2>3, <2>4, <2>5, <2>6
<1>7. CASE j # n + 9
  <2>1. last => Standing(ctx', text, n)
    BY <1>4, <1>6, <1>7, StandingUnseen
  <2>2. j + 1 \in n + 6 .. n + 9
    BY <1>1, <1>7
  <2>3. Phase(ctx', j + 1, n)
    <3>1. /\ j + 1 \notin {0, 1, 2, 3, 4} \cup 5 .. n + 5 /\ j + 1 # n + 10
          /\ j + 1 = n + 6 => j = n + 5
          /\ j + 1 \in {n + 7, n + 8} => j \in {n + 6, n + 7}
          /\ j + 1 = n + 9 => j = n + 8
      BY <1>1, <2>2
    <3> QED
      BY <1>6, <1>7, <3>1 DEF Phase
  <2>4. j + 1 \notin 0 .. 5 \cup {n + 10} /\ j + 1 \notin 5 .. n + 5
    BY <1>1, <2>2
  <2>5. last => Written(ctx', text, j + 1)
    BY <2>1, <2>4 DEF Written, n
  <2> QED
    BY <2>3, <2>4, <2>5 DEF LineUnderWay, n
<1>8. CASE j = n + 9
  <2>1. Waiting(ctx') /\ Home(ctx')
    BY <1>2, <1>5, <1>8, LineFed
  <2>2. ASSUME last PROVE \E y \in 0 .. rows - 1 : Stands(ctx', text, n, y)
    <3>1. PICK y \in 0 .. rows - 1 : At(ctx, n, y) /\ Stands(ctx, text, n, y)
      BY <1>4, <2>2 DEF Standing
    <3>2. ctx.cursor_y = y
      BY <3>1 DEF At
    <3>3. n \in 0 .. cols
      BY <1>1, <2>2, ScreenAssumption DEF n
    <3> QED
      BY <1>2, <1>5, <1>8, <3>1, <3>2, <3>3, LineFed
  <2>3. j + 1 = n + 10
    BY <1>1, <1>8
  <2>4. /\ n + 10 \notin {1, 2, 3, 4, n + 6, n + 7, n + 8, n + 9} \cup 5 .. n + 5
        /\ n + 10 \notin n + 5 .. n + 9
    BY <1>1
  <2>5. Phase(ctx', n + 10, n)
    BY <2>1, <2>4 DEF Phase
  <2>6. last => Written(ctx', text, n + 10)
    BY <2>2, <2>4 DEF Written, n
  <2> QED
    BY <2>1, <2>3, <2>5, <2>6 DEF LineUnderWay, n
<1> QED
  BY <1>7, <1>8

LEMMA LineByte ==
  ASSUME IsTerminal(ctx), Sound(ctx), flanterm_putchar, NEW text \in Seq(DOMAIN Ascii),
         \A i \in 1 .. Len(text) : Prints(text[i]),
         NEW last, NEW j \in 0 .. Len(text) + 9, Byte = Crit(text)[j + 1],
         rows >= 2, last => Len(text) <= cols,
         LineUnderWay(ctx, text, j, last)
  PROVE  LineUnderWay(ctx', text, j + 1, last)
<1> DEFINE n == Len(text)
<1>1. n \in Nat
  OBVIOUS
<1>2. j \in 0 .. 4 \/ j \in 5 .. n + 4 \/ j \in n + 5 .. n + 9
  BY <1>1
<1>3. CASE j \in 5 .. n + 4
  <2>1. j - 4 \in 1 .. n /\ 5 + (j - 4) = j + 1
    BY <1>1, <1>3
  <2>2. Byte = text[j - 4]
    BY <2>1, CritIs
  <2>3. Prints(Byte)
    BY <2>1, <2>2
  <2> QED
    BY <1>3, <2>3, TextByte
<1> QED
  BY <1>2, <1>3, ColourByte, EndByte

\* The line of the report that is under way.  The first one ends what a panic has
\* found half parsed, when the last character of its text is taken.
LineOfReport == PanicTexts[Len(PanicTexts) - Len(report)]
TakenOfLine == Len(Crit(LineOfReport)) - Len(pending)
FirstLine == Len(report) = Len(PanicTexts) - 1
PanicInv ==
  /\ kernel = "panicking" =>
       /\ report \in Seq(Seq(DOMAIN Ascii)) /\ Len(report) \in 0 .. Len(PanicTexts) - 1
       /\ \A l \in 1 .. Len(report) :
            report[l] = PanicTexts[Len(PanicTexts) - Len(report) + l]
       /\ pending \in Seq(LineBytes) /\ TakenOfLine \in 0 .. Len(LineOfReport) + 10
       /\ \A k \in 1 .. Len(pending) : pending[k] = Crit(LineOfReport)[TakenOfLine + k]
       /\ ~FirstLine \/ TakenOfLine >= Len(LineOfReport) + 5
            => LineUnderWay(ctx, LineOfReport, TakenOfLine, report = << >>)
  /\ kernel = "halted" => pending = << >> /\ PanicShown

LEMMA ReportLines ==
  ASSUME NEW k \in 1 .. Len(PanicTexts)
  PROVE  /\ PanicTexts[k] \in Seq(DOMAIN Ascii)
         /\ \A i \in 1 .. Len(PanicTexts[k]) : Prints(PanicTexts[k][i])
<1>1. PanicTexts \in Seq(Seq(DOMAIN Ascii))
  BY PanicAssumption
<1>2. PanicTexts[k] \in Seq(DOMAIN Ascii) /\ k \in DOMAIN PanicTexts
  BY <1>1
<1>3. 1 .. Len(PanicTexts[k]) = DOMAIN PanicTexts[k]
  BY <1>2
<1> QED
  BY <1>2, <1>3, PanicAssumption

\* A flush shows the text, and moves nothing.
LEMMA FlushUnmoved ==
  ASSUME TermInv, double_buffer_flush
  PROVE  /\ \A i \in Cells : framebuffer'[i].c = CharAt(ctx, i).c
         /\ SameCharset(ctx, ctx') /\ ctx'.escape = ctx.escape
         /\ ctx'.g_select = ctx.g_select /\ ctx'.discard_next = ctx.discard_next
         /\ ctx'.cursor_x = ctx.cursor_x /\ ctx'.cursor_y = ctx.cursor_y
<1>1. BufferInv /\ IsTerminal(ctx)
  BY DEF TermInv, BufferInv, IsTerminal
<1>2. PICK cursor : framebuffer' = Shown(Contents(ctx), cursor)
  BY <1>1, FlushStep
<1>3. \A i \in Cells : framebuffer'[i].c = CharAt(ctx, i).c
  BY <1>2 DEF Shown, Contents, Plot, Inverted
<1> QED
  BY <1>1, <1>3
  DEF double_buffer_flush, Flushed, draw_cursor, SameCharset, Charset, IsTerminal,
      TerminalFields, BufferFields

\* The start of a line of the report.
StartsLine(l) ==
  /\ pending' = Crit(PanicTexts[l])
  /\ Len(report') = Len(PanicTexts) - l
LEMMA LineStarts ==
  ASSUME NEW l \in 1 .. Len(PanicTexts), StartsLine(l)
  PROVE  /\ LineOfReport' = PanicTexts[l] /\ TakenOfLine' = 0
         /\ pending' \in Seq(LineBytes)
         /\ \A k \in 1 .. Len(pending') : pending'[k] = Crit(LineOfReport')[TakenOfLine' + k]
         /\ FirstLine' <=> l = 1
<1> DEFINE N == Len(PanicTexts)
<1>1. N \in Nat
  BY PanicAssumption
<1>2. N - (N - l) = l /\ (N - l = N - 1 <=> l = 1)
  <2> HIDE DEF N
  <2> QED
    BY <1>1
<1>3. LineOfReport' = PanicTexts[l] /\ (FirstLine' <=> l = 1)
  BY <1>2 DEF LineOfReport, FirstLine, StartsLine
<1>4. PanicTexts[l] \in Seq(DOMAIN Ascii)
  BY ReportLines
<1>5. Len(Crit(PanicTexts[l])) \in Nat /\ Crit(PanicTexts[l]) \in Seq(LineBytes)
  BY <1>4, CritIs
<1>6. Crit(LineOfReport)' = Crit(PanicTexts[l])
  BY <1>3 DEF Crit
<1>7. TakenOfLine' = 0
  BY <1>5, <1>6 DEF TakenOfLine, StartsLine
<1>8. \A k \in 1 .. Len(pending') : TakenOfLine' + k = k
  BY <1>5, <1>7 DEF StartsLine
<1> QED
  BY <1>3, <1>5, <1>6, <1>7, <1>8 DEF StartsLine

\* A byte that is taken takes a line to its next byte.
LEMMA NextByte ==
  ASSUME NEW n \in Nat, NEW c \in Seq(LineBytes), Len(c) = n + 10,
         NEW p \in Seq(LineBytes), NEW j \in 0 .. n + 10, j = Len(c) - Len(p), p # << >>,
         \A k \in 1 .. Len(p) : p[k] = c[j + k]
  PROVE  /\ j \in 0 .. n + 9 /\ Head(p) = c[j + 1]
         /\ Tail(p) \in Seq(LineBytes) /\ Len(c) - Len(Tail(p)) = j + 1
         /\ \A k \in 1 .. Len(Tail(p)) : Tail(p)[k] = c[j + 1 + k]
<1> DEFINE m == Len(p)
           t == Tail(p)
           L == Len(c)
<1>1. m \in Nat \ {0} /\ Head(p) = p[1] /\ t \in Seq(LineBytes) /\ Len(t) = m - 1
  OBVIOUS
<1>2. \A k \in 1 .. m - 1 : t[k] = p[k + 1]
  OBVIOUS
<1>3. L = n + 10 /\ j = L - m
  BY DEF m, L
<1>6. \A k \in 1 .. m : p[k] = c[j + k]
  BY DEF m
<1> HIDE DEF m, t, L
<1>4. j \in 0 .. n + 9 /\ p[1] = c[j + 1] /\ L - (m - 1) = j + 1
  <2>1. \A a, i, k \in Int : /\ a = n + 10 /\ i = a - k /\ i >= 0 /\ k >= 1
                            => i \in 0 .. n + 9 /\ a - (k - 1) = i + 1
    OBVIOUS
  <2>2. L \in Int /\ j \in Int /\ m \in Int /\ j >= 0 /\ m >= 1
    BY <1>1, <1>3
  <2>3. j \in 0 .. n + 9 /\ L - (m - 1) = j + 1
    BY <1>3, <2>1, <2>2
  <2>4. 1 \in 1 .. m
    BY <1>1
  <2> QED
    BY <1>6, <2>3, <2>4
<1>5. ASSUME NEW k \in 1 .. m - 1
      PROVE  t[k] = c[j + 1 + k]
  <2>1. k + 1 \in 1 .. m /\ j + (k + 1) = j + 1 + k
    BY <1>1
  <2>2. p[k + 1] = c[j + (k + 1)]
    BY <1>6, <2>1
  <2> QED
    BY <1>2, <2>1, <2>2
<1>7. \A k \in 1 .. Len(t) : t[k] = c[j + 1 + k]
  BY <1>1, <1>5
<1>8. Len(c) - Len(t) = j + 1
  BY <1>1, <1>4 DEF L
<1>9. Head(p) = c[j + 1]
  BY <1>1, <1>4
<1> QED
  BY <1>1, <1>4, <1>7, <1>8, <1>9 DEF t

\* One case for each action.
LEMMA PanicStep ==
  ASSUME TermInv, PanicInv, [Next]_vars
  PROVE  PanicInv'
<1> DEFINE N == Len(PanicTexts)
           r == Len(report)
           text == LineOfReport
           n == Len(text)
           j == TakenOfLine
           c == Crit(text)
<1>1. N \in Nat /\ N >= 2
  BY PanicAssumption
<1>2. CASE put
  BY <1>2 DEF put, PanicInv
<1>3. CASE kpanic
  <2>1. /\ kernel' = "panicking" /\ pending' = Crit(Head(PanicTexts))
        /\ report' = Tail(PanicTexts)
    BY <1>3 DEF kpanic
  <2>2. /\ Head(PanicTexts) = PanicTexts[1] /\ Tail(PanicTexts) \in Seq(Seq(DOMAIN Ascii))
        /\ Len(Tail(PanicTexts)) = N - 1
        /\ \A l \in 1 .. N - 1 : Tail(PanicTexts)[l] = PanicTexts[1 + l]
    BY PanicAssumption
  <2>3. 1 \in 1 .. N /\ N - 1 \in 0 .. N - 1 /\ N - (N - 1) = 1
    BY <1>1
  <2>4. StartsLine(1)
    BY <2>1, <2>2 DEF StartsLine
  <2>5. /\ LineOfReport' = PanicTexts[1] /\ TakenOfLine' = 0
        /\ pending' \in Seq(LineBytes)
        /\ \A k \in 1 .. Len(pending') : pending'[k] = Crit(LineOfReport')[TakenOfLine' + k]
        /\ FirstLine'
    BY <2>3, <2>4, LineStarts
  <2>6. Len(PanicTexts[1]) \in Nat
    BY <2>3, ReportLines
  <2>7. TakenOfLine' \in 0 .. Len(LineOfReport') + 10 /\ ~(TakenOfLine' >= Len(LineOfReport') + 5)
    BY <2>5, <2>6
  <2>8. /\ report' \in Seq(Seq(DOMAIN Ascii)) /\ Len(report') \in 0 .. N - 1
        /\ \A l \in 1 .. Len(report') : report'[l] = PanicTexts[N - Len(report') + l]
    BY <2>1, <2>2, <2>3
  <2>9. Crit(LineOfReport)' = Crit(LineOfReport')
    BY DEF Crit
  <2> HIDE DEF N
  <2> QED
    BY <2>1, <2>5, <2>7, <2>8, <2>9 DEF PanicInv, N
<1>4. ASSUME kernel = "panicking", PanicInv
      PROVE  /\ report \in Seq(Seq(DOMAIN Ascii)) /\ r \in 0 .. N - 1
             /\ text \in Seq(DOMAIN Ascii) /\ n \in Nat
             /\ \A i \in 1 .. n : Prints(text[i])
             /\ c \in Seq(LineBytes) /\ Len(c) = n + 10
             /\ \A l \in 1 .. r : report[l] = PanicTexts[N - r + l]
             /\ pending \in Seq(LineBytes) /\ j \in 0 .. n + 10
             /\ \A k \in 1 .. Len(pending) : pending[k] = c[j + k]
             /\ ~FirstLine \/ j >= n + 5 => LineUnderWay(ctx, text, j, report = << >>)
             /\ report = << >> => text = LastOf(PanicTexts) /\ n \in 1 .. cols /\ ~FirstLine
  <2>1. /\ report \in Seq(Seq(DOMAIN Ascii)) /\ r \in 0 .. N - 1
        /\ \A l \in 1 .. r : report[l] = PanicTexts[N - r + l]
        /\ pending \in Seq(LineBytes) /\ j \in 0 .. n + 10
        /\ \A k \in 1 .. Len(pending) : pending[k] = c[j + k]
        /\ ~FirstLine \/ j >= n + 5 => LineUnderWay(ctx, text, j, report = << >>)
    BY <1>4 DEF PanicInv
  <2>2. N - r \in 1 .. N
    <3> HIDE DEF N, r
    <3> QED
      BY <1>1, <2>1
  <2>3. text \in Seq(DOMAIN Ascii) /\ \A i \in 1 .. n : Prints(text[i])
    BY <2>2, ReportLines DEF LineOfReport
  <2>4. n \in Nat /\ c \in Seq(LineBytes) /\ Len(c) = n + 10
    <3> HIDE DEF text
    <3> QED
      BY <2>3, CritIs
  <2>5. ASSUME report = << >>
        PROVE  text = LastOf(PanicTexts) /\ n \in 1 .. cols /\ ~FirstLine
    <3>1. r = 0
      BY <2>5
    <3>2. text = PanicTexts[N]
      <4> HIDE DEF N
      <4> QED
        BY <1>1, <3>1 DEF LineOfReport, N
    <3>3. N - 1 # 0
      <4> HIDE DEF N
      <4> QED
        BY <1>1
    <3> QED
      BY <3>1, <3>2, <3>3, PanicAssumption DEF LastOf, FirstLine
  <2> HIDE DEF N, r, text, n, j, c
  <2> QED
    BY <2>1, <2>3, <2>4, <2>5
<1>5. CASE flanterm_putchar
  <2>1. pending # << >> /\ pending' = Tail(pending) /\ kernel' = kernel /\ report' = report
    BY <1>5, ByteTaken
  <2>2. kernel # "halted"
    BY <2>1 DEF PanicInv
  <2>3. CASE kernel # "panicking"
    BY <2>1, <2>2, <2>3 DEF PanicInv
  <2>4. CASE kernel = "panicking"
    <3>1. /\ report \in Seq(Seq(DOMAIN Ascii)) /\ r \in 0 .. N - 1
          /\ text \in Seq(DOMAIN Ascii) /\ n \in Nat
          /\ \A i \in 1 .. n : Prints(text[i])
          /\ c \in Seq(LineBytes) /\ Len(c) = n + 10
          /\ \A l \in 1 .. r : report[l] = PanicTexts[N - r + l]
          /\ pending \in Seq(LineBytes) /\ j \in 0 .. n + 10
          /\ \A k \in 1 .. Len(pending) : pending[k] = c[j + k]
          /\ ~FirstLine \/ j >= n + 5 => LineUnderWay(ctx, text, j, report = << >>)
          /\ report = << >> => text = LastOf(PanicTexts) /\ n \in 1 .. cols
      BY <1>4, <2>4
    <3>2. /\ LineOfReport' = text /\ FirstLine' = FirstLine /\ Len(report') = r
          /\ Crit(LineOfReport)' = c
      BY <2>1 DEF LineOfReport, FirstLine, Crit
    <3>3. j = Len(c) - Len(pending)
      BY DEF TakenOfLine
    <3>4. TakenOfLine' = Len(c) - Len(Tail(pending))
      BY <2>1, <3>2 DEF TakenOfLine
    <3> HIDE DEF N, r, text, n, j, c
    <3>5. /\ j \in 0 .. n + 9 /\ Byte = c[j + 1] /\ Tail(pending) \in Seq(LineBytes)
          /\ TakenOfLine' = j + 1
          /\ \A k \in 1 .. Len(Tail(pending)) : Tail(pending)[k] = c[j + 1 + k]
      BY <2>1, <3>1, <3>3, <3>4, NextByte DEF Byte
    <3>6. j + 1 \in 0 .. n + 10
      BY <3>1, <3>5
    <3>7. IsTerminal(ctx) /\ Sound(ctx)
      BY DEF TermInv
    <3>8. CASE ~FirstLine \/ j >= n + 5
      <4>1. LineUnderWay(ctx, text, j, report = << >>)
        BY <3>1, <3>8
      <4>2. report = << >> => Len(text) <= cols
        BY <3>1, ScreenAssumption DEF n
      <4>3. LineUnderWay(ctx', text, j + 1, report = << >>)
        BY <1>5, <3>1, <3>5, <3>7, <4>1, <4>2, PanicAssumption, LineByte DEF n, c
      <4> QED
        BY <2>1, <2>4, <3>1, <3>2, <3>5, <3>6, <4>3 DEF PanicInv, N, r, n
    <3>9. CASE FirstLine /\ ~(j >= n + 5)
      <4>1. r = N - 1 /\ N - (N - 1) = 1 /\ N - 1 # 0
        BY <1>1, <3>9 DEF FirstLine, N, r
      <4>2. text = PanicTexts[1] /\ report # << >>
        BY <4>1 DEF text, LineOfReport, N, r
      <4>3. n >= 1
        BY <3>1, <4>2, PanicAssumption DEF n
      <4>4. ASSUME j + 1 >= n + 5
            PROVE  LineUnderWay(ctx', text, j + 1, report = << >>)
        <5>1. j + 1 = 5 + n /\ n \in 1 .. n
          BY <3>1, <3>5, <3>9, <4>3, <4>4
        <5>6. \A i \in 1 .. n : c[5 + i] = text[i]
          BY <3>1, CritIs DEF n, c
        <5>2. Byte = text[n]
          BY <3>5, <5>1, <5>6
        <5>3. Ordinary(Byte)
          BY <4>2, <5>2, PanicAssumption DEF LastOf, n
        <5>4. Waiting(ctx')
          BY <1>5, <3>7, <5>3, OrdinaryEnds
        <5>5. /\ j + 1 \notin {1, n + 6, 2, 3, 4, n + 7, n + 8}
              /\ j + 1 \notin 0 .. 5 \cup {n + 10}
          <6>1. \A i, k \in Nat : i = 5 + k /\ k >= 1 =>
                  /\ i \notin {1, k + 6, 2, 3, 4, k + 7, k + 8}
                  /\ i \notin 0 .. 5 \cup {k + 10}
            OBVIOUS
          <6>2. j + 1 \in Nat /\ n \in Nat /\ j + 1 = 5 + n /\ n >= 1
            BY <3>1, <3>6, <4>3, <5>1
          <6> HIDE DEF n, j
          <6> QED
            BY <6>1, <6>2
        <5> QED
          BY <4>2, <5>4, <5>5 DEF LineUnderWay, Phase, n
      <4> QED
        BY <2>1, <2>4, <3>1, <3>2, <3>5, <3>6, <3>9, <4>4 DEF PanicInv, N, r, n
    <3> QED
      BY <3>8, <3>9
  <2> QED
    BY <2>3, <2>4
<1>6. CASE flush
  <2>1. /\ pending = << >> /\ double_buffer_flush
        /\ \/ kernel' = "idle"
           \/ /\ kernel = "panicking" /\ report # << >> /\ kernel' = kernel
              /\ pending' = Crit(Head(report)) /\ report' = Tail(report)
           \/ /\ kernel = "panicking" /\ report = << >> /\ kernel' = "halted"
              /\ pending' = pending
    BY <1>6 DEF flush
  <2>2. CASE kernel' = "idle"
    BY <2>2 DEF PanicInv
  <2>3. ASSUME kernel = "panicking"
        PROVE  /\ report \in Seq(Seq(DOMAIN Ascii)) /\ r \in 0 .. N - 1
               /\ \A l \in 1 .. r : report[l] = PanicTexts[N - r + l]
               /\ Waiting(ctx) /\ Home(ctx)
               /\ report = << >> =>
                    /\ text = LastOf(PanicTexts) /\ n \in 1 .. cols
                    /\ \E y \in 0 .. rows - 1 : Stands(ctx, text, n, y)
    <3>1. /\ report \in Seq(Seq(DOMAIN Ascii)) /\ r \in 0 .. N - 1
          /\ \A l \in 1 .. r : report[l] = PanicTexts[N - r + l]
          /\ n \in Nat /\ Len(c) = n + 10 /\ j \in 0 .. n + 10
          /\ ~FirstLine \/ j >= n + 5 => LineUnderWay(ctx, text, j, report = << >>)
          /\ report = << >> => text = LastOf(PanicTexts) /\ n \in 1 .. cols
      BY <1>4, <2>3
    <3>2. j = Len(c) - 0
      BY <2>1 DEF TakenOfLine
    <3> HIDE DEF N, r, j, c
    <3>3. j = n + 10 /\ j >= n + 5
      BY <3>1, <3>2
    <3>4. LineUnderWay(ctx, text, n + 10, report = << >>)
      BY <3>1, <3>3
    <3>5. Waiting(ctx) /\ Home(ctx)
      BY <3>4 DEF LineUnderWay, Phase
    <3>6. report = << >> => \E y \in 0 .. rows - 1 : Stands(ctx, text, n, y)
      BY <3>4 DEF LineUnderWay, Written
    <3> QED
      BY <3>1, <3>5, <3>6
  <2>4. /\ \A i \in Cells : framebuffer'[i].c = CharAt(ctx, i).c
        /\ SameCharset(ctx, ctx')
        /\ kernel = "panicking" => Waiting(ctx') /\ Home(ctx')
    BY <2>1, <2>3, FlushUnmoved DEF Waiting, Home
  <2>5. CASE /\ kernel = "panicking" /\ report # << >> /\ kernel' = kernel
             /\ pending' = Crit(Head(report)) /\ report' = Tail(report)
    <3> DEFINE l == N - r + 1
    <3>1. /\ r \in 1 .. N - 1 /\ Head(report) = report[1]
          /\ Tail(report) \in Seq(Seq(DOMAIN Ascii)) /\ Len(Tail(report)) = r - 1
          /\ \A k \in 1 .. r - 1 : Tail(report)[k] = report[k + 1]
      BY <2>3, <2>5
    <3>2. \A k \in 1 .. r : report[k] = PanicTexts[N - r + k]
      BY <2>3, <2>5
    <3> HIDE DEF N, r
    <3>3. /\ l \in 1 .. N /\ l # 1 /\ N - l = r - 1 /\ 1 \in 1 .. r
          /\ r - 1 \in 0 .. N - 1
      BY <1>1, <3>1
    <3>4. Head(report) = PanicTexts[l]
      BY <3>1, <3>2, <3>3
    <3>5. StartsLine(l)
      BY <2>5, <3>1, <3>3, <3>4 DEF StartsLine, N
    <3> HIDE DEF l
    <3>6. /\ LineOfReport' = PanicTexts[l] /\ TakenOfLine' = 0
          /\ pending' \in Seq(LineBytes)
          /\ \A k \in 1 .. Len(pending') : pending'[k] = Crit(LineOfReport')[TakenOfLine' + k]
          /\ ~FirstLine'
      BY <3>3, <3>5, LineStarts DEF N
    <3>7. Len(LineOfReport') \in Nat
      BY <3>3, <3>6, ReportLines DEF N
    <3>8. ASSUME NEW k \in 1 .. Len(report')
          PROVE  report'[k] = PanicTexts[Len(PanicTexts) - Len(report') + k]
      <4>1. k \in 1 .. r - 1 /\ Len(report') = r - 1
        BY <2>5, <3>1, <3>8
      <4>2. k + 1 \in 1 .. r /\ N - r + (k + 1) = N - (r - 1) + k
        BY <1>1, <3>1, <4>1
      <4>3. report'[k] = PanicTexts[N - r + (k + 1)]
        BY <2>5, <3>1, <3>2, <4>1, <4>2
      <4> QED
        BY <4>1, <4>2, <4>3 DEF N
    <3>9. LineUnderWay(ctx', LineOfReport', 0, report' = << >>)
      <4> DEFINE m == Len(LineOfReport')
      <4>1. /\ 0 \notin {1, m + 6, 2, 3, 4, m + 7, m + 8}
            /\ 0 \notin 5 .. m + 5 /\ 0 \notin m + 5 .. m + 9 /\ 0 # m + 10
        BY <3>7
      <4> HIDE DEF m
      <4>2. Phase(ctx', 0, m)
        BY <2>4, <2>5, <4>1 DEF Phase
      <4>3. Written(ctx', LineOfReport', 0)
        BY <4>1 DEF Written, m
      <4> QED
        BY <2>4, <2>5, <4>2, <4>3 DEF LineUnderWay, m
    <3>10. Crit(LineOfReport)' = Crit(LineOfReport')
      BY DEF Crit
    <3>11. /\ report' \in Seq(Seq(DOMAIN Ascii)) /\ Len(report') \in 0 .. Len(PanicTexts) - 1
           /\ TakenOfLine' \in 0 .. Len(LineOfReport') + 10
      BY <2>5, <3>1, <3>3, <3>6, <3>7 DEF N
    <3> QED
      BY <2>5, <3>6, <3>8, <3>9, <3>10, <3>11 DEF PanicInv
  <2>6. CASE /\ kernel = "panicking" /\ report = << >> /\ kernel' = "halted"
             /\ pending' = pending
    <3> DEFINE t == LastOf(PanicTexts)
    <3>1. Len(t) \in 1 .. cols /\ \E y \in 0 .. rows - 1 : Stands(ctx, t, Len(t), y)
      BY <2>3, <2>6
    <3>2. PICK y \in 0 .. rows - 1 : Stands(ctx, t, Len(t), y)
      BY <3>1
    <3>3. ASSUME NEW k \in 1 .. Len(t)
          PROVE  framebuffer'[CellOf(k - 1, y)].c = Shows(ctx', t[k])
      <4>1. OnScreen(k - 1, y) /\ k - 1 \in Nat /\ y \in Nat
        BY <3>1, ScreenAssumption DEF OnScreen
      <4>2. CellOf(k - 1, y) \in Cells
        BY <4>1, CellOnScreen
      <4>3. Shows(ctx', t[k]) = Shows(ctx, t[k])
        BY <2>4 DEF Shows, SameCharset
      <4> QED
        BY <2>4, <3>2, <4>2, <4>3 DEF Stands
    <3>4. \A b : GlyphOf(b)' = Shows(ctx', b')
      BY DEF GlyphOf, Shows, Charset
    <3>5. PanicShown'
      BY <3>2, <3>3 DEF PanicShown, GlyphOf, Shows, Charset, LastOf
    <3> QED
      BY <2>1, <2>6, <3>5 DEF PanicInv
  <2> QED
    BY <2>1, <2>2, <2>5, <2>6
<1>7. CASE UNCHANGED vars
  BY <1>7 DEF vars, PanicInv, PanicShown, LineOfReport, TakenOfLine, FirstLine, Crit, GlyphOf
<1> QED
  BY <1>2, <1>3, <1>5, <1>6, <1>7 DEF Next

\* For every screen of two lines or more, whatever a panic interrupts, half a
\* character, half a sequence, insert mode, another character set or a cursor below
\* the screen, and for a report of any number of lines: when the kernel has halted,
\* its last line stands on the screen (kpanic, flanterm_putchar, flanterm_write).
THEOREM PanicAlwaysShown == Spec => []PanicShown
<1>1. Init => PanicInv
  BY DEF Init, PanicInv
<1>2. TermInv /\ PanicInv /\ [Next]_vars => PanicInv'
  BY PanicStep
<1>3. PanicInv => PanicShown
  BY DEF PanicInv, PanicShown
<1> QED
  BY <1>1, <1>2, <1>3, TerminalAlwaysInv, PTL DEF Spec

=============================================================================
