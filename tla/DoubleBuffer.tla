---------------------------- MODULE DoubleBuffer ----------------------------
(***************************************************************************)
(* The double buffer of the terminal's framebuffer backend                 *)
(* (lib/flanterm/backends/fb.c): cells are written to a queue, at most one *)
(* item per cell, and a flush plots them.                                  *)
(*                                                                         *)
(* The operators take and return a context: a record with                  *)
(*   grid   what has been plotted, cell -> glyph and colours               *)
(*   queue  the items queue[0 .. queue_i - 1], so queue_i is its length    *)
(*   map    cell -> the position of its item, or NULL                      *)
(*   cursor_x, cursor_y, old_cursor_x, old_cursor_y, cursor_enabled        *)
(* and whatever else its user keeps there.  The specification below has    *)
(* one step per queued cell, as the loops of fb.c have.                    *)
(***************************************************************************)
EXTENDS Glyphs, Sequences

VARIABLES
  ctx,
  framebuffer     \* what can be seen: cell -> glyph and colours

NULL == 0

-----------------------------------------------------------------------------
\* What a cell holds, plotted or not.
CharAt(s, i) == IF s.map[i] # NULL THEN s.queue[s.map[i]].c ELSE s.grid[i]
Contents(s) == [i \in Cells |-> CharAt(s, i)]

\* Mutant: the item is not entered in the map.
push_to_queue_unmapped(s, c, x, y) ==
  LET i == CellOf(x, y) IN
  IF ~OnScreen(x, y) \/ s.grid[i] = c THEN s
  ELSE [s EXCEPT !.queue = Append(@, [at |-> i, c |-> c])]

push_to_queue(s, c, x, y) ==
  LET i == CellOf(x, y) IN
  IF ~OnScreen(x, y) THEN s
  ELSE IF s.map[i] # NULL THEN [s EXCEPT !.queue[s.map[i]] = [at |-> @.at, c |-> c]]
  ELSE IF s.grid[i] = c THEN s
  ELSE [s EXCEPT !.queue = Append(@, [at |-> i, c |-> c]),
                 !.map[i] = Len(s.queue) + 1]

\* draw_cursor: the cell is plotted in inverse colours and leaves the map; its
\* item stays in the queue.
CursorOnScreen(s) == s.cursor_enabled /\ OnScreen(s.cursor_x, s.cursor_y)
Cursor(s) == CellOf(s.cursor_x, s.cursor_y)
draw_cursor(s) ==
  IF CursorOnScreen(s)
    THEN [s EXCEPT !.grid[Cursor(s)] = CharAt(s, Cursor(s)),
                   !.map[Cursor(s)] = NULL]
    ELSE s

\* The first item in the queue for a cell: the loop plots it, and skips later
\* ones because the cell has left the map.
FirstItem(s, i) ==
  CHOOSE k \in DOMAIN s.queue :
    s.queue[k].at = i /\ \A j \in 1 .. k - 1 : s.queue[j].at # i

\* What double_buffer_flush leaves in the context ...
Flushed(s) ==
  LET t == draw_cursor(s) IN
  [t EXCEPT !.grid = [i \in Cells |-> IF t.map[i] = NULL THEN t.grid[i]
                                      ELSE t.queue[FirstItem(t, i)].c],
            !.map = [i \in Cells |-> NULL],
            !.queue = << >>,
            !.old_cursor_x = t.cursor_x,
            !.old_cursor_y = t.cursor_y]

CursorLeft(s) ==
  /\ \/ s.old_cursor_x # s.cursor_x
     \/ s.old_cursor_y # s.cursor_y
     \/ ~s.cursor_enabled
  /\ OnScreen(s.old_cursor_x, s.old_cursor_y)

\* Mutant: the cursor's old place is not plotted again.
Drawn_cursor_stays(s, f) ==
  LET t == draw_cursor(s) IN
  [i \in Cells |->
     IF t.map[i] # NULL THEN Plot(Flushed(s).grid[i])
     ELSE IF CursorOnScreen(s) /\ i = Cursor(s) THEN Plot(Inverted(t.grid[i]))
     ELSE f[i]]

\* ... and on the screen f: the old place of the cursor comes last.
Drawn(s, f) ==
  LET t == draw_cursor(s)
      grid == Flushed(s).grid IN
  [i \in Cells |->
     IF CursorLeft(s) /\ i = CellOf(s.old_cursor_x, s.old_cursor_y)
       THEN Plot(grid[i])
     ELSE IF t.map[i] # NULL THEN Plot(grid[i])
     ELSE IF CursorOnScreen(s) /\ i = Cursor(s) THEN Plot(Inverted(grid[i]))
     ELSE f[i]]

double_buffer_flush ==
  /\ ctx' = Flushed(ctx)
  /\ framebuffer' = Drawn(ctx, framebuffer)

\* full_refresh plots the whole grid, and the cursor last; the queue stays.
Refreshed(s) ==
  [i \in Cells |-> IF CursorOnScreen(s) /\ i = Cursor(s)
                     THEN Plot(Inverted(CharAt(s, i))) ELSE Plot(s.grid[i])]

-----------------------------------------------------------------------------
(* The buffer on its own: any cell is written, the cursor goes anywhere     *)

Chars == [c : 0 .. 255, fg : Int, bg : Int]

InitBuffer ==
  /\ \E blank \in Chars :
       ctx = [grid |-> [i \in Cells |-> blank],
              queue |-> << >>,
              map |-> [i \in Cells |-> NULL],
              cursor_x |-> 0, cursor_y |-> 0,
              old_cursor_x |-> 0, old_cursor_y |-> 0,
              cursor_enabled |-> TRUE]
  /\ framebuffer = Shown(ctx.grid, 0)

Write == /\ \E c \in Chars, x, y \in Nat : ctx' = push_to_queue(ctx, c, x, y)
         /\ UNCHANGED framebuffer

MoveCursor ==
  /\ \E x, y \in Nat, on \in BOOLEAN :
       ctx' = [ctx EXCEPT !.cursor_x = x, !.cursor_y = y,
                          !.cursor_enabled = on]
  /\ UNCHANGED framebuffer

Step == Write \/ MoveCursor \/ double_buffer_flush

BufferSpec == InitBuffer /\ [][Step]_<<ctx, framebuffer>>

-----------------------------------------------------------------------------
\* The queue and the map describe each other: an entry of the map is the place
\* of an item of that cell, and every item is in the map.  So there is at most
\* one item per cell, and the queue, which has rows * cols places, is never
\* written past its end (push_to_queue does not check).
QueueSound ==
  /\ Len(ctx.queue) <= rows * cols
  /\ \A i \in Cells :
       ctx.map[i] # NULL =>
         ctx.map[i] \in DOMAIN ctx.queue /\ ctx.queue[ctx.map[i]].at = i
  /\ \A k \in DOMAIN ctx.queue :
       ctx.queue[k].at \in Cells /\ ctx.map[ctx.queue[k].at] = k

\* What can be seen is what has been plotted, with the cursor in inverse
\* colours, if anywhere, where the last flush found it.
LastCursor == IF OnScreen(ctx.old_cursor_x, ctx.old_cursor_y)
                THEN CellOf(ctx.old_cursor_x, ctx.old_cursor_y) ELSE Nowhere
FramebufferShowsGrid ==
  \E cursor \in {LastCursor, Nowhere} : framebuffer = Shown(ctx.grid, cursor)

\* The text is what the cells hold: every step changes it as a screen may, and a
\* flush shows it.
Text == INSTANCE Screen WITH cells <- Contents(ctx), display <- framebuffer
ActsAsScreen == Text!Spec
=============================================================================
