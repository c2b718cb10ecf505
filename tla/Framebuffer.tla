---------------------------- MODULE Framebuffer -----------------------------
(***************************************************************************)
(* What the terminal asks of its framebuffer backend                       *)
(* (lib/flanterm/backends/fb.c): operators from a context to the one the   *)
(* call leaves.  Beside the double buffer they use                         *)
(*   top, bottom      the scroll region: lines top .. bottom - 1           *)
(*   scroll_enabled   whether text may scroll it                           *)
(*   text_fg, text_bg and saved_text, the colours and cursor of save_state *)
(***************************************************************************)
EXTENDS DoubleBuffer

-----------------------------------------------------------------------------
(* Colours *)

ansi_colours == << \h000000, \haa0000, \h00aa00, \haa5500,
                   \h0000aa, \haa00aa, \h00aaaa, \haaaaaa >>
ansi_bright_colours == << \h555555, \hff5555, \h55ff55, \hffff55,
                          \h5555ff, \hff55ff, \h55ffff, \hffffff >>
default_fg == \haaaaaa
default_fg_bright == \hffffff
default_bg_bright == \h555555

Fg(s, colour) == [s EXCEPT !.text_fg = colour]
Bg(s, colour) == [s EXCEPT !.text_bg = colour]
swap_palette(s) == [s EXCEPT !.text_fg = s.text_bg, !.text_bg = s.text_fg]

Char(s, c) == [c |-> c, fg |-> s.text_fg, bg |-> s.text_bg]

-----------------------------------------------------------------------------
(* The cursor.  A coordinate below zero is a size_t that has wrapped around. *)

Clamp(v, n) == IF v < 0 THEN 0 ELSE IF v >= n THEN n - 1 ELSE v
set_cursor_pos(s, x, y) ==
  [s EXCEPT !.cursor_x = Clamp(x, cols), !.cursor_y = Clamp(y, rows)]

\* get_cursor_pos: where the terminal takes the cursor to be.
X(s) == Clamp(s.cursor_x, cols)
Y(s) == Clamp(s.cursor_y, rows)

save_state(s) ==
  [s EXCEPT !.saved_text = << s.text_fg, s.text_bg, s.cursor_x, s.cursor_y >>]
restore_state(s) ==
  [s EXCEPT !.text_fg = s.saved_text[1], !.text_bg = s.saved_text[2],
            !.cursor_x = s.saved_text[3], !.cursor_y = s.saved_text[4]]

-----------------------------------------------------------------------------
(* Moving and blanking cells *)

Upwards(a, b) == IF b < a THEN << >> ELSE [k \in 1 .. b - a + 1 |-> a + k - 1]
Downwards(a, b) == IF a < b THEN << >> ELSE [k \in 1 .. a - b + 1 |-> a - k + 1]

\* A loop: what Body makes of s for one position after the other.
Loop(Body(_, _), s, positions) ==
  LET after[n \in 0 .. Len(positions)] ==
        IF n = 0 THEN s ELSE Body(after[n - 1], positions[n])
  IN after[Len(positions)]

\* Each cell is written to the one n further on.
CopyCell(s, from, to) ==
  push_to_queue(s, CharAt(s, from), to % cols, to \div cols)
CopyCells(s, n, positions) ==
  Loop(LAMBDA t, i : CopyCell(t, i, i + n), s, positions)

Blank(s, positions) ==
  Loop(LAMBDA t, i : push_to_queue(t, Char(s, Space), i % cols, i \div cols),
       s, positions)
BlankLine(s, y) == Blank(s, Upwards(y * cols, (y + 1) * cols - 1))

move_character(s, new_x, new_y, old_x, old_y) ==
  IF OnScreen(old_x, old_y) /\ OnScreen(new_x, new_y)
    THEN CopyCell(s, CellOf(old_x, old_y), CellOf(new_x, new_y))
    ELSE s
MoveCharacters(s, n, y, positions) ==
  Loop(LAMBDA t, i : move_character(t, i + n, y, i, y), s, positions)

\* Cell by cell, in the order that reads a cell before it is written.
scroll(s) ==
  BlankLine(CopyCells(s, -cols, Upwards((s.top + 1) * cols, s.bottom * cols - 1)),
            s.bottom - 1)

\* Mutant: the lines are copied from the top of the region, over themselves.
revscroll_from_top(s) ==
  BlankLine(CopyCells(s, cols, Upwards(s.top * cols, (s.bottom - 1) * cols - 1)),
            s.top)

revscroll(s) ==
  BlankLine(CopyCells(s, cols, Downwards((s.bottom - 1) * cols - 1, s.top * cols)),
            s.top)

clear(s, move) ==
  LET t == Blank(s, Upwards(0, rows * cols - 1)) IN
  IF move THEN [t EXCEPT !.cursor_x = 0, !.cursor_y = 0] ELSE t

\* Text that reaches the end of its line goes on in the next one, where the
\* region scrolls if it has to; the bound on cursor_y is cols in the code.
Wrapped(s) ==
  LET y == s.cursor_y + 1
      t == IF y = s.bottom
             THEN scroll([s EXCEPT !.cursor_x = 0])
             ELSE [s EXCEPT !.cursor_x = 0, !.cursor_y = y] IN
  IF t.cursor_y >= cols THEN [t EXCEPT !.cursor_y = cols - 1] ELSE t

Wraps(s) == /\ s.cursor_x >= cols
            /\ s.cursor_y < s.bottom - 1 \/ s.scroll_enabled

raw_putchar(s, c) ==
  LET t == IF Wraps(s) THEN Wrapped(s) ELSE s IN
  [push_to_queue(t, Char(t, c), t.cursor_x, t.cursor_y)
     EXCEPT !.cursor_x = t.cursor_x + 1]

\* n times the glyph c.
Putchars(s, c, n) == Loop(LAMBDA t, i : raw_putchar(t, c), s, Upwards(1, n))
=============================================================================
