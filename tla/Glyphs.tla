------------------------------- MODULE Glyphs -------------------------------
(***************************************************************************)
(* The cells of a screen: a cell is numbered x + y * cols and holds a      *)
(* glyph of the font and two colours.                                      *)
(***************************************************************************)
EXTENDS Integers

CONSTANTS
  cols, rows      \* the size of the screen, in cells

ASSUME ScreenAssumption == cols \in Nat \ {0} /\ rows \in Nat \ {0}

Cells == 0 .. rows * cols - 1
OnScreen(x, y) == x < cols /\ y < rows
CellOf(x, y) == x + y * cols
Nowhere == rows * cols

Space == 32

\* 0xffffffff: the background shows through.  default_bg is black.
Transparent == -1
Solid(colour) == IF colour = Transparent THEN 0 ELSE colour
Plot(ch) == [c |-> ch.c, fg |-> Solid(ch.fg), bg |-> Solid(ch.bg)]
Inverted(ch) == [c |-> ch.c, fg |-> ch.bg, bg |-> ch.fg]

\* A text as it is seen, with one cell in inverse colours for the cursor, or
\* none if the cursor is nowhere.
Shown(text, cursor) ==
  [i \in Cells |-> Plot(IF i = cursor THEN Inverted(text[i]) ELSE text[i])]
=============================================================================
