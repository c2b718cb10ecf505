------------------------------- MODULE Screen -------------------------------
(***************************************************************************)
(* What a terminal promises, whatever it keeps inside: each thing it is    *)
(* told changes the text in one of a few ways, at once, and what can be    *)
(* seen only changes when it is shown, and then shows the text.            *)
(***************************************************************************)
EXTENDS Glyphs

VARIABLES
  cells,          \* the text: cell -> glyph and colours
  display         \* what can be seen of it

-----------------------------------------------------------------------------
\* One cell changes.
Put == \E i \in Cells : cells' = [cells EXCEPT ![i] = cells'[i]]

\* Lines top to bottom - 1 of t go n up; blank lines take the room.
Up(t, top, bottom, n, blank) ==
  [i \in Cells |->
     IF i < top * cols \/ i >= bottom * cols THEN t[i]
     ELSE IF i + n * cols < bottom * cols THEN t[i + n * cols]
     ELSE blank]

Down(t, top, bottom, n, blank) ==
  [i \in Cells |->
     IF i < top * cols \/ i >= bottom * cols THEN t[i]
     ELSE IF i - n * cols >= top * cols THEN t[i - n * cols]
     ELSE blank]

\* Lines move, and nothing outside of the region does.
Scroll ==
  \E top \in 0 .. rows - 1 : \E bottom \in top + 1 .. rows, n \in 1 .. rows :
    \/ LET blank == cells'[bottom * cols - 1] IN
       blank.c = Space /\ cells' = Up(cells, top, bottom, n, blank)
    \/ LET blank == cells'[top * cols] IN
       blank.c = Space /\ cells' = Down(cells, top, bottom, n, blank)

\* A glyph of one or two cells is written where its line goes on, if need be
\* on a line that the region has moved up for.
Letter ==
  \E i \in Cells :
    \/ \A j \in Cells \ {i, i + 1} : cells'[j] = cells[j]
    \/ \E top \in 0 .. rows - 1 : \E bottom \in top + 1 .. rows :
         LET line == Up(cells, top, bottom, 1, cells'[bottom * cols - 1]) IN
         \A j \in Cells \ {i, i + 1} : cells'[j] = line[j]

\* Cells that follow each other become blank.
Erase ==
  \E first \in Cells : \E last \in first .. rows * cols - 1 :
    /\ cells'[first].c = Space
    /\ cells' = [i \in Cells |-> IF i \in first .. last THEN cells'[first]
                                                        ELSE cells[i]]

\* The rest of a line, from cell `at' on, makes room for n cells or closes
\* the gap of n; closing it may blank more of the line than the gap.
Shift ==
  \E y \in 0 .. rows - 1 :
    LET line == y * cols .. (y + 1) * cols - 1 IN
    /\ \A i \in Cells \ line : cells'[i] = cells[i]
    /\ \E at \in line, n \in 0 .. cols :
         \/ \A i \in line : cells'[i] = IF i < at THEN cells[i]
                                        ELSE IF i < at + n THEN cells'[at]
                                        ELSE cells[i - n]
         \/ \E blank \in line :
              \A i \in line : IF i >= blank THEN cells'[i].c = Space
                              ELSE IF i < at THEN cells'[i] = cells[i]
                              ELSE i + n \in line /\ cells'[i] = cells[i + n]

\* At most one cell is shown in inverse colours, for the cursor.
Show == \E cursor \in Cells \cup {Nowhere} : display' = Shown(cells, cursor)

Edit == (Put \/ Scroll \/ Letter \/ Erase \/ Shift) /\ UNCHANGED display
Next == \/ Show /\ UNCHANGED cells
        \/ Edit

Init == display = Shown(cells, 0)

Spec == Init /\ [][Next]_<<cells, display>>
=============================================================================
