----------------------------- MODULE MCConsole ------------------------------
(* Messages for the terminal: what the commands need to meet each other *)
EXTENDS Flanterm

Esc(s) == << "ESC" >> \o s
Csi(s) == << "ESC", "[" >> \o s

MCMessages ==
  { << "a", "b" >>, << "a", "b", "a", "b", "a" >>, << "LF", "b" >>,
    << "BS", "NUL", "x80" >>, << "HT", "CR" >>, << "SO", "a", "SI" >>,
    \* characters of several bytes, whole and broken
    << "xE2", "x94", "x80" >>, << "xE4", "xB8", "xAD" >>,
    << "xF0", "x9F", "x98", "x80" >>,
    << "xCC", "x81", "xC3", "a" >>,
    \* half a sequence, and what ends it
    Esc(<< >>), Csi(<< "3" >>), Csi(<< "[" >>), Esc(<< "]" >>), << "CAN" >>,
    Csi(<< ";", "1", ";", "1", ";", "1", ";" >>),
    \* the cursor and the region
    Csi(<< "2", "A" >>), Csi(<< "2", "B" >>), Csi(<< "2", ";", "2", "H" >>),
    Csi(<< "2", ";", "3", "r" >>), Csi(<< "1", ";", "2", "r" >>),
    Csi(<< "3", "d" >>), Csi(<< "6", "6", "C" >>), Csi(<< "D" >>), Csi(<< "0", "G" >>),
    Csi(<< "s" >>), Csi(<< "u" >>), Csi(<< "n" >>), Esc(<< "E" >>), Esc(<< "7" >>), Esc(<< "8" >>), Csi(<< "?", "2", "5", "l" >>),
    \* off the screen, under a region
    Csi(<< "1", ";", "2", "r" >>) \o Csi(<< "3", "d" >>) \o << "a", "b", "a", "b", "a" >>,
    \* lines and cells
    Csi(<< "M" >>), Csi(<< "L" >>), Esc(<< "M" >>), Esc(<< "D" >>), Esc(<< "c" >>),
    Csi(<< "J" >>), Csi(<< "1", "J" >>), Csi(<< "2", "J" >>), Csi(<< "K" >>), Csi(<< "1", "K" >>), Csi(<< "2", "K" >>),
    Csi(<< "2", "X" >>), Csi(<< "@" >>), Csi(<< "2", "P" >>), Csi(<< "4", "h" >>),
    \* attributes and character sets
    Csi(<< "7", "m" >>), Csi(<< "1", ";", "3", "1", "m" >>), Csi(<< "4", "4", "m" >>),
    Csi(<< "m" >>), Csi(<< "2", "2", ";", "5", "m" >>), Csi(<< "1", "m" >>), Csi(<< "3", "8", ";", "5", ";", "9", "m" >>),
    Esc(<< "(", "0" >>) }
\* The lines of a panic begin with a bracket, the first one ends with "=".
MCPanic == << << "[", "=" >>, << "[", "c", "e" >> >>
=============================================================================
