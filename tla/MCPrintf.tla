------------------------------ MODULE MCPrintf ------------------------------
(* Formats: every combination of two flags, a width and a precision, and a
   few of two directives *)
EXTENDS Printf

MCCharacters ==
  { Lower[i] : i \in 1 .. 16 } \cup { Upper[i] : i \in 1 .. 16 } \cup FlagChars \cup Conversions
  \cup { "*", ".", "h", "l", "j", "z", "t", "e", "y", "!" }

MCStrings == (40 :> << "h", "e", "y", "a" >>) @@ (41 :> << >>)

MCFlags == { << >> } \cup { << f >> : f \in FlagChars }
           \cup { << f, g >> : f, g \in FlagChars }
MCWidths == { [ width |-> << >>, starWidth |-> FALSE ],
              [ width |-> << 5 >>, starWidth |-> FALSE ],
             [ width |-> << 20 >>, starWidth |-> FALSE ],
              [ width |-> << 5 >>, starWidth |-> TRUE ],
              [ width |-> << -5 >>, starWidth |-> TRUE ] }
MCPrecs == { [ prec |-> << >>, starPrec |-> FALSE ],
             [ prec |-> << 0 >>, starPrec |-> FALSE ],
             [ prec |-> << 3 >>, starPrec |-> FALSE ],
             [ prec |-> << 16 >>, starPrec |-> FALSE ],
             [ prec |-> << 3 >>, starPrec |-> TRUE ],
             [ prec |-> << -1 >>, starPrec |-> TRUE ] }
Make(flags, w, p, type, conv, val) ==
  [ flags |-> flags, type |-> type, conv |-> conv, val |-> val ] @@ w @@ p

\* 0, a positive and a negative int, and words that narrower types cut.
MCWords == { 0, 9, 59, 200 }
MCIntegers ==
  { Make(f, w, p, "int", c, v) : f \in MCFlags, w \in MCWidths, p \in MCPrecs,
                                 c \in { "d", "u", "o", "x", "X" }, v \in { 0, 9, 59 } }
MCTypes ==
  { Make(f, MCFirstWidth, p, t, c, v) :
      f \in { << >>, << "0" >>, << "#" >> }, MCFirstWidth \in MCWidths, p \in MCPrecs,
      t \in { "char", "short", "long" }, c \in { "i", "u", "x" }, v \in MCWords }
MCTexts ==
  { Make(f, w, p, "int", c, v) : f \in { << >>, << "-" >>, << "0" >> }, w \in MCWidths,
                                 p \in MCPrecs, c \in { "s", "c", "p" }, v \in { 40, 41 } }
MCPercent ==
  Make(<< >>, [ width |-> << >>, starWidth |-> FALSE ],
       [ prec |-> << >>, starPrec |-> FALSE ], "int", "%", 0)

MCSome ==
  { Make(<< "0" >>, w, p, "long", "x", 200) : w \in MCWidths, p \in MCPrecs }
  \cup { Make(<< >>, w, p, "int", "s", 40) : w \in MCWidths, p \in MCPrecs }
  \cup { MCPercent }

MCCalls ==
  { << d >> : d \in MCIntegers \cup MCTypes \cup MCTexts \cup { MCPercent } }
  \cup { << Literal(<< "a" >>), d, Literal(<< "%", "!" >>), e, Literal(<< "%", "-", "4" >>) >> :
           d, e \in MCSome }
MCBufferSizes == { 0, 1, 4 }
=============================================================================
