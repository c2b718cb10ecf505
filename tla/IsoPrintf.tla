----------------------------- MODULE IsoPrintf ------------------------------
(***************************************************************************)
(* What the C standard (7.21.6.1) says a format prints, written from the   *)
(* structure of a directive and not from its text.  A format is a sequence *)
(* of items.  An item is a text that is copied, or a directive: flags,     *)
(* width and precision (none, or a number, given in the format or as an    *)
(* argument for "*"), the type of the argument, the conversion and the     *)
(* value.                                                                  *)
(***************************************************************************)
EXTENDS Integers, SequencesExt

CONSTANTS
  Characters,                              \* of a text, which NUL ends
  CharBits, ShortBits, IntBits, LongBits,  \* the widths of the C types
  Strings                                  \* the texts in memory: word -> text

ASSUME WidthAssumption ==
  /\ CharBits \in Nat \ { 0 }
  /\ ShortBits \in Nat /\ IntBits \in Nat /\ LongBits \in Nat
  /\ CharBits <= ShortBits /\ ShortBits <= IntBits /\ IntBits <= LongBits

Power(b, n) ==
  LET power[k \in 0 .. n] == IF k = 0 THEN 1 ELSE b * power[k - 1]
  IN power[n]

Lower == << "0", "1", "2", "3", "4", "5", "6", "7", "8", "9", "a", "b", "c", "d", "e", "f" >>
Upper == << "0", "1", "2", "3", "4", "5", "6", "7", "8", "9", "A", "B", "C", "D", "E", "F" >>
DigitValue(c) == (CHOOSE i \in 1 .. 10 : Lower[i] = c) - 1
FlagChars == { "-", "0", "+", " ", "#" }
DigitChars == { "0", "1", "2", "3", "4", "5", "6", "7", "8", "9" }
Conversions == { "d", "i", "o", "u", "x", "X", "c", "s", "p", "%" }

ASSUME CharacterAssumption ==
  /\ { Lower[i] : i \in 1 .. 16 } \cup { Upper[i] : i \in 1 .. 16 }
     \cup FlagChars \cup Conversions \cup { "*", ".", "h", "l", "j", "z", "t" } \subseteq Characters
  /\ "NUL" \notin Characters
  /\ \A word \in DOMAIN Strings : Strings[word] \in Seq(Characters)

BitsOf(type) ==
  CASE type = "char" -> CharBits [] type = "short" -> ShortBits
    [] type = "int" -> IntBits [] type = "long" -> LongBits

Unsigned(i) == i % Power(2, LongBits)
Signed(word, bits) ==
  LET low == word % Power(2, bits)
  IN IF low < Power(2, bits - 1) THEN low ELSE low - Power(2, bits)

\* (char)va_arg(args, int), for the few characters the instances print.
Character(word) == Lower[((word % Power(2, CharBits)) % 16) + 1]

Repeat(c, k) == [ i \in 1 .. Max({ 0, k }) |-> c ]

\* The numeral of v with as few digits as will do, zeros in front of it if they
\* are less than "least".
Numeral(v, base, least, alphabet) ==
  LET needed == Min({ k \in 0 .. (LongBits \div 3) + 1 : Power(base, k) > v })  \* base >= 8
  IN Repeat("0", least - needed)
     \o [ i \in 1 .. needed |-> alphabet[((v \div Power(base, needed - i)) % base) + 1] ]

-----------------------------------------------------------------------------
(* The text and the arguments of a format *)

\* [flags, width, starWidth, prec, starPrec, type, conv, val]: width and prec
\* are << >> or << number >>.
IsDirective(item) == "conv" \in DOMAIN item
Literal(text) == [ text |-> text ]

Decimal(k) == Numeral(k, 10, 1, Lower)
Length(type) ==
  CASE type = "char" -> << "h", "h" >> [] type = "short" -> << "h" >>
    [] type = "int" -> << >> [] type = "long" -> << "l", "l" >>

RenderItem(d) ==
  IF ~IsDirective(d) THEN d.text
  ELSE << "%" >> \o d.flags
       \o (IF d.width = << >> THEN << >>
           ELSE IF d.starWidth THEN << "*" >> ELSE Decimal(d.width[1]))
       \o (IF d.prec = << >> THEN << >>
           ELSE IF d.starPrec THEN << ".", "*" >>
           ELSE IF d.prec[1] = 0 THEN << "." >> ELSE << "." >> \o Decimal(d.prec[1]))
       \o Length(d.type) \o << d.conv >>
Render(items) == FlattenSeq([ i \in DOMAIN items |-> RenderItem(items[i]) ])

ItemArguments(d) ==
  IF ~IsDirective(d) THEN << >>
  ELSE (IF d.starWidth THEN << Unsigned(d.width[1]) >> ELSE << >>)
       \o (IF d.starPrec THEN << Unsigned(d.prec[1]) >> ELSE << >>)
       \o (IF d.conv = "%" THEN << >> ELSE << d.val >>)
Arguments(items) == FlattenSeq([ i \in DOMAIN items |-> ItemArguments(items[i]) ])

\* The numbers a format gives, and those a caller passes for "*": any int, and
\* any int whose negation is one.
Counts == 0 .. Power(2, IntBits - 1) - 1
Ints == -(Power(2, IntBits - 1) - 1) .. Power(2, IntBits - 1) - 1

IsDirectiveItem(d) ==
  /\ d.flags \in Seq(FlagChars)
  /\ \/ d.width = << >> /\ ~d.starWidth
     \/ \E k \in Counts \ { 0 } : d.width = << k >> /\ ~d.starWidth
     \/ \E k \in Ints : d.width = << k >> /\ d.starWidth
  /\ \/ d.prec = << >> /\ ~d.starPrec
     \/ \E k \in Counts : d.prec = << k >> /\ ~d.starPrec
     \/ \E k \in Ints : d.prec = << k >> /\ d.starPrec
  /\ d.type \in { "char", "short", "int", "long" } /\ d.conv \in Conversions
  /\ d.val \in 0 .. Power(2, LongBits) - 1
  /\ d.conv = "s" => d.val \in DOMAIN Strings

\* A "%" in a text starts no directive: behind flags and digits, if any, comes
\* something that goes on no directive, or the end of the format.
GoesOn == FlagChars \cup DigitChars \cup Conversions \cup { "*", ".", "h", "l", "j", "z", "t" }
IsText(text, last) ==
  /\ text \in Seq(Characters) /\ text # << >>
  /\ \A i \in DOMAIN text : text[i] = "%" =>
       \E k \in i + 1 .. Len(text) + 1 :
         /\ \A j \in i + 1 .. k - 1 : text[j] \in FlagChars \cup DigitChars
         /\ IF k \in DOMAIN text THEN text[k] \notin GoesOn ELSE last

IsFormat(items) ==
  /\ items \in Seq(Range(items))
  /\ \A i \in DOMAIN items :
       IF IsDirective(items[i]) THEN IsDirectiveItem(items[i])
       ELSE IsText(items[i].text, i = Len(items))

-----------------------------------------------------------------------------
(* What it prints *)

HasFlag(d, flag) == \E i \in DOMAIN d.flags : d.flags[i] = flag

\* A negative precision is taken as if it were omitted, a negative width is
\* the flag "-" and a positive width.
PrecisionGiven(d) == d.prec # << >> /\ d.prec[1] >= 0
LeftJustified(d) == HasFlag(d, "-") \/ (d.width # << >> /\ d.width[1] < 0)
FieldWidth(d) == IF d.width = << >> THEN 0 ELSE IF d.width[1] < 0 THEN -d.width[1] ELSE d.width[1]

IsInteger(d) == d.conv \in { "d", "i", "o", "u", "x", "X" }
Value(d) ==
  IF d.conv \in { "d", "i" } THEN Signed(d.val, BitsOf(d.type)) ELSE d.val % Power(2, BitsOf(d.type))
Base(d) == CASE d.conv \in { "d", "i", "u" } -> 10 [] d.conv = "o" -> 8 [] OTHER -> 16

Sign(d) ==
  CASE d.conv \notin { "d", "i" } -> << >>
    [] d.conv \in { "d", "i" } /\ Value(d) < 0 -> << "-" >>
    [] d.conv \in { "d", "i" } /\ Value(d) >= 0 ->
         IF HasFlag(d, "+") THEN << "+" >> ELSE IF HasFlag(d, " ") THEN << " " >> ELSE << >>

Prefix(d) ==
  IF d.conv \in { "x", "X" } /\ HasFlag(d, "#") /\ Value(d) # 0 THEN << "0", d.conv >> ELSE << >>

IntegerDigits(d) ==
  LET v == Value(d)
      numeral == Numeral(IF v < 0 THEN -v ELSE v, Base(d),
                         IF PrecisionGiven(d) THEN d.prec[1] ELSE 1,
                         IF d.conv = "X" THEN Upper ELSE Lower)
  IN IF d.conv = "o" /\ HasFlag(d, "#") /\ (numeral = << >> \/ numeral[1] # "0")
     THEN << "0" >> \o numeral ELSE numeral

Body(d) ==
  CASE IsInteger(d) -> IntegerDigits(d)
    [] d.conv = "s" -> LET s == Strings[d.val]
                       IN IF PrecisionGiven(d) THEN SubSeq(s, 1, Min({ Len(s), d.prec[1] })) ELSE s
    [] d.conv = "c" -> << Character(d.val) >>
    [] d.conv = "p" -> << "0", "x" >> \o Numeral(d.val, 16, 1, Lower)  \* implementation-defined
    [] d.conv = "%" -> << "%" >>

ExpectedItem(d) ==
  IF ~IsDirective(d) THEN d.text
  ELSE LET head == Sign(d) \o Prefix(d)
           short == FieldWidth(d) - Len(head \o Body(d))
           zeros == IsInteger(d) /\ HasFlag(d, "0") /\ ~PrecisionGiven(d)
       IN CASE LeftJustified(d) -> head \o Body(d) \o Repeat(" ", short)
            [] ~LeftJustified(d) /\ zeros -> head \o Repeat("0", short) \o Body(d)
            [] ~LeftJustified(d) /\ ~zeros -> Repeat(" ", short) \o head \o Body(d)
Expected(items) == FlattenSeq([ i \in DOMAIN items |-> ExpectedItem(items[i]) ])

\* What the standard leaves undefined.
Defined(d) ==
  IsDirective(d) =>
    /\ d.conv \in { "c", "p", "%" } => d.prec = << >>
    /\ HasFlag(d, "0") => IsInteger(d)
    /\ HasFlag(d, "#") => d.conv \in { "o", "x", "X" }
    /\ d.conv \in { "c", "s", "p", "%" } => d.type = "int"
    /\ d.conv = "%" => d.flags = << >> /\ d.width = << >>

\* The flag "0" next to a negative number for a "*": nanoprintf pads on the
\* right with zeros for the width, and with blanks for the precision.
ZeroWithNegativeStar(d) ==
  /\ IsDirective(d)
  /\ HasFlag(d, "0") /\ ~HasFlag(d, "-")
  /\ \/ d.width # << >> /\ d.width[1] < 0
     \/ d.prec # << >> /\ d.prec[1] < 0
Agreed(items) ==
  \A i \in DOMAIN items : Defined(items[i]) /\ ~ZeroWithNegativeStar(items[i])
=============================================================================
