------------------------------- MODULE Printf -------------------------------
(***************************************************************************)
(* nanoprintf as the kernel builds it (field width, precision and large    *)
(* length modifiers; no floats, no binary, no writeback), the bounded      *)
(* buffer it writes to, and kprintf, vsnprintf on top of it.  One call is  *)
(* made; a step reads one character or one directive of the format, or     *)
(* writes one character of a directive's field.                            *)
(*                                                                         *)
(* A character is a string of one letter, an argument is the machine word  *)
(* the caller passes, and a pointer to a text is a word in the domain of   *)
(* Strings.  The widths of the C types are constants: the code's are 8,    *)
(* 16, 32 and 64.                                                          *)
(***************************************************************************)
EXTENDS IsoPrintf

CONSTANTS
  Calls,         \* the formats a caller may pass, with their arguments
  MessageMax,    \* the size of kprintf's buffer (1024)
  BufferSizes    \* the sizes the callers of vsnprintf give

ASSUME PrintfAssumption ==
  /\ MessageMax \in Nat \ { 0 } /\ BufferSizes \subseteq Nat
  /\ \A call \in Calls : IsFormat(call)

VARIABLES
  items,     \* the format of the call, as the caller means it
  format,    \* the format as it is written
  args,      \* the arguments that follow it
  entry,     \* "kprintf" or "vsnprintf"
  size,      \* the size of the buffer
  at,        \* cur: the index of the next character of the format
  arg,       \* the index of the next argument (va_arg)
  field,     \* what the directive read last has still to write
  out,       \* the buffer, the next free index of it, and the count of characters
  returned,  \* the call has returned
  shown      \* what kprintf gave to put
vars == << items, format, args, entry, size, at, arg, field, out, returned, shown >>

-----------------------------------------------------------------------------
(* The parser *)

CharAt(j) == IF j <= Len(format) THEN format[j] ELSE "NUL"

\* The first index from j on that holds no character of S.
Skip(j, S) == Min({ k \in j .. Len(format) + 1 : CharAt(k) \notin S })
Between(j, k) == { CharAt(i) : i \in j .. k - 1 }
Number(j, k) ==
  LET number[i \in j .. k] ==
        IF i = j THEN 0 ELSE 10 * number[i - 1] + DigitValue(CharAt(i - 1))
  IN number[k]

Integer == { "d", "i", "o", "u", "x", "X" }

\* The length modifier at j: its type and the index after it.
Modifier(j) ==
  CASE CharAt(j) = "h" /\ CharAt(j + 1) = "h" -> << "char", j + 2 >>
    [] CharAt(j) = "h" /\ CharAt(j + 1) # "h" -> << "short", j + 1 >>
    [] CharAt(j) = "l" /\ CharAt(j + 1) = "l" -> << "long", j + 2 >>
    [] CharAt(j) = "l" /\ CharAt(j + 1) # "l" -> << "long", j + 1 >>
    [] CharAt(j) \in { "j", "z", "t" } -> << "long", j + 1 >>
    [] OTHER -> << "int", j >>

\* npf_parse_format_spec, from the index of a "%".  "end" is the index after
\* the directive, or 0 when it is none.
Parse(start) ==
  LET flagsEnd == Skip(start + 1, FlagChars)
      flags == Between(start + 1, flagsEnd)
      starWidth == CharAt(flagsEnd) = "*"
      widthEnd == IF starWidth THEN flagsEnd + 1 ELSE Skip(flagsEnd, DigitChars)
      dot == CharAt(widthEnd) = "."
      starPrec == dot /\ CharAt(widthEnd + 1) = "*"
      minus == dot /\ CharAt(widthEnd + 1) = "-"
      precStart == widthEnd + (IF starPrec \/ minus THEN 2 ELSE IF dot THEN 1 ELSE 0)
      precEnd == IF dot /\ ~starPrec THEN Skip(precStart, DigitChars) ELSE precStart
      mod == Modifier(precEnd)
      conv == CharAt(mod[2])
      precOpt == CASE conv \in { "%", "c", "p" } \/ ~dot \/ minus -> "none"
                   [] starPrec -> "star"
                   [] OTHER -> "literal"
  IN [ left |-> "-" \in flags,
       zero |-> /\ "0" \in flags /\ "-" \notin flags
                /\ conv # "s"
                /\ conv \in Integer => precOpt = "none",
       prepend |-> IF "+" \in flags THEN << "+" >>
                   ELSE IF " " \in flags THEN << " " >> ELSE << >>,
       alt |-> "#" \in flags,
       widthOpt |-> IF starWidth THEN "star"
                    ELSE IF widthEnd > flagsEnd THEN "literal" ELSE "none",
       width |-> IF starWidth THEN 0 ELSE Number(flagsEnd, widthEnd),
       precOpt |-> precOpt,
       prec |-> IF dot /\ ~starPrec THEN Number(precStart, precEnd) ELSE 0,
       mod |-> mod[1],
       conv |-> conv,
       end |-> IF conv \in Conversions THEN mod[2] + 1 ELSE 0 ]

\* The arguments for the stars, taken in order before the value's.
AfterWidth(fs) == IF fs.widthOpt = "star" THEN arg + 1 ELSE arg
ValueArg(fs) == IF fs.precOpt = "star" THEN AfterWidth(fs) + 1 ELSE AfterWidth(fs)
WithStars(fs) ==
  LET width == IF fs.widthOpt = "star" THEN Signed(args[arg], IntBits) ELSE fs.width
      prec == IF fs.precOpt = "star" THEN Signed(args[AfterWidth(fs)], IntBits) ELSE fs.prec
  IN [ fs EXCEPT !.widthOpt = IF @ = "star" THEN "literal" ELSE @,
                 !.width = IF width < 0 THEN -width ELSE width,
                 !.left = @ \/ width < 0,
                 !.precOpt = IF @ # "star" THEN @
                             ELSE IF prec < 0 THEN "none" ELSE "literal",
                 !.prec = prec ]

-----------------------------------------------------------------------------
(* The conversion of one argument *)

\* npf_itoa_rev and npf_utoa_rev fill the buffer from the last digit; it is
\* written back to front.  The digits of a negative number are taken one by one
\* with its sign, so the smallest one needs no negation.
Digits(n, base, alphabet) ==
  LET digits[k \in 0 .. n] ==
        IF k < base THEN << alphabet[k + 1] >>
        ELSE Append(digits[k \div base], alphabet[(k % base) + 1])
  IN digits[n]

Plain == [ text |-> << >>, sign |-> << >>, prefix |-> << >>, zero |-> FALSE ]

\* val is zero and a precision of zero is asked for: no digits.
NoDigits(fs, val) == val = 0 /\ fs.precOpt = "literal" /\ fs.prec = 0

ConvertSigned(fs, word) ==
  LET val == Signed(word, BitsOf(fs.mod))
  IN [ Plain EXCEPT
       !.text = IF NoDigits(fs, val) THEN << >>
                ELSE Digits(IF val < 0 THEN -val ELSE val, 10, Lower),
       !.sign = IF val < 0 THEN << "-" >> ELSE fs.prepend,
       !.zero = val = 0 ]

ConvertUnsigned(fs, word) ==
  LET val == word % Power(2, BitsOf(fs.mod))
      base == CASE fs.conv = "o" -> 8 [] fs.conv = "u" -> 10 [] OTHER -> 16
      digits == IF NoDigits(fs, val) THEN << >>
                ELSE Digits(val, base, IF fs.conv = "X" THEN Upper ELSE Lower)
  IN [ Plain EXCEPT
       !.text = IF fs.conv = "o" /\ fs.alt /\ val # 0 THEN << "0" >> \o digits ELSE digits,
       !.prefix = IF base = 16 /\ fs.alt /\ val # 0 THEN << "0", fs.conv >> ELSE << >>,
       !.zero = val = 0 ]

StringLength(fs, text) ==
  IF fs.precOpt = "none" \/ fs.prec >= Len(text) THEN Len(text) ELSE fs.prec

Convert(fs, word) ==
  CASE fs.conv \in { "d", "i" } -> ConvertSigned(fs, word)
    [] fs.conv \in { "o", "u", "x", "X" } -> ConvertUnsigned(fs, word)
    [] fs.conv = "p" -> [ Plain EXCEPT !.text = Digits(word, 16, Lower), !.prefix = << "0", "x" >> ]
    [] fs.conv = "c" -> [ Plain EXCEPT !.text = << Character(word) >> ]
    [] fs.conv = "s" -> [ Plain EXCEPT !.text = SubSeq(Strings[word], 1, StringLength(fs, Strings[word])) ]
    [] fs.conv = "%" -> [ Plain EXCEPT !.text = << "%" >> ]

\* The precision that counts for the zeros: "%#.0o" of zero prints one.
EffectivePrec(fs, t) ==
  IF fs.conv = "o" /\ fs.alt /\ t.zero /\ fs.precOpt = "literal" /\ fs.prec = 0 THEN 1 ELSE fs.prec

PadChar(fs, t) ==
  CASE fs.widthOpt # "literal" -> << >>
    [] fs.widthOpt = "literal" /\ ~fs.zero -> << " " >>
    [] fs.widthOpt = "literal" /\ fs.zero ->
         IF fs.conv \in { "c", "s", "%" } THEN << >>
         ELSE IF fs.precOpt = "literal" /\ EffectivePrec(fs, t) = 0 /\ t.zero THEN << " " >>
         ELSE << "0" >>

Zeros(fs, t) ==
  IF fs.conv = "s" THEN << >> ELSE Repeat("0", EffectivePrec(fs, t) - Len(t.text))

Padding(fs, t) ==
  LET pad == PadChar(fs, t)
      used == Len(t.text) + Len(t.sign) + Len(t.prefix) + Len(Zeros(fs, t))
  IN IF pad = << >> THEN << >> ELSE Repeat(pad[1], fs.width - used)

\* Mutant: zeros go before the sign and 0x, as blanks do.
FieldSignInside(fs, t) ==
  LET number == t.prefix \o t.sign \o Zeros(fs, t) \o t.text
  IN IF fs.left THEN number \o Padding(fs, t) ELSE Padding(fs, t) \o number

\* What a directive writes: the sign and 0x go before zeros and after blanks.
Field(fs, t) ==
  LET number == Zeros(fs, t) \o t.text
  IN CASE fs.left -> t.prefix \o t.sign \o number \o Padding(fs, t)
       [] ~fs.left /\ PadChar(fs, t) = << "0" >> ->
            t.sign \o t.prefix \o Padding(fs, t) \o number
       [] ~fs.left /\ PadChar(fs, t) # << "0" >> ->
            Padding(fs, t) \o t.prefix \o t.sign \o number

-----------------------------------------------------------------------------
(* The buffer *)

\* Mutant: one character more than the buffer holds.
BufPutcOneMore(o, c) ==
  IF o.cur <= size THEN [ o EXCEPT !.buf[o.cur] = c, !.cur = @ + 1 ] ELSE o

\* npf_bufputc
BufPutc(o, c) ==
  IF o.cur < size THEN [ o EXCEPT !.buf[o.cur] = c, !.cur = @ + 1 ] ELSE o
\* npf_putc_cnt
Putc(o, c) == [ BufPutc(o, c) EXCEPT !.n = @ + 1 ]

\* The end of npf_vsnprintf, for the call with a buffer.
Terminate(o) ==
  LET ended == BufPutc(o, "NUL")
  IN IF size > 0 THEN [ ended EXCEPT !.buf[size - 1] = "NUL" ] ELSE ended

\* vsnprintf cuts the text again, also when the size is zero.
CutAgain(o) == IF o.n >= size THEN [ o EXCEPT !.buf[size - 1] = "NUL" ] ELSE o

-----------------------------------------------------------------------------
Init ==
  /\ items \in Calls
  /\ format = Render(items)
  /\ args = Arguments(items)
  /\ \/ entry = "kprintf" /\ size = MessageMax
     \/ entry = "vsnprintf" /\ size \in BufferSizes
  /\ at = 1 /\ arg = 1 /\ field = << >>
  /\ out = [ buf |-> [ i \in -1 .. size |-> "untouched" ], cur |-> 0, n |-> 0 ]
  /\ returned = FALSE
  /\ shown = << >>

\* A character that starts no directive is copied: so is the "%" of a
\* directive that the build does not know.
Copy ==
  /\ field = << >> /\ CharAt(at) # "NUL"
  /\ CharAt(at) = "%" => Parse(at).end = 0
  /\ out' = Putc(out, CharAt(at))
  /\ at' = at + 1
  /\ UNCHANGED << items, format, args, entry, size, arg, field, returned, shown >>

Directive ==
  /\ field = << >> /\ CharAt(at) = "%" /\ Parse(at).end # 0
  /\ LET fs == WithStars(Parse(at))
         next == ValueArg(Parse(at))
         word == IF fs.conv = "%" THEN 0 ELSE args[next]
     IN /\ field' = Field(fs, Convert(fs, word))
        /\ at' = fs.end
        /\ arg' = IF fs.conv = "%" THEN next ELSE next + 1
  /\ UNCHANGED << items, format, args, entry, size, out, returned, shown >>

\* NPF_PUTC for the next character of the field.
PutField ==
  /\ field # << >>
  /\ out' = Putc(out, Head(field))
  /\ field' = Tail(field)
  /\ UNCHANGED << items, format, args, entry, size, at, arg, returned, shown >>

Kprintf ==
  /\ entry = "kprintf"
  /\ out' = Terminate(out)
  /\ shown' = IF out.n < size THEN [ i \in 1 .. out.n |-> out'.buf[i - 1] ] ELSE << >>

Vsnprintf ==
  /\ entry = "vsnprintf"
  /\ out' = CutAgain(Terminate(out))
  /\ UNCHANGED shown

Return ==
  /\ ~returned /\ field = << >> /\ CharAt(at) = "NUL"
  /\ Kprintf \/ Vsnprintf
  /\ returned' = TRUE
  /\ UNCHANGED << items, format, args, entry, size, at, arg, field >>

Next == Copy \/ Directive \/ PutField \/ Return
Spec == Init /\ [][Next]_vars

-----------------------------------------------------------------------------
(* What a caller may rely on.  The loop writes a format's text piece by     *)
(* piece through a counter and a bounded buffer; what C promises is about   *)
(* the whole.                                                               *)

\* A call returns the length of the text that C prescribes for the format, has
\* taken the arguments C gives it, and leaves in the buffer as much of that
\* text as fits with its NUL; kprintf shows the whole text or, when it does not
\* fit its buffer, nothing.  Two forms of "0" with a negative star are known to
\* come out differently (Agreed).
PrintsAsISO ==
  returned /\ Agreed(items) =>
    LET text == Expected(items)
    IN /\ out.n = Len(text)
       /\ arg = Len(args) + 1
       /\ size > 0 =>
            LET fits == Min({ Len(text), size - 1 })
            IN /\ out.buf[fits] = "NUL"
               /\ \A i \in 1 .. fits : out.buf[i - 1] = text[i]
       /\ entry = "kprintf" => shown = IF Len(text) < MessageMax THEN text ELSE << >>

\* Nothing is ever written outside the buffer the caller gave, and what C does
\* not prescribe is cut all the same.  The exception is the byte before a buffer
\* of size zero, which vsnprintf's second cut clears.
StaysInBuffer ==
  /\ out.cur <= size
  /\ \A i \in DOMAIN out.buf :
       out.buf[i] # "untouched" => \/ i \in 0 .. size - 1
                                   \/ i = -1 /\ size = 0 /\ returned
  /\ returned /\ size > 0 => \E i \in 0 .. size - 1 : out.buf[i] = "NUL"
=============================================================================
