------------------------------ MODULE Flanterm ------------------------------
(***************************************************************************)
(* The terminal (lib/flanterm/flanterm.c) on its framebuffer backend: the  *)
(* kernel's put (lib/put.c) writes messages, flanterm_putchar takes them   *)
(* byte by byte, and the end of a write flushes.  kpanic may print in the  *)
(* middle of a message, a line per write, and never returns to it.         *)
(*                                                                         *)
(* A byte is a token: a printable character, the name of a control         *)
(* character, or xHH for a byte from 0x80.  The kernel sets no callback    *)
(* and no output flags, so what only calls the callback does nothing.      *)
(***************************************************************************)
EXTENDS Framebuffer, Functions

CONSTANTS
  FLANTERM_MAX_ESC_VALUES,   \* 16
  ValueWrap,      \* 2^32: a parameter is a uint32_t
  Messages,       \* what the kernel writes: sequences of bytes
  PanicTexts,     \* the texts of kpanic's lines
  MaxWrites,      \* bound: messages written before the model stops
  MaxPanic        \* bound: a panic comes in one of the first messages

ASSUME FlantermAssumption ==
  /\ FLANTERM_MAX_ESC_VALUES \in Nat \ {0, 1} /\ ValueWrap \in Nat \ {0}
  /\ MaxWrites \in Nat /\ MaxPanic \in Nat

VARIABLES
  pending,        \* the bytes of the current message that are left
  report,         \* the texts of kpanic's lines that are left
  kernel,         \* "idle", "writing", "panicking" or "halted"
  writes          \* messages so far

vars == <<ctx, framebuffer, pending, report, kernel, writes>>

-----------------------------------------------------------------------------
(* Characters *)

Printable ==
  << " ", "!", "\"", "#", "$", "%", "&", "'", "(", ")", "*", "+", ",", "-",
     ".", "/", "0", "1", "2", "3", "4", "5", "6", "7", "8", "9", ":", ";",
     "<", "=", ">", "?", "@", "A", "B", "C", "D", "E", "F", "G", "H", "I",
     "J", "K", "L", "M", "N", "O", "P", "Q", "R", "S", "T", "U", "V", "W",
     "X", "Y", "Z", "[", "\\", "]", "^", "_", "backquote", "a", "b", "c", "d", "e",
     "f", "g", "h", "i", "j", "k", "l", "m", "n", "o", "p", "q", "r", "s",
     "t", "u", "v", "w", "x", "y", "z", "{", "|", "}", "~" >>
Ascii == [b \in {Printable[k] : k \in 1 .. 95} |->
            31 + CHOOSE k \in 1 .. 95 : Printable[k] = b]
Digits == << "0", "1", "2", "3", "4", "5", "6", "7", "8", "9" >>

\* The bytes from 0x80 that messages use.
HighByte == [x80 |-> \h80, x81 |-> \h81, x94 |-> \h94, x98 |-> \h98,
             x9F |-> \h9F, xAD |-> \hAD, xB8 |-> \hB8, xC3 |-> \hC3,
             xCC |-> \hCC, xE2 |-> \hE2, xE4 |-> \hE4, xF0 |-> \hF0]
Unknown == 254

\* The code points of the font's glyphs 1 to 31 and 127 to 254.
Cp437Low ==
  << \h263a, \h263b, \h2665, \h2666, \h2663, \h2660, \h2022, \h25d8, \h25cb,
     \h25d9, \h2642, \h2640, \h266a, \h266b, \h263c, \h25ba, \h25c4, \h2195,
     \h203c, \h00b6, \h00a7, \h25ac, \h21a8, \h2191, \h2193, \h2192, \h2190,
     \h221f, \h2194, \h25b2, \h25bc >>
Cp437High ==
  << \h2302, \h00c7, \h00fc, \h00e9, \h00e2, \h00e4, \h00e0, \h00e5, \h00e7,
     \h00ea, \h00eb, \h00e8, \h00ef, \h00ee, \h00ec, \h00c4, \h00c5, \h00c9,
     \h00e6, \h00c6, \h00f4, \h00f6, \h00f2, \h00fb, \h00f9, \h00ff, \h00d6,
     \h00dc, \h00a2, \h00a3, \h00a5, \h20a7, \h0192, \h00e1, \h00ed, \h00f3,
     \h00fa, \h00f1, \h00d1, \h00aa, \h00ba, \h00bf, \h2310, \h00ac, \h00bd,
     \h00bc, \h00a1, \h00ab, \h00bb, \h2591, \h2592, \h2593, \h2502, \h2524,
     \h2561, \h2562, \h2556, \h2555, \h2563, \h2551, \h2557, \h255d, \h255c,
     \h255b, \h2510, \h2514, \h2534, \h252c, \h251c, \h2500, \h253c, \h255e,
     \h255f, \h255a, \h2554, \h2569, \h2566, \h2560, \h2550, \h256c, \h2567,
     \h2568, \h2564, \h2565, \h2559, \h2558, \h2552, \h2553, \h256b, \h256a,
     \h2518, \h250c, \h2588, \h2584, \h258c, \h2590, \h2580, \h03b1, \h00df,
     \h0393, \h03c0, \h03a3, \h03c3, \h00b5, \h03c4, \h03a6, \h0398, \h03a9,
     \h03b4, \h221e, \h03c6, \h03b5, \h2229, \h2261, \h00b1, \h2265, \h2264,
     \h2320, \h2321, \h00f7, \h2248, \h00b0, \h2219, \h00b7, \h221a, \h207f,
     \h00b2, \h25a0 >>

unicode_to_cp437(code) ==
  IF \E k \in 1 .. 31 : Cp437Low[k] = code
    THEN CHOOSE k \in 1 .. 31 : Cp437Low[k] = code
  ELSE IF \E k \in 1 .. 128 : Cp437High[k] = code
    THEN 126 + CHOOSE k \in 1 .. 128 : Cp437High[k] = code
  ELSE -1

\* Columns of a code point that the font does not have.  The bytes above make
\* combining characters only of the first block of the table.
mk_wcwidth(code) ==
  IF code = 0 \/ code \in \h300 .. \h36F THEN 0
  ELSE IF \/ code \in \h1100 .. \h115f \/ code \in {\h2329, \h232a}
          \/ code \in (\h2e80 .. \ha4cf) \ {\h303f}
          \/ code \in \hac00 .. \hd7a3 \/ code \in \hf900 .. \hfaff
          \/ code \in \hfe10 .. \hfe19 \/ code \in \hfe30 .. \hfe6f
          \/ code \in \hff00 .. \hff60 \/ code \in \hffe0 .. \hffe6
          \/ code \in \h20000 .. \h2fffd \/ code \in \h30000 .. \h3fffd
    THEN 2 ELSE 1

\* The line drawing set: what it prints for a character.
DecSpecialFrom ==
  << "backquote", "0", "-", ",", ".", "a", "f", "g", "h", "j", "k", "l", "m", "n",
     "q", "s", "t", "u", "v", "w", "x", "y", "z", "~", "_", "+", "{", "}" >>
DecSpecialTo ==
  << \h04, \hdb, \h18, \h1b, \h19, \hb1, \hf8, \hf1, \hb0, \hd9, \hbf, \hda,
     \hc0, \hc5, \hc4, \h5f, \hc3, \hb4, \hc1, \hc2, \hb3, \hf3, \hf2, \hfa,
     \hff, \h1a, \he3, \h9c >>
DecSpecial == [b \in Range(DecSpecialFrom) |->
                 DecSpecialTo[CHOOSE k \in 1 .. 28 : DecSpecialFrom[k] = b]]

\* The 256 colours: the two palettes, a cube of 6 x 6 x 6, and 24 greys.
Levels == << \h00, \h5f, \h87, \haf, \hd7, \hff >>
RGB(r, g, b) == (r * 256 + g) * 256 + b
col256(n) ==
  CASE n < 8 -> ansi_colours[n + 1]
    [] n \in 8 .. 15 -> ansi_bright_colours[n - 7]
    [] n \in 16 .. 231 ->
         LET k == n - 16 IN
         RGB(Levels[(k \div 36) + 1], Levels[((k \div 6) % 6) + 1],
             Levels[(k % 6) + 1])
    [] n \in 232 .. 255 -> LET grey == 8 + 10 * (n - 232) IN RGB(grey, grey, grey)

-----------------------------------------------------------------------------
(* Attributes.  In reverse video the colour of the glyphs is the background *)
(* of the text.                                                            *)

None == -1
Palette(bright, colour) ==
  IF bright THEN ansi_bright_colours[colour + 1] ELSE ansi_colours[colour + 1]
PaintPrimary(s, colour) ==
  IF s.reverse_video THEN Bg(s, colour) ELSE Fg(s, colour)
PaintBg(s, colour) ==
  IF s.reverse_video THEN Fg(s, colour) ELSE Bg(s, colour)

\* The defaults of the side that is painted, not of the colour that is meant.
FgDefault(bright) == IF bright THEN default_fg_bright ELSE default_fg
BgDefault(bright) == IF bright THEN default_bg_bright ELSE Transparent
PrimaryDefault(s, bright) ==
  IF s.reverse_video THEN BgDefault(bright) ELSE FgDefault(bright)
BackgroundDefault(s, bright) ==
  IF s.reverse_video THEN FgDefault(bright) ELSE BgDefault(bright)

Reversed(s, on) ==
  IF s.reverse_video = on THEN s
  ELSE swap_palette([s EXCEPT !.reverse_video = on])

Bold(s, on) ==
  PaintPrimary([s EXCEPT !.bold = on],
               IF s.current_primary = None THEN PrimaryDefault(s, on)
               ELSE Palette(on, s.current_primary))
BgBold(s, on) ==
  PaintBg([s EXCEPT !.bg_bold = on],
          IF s.current_bg = None THEN BackgroundDefault(s, on)
          ELSE Palette(on, s.current_bg))

Plain(s) ==
  [s EXCEPT !.reverse_video = FALSE, !.bold = FALSE, !.bg_bold = FALSE,
            !.current_primary = None, !.current_bg = None,
            !.text_fg = default_fg, !.text_bg = Transparent]

\* Mutant: a primary colour takes the brightness of the background.
Attribute_bright_swapped(s, v) ==
  CASE v = 0 -> Plain(s)
    [] v \in {1, 22} -> Bold(s, v = 1)
    [] v \in {5, 25} -> BgBold(s, v = 5)
    [] v \in {7, 27} -> Reversed(s, v = 7)
    [] v \in 30 .. 37 -> PaintPrimary([s EXCEPT !.current_primary = v - 30],
                                      Palette(s.bg_bold, v - 30))
    [] v \in 40 .. 47 -> PaintBg([s EXCEPT !.current_bg = v - 40],
                                 Palette(s.bg_bold, v - 40))
    [] v \in 90 .. 97 -> PaintPrimary([s EXCEPT !.current_primary = v - 90],
                                      Palette(TRUE, v - 90))
    [] v \in 100 .. 107 -> PaintBg([s EXCEPT !.current_bg = v - 100],
                                   Palette(TRUE, v - 100))
    [] v = 39 -> PaintPrimary([s EXCEPT !.current_primary = None],
                              FgDefault(s.bold))
    [] v = 49 -> PaintBg([s EXCEPT !.current_bg = None], BgDefault(s.bg_bold))
    [] OTHER -> s

\* One parameter of SGR.
Attribute(s, v) ==
  CASE v = 0 -> Plain(s)
    [] v \in {1, 22} -> Bold(s, v = 1)
    [] v \in {5, 25} -> BgBold(s, v = 5)
    [] v \in {7, 27} -> Reversed(s, v = 7)
    [] v \in 30 .. 37 -> PaintPrimary([s EXCEPT !.current_primary = v - 30],
                                      Palette(s.bold, v - 30))
    [] v \in 40 .. 47 -> PaintBg([s EXCEPT !.current_bg = v - 40],
                                 Palette(s.bg_bold, v - 40))
    [] v \in 90 .. 97 -> PaintPrimary([s EXCEPT !.current_primary = v - 90],
                                      Palette(TRUE, v - 90))
    [] v \in 100 .. 107 -> PaintBg([s EXCEPT !.current_bg = v - 100],
                                   Palette(TRUE, v - 100))
    [] v = 39 -> PaintPrimary([s EXCEPT !.current_primary = None],
                              FgDefault(s.bold))
    [] v = 49 -> PaintBg([s EXCEPT !.current_bg = None], BgDefault(s.bg_bold))
    [] OTHER -> s

\* 38 and 48 take the parameters that follow, give the colour to a side
\* whatever the video, and are not remembered.
Direct(s, v, colour) == IF v = 38 THEN Fg(s, colour) ELSE Bg(s, colour)

\* What the i-th parameter does, and how many it takes with itself.
Rendition(s, values, i) ==
  LET n == Len(values)
      v == values[i] IN
  IF v \notin {38, 48} THEN Attribute(s, v)
  ELSE IF i + 4 <= n /\ values[i + 1] = 2
    THEN Direct(s, v, RGB(values[i + 2], values[i + 3], values[i + 4]))
  ELSE IF i + 2 <= n /\ values[i + 1] = 5 /\ values[i + 2] <= 255
    THEN Direct(s, v, col256(values[i + 2]))
  ELSE s
Taken(values, i) ==
  IF values[i] \notin {38, 48} \/ i = Len(values) THEN 1
  ELSE IF values[i + 1] = 2 THEN 5
  ELSE IF values[i + 1] = 5 THEN 3
  ELSE 2

\* A parameter that an earlier one has taken is passed over.
Parameter(a, values, i) ==
  IF i < a.next THEN a
  ELSE [s |-> Rendition(a.s, values, i), next |-> i + Taken(values, i)]
sgr(s, values) ==
  Loop(LAMBDA a, i : Parameter(a, values, i), [s |-> s, next |-> 1],
       Upwards(1, Len(values))).s

-----------------------------------------------------------------------------
(* The context *)

NoValues == [i \in 1 .. FLANTERM_MAX_ESC_VALUES |-> 0]

\* flanterm_context_reinit: colours, cursor and what was saved stay.
Reinit ==
  [cursor_enabled |-> TRUE, scroll_enabled |-> TRUE,
   control_sequence |-> FALSE, escape |-> FALSE, osc |-> FALSE,
   osc_escape |-> FALSE, rrr |-> FALSE, discard_next |-> FALSE,
   bold |-> FALSE, bg_bold |-> FALSE, reverse_video |-> FALSE,
   dec_private |-> FALSE, insert_mode |-> FALSE, unicode_remaining |-> 0,
   g_select |-> 0, charsets |-> << "default", "dec_special" >>,
   current_charset |-> 1, escape_offset |-> 0, esc_values_i |-> 0,
   saved_cursor |-> << 0, 0 >>, current_primary |-> None, current_bg |-> None,
   top |-> 0, bottom |-> rows]
reinit(s) ==
  [field \in DOMAIN s \cup DOMAIN Reinit |->
     IF field \in DOMAIN Reinit THEN Reinit[field] ELSE s[field]]

\* The context of flanterm_fb_init, which comes from memory that was zero:
\* ESC 8 before any ESC 7 finds black on black there.
FirstContext ==
  reinit(
    [grid |-> [i \in Cells |-> [c |-> Space, fg |-> default_fg, bg |-> Transparent]],
     queue |-> << >>, map |-> [i \in Cells |-> NULL],
     cursor_x |-> 0, cursor_y |-> 0, old_cursor_x |-> 0, old_cursor_y |-> 0,
     text_fg |-> default_fg, text_bg |-> Transparent,
     saved_text |-> << 0, 0, 0, 0 >>,
     saved_state |-> << FALSE, FALSE, FALSE, 1, 0, 0 >>,
     esc_values |-> NoValues, code_point |-> 0])

\* What an ended sequence leaves of its parameters is dead: `[' clears it.
NoSequence(s) ==
  [s EXCEPT !.esc_values = NoValues, !.esc_values_i = 0, !.rrr = FALSE,
            !.escape_offset = 0]

SaveState(s) ==
  [save_state(s) EXCEPT
     !.saved_state = << s.bold, s.bg_bold, s.reverse_video, s.current_charset,
                        s.current_primary, s.current_bg >>]
RestoreState(s) ==
  LET v == s.saved_state IN
  [restore_state(s) EXCEPT
     !.bold = v[1], !.bg_bold = v[2], !.reverse_video = v[3],
     !.current_charset = v[4], !.current_primary = v[5], !.current_bg = v[6]]

-----------------------------------------------------------------------------
(* flanterm_putchar: one byte of a message *)

Byte == Head(pending)
Takes(t) ==
  /\ ctx' = t
  /\ pending' = Tail(pending)
  /\ UNCHANGED <<framebuffer, report, kernel, writes>>

IsHigh(b, set) == b \in DOMAIN HighByte /\ HighByte[b] \in set
Cancelled == ctx.discard_next \/ Byte \in {"CAN", "SUB"}
Continues == ctx.unicode_remaining # 0 /\ IsHigh(Byte, \h80 .. \hbf)
Leads == IsHigh(Byte, \hc0 .. \hf7)
Parsed == ~Cancelled /\ ~Continues /\ ~Leads

\* A character that lacks bytes is given up.
Fresh == [ctx EXCEPT !.unicode_remaining = 0, !.code_point = 0]

Cancel ==
  /\ Cancelled
  /\ Takes(NoSequence([Fresh EXCEPT
              !.discard_next = FALSE, !.escape = FALSE,
              !.control_sequence = FALSE, !.osc = FALSE,
              !.osc_escape = FALSE, !.g_select = 0]))

Utf8Lead ==
  /\ ~Cancelled /\ ~Continues /\ Leads
  /\ LET b == HighByte[Byte]
         n == CASE b < \he0 -> 1 [] b \in \he0 .. \hef -> 2 [] b >= \hf0 -> 3 IN
     Takes([ctx EXCEPT !.unicode_remaining = n,
                       !.code_point = (b % 2 ^ (6 - n)) * 64 ^ n])

\* The character is printed wherever it ends, in a sequence too.
Utf8Continue ==
  /\ ~Cancelled /\ Continues
  /\ LET left == ctx.unicode_remaining - 1
         code == ctx.code_point + (HighByte[Byte] % 64) * 64 ^ left
         glyph == unicode_to_cp437(code)
         width == mk_wcwidth(code) IN
     \/ left > 0 /\ Takes([ctx EXCEPT !.unicode_remaining = left,
                                      !.code_point = code])
     \/ left = 0 /\ glyph # -1 /\ Takes(raw_putchar(Fresh, glyph))
     \/ left = 0 /\ glyph = -1 /\ width = 0 /\ Takes(Fresh)
     \/ /\ left = 0 /\ glyph = -1 /\ width > 0
        /\ Takes(Putchars(raw_putchar(Fresh, Unknown), Space, width - 1))

SelectCharset ==
  /\ Parsed /\ ~ctx.escape /\ ctx.g_select # 0
  /\ Takes([Fresh EXCEPT !.g_select = 0,
                         !.charsets[ctx.g_select] =
                            CASE Byte = "B" -> "default"
                              [] Byte = "0" -> "dec_special"
                              [] Byte \notin {"B", "0"} -> @])

\* Down a line, or up with the text if this is the last of the region.
LineFeed(s, x) ==
  LET y == Y(s) IN
  IF y = s.bottom - 1 THEN set_cursor_pos(scroll(s), x, y)
                      ELSE set_cursor_pos(s, x, y + 1)

Text7bit == Parsed /\ ~ctx.escape /\ ctx.g_select = 0

Control ==
  LET x == X(ctx)
      y == Y(ctx)
      tab == (x \div 8) + 1 IN
  /\ Text7bit
  /\ \/ Byte \in {"NUL", "DEL", "BEL"} /\ Takes(Fresh)
     \/ Byte = "ESC" /\ Takes([Fresh EXCEPT !.escape = TRUE, !.escape_offset = 0])
     \/ Byte = "HT" /\ Takes(set_cursor_pos(Fresh,
                             IF tab >= cols THEN cols - 1 ELSE tab * 8, y))
     \/ Byte \in {"LF", "VT", "FF"} /\ Takes(LineFeed(Fresh, 0))
     \/ Byte = "BS" /\ Takes(set_cursor_pos(Fresh, x - 1, y))
     \/ Byte = "CR" /\ Takes(set_cursor_pos(Fresh, 0, y))
     \/ Byte = "SO" /\ Takes([Fresh EXCEPT !.current_charset = 2])
     \/ Byte = "SI" /\ Takes([Fresh EXCEPT !.current_charset = 1])

Controls == {"NUL", "DEL", "BEL", "ESC", "HT", "LF", "VT", "FF", "BS", "CR",
             "SO", "SI"}
GlyphOf(b) ==
  IF ctx.charsets[ctx.current_charset] = "dec_special" /\ b \in DOMAIN DecSpecial
    THEN DecSpecial[b]
  ELSE IF b \in DOMAIN Ascii THEN Ascii[b] ELSE Unknown

Printed ==
  LET x == X(ctx)
      y == Y(ctx)
      room == IF ctx.insert_mode
                THEN MoveCharacters(Fresh, 1, y, Downwards(cols - 1, x))
                ELSE Fresh IN
  /\ Text7bit /\ Byte \notin Controls
  /\ Takes(raw_putchar(room, GlyphOf(Byte)))

-----------------------------------------------------------------------------
(* Escape sequences *)

Sequence == Parsed /\ ctx.escape

\* escape_offset is only ever compared with 2.
Entered == [Fresh EXCEPT !.escape_offset = Clamp(@ + 1, 4)]

\* Mutant: an operating system command goes on to its terminator.
osc_parse_waits ==
  /\ Sequence /\ ctx.osc
  /\ IF Byte = "BEL"
       THEN Takes(NoSequence([Entered EXCEPT !.osc = FALSE, !.escape = FALSE]))
       ELSE Takes([Entered EXCEPT !.osc_escape = Byte = "ESC"])

\* Any byte but ESC ends an operating system command.
osc_parse ==
  /\ Sequence /\ ctx.osc
  /\ \/ Byte = "ESC" /\ Takes([Entered EXCEPT !.osc_escape = TRUE])
     \/ /\ Byte # "ESC"
        /\ Takes(NoSequence([Entered EXCEPT !.osc_escape = FALSE, !.osc = FALSE,
                                            !.escape = FALSE]))

Ended(t) == Takes(NoSequence([t EXCEPT !.escape = FALSE]))
escape_parse ==
  LET y == Y(ctx) IN
  /\ Sequence /\ ~ctx.osc /\ ~ctx.control_sequence
  /\ \/ Byte = "]" /\ Takes([Entered EXCEPT !.osc = TRUE, !.osc_escape = FALSE])
     \/ Byte = "[" /\ Takes([Entered EXCEPT !.control_sequence = TRUE,
                                            !.esc_values = NoValues,
                                            !.esc_values_i = 0, !.rrr = FALSE])
     \/ Byte = "7" /\ Ended(SaveState(Entered))
     \/ Byte = "8" /\ Ended(RestoreState(Entered))
     \/ Byte = "c" /\ Ended(clear(reinit(Entered), TRUE))
     \/ Byte = "D" /\ Ended(LineFeed(Entered, X(ctx)))
     \/ Byte = "E" /\ Ended(LineFeed(Entered, 0))
     \/ /\ Byte = "M"
        /\ Ended(IF y = ctx.top THEN set_cursor_pos(revscroll(Entered), 0, y)
                 ELSE set_cursor_pos(Entered, 0, y - 1))
     \/ /\ Byte \in {"(", ")"}
        /\ Ended([Entered EXCEPT !.g_select = IF Byte = "(" THEN 1 ELSE 2])
     \/ /\ Byte \notin {"]", "[", "7", "8", "c", "D", "E", "M", "(", ")"}
        /\ Ended(Entered)

-----------------------------------------------------------------------------
(* control_sequence_parse: the parameters *)

ControlSequence == Sequence /\ ~ctx.osc /\ ctx.control_sequence
Marks == Entered.escape_offset = 2 /\ Byte \in {"[", "?"}
SequenceEnded(t) ==
  NoSequence([t EXCEPT !.control_sequence = FALSE, !.escape = FALSE])

Mark ==
  /\ ControlSequence /\ Marks
  /\ \/ /\ Byte = "["
        /\ Takes([SequenceEnded(Entered) EXCEPT !.discard_next = TRUE])
     \/ Byte = "?" /\ Takes([Entered EXCEPT !.dec_private = TRUE])

\* Once every parameter is taken, digits and separators are read over.
Digit ==
  /\ ControlSequence /\ Byte \in Range(Digits)
  /\ IF ctx.esc_values_i = FLANTERM_MAX_ESC_VALUES THEN Takes(Entered)
     ELSE Takes([Entered EXCEPT
                   !.rrr = TRUE,
                   !.esc_values[ctx.esc_values_i + 1] =
                      (@ * 10 + (CHOOSE k \in 1 .. 10 : Digits[k] = Byte) - 1)
                        % ValueWrap])

\* Mutant: one more parameter than there is room for is taken.
Separator_unchecked ==
  /\ ControlSequence /\ Byte = ";"
  /\ Takes([Entered EXCEPT !.rrr = FALSE, !.esc_values_i = @ + 1])

Separator ==
  /\ ControlSequence /\ Byte = ";"
  /\ Takes([Entered EXCEPT !.rrr = FALSE,
               !.esc_values_i = Clamp(@ + 1, FLANTERM_MAX_ESC_VALUES + 1)])

Final == ControlSequence /\ ~Marks /\ Byte \notin Range(Digits) \cup {";"}
Given == ctx.esc_values_i + IF ctx.rrr THEN 1 ELSE 0
P == [i \in 1 .. FLANTERM_MAX_ESC_VALUES |->
        CASE i <= Given -> ctx.esc_values[i]
          [] i > Given -> IF Byte \in {"J", "K", "q"} THEN 0 ELSE 1]

dec_private_parse ==
  /\ Final /\ ctx.dec_private
  /\ Takes(SequenceEnded(
       [Entered EXCEPT
          !.dec_private = FALSE,
          !.cursor_enabled = IF Given > 0 /\ P[1] = 25 /\ Byte \in {"h", "l"}
                               THEN Byte = "h" ELSE @]))

-----------------------------------------------------------------------------
(* control_sequence_parse: the commands.  None may scroll the region by    *)
(* printing.                                                               *)

During == [Entered EXCEPT !.scroll_enabled = FALSE]
Done(t) == Takes(SequenceEnded([t EXCEPT !.scroll_enabled = ctx.scroll_enabled]))
Command == Final /\ ~ctx.dec_private

\* A move of n lines stops at a margin that it comes across.
LineAbove(y, n) ==
  LET to == Clamp(y - n, rows) IN
  IF {ctx.top, ctx.bottom} \cap (to .. y) # {} /\ to < ctx.top THEN ctx.top ELSE to

\* Mutant: the margin is ignored.
LineBelow_unbounded(y, n) == Clamp(y + n, rows)

LineBelow(y, n) ==
  LET to == Clamp(y + n, rows) IN
  IF {ctx.top, ctx.bottom} \cap (y .. to) # {} /\ to >= ctx.bottom
    THEN ctx.bottom - 1 ELSE to

To(u, v) == Done(set_cursor_pos(During, u, v))
MoveTo ==
  LET x == X(ctx)
      y == Y(ctx) IN
  /\ Command
  /\ \/ Byte \in {"A", "F"} /\ To(IF Byte = "F" THEN 0 ELSE x, LineAbove(y, P[1]))
     \/ Byte \in {"B", "e", "E"} /\ To(IF Byte = "E" THEN 0 ELSE x, LineBelow(y, P[1]))
     \/ Byte \in {"C", "a"} /\ To(x + P[1], y)
     \/ Byte = "D" /\ To(x - P[1], y)
     \/ Byte = "d" /\ To(x, IF P[1] = 0 THEN rows - 1 ELSE P[1] - 1)
     \/ Byte \in {"G", "backquote"} /\ To(IF P[1] = 0 THEN cols - 1 ELSE P[1] - 1, y)
     \/ Byte \in {"H", "f"} /\ To(P[2] - 1, P[1] - 1)
     \/ Byte = "u" /\ To(ctx.saved_cursor[1], ctx.saved_cursor[2])

AtMost(n, limit) == IF n > limit THEN limit ELSE n
Times(Op(_), s, n) == Loop(LAMBDA t, i : Op(t), s, Upwards(1, n))

\* M scrolls the region, wherever the cursor is; L scrolls from its line.
ScrollLines ==
  LET n == AtMost(P[1], rows) IN
  /\ Command
  /\ \/ Byte = "M" /\ Done(Times(scroll, During, n))
     \/ /\ Byte = "L"
        /\ Done([Times(revscroll, [During EXCEPT !.top = Y(ctx)], n)
                  EXCEPT !.top = ctx.top])

\* Mutant: 1 stops before the cell of the cursor.
ErasedDisplay_short(s, v, x, y) ==
  CASE v = 0 -> set_cursor_pos(Putchars(s, Space, (rows - y) * cols - x), x, y)
    [] v = 1 -> set_cursor_pos(
                  Putchars(set_cursor_pos(s, 0, 0), Space, y * cols + x), x, y)
    [] v \in {2, 3} -> clear(s, FALSE)
    [] OTHER -> s

\* J: to the end, from the start to the cursor, or all.
ErasedDisplay(s, v, x, y) ==
  CASE v = 0 -> set_cursor_pos(Putchars(s, Space, (rows - y) * cols - x), x, y)
    [] v = 1 -> set_cursor_pos(
                  Putchars(set_cursor_pos(s, 0, 0), Space, y * cols + x + 1), x, y)
    [] v \in {2, 3} -> clear(s, FALSE)
    [] OTHER -> s

\* K: 1 stops before the cursor.
ErasedLine(s, v, x, y) ==
  CASE v = 0 -> set_cursor_pos(Putchars(s, Space, cols - x), x, y)
    [] v = 1 -> Putchars(set_cursor_pos(s, 0, y), Space, x)
    [] v = 2 -> set_cursor_pos(
                  Putchars(set_cursor_pos(s, 0, y), Space, cols), x, y)
    [] OTHER -> s

Erased(s, n, x, y) ==
  set_cursor_pos(Putchars(s, Space, AtMost(n, cols)), x, y)

\* @: every cell from the last to the cursor moves n to the right.
Inserted(s, n, x, y) ==
  set_cursor_pos(
    Loop(LAMBDA t, i :
           raw_putchar(set_cursor_pos(move_character(t, i + n, y, i, y), i, y),
                       Space),
         s, Downwards(cols - 1, x)),
    x, y)

\* P: what is n to the right moves to the cursor; the last n cells are blanked.
Deleted(s, n, x, y) ==
  Erased(set_cursor_pos(
           MoveCharacters(s, -n, y, Upwards(x + n, cols - 1)), cols - n, y),
         n, x, y)

EditCells ==
  LET x == X(ctx)
      y == Y(ctx) IN
  /\ Command
  /\ \/ Byte = "J" /\ Done(ErasedDisplay(During, P[1], x, y))
     \/ Byte = "K" /\ Done(ErasedLine(During, P[1], x, y))
     \/ Byte = "X" /\ Done(Erased(During, P[1], x, y))
     \/ Byte = "@" /\ Done(Inserted(During, P[1], x, y))
     \/ Byte = "P" /\ Done(Deleted(During, P[1], x, y))

SelectGraphics ==
  /\ Command /\ Byte = "m"
  /\ Done(sgr(During, IF Given = 0 THEN << 0 >> ELSE SubSeq(P, 1, Given)))

\* r: a region that is none becomes the whole screen.
Margins(first, last) ==
  IF \/ first >= rows \/ last > rows \/ first >= last - 1
    THEN << 0, rows >> ELSE << first, last >>

SetMode ==
  /\ Command
  /\ \/ Byte = "s" /\ Done([During EXCEPT !.saved_cursor = << X(ctx), Y(ctx) >>])
     \/ /\ Byte = "r"
        /\ LET m == Margins(IF Given > 0 /\ P[1] > 0 THEN P[1] - 1 ELSE 0,
                            IF Given <= 1 THEN rows
                            ELSE IF P[2] = 0 THEN 1 ELSE P[2]) IN
           Done(set_cursor_pos([During EXCEPT !.top = m[1], !.bottom = m[2]], 0, 0))
     \/ /\ Byte \in {"h", "l"}
        /\ Done([During EXCEPT !.insert_mode =
                   IF Given > 0 /\ P[1] = 4 THEN Byte = "h" ELSE @])

Commands == {"A", "F", "B", "e", "E", "C", "a", "D", "d", "G", "backquote", "H",
             "f", "u", "M", "L", "J", "K", "X", "@", "P", "m", "s", "r", "h", "l"}
Unanswered == Command /\ Byte \notin Commands /\ Done(During)

flanterm_putchar ==
  /\ pending # << >>
  /\ \/ Cancel \/ Utf8Lead \/ Utf8Continue \/ SelectCharset \/ Control \/ Printed
     \/ osc_parse \/ escape_parse \/ Mark \/ Digit \/ Separator
     \/ dec_private_parse \/ MoveTo \/ ScrollLines \/ EditCells
     \/ SelectGraphics \/ SetMode \/ Unanswered

-----------------------------------------------------------------------------
(* The kernel *)

\* A byte that is printed where nothing is half parsed, and one that ends what
\* it does not belong to, too.
Prints(b) == /\ b \in DOMAIN Ascii
             /\ b \notin Controls \cup DOMAIN HighByte \cup {"CAN", "SUB"}
Ordinary(b) == /\ Prints(b)
               /\ b \notin Range(Digits) \cup {"[", "]", "(", ")", "?", ";"}

LastOf(text) == text[Len(text)]

\* kpanic writes ten lines.  The first one ends with "===", and the last one has
\* 66 characters.
ASSUME PanicAssumption ==
  /\ rows >= 2
  /\ PanicTexts \in Seq(Seq(DOMAIN Ascii)) /\ Len(PanicTexts) >= 2
  /\ \A l \in DOMAIN PanicTexts : \A k \in DOMAIN PanicTexts[l] : Prints(PanicTexts[l][k])
  /\ PanicTexts[1] # << >> /\ Ordinary(LastOf(PanicTexts[1]))
  /\ Len(LastOf(PanicTexts)) \in 1 .. cols

Init ==
  /\ ctx = FirstContext
  /\ framebuffer = Refreshed(FirstContext)
  /\ pending = << >> /\ report = << >>
  /\ kernel = "idle"
  /\ writes = 0

put ==
  /\ kernel = "idle" /\ writes < MaxWrites
  /\ pending' \in Messages
  /\ kernel' = "writing"
  /\ writes' = writes + 1
  /\ UNCHANGED <<ctx, framebuffer, report>>

\* crit: every line is red, and ends as it found the terminal, but for that.
Crit(text) == << "ESC", "[", "3", "1", "m" >> \o text
                \o << "ESC", "[", "0", "m", "LF" >>

\* A panic: what was being written is not gone on with.
kpanic ==
  /\ kernel \in {"idle", "writing"} /\ writes <= MaxPanic
  /\ pending' = Crit(Head(PanicTexts)) /\ report' = Tail(PanicTexts)
  /\ kernel' = "panicking"
  /\ UNCHANGED <<ctx, framebuffer, writes>>

\* The end of flanterm_write, and what the kernel goes on with.
flush ==
  /\ kernel \in {"writing", "panicking"} /\ pending = << >>
  /\ double_buffer_flush
  /\ \/ kernel = "writing" /\ kernel' = "idle" /\ UNCHANGED <<pending, report>>
     \/ /\ kernel = "panicking" /\ report # << >>
        /\ pending' = Crit(Head(report)) /\ report' = Tail(report)
        /\ UNCHANGED kernel
     \/ /\ kernel = "panicking" /\ report = << >>
        /\ kernel' = "halted" /\ UNCHANGED <<pending, report>>
  /\ UNCHANGED writes

Next == put \/ flanterm_putchar \/ flush \/ kpanic

Spec == Init /\ [][Next]_vars

-----------------------------------------------------------------------------
(* Properties *)

\* Between two bytes the context is one that flanterm_putchar counts on:
\* parameters are within their array, text may scroll, the region has two
\* lines or is the screen, at most one construct is being parsed, and the
\* cursor is on the screen or after the end of a line.  It is below the screen
\* only if text ran off it under a region, or ESC 8 brings such a cursor back.
ContextSound ==
  /\ ctx.scroll_enabled
  /\ ctx.esc_values_i + (IF ctx.rrr THEN 1 ELSE 0) <= FLANTERM_MAX_ESC_VALUES
  /\ ctx.unicode_remaining <= 3
  /\ ctx.bottom <= rows
  /\ ctx.top + 1 < ctx.bottom \/ << ctx.top, ctx.bottom >> = << 0, rows >>
  /\ ctx.control_sequence => ctx.escape /\ ~ctx.osc
  /\ ctx.osc => ctx.escape
  /\ ctx.escape => ctx.g_select = 0 /\ ~ctx.discard_next
  /\ ctx.cursor_x \in 0 .. cols
  /\ \/ ctx.cursor_y \in 0 .. rows - 1
     \/ ctx.bottom < rows \/ ctx.saved_text[4] >= rows

\* What console_codes(4) says that J, K, X, @ and P do to the text (K 1 spares
\* the cell of the cursor), where X and P are not given more than the line has.
DocumentedEdit ==
  LET at == Cursor(ctx)
      first == Y(ctx) * cols
      last == first + cols - 1
      n == P[1]
      old == Contents(ctx)
      new == Contents(ctx')
      Blanks(set) ==
        new = [i \in Cells |-> IF i \in set THEN Char(ctx, Space) ELSE old[i]] IN
  /\ << ctx'.cursor_x, ctx'.cursor_y >> = << ctx.cursor_x, ctx.cursor_y >>
  /\ Byte = "J" /\ n = 0 => Blanks(at .. rows * cols - 1)
  /\ Byte = "J" /\ n = 1 => Blanks(0 .. at)
  /\ Byte = "J" /\ n = 2 => Blanks(Cells)
  /\ Byte = "K" /\ n = 0 => Blanks(at .. last)
  /\ Byte = "K" /\ n = 1 => Blanks(first .. at - 1)
  /\ Byte = "K" /\ n = 2 => Blanks(first .. last)
  /\ Byte = "X" /\ at + n <= last + 1 => Blanks(at .. at + n - 1)
  /\ Byte = "@" /\ n > 0 =>
       new = [i \in Cells |-> IF i \notin at .. last THEN old[i]
                              ELSE IF i < at + n THEN Char(ctx, Space)
                              ELSE old[i - n]]
  /\ Byte = "P" /\ at + n <= last + 1 =>
       new = [i \in Cells |-> IF i \notin at .. last THEN old[i]
                              ELSE IF i + n <= last THEN old[i + n]
                              ELSE Char(ctx, Space)]

\* They work by printing and moving cells one by one, and do it all the same,
\* if the cursor is not after the end of its line and no region ends above the
\* screen.
EditsAsDocumented ==
  [][pending # << >> /\ EditCells /\ OnScreen(ctx.cursor_x, ctx.cursor_y)
       /\ ctx.bottom = rows => DocumentedEdit]_vars

\* A cursor in the region stays there when it goes up or down, and the lines
\* outside of the region do not change.  A goes up and B goes down, but for B
\* from the line below the region, which goes up.
KeepsToRegion ==
  [][LET In(s) == Y(s) \in s.top .. s.bottom - 1
         Vertical ==
           \/ MoveTo /\ Byte \in {"A", "F", "B", "e", "E"}
           \/ Control /\ Byte \in {"LF", "VT", "FF"}
           \/ escape_parse /\ Byte \in {"D", "E", "M"} IN
     pending # << >> /\ Vertical =>
       /\ In(ctx) => In(ctx')
       /\ \A i \in Cells : i \div cols \notin ctx.top .. ctx.bottom - 1
                             => Contents(ctx')[i] = Contents(ctx)[i]
       /\ MoveTo /\ Byte \in {"A", "F"} => Y(ctx') <= Y(ctx)
       /\ MoveTo /\ Byte \in {"B", "E", "e"} /\ Y(ctx) # ctx.bottom
            => Y(ctx') >= Y(ctx)
    ]_vars

\* The colours of the text are those that the attributes stand for ...
Meant(colour, bright, default) ==
  IF colour = None THEN {default}
  ELSE {Palette(bright, colour), Palette(TRUE, colour)}
ColoursMatch(s) ==
  LET painted == IF s.reverse_video THEN << s.text_bg, s.text_fg >>
                                    ELSE << s.text_fg, s.text_bg >> IN
  /\ painted[1] \in Meant(s.current_primary, s.bold, FgDefault(s.bold))
  /\ painted[2] \in Meant(s.current_bg, s.bg_bold, BgDefault(s.bg_bold))

\* ... and SGR keeps it so, whatever its parameters, in reverse video too:
\* but for 38 and 48, and for 1, 5, 22 and 25 in reverse video.
ColoursFollowVideo ==
  [][LET values == {P[i] : i \in 1 .. Given} IN
     pending # << >> /\ SelectGraphics =>
       /\ Given = 0 => ColoursMatch(ctx')
       /\ /\ ColoursMatch(ctx)
          /\ values \cap {38, 48} = {}
          /\ values \cap {1, 5, 22, 25} # {} => ~ctx.reverse_video /\ 7 \notin values
          => ColoursMatch(ctx')
    ]_vars

\* Whatever a panic finds half written, even half a sequence, and wherever the
\* cursor is, the last line of its report stands on the screen when the kernel has
\* halted: what ends a line has not scrolled it away or wiped it out.
PanicShown ==
  kernel = "halted" =>
    LET text == LastOf(PanicTexts) IN
    \E y \in 0 .. rows - 1 : \A k \in 1 .. Len(text) :
      framebuffer[CellOf(k - 1, y)].c = GlyphOf(text[k])
=============================================================================
