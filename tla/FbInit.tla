------------------------------- MODULE FbInit -------------------------------
(***************************************************************************)
(* flanterm_fb_init as the kernel calls it: no malloc and no canvas, the   *)
(* built-in font, no margin and no scale given.  The terminal takes a part *)
(* of the framebuffer's mode, divides it into cells, and gets its memory   *)
(* from a static pool that is never given back.  An action is one request  *)
(* to bump_alloc.                                                          *)
(***************************************************************************)
EXTENDS Integers, Sequences

VARIABLES
  mode,      \* width, height: the framebuffer's, in pixels
  address,   \* the address of bump_alloc_pool, modulo 16
  bump_alloc_ptr,
  base_offset_added,
  blocks,    \* what bump_alloc has returned: index in the pool and size asked for
  result     \* "none" before the return, then "context" or "NULL"
poolVars == << mode, address, bump_alloc_ptr, base_offset_added, blocks, result >>

-----------------------------------------------------------------------------
(* The geometry of the terminal *)

FLANTERM_FB_WIDTH_LIMIT == 1920
FLANTERM_FB_HEIGHT_LIMIT == 1200
font_width == 9        \* 8 and the spacing
font_height == 16
FLANTERM_FB_FONT_GLYPHS == 256

\* Chosen from the whole mode, before the limits.
Scale(m) ==
  IF m.width >= 5120 /\ m.height >= 2880 THEN 4
  ELSE IF m.width >= 2560 /\ m.height >= 1440 THEN 2
  ELSE 1

Limited(size, limit) == IF size > limit THEN limit ELSE size
Width(m) == Limited(m.width, FLANTERM_FB_WIDTH_LIMIT)
Height(m) == Limited(m.height, FLANTERM_FB_HEIGHT_LIMIT)

\* Where the terminal's part of the framebuffer begins.
OriginX(m) == (m.width \div 2) - (Width(m) \div 2)
OriginY(m) == (m.height \div 2) - (Height(m) \div 2)

glyph_width(m) == font_width * Scale(m)
glyph_height(m) == font_height * Scale(m)
Cols(m) == Width(m) \div glyph_width(m)
Rows(m) == Height(m) \div glyph_height(m)
offset_x(m) == (Width(m) % glyph_width(m)) \div 2
offset_y(m) == (Height(m) % glyph_height(m)) \div 2

\* The pixel (gx, gy) of the cell (x, y), in pixels of the framebuffer, and the
\* bit of the font it shows (plot_char_scaled_uncanvas and the unscaled one).
PixelX(m, x, gx) == OriginX(m) + offset_x(m) + x * glyph_width(m) + gx
PixelY(m, y, gy) == OriginY(m) + offset_y(m) + y * glyph_height(m) + gy
FontBit(m, c, gx, gy) ==
  c * font_height * font_width + (gy \div Scale(m)) * font_width + (gx \div Scale(m))

-----------------------------------------------------------------------------
(* The pool *)

FLANTERM_FB_BUMP_ALLOC_POOL_SIZE == 873000

font_bits_size == (8 * font_height * FLANTERM_FB_FONT_GLYPHS) \div 8
font_bool_size == FLANTERM_FB_FONT_GLYPHS * font_height * font_width

\* sizeof on x86-64: the context, a character, an item of the queue, a pointer.
SizeOfContext == 800
SizeOfChar == 12
SizeOfItem == 32
SizeOfPointer == 8

\* What is asked for, in order: context, font_bits, font_bool, grid, queue, map.
Allocations(m) ==
  LET cells == Rows(m) * Cols(m)
  IN << SizeOfContext, font_bits_size, font_bool_size,
        cells * SizeOfChar, cells * SizeOfItem, cells * SizeOfPointer >>

Rounded(s) == IF s % 16 # 0 THEN ((s + 16) \div 16) * 16 ELSE s

\* The first call aligns the pool.
BlockStart ==
  IF base_offset_added \/ address = 0 THEN bump_alloc_ptr
  ELSE bump_alloc_ptr + (16 - address)

\* The size of the next request.
Wanted == Allocations(mode)[Len(blocks) + 1]
Fits == BlockStart + Rounded(Wanted) <= FLANTERM_FB_BUMP_ALLOC_POOL_SIZE

-----------------------------------------------------------------------------
InitPool ==
  /\ mode \in [width : Nat, height : Nat]
  /\ address \in 0 .. 15
  /\ bump_alloc_ptr = 0
  /\ base_offset_added = FALSE
  /\ blocks = << >>
  /\ result = "none"

Alloc ==
  /\ result = "none" /\ Len(blocks) < 6 /\ Fits
  /\ blocks' = Append(blocks, [at |-> BlockStart, size |-> Wanted])
  /\ bump_alloc_ptr' = BlockStart + Rounded(Wanted)
  /\ base_offset_added' = TRUE
  /\ UNCHANGED << mode, address, result >>

\* fail: what was taken is given back, unless not even the context was.
Fail ==
  /\ result = "none" /\ Len(blocks) < 6 /\ ~Fits
  /\ result' = "NULL"
  /\ bump_alloc_ptr' = IF blocks = << >> THEN BlockStart ELSE 0
  /\ base_offset_added' = TRUE
  /\ UNCHANGED << mode, address, blocks >>

ReturnContext ==
  /\ result = "none" /\ Len(blocks) = 6
  /\ result' = "context"
  /\ UNCHANGED << mode, address, bump_alloc_ptr, base_offset_added, blocks >>

PoolStep == Alloc \/ Fail \/ ReturnContext
PoolSpec == InitPool /\ [][PoolStep]_poolVars

-----------------------------------------------------------------------------
\* The pool is large enough for the terminal of every mode: the limits on its
\* size were chosen for the pool, and whoever changes the font, a structure or
\* a limit has to look again.
NeverFails == result # "NULL"

\* The six blocks are aligned to 16 bytes, lie in the pool and share no byte.
BlocksSound ==
  /\ \A i \in DOMAIN blocks :
       /\ (address + blocks[i].at) % 16 = 0
       /\ 0 <= blocks[i].at
       /\ blocks[i].at + blocks[i].size <= FLANTERM_FB_BUMP_ALLOC_POOL_SIZE
  /\ \A i, j \in DOMAIN blocks :
       i < j => blocks[i].at + blocks[i].size <= blocks[j].at
=============================================================================
