----------------------------- MODULE BootScreen -----------------------------
(***************************************************************************)
(* init_fb of firmware/dev.c: the frame buffer is filled with the          *)
(* background and the bitmap drawn on it, row by row.  The display shows   *)
(* the first WIDTH of the STRIDE words of each of its ROWS rows.           *)
(***************************************************************************)
EXTENDS Integers

(* A picture and what it is drawn on: rows of the picture and of the display *)
(* (480), bytes of its row (80), pixels of a byte (8), words from a row of   *)
(* the frame buffer to the next (1024), words the frame buffer has room for  *)
(* (FB_SIZE / 4), and for each byte its bits that are one, 0 the lowest.     *)
CONSTANT Bitmap

ASSUME ScreenAssumption ==
  \A p \in DOMAIN Bitmap :
    LET b == Bitmap[p]
    IN /\ b.rows \in Nat /\ b.bytes \in Nat /\ b.bits \in Nat
       /\ b.stride \in Nat /\ b.words \in Nat
       /\ b.bytes * b.bits <= b.stride
       /\ b.stride * b.rows <= b.words
       /\ b.wallpaper \in [0 .. b.rows * b.bytes - 1 -> SUBSET (0 .. b.bits - 1)]

VARIABLES picture,    \* which of the bitmaps is compiled in
          filled,     \* words that the first loop has written
          row,        \* the row that is drawn next
          white       \* words that hold the foreground colour

screenVars == <<picture, filled, row, white>>

ROWS == Bitmap[picture].rows
BYTES == Bitmap[picture].bytes
BITS == Bitmap[picture].bits
STRIDE == Bitmap[picture].stride
WORDS == Bitmap[picture].words
wallpaper == Bitmap[picture].wallpaper

ScreenInit(p) == picture = p /\ filled = 0 /\ row = 0 /\ white = {}

(* The first loop, for (i = 0; i < 1024 * 480; i++).                        *)
Fill ==
  /\ filled = 0
  /\ filled' = STRIDE * ROWS
  /\ UNCHANGED <<picture, row, white>>

fb_base == row * STRIDE
byte_base == row * BYTES

(* The highest bit of a byte is its leftmost pixel.                         *)
pixel(b, bit) == BITS - 1 - bit \in wallpaper[byte_base + b]

(* The bytes of the row, each with its bits that are one.                   *)
Lit == {p \in (0 .. BYTES - 1) \X (0 .. BITS - 1) : pixel(p[1], p[2])}

DrawRow_Tight ==  \* wrong: rows of the frame buffer as long as the picture's
  /\ filled > 0 /\ row < ROWS
  /\ white' = white \cup
       {row * BYTES * BITS + p[1] * BITS + p[2] : p \in Lit}
  /\ row' = row + 1
  /\ UNCHANGED <<picture, filled>>

(* One round of the outer loop: every pixel of the row is stored, white or  *)
(* background.                                                              *)
DrawRow ==
  /\ filled > 0 /\ row < ROWS
  /\ white' = (white \ (fb_base .. fb_base + BYTES * BITS - 1))
       \cup {fb_base + p[1] * BITS + p[2] : p \in Lit}
  /\ row' = row + 1
  /\ UNCHANGED <<picture, filled>>

Drawn == row = ROWS

ScreenNext == Fill \/ DrawRow

ScreenSpec == (\E p \in DOMAIN Bitmap : ScreenInit(p)) /\ [][ScreenNext]_screenVars

-----------------------------------------------------------------------------
ScreenTypeOK ==
  /\ picture \in DOMAIN Bitmap
  /\ filled \in {0, STRIDE * ROWS}
  /\ row \in 0 .. ROWS
  /\ white \subseteq 0 .. STRIDE * ROWS - 1

WIDTH == BYTES * BITS

(* Has row r of the picture a white pixel in column c?                      *)
Ink(r, c) ==
  \E b \in 0 .. BYTES - 1 : \E bit \in 0 .. BITS - 1 :
    c = b * BITS + bit /\ BITS - 1 - bit \in wallpaper[r * BYTES + b]

(* What has been drawn is the picture, pixel by pixel, and nothing else is  *)
(* white; no store leaves the frame buffer (FB_SIZE).                       *)
ShowsPicture ==
  /\ filled <= WORDS /\ white \subseteq 0 .. filled - 1
  /\ \A r \in 0 .. ROWS - 1 : \A c \in 0 .. STRIDE - 1 :
       r * STRIDE + c \in white <=> (r < row /\ Ink(r, c))
=============================================================================
