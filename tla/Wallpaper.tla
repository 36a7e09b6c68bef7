------------------------------ MODULE Wallpaper ------------------------------
(***************************************************************************)
(* The picture of firmware/wallpaper.h: the name of the board in white on  *)
(* black, one bit per pixel, 80 bytes per row from the top row down.  It   *)
(* is kept here byte by byte, as the bands of rows that its letters form   *)
(* and the bytes that have a white pixel somewhere in the band.            *)
(***************************************************************************)
EXTENDS Naturals, FiniteSets

RowBytes == 80

BlankAbove == [rows |-> 0 .. 200, ink |-> {}]

(* The stems of l and f, and the tip of p or g.                             *)
Ascenders == [rows |-> 201 .. 223, ink |-> (21 .. 22) \cup (39 .. 42) \cup (52 .. 53)]

(* The upper half of the letters, and the bar of f.                         *)
UpperBodies ==
  [rows |-> 224 .. 237, ink |-> (21 .. 22) \cup (24 .. 34) \cup (39 .. 58)]

(* The rows of the hyphen.                                                  *)
Hyphen ==
  [rows |-> 238 .. 249,
   ink |-> (21 .. 31) \cup (33 .. 40) \cup (43 .. 44) \cup (46 .. 50)
             \cup (52 .. 53) \cup (55 .. 58)]

LowerBodies ==
  [rows |-> 250 .. 280,
   ink |-> (21 .. 31) \cup (33 .. 34) \cup (39 .. 40) \cup (43 .. 59)]

(* The tails of p and g.                                                    *)
Descenders == [rows |-> 281 .. 302, ink |-> (43 .. 44) \cup (49 .. 53)]

BlankBelow == [rows |-> 303 .. 479, ink |-> {}]

Bands == {BlankAbove, Ascenders, UpperBodies, Hyphen, LowerBodies, Descenders, BlankBelow}

(* Every row belongs to one band.                                           *)
ASSUME BandsTile ==
  /\ UNION {band.rows : band \in Bands} = 0 .. 479
  /\ \A x, y \in Bands : x # y => x.rows \cap y.rows = {}

(* Byte by byte, with one pixel for each byte.                              *)
wallpaper_h ==
  [k \in 0 .. 480 * RowBytes - 1 |->
     IF \E band \in Bands : k \div RowBytes \in band.rows /\ k % RowBytes \in band.ink
     THEN {0} ELSE {}]
=============================================================================
