----------------------------- MODULE MCSegments -----------------------------
(***************************************************************************)
(* Segments for TLC: an int of 5 bits, and sizes below, at and above one   *)
(* segment, several segments, and what fits the int.                       *)
(***************************************************************************)
EXTENDS Segments

SizesChosen == {0, 1, 3, 4, 5, 8, 11, 15, 16, 17, 33, 38}
=============================================================================
