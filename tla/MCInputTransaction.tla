------------------------- MODULE MCInputTransaction -------------------------
(* InputTransaction for TLC: up to four bytes of text in chunks of zero   *)
(* (taken as one), two or three bytes, and an Enter of two.                *)
EXTENDS InputTransaction

MCChunkSizes == {0, 2, 3}
=============================================================================
