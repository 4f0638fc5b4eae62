--------------------------- MODULE MCDetachMatcher ---------------------------
(* DetachMatcher for TLC: a chord that overlaps itself, typed byte by byte *)
(* out of its own two letters.                                             *)
EXTENDS DetachMatcher

MCBytes == {"a", "b"}
OverlappingChord == <<"a", "b", "a", "a">>
=============================================================================
