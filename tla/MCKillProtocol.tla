--------------------------- MODULE MCKillProtocol ---------------------------
(* KillProtocol for TLC: three descendants, and a grace period of two polls. *)
EXTENDS KillProtocol
=============================================================================
