---------------------------- MODULE MCPtyProcess ----------------------------
(***************************************************************************)
(* PtyProcess for TLC: four reads of one or two bytes overflow a queue of  *)
(* one frame before, while and after the consumer takes from it; one       *)
(* termination may fail and be retried.                                    *)
(***************************************************************************)
EXTENDS PtyProcess

MCChunkSizes == {1, 2}
=============================================================================
