--------------------------- MODULE MCZestTransfer ---------------------------
(* ZestTransfer for TLC: the constants are set in the configurations. *)
EXTENDS ZestTransfer
=============================================================================
