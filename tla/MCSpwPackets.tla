---------------------------- MODULE MCSpwPackets ----------------------------
(* SpwPackets for TLC: the constants are set in the configurations. *)
EXTENDS SpwPackets
=============================================================================
