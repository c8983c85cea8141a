--------------------------- MODULE MCBackchannel ---------------------------
(* Small instances of Backchannel for TLC. *)
EXTENDS Backchannel, TLC
=============================================================================
