-------------------------------- MODULE MCSync --------------------------------
(* Small instances of Sync for TLC. *)
EXTENDS Sync, TLC

CONSTANTS a, b, c1
=============================================================================
