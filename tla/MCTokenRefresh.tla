---------------------------- MODULE MCTokenRefresh ----------------------------
(* Small instances of TokenRefresh for TLC. *)
EXTENDS TokenRefresh, TLC

CONSTANTS g, m, w1, w2

WorkerSymmetry == Permutations({w1, w2})
=============================================================================
