---------------------------- MODULE MCIdempotency ----------------------------
(* Small instances of Idempotency for TLC. *)
EXTENDS Idempotency, TLC

CONSTANTS k1, k2, r1, r2, r3, r4

RequestSymmetry == Permutations({r1, r2, r3, r4})

=============================================================================
