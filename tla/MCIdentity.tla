------------------------------ MODULE MCIdentity ------------------------------
(* Small instance of Identity for TLC. *)
EXTENDS Identity, TLC

CONSTANTS r1, r2, r3, c1, c2, a, b, u, v

Symmetry == Permutations({r1, r2, r3}) \cup Permutations({c1, c2}) \cup Permutations({a, b})
            \cup Permutations({u, v})
=============================================================================
