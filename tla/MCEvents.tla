------------------------------- MODULE MCEvents -------------------------------
(* Small instance of Events for TLC. *)
EXTENDS Events

CONSTANTS r1, r2, o

SomeBodies == {{"title", "guests", "privacy"}, {"place", "rule"}}
=============================================================================
