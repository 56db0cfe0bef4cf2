----------------------------- MODULE MCRecurrence -----------------------------
(* Small instance of Recurrence for TLC. *)
EXTENDS Recurrence

\* No end, a count, an UNTIL at noon, and both at once.
SomeEnds == {[until |-> u, count |-> c] : u \in {<<>>, <<7, "noon">>}, c \in {0, 3}}

\* Absent, a day of the month, and the last one as iCalendar counts it.
SomeMonthDays == {-1, 0, 15}
=============================================================================
