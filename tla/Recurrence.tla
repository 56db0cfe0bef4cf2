------------------------------ MODULE Recurrence ------------------------------
(***************************************************************************)
(* A repeating event of a Microsoft account: rruleToGraph and              *)
(* graphToRrule of microsoft/rrule.ts, as createEvent and mapEvent of      *)
(* microsoft/events.ts use them.  A client writes a series, reads it, and  *)
(* makes it anew from the rule it has read (updateEvent never sends a      *)
(* recurrence); others make theirs in Outlook.                             *)
(*                                                                         *)
(* Rules and recurrences are records with a value for "absent": 0, "" or   *)
(* an empty sequence, which is what the code's tests for undefined, for 0  *)
(* and for length come to.                                                 *)
(***************************************************************************)
EXTENDS Integers, Sequences

CONSTANTS
  Intervals, Ordinals, Days, MonthDays, Months, Ends,  \* what rules are made of
  MaxCopies                                            \* bound: copies of a series

ASSUME RecurrenceConstants ==
  /\ Intervals \subseteq Nat \ {0} /\ MonthDays \subseteq Int /\ Months \subseteq Nat
  /\ Ordinals \subseteq {"", "1", "2", "3", "4", "5", "-1", "+2"}
  /\ Days \subseteq {"MO", "TU", "WE", "TH", "FR", "SA", "SU", "XX"}
  /\ Ends \subseteq [until : {<<>>} \cup (Nat \X {"midnight", "noon"}), count : Nat]
  /\ MaxCopies \in Nat

VARIABLES
  written,  \* the rule last sent, or NoRule
  sent,     \* what createEvent made of it, or NoSeries
  series,   \* the recurrence that Graph holds, or NoSeries
  shown,    \* the rule a client has read, or NoRule
  copies    \* times the series was made anew

vars == <<written, sent, series, shown, copies>>

-----------------------------------------------------------------------------
(* Rules and recurrences.  A date is a number; an UNTIL has a time of day,  *)
(* midnight or, for any other, noon.                                        *)

Freqs == {"DAILY", "WEEKLY", "MONTHLY", "YEARLY", "HOURLY"}
Types == {"daily", "weekly", "absoluteMonthly", "relativeMonthly", "absoluteYearly", "relativeYearly"}
Relative == {"relativeMonthly", "relativeYearly"}
Indexes == {"first", "second", "third", "fourth", "last"}

DayNames == [MO |-> "monday", TU |-> "tuesday", WE |-> "wednesday", TH |-> "thursday",
             FR |-> "friday", SA |-> "saturday", SU |-> "sunday"]
IndexNames == [x \in {"1", "2", "3", "4", "-1"} |->
  CASE x = "1" -> "first" [] x = "2" -> "second" [] x = "3" -> "third"
    [] x = "4" -> "fourth" [] x = "-1" -> "last"]

\* Altered form (mutation tests): a day with an unknown name is passed on.
DayNamePassed(d) == IF d \in DOMAIN DayNames THEN DayNames[d] ELSE d

\* Lookups in DAY_MAP and ORDINAL_MAP and back, with their defaults.
DayName(d) == IF d \in DOMAIN DayNames THEN DayNames[d] ELSE "monday"
IndexName(x) == IF x \in DOMAIN IndexNames THEN IndexNames[x] ELSE "first"
DayOf(name) == CHOOSE d \in DOMAIN DayNames : DayNames[d] = name
OrdinalOf(i) == CHOOSE x \in DOMAIN IndexNames : IndexNames[x] = i

NoRule   == [freq |-> "none"]
NoSeries == [type |-> "none"]
Each(byday) == [i \in DOMAIN byday |-> DayName(byday[i].day)]

Pattern(type, interval, days, dayOfMonth, month, index) ==
  [type |-> type, interval |-> interval, days |-> days, dayOfMonth |-> dayOfMonth,
   month |-> month, index |-> index]

\* The pattern of rruleToGraph.
PatternOf(rule) ==
  LET P(type, days, dayOfMonth, month, index) ==
        Pattern(type, rule.interval, days, dayOfMonth, month, index)
      single == Len(rule.byday) = 1
  IN
  CASE rule.freq = "DAILY"  -> P("daily", <<>>, 0, 0, "")
    [] rule.freq = "WEEKLY" -> P("weekly", Each(rule.byday), 0, 0, "")
    [] rule.freq = "MONTHLY" /\ rule.bymonthday # 0 ->
         P("absoluteMonthly", <<>>, rule.bymonthday, 0, "")
    [] rule.freq = "MONTHLY" /\ rule.bymonthday = 0 /\ ~single ->
         P("absoluteMonthly", <<>>, 1, 0, "")
    [] rule.freq = "MONTHLY" /\ rule.bymonthday = 0 /\ single ->
         IF rule.byday[1].ord = "" THEN P("relativeMonthly", <<>>, 0, 0, "")
         ELSE P("relativeMonthly", Each(rule.byday), 0, 0, IndexName(rule.byday[1].ord))
    [] rule.freq = "YEARLY" ->
         P(IF rule.bymonthday # 0 THEN "absoluteYearly" ELSE "relativeYearly",
           IF single THEN Each(rule.byday) ELSE <<>>, rule.bymonthday, rule.bymonth, "")
    [] rule.freq = "HOURLY" -> P("weekly", <<>>, 0, 0, "")

\* The range: UNTIL is cut down to its date and goes before COUNT.
RangeOf(rule) ==
  [type |-> IF rule.until # <<>> THEN "endDate" ELSE IF rule.count # 0 THEN "numbered" ELSE "noEnd",
   endDate |-> IF rule.until = <<>> THEN 0 ELSE rule.until[1],
   times |-> rule.count]

rruleToGraph(rule) == [pattern |-> PatternOf(rule), range |-> RangeOf(rule)]

FreqOf(type) ==
  CASE type = "daily" -> "DAILY" [] type = "weekly" -> "WEEKLY"
    [] type \in {"absoluteMonthly", "relativeMonthly"} -> "MONTHLY"
    [] type \in {"absoluteYearly", "relativeYearly"} -> "YEARLY"

Plain(days) == [i \in DOMAIN days |-> [ord |-> "", day |-> DayOf(days[i])]]

\* Altered form: the index of a relative pattern is not looked at.
ByDayPlain(p) == Plain(p.days)

\* Of the days of a relative pattern the first is shown, with its ordinal.
ByDay(p) ==
  IF p.type \in Relative /\ p.days # <<>>
  THEN <<[ord |-> OrdinalOf(p.index), day |-> DayOf(p.days[1])]>>
  ELSE Plain(p.days)

\* Altered form: UNTIL is taken for the first day without the event.
EndOfExclusive(range) ==
  [until |-> IF range.type = "endDate" THEN <<range.endDate + 1, "midnight">> ELSE <<>>,
   count |-> IF range.type = "numbered" THEN range.times ELSE 0]

EndOf(range) ==
  [until |-> IF range.type = "endDate" THEN <<range.endDate, "midnight">> ELSE <<>>,
   count |-> IF range.type = "numbered" THEN range.times ELSE 0]

RuleOf(freq, interval, byday, bymonthday, bymonth, end) ==
  [freq |-> freq, interval |-> interval, byday |-> byday, bymonthday |-> bymonthday,
   bymonth |-> bymonth, until |-> end.until, count |-> end.count]

graphToRrule(g) ==
  LET p == g.pattern IN
  RuleOf(FreqOf(p.type), p.interval, ByDay(p), p.dayOfMonth, p.month, EndOf(g.range))

-----------------------------------------------------------------------------
(* Graph: it refuses a pattern without what its type needs (400, and       *)
(* createEvent throws), leaves out what the type does not use and takes    *)
(* "first" for an index that is missing.                                   *)

Accepted(p) ==
  /\ p.type \in {"weekly"} \cup Relative => p.days # <<>>
  /\ p.type \in {"absoluteMonthly", "absoluteYearly"} => p.dayOfMonth \in 1 .. 31
  /\ p.type \in {"absoluteYearly", "relativeYearly"} => p.month \in 1 .. 12

Stored(g) ==
  LET p == g.pattern IN
  [pattern |-> Pattern(p.type, p.interval,
     IF p.type \in {"weekly"} \cup Relative THEN p.days ELSE <<>>,
     IF p.type \in {"absoluteMonthly", "absoluteYearly"} THEN p.dayOfMonth ELSE 0,
     IF p.type \in {"absoluteYearly", "relativeYearly"} THEN p.month ELSE 0,
     IF p.type \notin Relative THEN "" ELSE IF p.index = "" THEN "first" ELSE p.index),
   range |-> [g.range EXCEPT !.times = IF g.range.type = "numbered" THEN @ ELSE 0]]

UpTo2(S) == {<<>>} \cup {<<x>> : x \in S} \cup {<<x, y>> : x, y \in S}
ByDays == UpTo2([ord : Ordinals, day : Days])
Rules    == {RuleOf(f, i, d, n, m, e) :
               f \in Freqs, i \in Intervals, d \in ByDays, n \in MonthDays, m \in Months, e \in Ends}

\* Series as Outlook makes them.
OutlookDays == UpTo2({DayName(y) : y \in Days})
OutlookPatterns == {Pattern(t, i, d, n, m, x) : t \in Types, i \in Intervals, d \in OutlookDays,
                                                n \in MonthDays, m \in Months, x \in Indexes}
OutlookSeries ==
  {Stored([pattern |-> p, range |-> RangeOf(e)]) :
     e \in {d \in Ends : d.until = <<>> \/ d.count = 0}, p \in {q \in OutlookPatterns : Accepted(q)}}

Init ==
  /\ written = NoRule /\ sent = NoSeries /\ series = NoSeries /\ shown = NoRule
  /\ copies = 0

\* createEvent with a rule.
Post(rule) ==
  LET g == rruleToGraph(rule) IN
  /\ written' = rule
  /\ sent' = g
  /\ series' = IF Accepted(g.pattern) THEN Stored(g) ELSE NoSeries
  /\ shown' = NoRule

Write ==
  /\ written = NoRule /\ series = NoSeries
  /\ \E rule \in Rules : Post(rule)
  /\ UNCHANGED copies

MadeInOutlook ==
  /\ written = NoRule /\ series = NoSeries
  /\ series' \in OutlookSeries
  /\ UNCHANGED <<written, sent, shown, copies>>

\* getEvent or listEvents: mapEvent shows the rule.
Read ==
  /\ series # NoSeries
  /\ shown' = graphToRrule(series)
  /\ UNCHANGED <<written, sent, series, copies>>

\* The client makes the event anew from what it has read.
Copy ==
  /\ shown # NoRule /\ copies < MaxCopies
  /\ Post(shown)
  /\ copies' = copies + 1

Next == Write \/ MadeInOutlook \/ Read \/ Copy

Spec == Init /\ [][Next]_vars

-----------------------------------------------------------------------------
(* Properties.                                                             *)

RangeType == [type : {"noEnd", "endDate", "numbered"}, endDate : Nat, times : Nat]

\* What is sent to Graph, and so what it holds, has the form of GraphRecurrence
\* (rrule.ts:3-23), whatever names and numbers a client's rule has.
TypeOK ==
  \A g \in {sent, series} \ {NoSeries} :
    /\ g.range \in RangeType
    /\ g.pattern.type \in Types /\ g.pattern.interval \in Nat \ {0}
    /\ g.pattern.dayOfMonth \in Int /\ g.pattern.month \in Nat
    /\ g.pattern.index \in Indexes \cup {""}
    /\ \A i \in DOMAIN g.pattern.days : \E d \in DOMAIN DayNames : g.pattern.days[i] = DayNames[d]

\* The forms of a rule that docs/providers/microsoft.md:35-42 lists, but for the
\* ordinals of yearly rules, which the code does lose.
Supported(rule) ==
  LET plain == \A i \in DOMAIN rule.byday : rule.byday[i].ord = "" /\ rule.byday[i].day \in DOMAIN DayNames
  IN
  /\ rule.until = <<>> \/ rule.count = 0
  /\ \/ rule.freq = "DAILY" /\ rule.byday = <<>> /\ rule.bymonthday = 0 /\ rule.bymonth = 0
     \/ rule.freq = "WEEKLY" /\ rule.byday # <<>> /\ plain /\ rule.bymonthday = 0 /\ rule.bymonth = 0
     \/ rule.freq = "MONTHLY" /\ rule.byday = <<>> /\ rule.bymonthday \in 1 .. 31 /\ rule.bymonth = 0
     \/ /\ rule.freq = "MONTHLY" /\ Len(rule.byday) = 1 /\ rule.bymonthday = 0 /\ rule.bymonth = 0
        /\ rule.byday[1].ord \in DOMAIN IndexNames /\ rule.byday[1].day \in DOMAIN DayNames
     \/ rule.freq = "YEARLY" /\ rule.byday = <<>> /\ rule.bymonthday \in 1 .. 31 /\ rule.bymonth \in 1 .. 12

\* A rule of a supported form is accepted and comes back as it was written, but for
\* the time of day of its UNTIL, which is cut to midnight (rrule.ts:36-144).
WrittenIsShown ==
  written # NoRule /\ Supported(written) =>
    /\ series # NoSeries
    /\ shown # NoRule =>
         shown = [written EXCEPT !.until = IF @ = <<>> THEN <<>> ELSE <<@[1], "midnight">>]

\* What graphToRrule or the way back has no place for: the further days of a relative
\* pattern, and the index of a yearly one.
Narrowed(g) ==
  \/ g.pattern.type \in Relative /\ Len(g.pattern.days) > 1
  \/ g.pattern.type = "relativeYearly" /\ g.pattern.index # "first"

\* An event made anew from the rule it is shown with is the same series: always when
\* createEvent made it, from whatever rule, and else unless the conversion narrows it,
\* and even then it repeats as often and as long (rrule.ts:56-92, 119-141).  So a
\* series changes at its first copy or never, and Graph refuses no copy.
CopyKeeps ==
  [][copies' > copies =>
       /\ series' # NoSeries
       /\ series'.range = series.range /\ series'.pattern.interval = series.pattern.interval
       /\ written # NoRule \/ ~Narrowed(series) => series' = series]_vars

=============================================================================
