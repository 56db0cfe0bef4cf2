--------------------------- MODULE RecurrenceProofs ---------------------------
(***************************************************************************)
(* Theorems about Recurrence, for rules of any interval, day, month, end   *)
(* and number of days, any series made in Outlook and any number of        *)
(* copies: its types, that a supported rule comes back as it was written,  *)
(* and what a copy keeps.                                                  *)
(*                                                                         *)
(* The conversions are taken apart into what each says of one form of      *)
(* rule or pattern; there and back is then a chain of equalities for each  *)
(* form, and the invariant says only which rule a series was made of.      *)
(***************************************************************************)
EXTENDS Recurrence, SequenceTheorems, TLAPS

-----------------------------------------------------------------------------
(* Names of days and ordinals, there and back *)

Codes   == {"MO", "TU", "WE", "TH", "FR", "SA", "SU"}
Names   == {"monday", "tuesday", "wednesday", "thursday", "friday", "saturday", "sunday"}
Entries == [ord : {"", "1", "2", "3", "4", "5", "-1", "+2"}, day : Codes \cup {"XX"}]
Untils  == {<<>>} \cup (Nat \X {"midnight", "noon"})
RulesOK == [freq : Freqs, interval : Nat \ {0}, byday : Seq(Entries), bymonthday : Int, bymonth : Nat,
            until : Untils, count : Nat]

LEMMA DayNamesAre ==
  /\ DOMAIN DayNames = Codes
  /\ \A d \in Codes : DayNames[d] \in Names
  /\ \A n \in Names : \E d \in Codes : DayNames[d] = n
  /\ \A c, d \in Codes : DayNames[c] = DayNames[d] => c = d
BY DEF DayNames, Codes, Names

LEMMA DaysAndNames ==
  /\ \A d : DayName(d) \in Names
  /\ \A n \in Names : DayOf(n) \in Codes /\ DayName(DayOf(n)) = n
  /\ \A d \in Codes : DayOf(DayName(d)) = d
<1>1. \A d : DayName(d) \in Names
  BY DayNamesAre DEF DayName, Names
<1>2. \A n \in Names : DayOf(n) \in Codes /\ DayNames[DayOf(n)] = n
  BY DayNamesAre DEF DayOf
<1>3. \A n \in Names : DayName(DayOf(n)) = n
  BY <1>2, DayNamesAre DEF DayName
<1>4. \A d \in Codes : DayOf(DayName(d)) = d
  BY <1>2, DayNamesAre DEF DayName
<1> QED BY <1>1, <1>2, <1>3, <1>4

LEMMA IndexNamesAre ==
  /\ DOMAIN IndexNames = {"1", "2", "3", "4", "-1"}
  /\ \A x \in DOMAIN IndexNames : IndexNames[x] \in Indexes
  /\ \A i \in Indexes : \E x \in DOMAIN IndexNames : IndexNames[x] = i
  /\ \A x, y \in DOMAIN IndexNames : IndexNames[x] = IndexNames[y] => x = y
BY DEF IndexNames, Indexes

LEMMA IndexesAndOrdinals ==
  /\ \A x : IndexName(x) \in Indexes
  /\ \A i \in Indexes : OrdinalOf(i) \in DOMAIN IndexNames /\ IndexName(OrdinalOf(i)) = i
  /\ \A x \in DOMAIN IndexNames : OrdinalOf(IndexName(x)) = x
<1>1. \A x : IndexName(x) \in Indexes
  BY IndexNamesAre DEF IndexName, Indexes
<1>2. \A i \in Indexes : OrdinalOf(i) \in DOMAIN IndexNames /\ IndexNames[OrdinalOf(i)] = i
  BY IndexNamesAre DEF OrdinalOf
<1>3. \A i \in Indexes : IndexName(OrdinalOf(i)) = i
  BY <1>2 DEF IndexName
<1>4. \A x \in DOMAIN IndexNames : OrdinalOf(IndexName(x)) = x
  BY <1>2, IndexNamesAre DEF IndexName
<1> QED BY <1>1, <1>2, <1>3, <1>4

\* Sequences of days, there and back.
LEMMA EachIs ==
  ASSUME NEW byday \in Seq(Entries)
  PROVE  /\ Each(byday) \in Seq(Names) /\ Len(Each(byday)) = Len(byday)
         /\ \A i \in 1 .. Len(byday) : Each(byday)[i] = DayName(byday[i].day)
<1>1. Len(byday) \in Nat /\ DOMAIN byday = 1 .. Len(byday)
  BY LenProperties
<1>2. Each(byday) = [i \in 1 .. Len(byday) |-> DayName(byday[i].day)]
  BY <1>1 DEF Each
<1>3. \A i \in 1 .. Len(byday) : DayName(byday[i].day) \in Names
  BY DaysAndNames
<1> QED BY <1>1, <1>2, <1>3

LEMMA PlainIs ==
  ASSUME NEW days \in Seq(Names)
  PROVE  /\ Plain(days) \in Seq(Entries) /\ Len(Plain(days)) = Len(days)
         /\ \A i \in 1 .. Len(days) : Plain(days)[i] = [ord |-> "", day |-> DayOf(days[i])]
<1>1. Len(days) \in Nat /\ DOMAIN days = 1 .. Len(days)
  BY LenProperties
<1>2. Plain(days) = [i \in 1 .. Len(days) |-> [ord |-> "", day |-> DayOf(days[i])]]
  BY <1>1 DEF Plain
<1>3. \A i \in 1 .. Len(days) : [ord |-> "", day |-> DayOf(days[i])] \in Entries
  BY <1>1, DaysAndNames DEF Entries
<1>4. /\ Plain(days) \in [1 .. Len(days) -> Entries]
      /\ \A i \in 1 .. Len(days) : Plain(days)[i] = [ord |-> "", day |-> DayOf(days[i])]
  BY <1>2, <1>3
<1>5. Plain(days) \in Seq(Entries) /\ Len(Plain(days)) = Len(days)
  <2>1. \A S : \A n \in Nat : \A f \in [1 .. n -> S] : f \in Seq(S) /\ Len(f) = n
    OBVIOUS
  <2> QED BY <1>1, <1>4, <2>1
<1> QED BY <1>4, <1>5

LEMMA OneEntry ==
  \A S : \A s \in Seq(S) : Len(s) = 1 => s = <<s[1]>> /\ s[1] \in S
<1> TAKE S
<1> TAKE s \in Seq(S)
<1> HAVE Len(s) = 1
<1>1. s[1] \in S
  BY ElementOfSeq
<1>2. <<s[1]>> \in Seq(S) /\ Len(<<s[1]>>) = 1 /\ \A i \in 1 .. 1 : s[i] = <<s[1]>>[i]
  BY <1>1
<1> QED BY <1>1, <1>2, SeqEqual

LEMMA NoEntry ==
  /\ \A S : <<>> \in Seq(S)
  /\ \A x, y : <<x, y>> # <<>>
  /\ \A x : <<x>> # <<>> /\ Len(<<x>>) = 1
  /\ Len(<<>>) = 0
  /\ Each(<<>>) = <<>> /\ Plain(<<>>) = <<>>
  /\ \A e : Each(<<e>>) = <<DayName(e.day)>>
<1>1. Each(<<>>) = <<>>
  BY DEF Each
<1>2. Plain(<<>>) = <<>>
  BY DEF Plain
<1>3. \A e : Each(<<e>>) = <<DayName(e.day)>>
  BY DEF Each
<1> QED BY <1>1, <1>2, <1>3

-----------------------------------------------------------------------------
(* What is sent and what Graph holds *)

PatternsOK == [type : Types, interval : Nat \ {0}, days : Seq(Names), dayOfMonth : Int, month : Nat,
               index : Indexes \cup {""}]
Ranged(type, endDate, times) == [type |-> type, endDate |-> endDate, times |-> times]

\* What Graph holds has what its type uses and nothing else.
HeldPattern(p) ==
  LET D == Seq(Names) \ {<<>>} IN
  \E i \in Nat \ {0} :
    \/ p = Pattern("daily", i, <<>>, 0, 0, "")
    \/ \E d \in D : p = Pattern("weekly", i, d, 0, 0, "")
    \/ \E n \in 1 .. 31 : p = Pattern("absoluteMonthly", i, <<>>, n, 0, "")
    \/ \E d \in D, x \in Indexes : p = Pattern("relativeMonthly", i, d, 0, 0, x)
    \/ \E n \in 1 .. 31, m \in 1 .. 12 : p = Pattern("absoluteYearly", i, <<>>, n, m, "")
    \/ \E d \in D, m \in 1 .. 12, x \in Indexes : p = Pattern("relativeYearly", i, d, 0, m, x)
HeldRanges ==
  {Ranged("noEnd", 0, 0)} \cup {Ranged("endDate", n, 0) : n \in Nat}
  \cup {Ranged("numbered", 0, n) : n \in Nat \ {0}}
Held(g) ==
  g = [pattern |-> g.pattern, range |-> g.range] /\ HeldPattern(g.pattern) /\ g.range \in HeldRanges

Kept(range) == [range EXCEPT !.times = IF range.type = "numbered" THEN @ ELSE 0]

\* The range of a rule, as it is sent and as it is held.
LEMMA RangeIs ==
  ASSUME NEW e, e.until \in Untils, e.count \in Nat
  PROVE  RangeOf(e) \in RangeType /\ Kept(RangeOf(e)) \in HeldRanges
<1>1. CASE e.until # <<>>
  <2>1. e.until[1] \in Nat
    BY <1>1 DEF Untils
  <2>2. RangeOf(e) = Ranged("endDate", e.until[1], e.count)
    BY <1>1 DEF RangeOf, Ranged
  <2>3. Kept(RangeOf(e)) = Ranged("endDate", e.until[1], 0)
    BY <2>2 DEF Kept, Ranged
  <2> QED BY <2>1, <2>2, <2>3 DEF RangeType, HeldRanges, Ranged
<1>2. CASE e.until = <<>> /\ e.count # 0
  <2>1. RangeOf(e) = Ranged("numbered", 0, e.count)
    BY <1>2 DEF RangeOf, Ranged
  <2>2. Kept(RangeOf(e)) = Ranged("numbered", 0, e.count)
    BY <2>1 DEF Kept, Ranged
  <2> QED BY <1>2, <2>1, <2>2 DEF RangeType, HeldRanges, Ranged
<1>3. CASE e.until = <<>> /\ e.count = 0
  <2>1. RangeOf(e) = Ranged("noEnd", 0, 0)
    BY <1>3 DEF RangeOf, Ranged
  <2>2. Kept(RangeOf(e)) = Ranged("noEnd", 0, 0)
    BY <2>1 DEF Kept, Ranged
  <2> QED BY <2>1, <2>2 DEF RangeType, HeldRanges, Ranged
<1> QED BY <1>1, <1>2, <1>3

\* The pattern of any rule has the form of GraphRecurrence.
LEMMA PatternIs ==
  ASSUME NEW rule \in RulesOK
  PROVE  PatternOf(rule) \in PatternsOK
<1>1. /\ rule.interval \in Nat \ {0} /\ rule.byday \in Seq(Entries) /\ rule.bymonthday \in Int
      /\ rule.bymonth \in Nat /\ rule.freq \in Freqs
  BY DEF RulesOK
<1>2. Each(rule.byday) \in Seq(Names) /\ <<>> \in Seq(Names)
  BY <1>1, EachIs
<1>3. \A type \in Types, days \in Seq(Names), n \in Int, m \in Nat, x \in Indexes \cup {""} :
        Pattern(type, rule.interval, days, n, m, x) \in PatternsOK
  BY <1>1 DEF Pattern, PatternsOK
<1>4. \A x : IndexName(x) \in Indexes
  BY IndexesAndOrdinals
<1>5. \A type \in Types, days \in Seq(Names), x \in Indexes \cup {""} :
        /\ Pattern(type, rule.interval, days, 0, 0, x) \in PatternsOK
        /\ Pattern(type, rule.interval, days, 1, 0, x) \in PatternsOK
  <2>1. 0 \in Int /\ 0 \in Nat /\ 1 \in Int
    OBVIOUS
  <2> QED BY <1>3, <2>1
<1>6. CASE rule.freq = "DAILY"
  <2>1. PatternOf(rule) = Pattern("daily", rule.interval, <<>>, 0, 0, "")
    BY <1>6 DEF PatternOf
  <2> QED BY <1>2, <1>5, <2>1 DEF Types
<1>7. CASE rule.freq = "WEEKLY"
  <2>1. PatternOf(rule) = Pattern("weekly", rule.interval, Each(rule.byday), 0, 0, "")
    BY <1>7 DEF PatternOf
  <2> QED BY <1>2, <1>5, <2>1 DEF Types
<1>8. CASE rule.freq = "MONTHLY" /\ rule.bymonthday # 0
  <2>1. PatternOf(rule) = Pattern("absoluteMonthly", rule.interval, <<>>, rule.bymonthday, 0, "")
    BY <1>8 DEF PatternOf
  <2> QED BY <1>1, <1>2, <1>3, <2>1 DEF Types
<1>9. CASE rule.freq = "MONTHLY" /\ rule.bymonthday = 0 /\ Len(rule.byday) # 1
  <2>1. PatternOf(rule) = Pattern("absoluteMonthly", rule.interval, <<>>, 1, 0, "")
    BY <1>9 DEF PatternOf
  <2> QED BY <1>2, <1>5, <2>1 DEF Types
<1>10. CASE rule.freq = "MONTHLY" /\ rule.bymonthday = 0 /\ Len(rule.byday) = 1
  <2>1. PatternOf(rule) =
          IF rule.byday[1].ord = "" THEN Pattern("relativeMonthly", rule.interval, <<>>, 0, 0, "")
          ELSE Pattern("relativeMonthly", rule.interval, Each(rule.byday), 0, 0, IndexName(rule.byday[1].ord))
    BY <1>10 DEF PatternOf
  <2> QED BY <1>2, <1>4, <1>5, <2>1 DEF Types
<1>11. CASE rule.freq = "YEARLY"
  <2>1. PatternOf(rule) =
          Pattern(IF rule.bymonthday # 0 THEN "absoluteYearly" ELSE "relativeYearly", rule.interval,
                  IF Len(rule.byday) = 1 THEN Each(rule.byday) ELSE <<>>, rule.bymonthday, rule.bymonth, "")
    BY <1>11 DEF PatternOf
  <2> QED BY <1>1, <1>2, <1>3, <2>1 DEF Types
<1>12. CASE rule.freq = "HOURLY"
  <2>1. PatternOf(rule) = Pattern("weekly", rule.interval, <<>>, 0, 0, "")
    BY <1>12 DEF PatternOf
  <2> QED BY <1>2, <1>5, <2>1 DEF Types
<1> QED BY <1>1, <1>6, <1>7, <1>8, <1>9, <1>10, <1>11, <1>12 DEF Freqs

\* Graph holds what it accepts in its normal form.
LEMMA StoredIs ==
  ASSUME NEW p \in PatternsOK, Accepted(p), NEW e, e.until \in Untils, e.count \in Nat
  PROVE  /\ Held(Stored([pattern |-> p, range |-> RangeOf(e)]))
         /\ Stored([pattern |-> p, range |-> RangeOf(e)]).range = Kept(RangeOf(e))
<1> DEFINE g == [pattern |-> p, range |-> RangeOf(e)]
<1>1. /\ p.type \in Types /\ p.interval \in Nat \ {0} /\ p.days \in Seq(Names) /\ p.dayOfMonth \in Int
      /\ p.month \in Nat /\ p.index \in Indexes \cup {""}
  BY DEF PatternsOK
<1>2. Stored(g).range = Kept(RangeOf(e)) /\ Stored(g) = [pattern |-> Stored(g).pattern, range |-> Stored(g).range]
  BY DEF Stored, Kept
<1>3. "first" \in Indexes /\ "" \notin Indexes
  BY DEF Indexes
<1>4. HeldPattern(Stored(g).pattern)
  <2>1. CASE p.type = "daily"
    <3>1. Stored(g).pattern = Pattern("daily", p.interval, <<>>, 0, 0, "")
      BY <2>1 DEF Stored, Relative
    <3> QED BY <1>1, <3>1 DEF HeldPattern
  <2>2. CASE p.type = "weekly"
    <3>1. Stored(g).pattern = Pattern("weekly", p.interval, p.days, 0, 0, "") /\ p.days # <<>>
      BY <2>2 DEF Stored, Accepted, Relative
    <3> QED BY <1>1, <3>1 DEF HeldPattern
  <2>3. CASE p.type = "absoluteMonthly"
    <3>1. Stored(g).pattern = Pattern("absoluteMonthly", p.interval, <<>>, p.dayOfMonth, 0, "")
          /\ p.dayOfMonth \in 1 .. 31
      BY <2>3 DEF Stored, Accepted, Relative
    <3> QED BY <1>1, <3>1 DEF HeldPattern
  <2>4. CASE p.type = "relativeMonthly"
    <3>1. PICK x \in Indexes : x = IF p.index = "" THEN "first" ELSE p.index
      BY <1>1, <1>3
    <3>2. Stored(g).pattern = Pattern("relativeMonthly", p.interval, p.days, 0, 0, x) /\ p.days # <<>>
      BY <2>4, <3>1 DEF Stored, Accepted, Relative
    <3> QED BY <1>1, <3>2 DEF HeldPattern
  <2>5. CASE p.type = "absoluteYearly"
    <3>1. Stored(g).pattern = Pattern("absoluteYearly", p.interval, <<>>, p.dayOfMonth, p.month, "")
          /\ p.dayOfMonth \in 1 .. 31 /\ p.month \in 1 .. 12
      BY <2>5 DEF Stored, Accepted, Relative
    <3> QED BY <1>1, <3>1 DEF HeldPattern
  <2>6. CASE p.type = "relativeYearly"
    <3>1. PICK x \in Indexes : x = IF p.index = "" THEN "first" ELSE p.index
      BY <1>1, <1>3
    <3>2. Stored(g).pattern = Pattern("relativeYearly", p.interval, p.days, 0, p.month, x)
          /\ p.days # <<>> /\ p.month \in 1 .. 12
      BY <2>6, <3>1 DEF Stored, Accepted, Relative
    <3> QED BY <1>1, <3>2 DEF HeldPattern
  <2> QED BY <1>1, <2>1, <2>2, <2>3, <2>4, <2>5, <2>6 DEF Types
<1> QED BY <1>2, <1>4, RangeIs DEF Held

-----------------------------------------------------------------------------
(* A series made anew *)

\* The parts of what is made of a pattern and a rule.
LEMMA PartsOfRule ==
  \A f, i, b, n, m, e :
    /\ RuleOf(f, i, b, n, m, e).freq = f /\ RuleOf(f, i, b, n, m, e).interval = i
    /\ RuleOf(f, i, b, n, m, e).byday = b /\ RuleOf(f, i, b, n, m, e).bymonthday = n
    /\ RuleOf(f, i, b, n, m, e).bymonth = m
    /\ RuleOf(f, i, b, n, m, e).until = e.until /\ RuleOf(f, i, b, n, m, e).count = e.count
BY DEF RuleOf

LEMMA RangeOfRule ==
  \A f, i, b, n, m, e : RangeOf(RuleOf(f, i, b, n, m, e)) = RangeOf(e)
BY DEF RuleOf, RangeOf

LEMMA PartsOfPattern ==
  \A t, i, d, n, m, x :
    /\ Pattern(t, i, d, n, m, x).type = t /\ Pattern(t, i, d, n, m, x).interval = i
    /\ Pattern(t, i, d, n, m, x).days = d /\ Pattern(t, i, d, n, m, x).dayOfMonth = n
    /\ Pattern(t, i, d, n, m, x).month = m /\ Pattern(t, i, d, n, m, x).index = x
BY DEF Pattern

\* What Graph makes of a pattern, by its parts.
LEMMA StoredParts ==
  \A p, range :
    /\ Stored([pattern |-> p, range |-> range]).range = Kept(range)
    /\ Stored([pattern |-> p, range |-> range]).pattern =
         Pattern(p.type, p.interval,
                 IF p.type \in {"weekly"} \cup Relative THEN p.days ELSE <<>>,
                 IF p.type \in {"absoluteMonthly", "absoluteYearly"} THEN p.dayOfMonth ELSE 0,
                 IF p.type \in {"absoluteYearly", "relativeYearly"} THEN p.month ELSE 0,
                 IF p.type \notin Relative THEN "" ELSE IF p.index = "" THEN "first" ELSE p.index)
    /\ Stored([pattern |-> p, range |-> range])
         = [pattern |-> Stored([pattern |-> p, range |-> range]).pattern, range |-> Kept(range)]
BY DEF Stored, Kept

\* The FREQ of each type of pattern.
LEMMA FreqsOfTypes ==
  /\ FreqOf("daily") = "DAILY" /\ FreqOf("weekly") = "WEEKLY"
  /\ FreqOf("absoluteMonthly") = "MONTHLY" /\ FreqOf("relativeMonthly") = "MONTHLY"
  /\ FreqOf("absoluteYearly") = "YEARLY" /\ FreqOf("relativeYearly") = "YEARLY"
BY DEF FreqOf

\* rruleToGraph, case by case.
LEMMA PatternCases ==
  \A rule :
    /\ rule.freq = "DAILY" => PatternOf(rule) = Pattern("daily", rule.interval, <<>>, 0, 0, "")
    /\ rule.freq = "WEEKLY" =>
         PatternOf(rule) = Pattern("weekly", rule.interval, Each(rule.byday), 0, 0, "")
    /\ rule.freq = "MONTHLY" /\ rule.bymonthday # 0 =>
         PatternOf(rule) = Pattern("absoluteMonthly", rule.interval, <<>>, rule.bymonthday, 0, "")
    /\ rule.freq = "MONTHLY" /\ rule.bymonthday = 0 /\ Len(rule.byday) = 1 /\ rule.byday[1].ord # "" =>
         PatternOf(rule) = Pattern("relativeMonthly", rule.interval, Each(rule.byday), 0, 0,
                                   IndexName(rule.byday[1].ord))
    /\ rule.freq = "YEARLY" /\ rule.bymonthday # 0 /\ Len(rule.byday) # 1 =>
         PatternOf(rule) = Pattern("absoluteYearly", rule.interval, <<>>, rule.bymonthday, rule.bymonth, "")
    /\ rule.freq = "YEARLY" /\ rule.bymonthday = 0 /\ Len(rule.byday) = 1 =>
         PatternOf(rule) = Pattern("relativeYearly", rule.interval, Each(rule.byday), 0, rule.bymonth, "")
<1> TAKE rule
<1>1. rule.freq = "DAILY" => PatternOf(rule) = Pattern("daily", rule.interval, <<>>, 0, 0, "")
  BY DEF PatternOf
<1>2. rule.freq = "WEEKLY" =>
        PatternOf(rule) = Pattern("weekly", rule.interval, Each(rule.byday), 0, 0, "")
  BY DEF PatternOf
<1>3. rule.freq = "MONTHLY" /\ rule.bymonthday # 0 =>
        PatternOf(rule) = Pattern("absoluteMonthly", rule.interval, <<>>, rule.bymonthday, 0, "")
  BY DEF PatternOf
<1>4. rule.freq = "MONTHLY" /\ rule.bymonthday = 0 /\ Len(rule.byday) = 1 /\ rule.byday[1].ord # "" =>
        PatternOf(rule) = Pattern("relativeMonthly", rule.interval, Each(rule.byday), 0, 0,
                                  IndexName(rule.byday[1].ord))
  BY DEF PatternOf
<1>5. rule.freq = "YEARLY" /\ rule.bymonthday # 0 /\ Len(rule.byday) # 1 =>
        PatternOf(rule) = Pattern("absoluteYearly", rule.interval, <<>>, rule.bymonthday, rule.bymonth, "")
  BY DEF PatternOf
<1>6. rule.freq = "YEARLY" /\ rule.bymonthday = 0 /\ Len(rule.byday) = 1 =>
        PatternOf(rule) = Pattern("relativeYearly", rule.interval, Each(rule.byday), 0, rule.bymonth, "")
  BY DEF PatternOf
<1> QED BY <1>1, <1>2, <1>3, <1>4, <1>5, <1>6

\* What Graph holds it would accept again and keep as it is.
LEMMA HeldIsKept ==
  ASSUME NEW p, HeldPattern(p)
  PROVE  Accepted(p) /\ \A range : Stored([pattern |-> p, range |-> range]).pattern = p
<1>1. PICK i \in Nat \ {0} :
        \/ p = Pattern("daily", i, <<>>, 0, 0, "")
        \/ \E d \in Seq(Names) \ {<<>>} : p = Pattern("weekly", i, d, 0, 0, "")
        \/ \E n \in 1 .. 31 : p = Pattern("absoluteMonthly", i, <<>>, n, 0, "")
        \/ \E d \in Seq(Names) \ {<<>>}, x \in Indexes : p = Pattern("relativeMonthly", i, d, 0, 0, x)
        \/ \E n \in 1 .. 31, m \in 1 .. 12 : p = Pattern("absoluteYearly", i, <<>>, n, m, "")
        \/ \E d \in Seq(Names) \ {<<>>}, m \in 1 .. 12, x \in Indexes :
             p = Pattern("relativeYearly", i, d, 0, m, x)
  BY DEF HeldPattern
<1>2. PICK t, d, n, m, x :
        /\ p = Pattern(t, i, d, n, m, x)
        /\ t \in Types
        /\ IF t \in {"weekly"} \cup Relative THEN d # <<>> ELSE d = <<>>
        /\ IF t \in {"absoluteMonthly", "absoluteYearly"} THEN n \in 1 .. 31 ELSE n = 0
        /\ IF t \in {"absoluteYearly", "relativeYearly"} THEN m \in 1 .. 12 ELSE m = 0
        /\ IF t \in Relative THEN x # "" ELSE x = ""
  BY <1>1 DEF Types, Relative, Indexes
<1>3. /\ p.type = t /\ p.interval = i /\ p.days = d /\ p.dayOfMonth = n /\ p.month = m /\ p.index = x
  <2>1. p = Pattern(t, i, d, n, m, x)
    BY <1>2
  <2> QED BY <2>1 DEF Pattern
<1>4. Accepted(p)
  BY <1>2, <1>3 DEF Accepted
<1>5. ASSUME NEW range
      PROVE  Stored([pattern |-> p, range |-> range]).pattern = p
  <2>1. Stored([pattern |-> p, range |-> range]).pattern =
         Pattern(t, i, IF t \in {"weekly"} \cup Relative THEN d ELSE <<>>,
                 IF t \in {"absoluteMonthly", "absoluteYearly"} THEN n ELSE 0,
                 IF t \in {"absoluteYearly", "relativeYearly"} THEN m ELSE 0,
                 IF t \notin Relative THEN "" ELSE IF x = "" THEN "first" ELSE x)
    BY <1>3, StoredParts
  <2>2. /\ (IF t \in {"weekly"} \cup Relative THEN d ELSE <<>>) = d
        /\ (IF t \in {"absoluteMonthly", "absoluteYearly"} THEN n ELSE 0) = n
        /\ (IF t \in {"absoluteYearly", "relativeYearly"} THEN m ELSE 0) = m
        /\ (IF t \notin Relative THEN "" ELSE IF x = "" THEN "first" ELSE x) = x
    BY <1>2
  <2> QED BY <1>2, <2>1, <2>2
<1> QED BY <1>4, <1>5

\* The end of a series comes back.
LEMMA RangeComesBack ==
  ASSUME NEW range \in HeldRanges
  PROVE  /\ EndOf(range).until \in Untils /\ EndOf(range).count \in Nat
         /\ RangeOf(EndOf(range)) = range /\ Kept(range) = range
<1>1. CASE range = Ranged("noEnd", 0, 0)
  BY <1>1 DEF Ranged, EndOf, RangeOf, Kept, Untils
<1>2. CASE \E n \in Nat : range = Ranged("endDate", n, 0)
  <2>1. PICK n \in Nat : range = Ranged("endDate", n, 0)
    BY <1>2
  <2>2. EndOf(range) = [until |-> <<n, "midnight">>, count |-> 0]
    BY <2>1 DEF Ranged, EndOf
  <2>3. <<n, "midnight">> # <<>>
    BY NoEntry
  <2>5. <<n, "midnight">> \in Untils /\ <<n, "midnight">>[1] = n
    BY DEF Untils
  <2>6. RangeOf(EndOf(range)) = Ranged("endDate", n, 0)
    <3>1. EndOf(range).until = <<n, "midnight">> /\ EndOf(range).count = 0
      BY <2>2
    <3>2. EndOf(range).until # <<>> /\ EndOf(range).until[1] = n
      BY <2>3, <2>5, <3>1
    <3> QED BY <3>1, <3>2 DEF RangeOf, Ranged
  <2>7. Kept(range) = range
    BY <2>1 DEF Ranged, Kept
  <2> QED BY <2>1, <2>2, <2>5, <2>6, <2>7
<1>3. CASE \E n \in Nat \ {0} : range = Ranged("numbered", 0, n)
  BY <1>3 DEF Ranged, EndOf, RangeOf, Kept, Untils
<1> QED BY <1>1, <1>2, <1>3 DEF HeldRanges

\* What a rule for pattern p comes to at Graph: accepted, p again or p narrowed.
Narrow(p) ==
  \/ p.type \in Relative /\ Len(p.days) > 1
  \/ p.type = "relativeYearly" /\ p.index # "first"
Again(p, rule) ==
  /\ Accepted(PatternOf(rule))
  /\ \A range :
       LET q == Stored([pattern |-> PatternOf(rule), range |-> range]).pattern
       IN  q.interval = p.interval /\ (~Narrow(p) => q = p)

\* A rule that is converted to the pattern itself makes it again.
LEMMA SameAgain ==
  \A p, rule : HeldPattern(p) /\ PatternOf(rule) = p => Again(p, rule)
BY HeldIsKept DEF Again

\* The days of a weekly pattern come back.
LEMMA DaysComeBack ==
  \A d \in Seq(Names) : Plain(d) \in Seq(Entries) /\ Each(Plain(d)) = d
<1> TAKE d \in Seq(Names)
<1>1. /\ Plain(d) \in Seq(Entries) /\ Len(Plain(d)) = Len(d)
      /\ \A k \in 1 .. Len(d) : Plain(d)[k] = [ord |-> "", day |-> DayOf(d[k])]
  BY PlainIs
<1>2. /\ Each(Plain(d)) \in Seq(Names) /\ Len(Each(Plain(d))) = Len(d)
      /\ \A k \in 1 .. Len(d) : Each(Plain(d))[k] = DayName(Plain(d)[k].day)
  BY <1>1, EachIs
<1>3. \A k \in 1 .. Len(d) : Each(Plain(d))[k] = d[k]
  <2> TAKE k \in 1 .. Len(d)
  <2>1. d[k] \in Names
    BY ElementOfSeq
  <2>2. Plain(d)[k] = [ord |-> "", day |-> DayOf(d[k])]
    BY <1>1
  <2>3. \A x : [ord |-> "", day |-> x].day = x
    OBVIOUS
  <2>4. Plain(d)[k].day = DayOf(d[k])
    BY <2>2, <2>3
  <2> QED BY <1>2, <2>1, <2>4, DaysAndNames
<1> QED BY <1>1, <1>2, <1>3, SeqEqual

\* Of the days of a relative pattern the first does, with the index.
LEMMA FirstComesBack ==
  ASSUME NEW p, NEW d \in Seq(Names) \ {<<>>}, NEW x \in Indexes,
         p.type \in Relative, p.days = d, p.index = x
  PROVE  \E entry \in Entries :
           /\ ByDay(p) = <<entry>> /\ Each(<<entry>>) = <<d[1]>> /\ entry.ord # ""
           /\ IndexName(entry.ord) = x /\ d[1] \in Names /\ (~(Len(d) > 1) => d = <<d[1]>>)
<1> DEFINE entry == [ord |-> OrdinalOf(x), day |-> DayOf(d[1])]
<1>1. Len(d) \in Nat \ {0} /\ d[1] \in Names
  BY EmptySeq, LenProperties, ElementOfSeq
<1>2. /\ OrdinalOf(x) \in {"1", "2", "3", "4", "-1"} /\ IndexName(OrdinalOf(x)) = x
      /\ DayOf(d[1]) \in Codes /\ DayName(DayOf(d[1])) = d[1]
  BY <1>1, IndexesAndOrdinals, IndexNamesAre, DaysAndNames
<1>3. entry \in Entries /\ entry.ord = OrdinalOf(x) /\ entry.day = DayOf(d[1])
  BY <1>2 DEF Entries
<1>4. ByDay(p) = <<entry>>
  BY DEF ByDay
<1>5. Each(<<entry>>) = <<d[1]>>
  BY <1>2, <1>3, NoEntry
<1>6. ~(Len(d) > 1) => d = <<d[1]>>
  <2>1. \A n \in Nat \ {0} : ~(n > 1) => n = 1
    OBVIOUS
  <2> QED BY <1>1, <2>1, OneEntry
<1> HIDE DEF entry
<1> QED BY <1>1, <1>2, <1>3, <1>4, <1>5, <1>6

\* The rule shown of a pattern is one createEvent can be sent, and makes it again.
LEMMA PatternComesBack ==
  ASSUME NEW p, HeldPattern(p), NEW e, e.until \in Untils, e.count \in Nat,
         NEW rule, rule = RuleOf(FreqOf(p.type), p.interval, ByDay(p), p.dayOfMonth, p.month, e)
  PROVE  rule \in RulesOK /\ Again(p, rule)
<1>1. PICK i \in Nat \ {0} :
        \/ p = Pattern("daily", i, <<>>, 0, 0, "")
        \/ \E d \in Seq(Names) \ {<<>>} : p = Pattern("weekly", i, d, 0, 0, "")
        \/ \E n \in 1 .. 31 : p = Pattern("absoluteMonthly", i, <<>>, n, 0, "")
        \/ \E d \in Seq(Names) \ {<<>>}, x \in Indexes : p = Pattern("relativeMonthly", i, d, 0, 0, x)
        \/ \E n \in 1 .. 31, m \in 1 .. 12 : p = Pattern("absoluteYearly", i, <<>>, n, m, "")
        \/ \E d \in Seq(Names) \ {<<>>}, m \in 1 .. 12, x \in Indexes :
             p = Pattern("relativeYearly", i, d, 0, m, x)
  BY DEF HeldPattern
<1>2. \A f \in Freqs, b \in Seq(Entries) :
        /\ RuleOf(f, i, b, 0, 0, e) \in RulesOK
        /\ \A n \in 1 .. 31 : RuleOf(f, i, b, n, 0, e) \in RulesOK
        /\ \A m \in 1 .. 12 : RuleOf(f, i, b, 0, m, e) \in RulesOK
        /\ \A n \in 1 .. 31, m \in 1 .. 12 : RuleOf(f, i, b, n, m, e) \in RulesOK
  BY DEF RuleOf, RulesOK
<1>3. <<>> \in Seq(Entries) /\ 0 \in Int /\ 0 \in Nat /\ Plain(<<>>) = <<>> /\ Each(<<>>) = <<>>
      /\ Len(<<>>) = 0
  BY NoEntry
<1>4. /\ "DAILY" \in Freqs /\ "WEEKLY" \in Freqs /\ "MONTHLY" \in Freqs /\ "YEARLY" \in Freqs
  BY DEF Freqs
<1>5. \A d \in Seq(Names) \ {<<>>}, x \in Indexes :
         p.type \in Relative /\ p.days = d /\ p.index = x =>
         \E entry \in Entries :
           /\ ByDay(p) = <<entry>> /\ Each(<<entry>>) = <<d[1]>> /\ entry.ord # ""
           /\ IndexName(entry.ord) = x /\ d[1] \in Names /\ (~(Len(d) > 1) => d = <<d[1]>>)
  BY FirstComesBack
<1>6. CASE p.days = <<>> /\ (p.type = "daily" \/ p.type \in {"absoluteMonthly", "absoluteYearly"})
  <2>1. rule = RuleOf(FreqOf(p.type), p.interval, <<>>, p.dayOfMonth, p.month, e)
    BY <1>3, <1>6 DEF ByDay
  <2>2. /\ rule.freq = FreqOf(p.type) /\ rule.interval = p.interval /\ rule.byday = <<>>
        /\ rule.bymonthday = p.dayOfMonth /\ rule.bymonth = p.month
    BY <2>1, PartsOfRule
  <2>3. CASE p = Pattern("daily", i, <<>>, 0, 0, "")
    <3>1. p.type = "daily" /\ p.interval = i /\ p.dayOfMonth = 0 /\ p.month = 0
      BY <2>3 DEF Pattern
    <3>2. PatternOf(rule) = p
      <4>1. rule.freq = "DAILY"
        BY <2>2, <3>1, FreqsOfTypes
      <4>2. PatternOf(rule) = Pattern("daily", rule.interval, <<>>, 0, 0, "")
        BY <4>1, PatternCases
      <4> QED BY <2>2, <2>3, <3>1, <4>2
    <3>3. rule \in RulesOK
      <4>1. rule = RuleOf("DAILY", i, <<>>, 0, 0, e)
        BY <2>1, <3>1, FreqsOfTypes
      <4> QED BY <1>2, <1>3, <1>4, <4>1
    <3> QED BY <3>2, <3>3, SameAgain
  <2>4. CASE \E n \in 1 .. 31 : p = Pattern("absoluteMonthly", i, <<>>, n, 0, "")
    <3>0. PICK n \in 1 .. 31 : p = Pattern("absoluteMonthly", i, <<>>, n, 0, "")
      BY <2>4
    <3>1. p.type = "absoluteMonthly" /\ p.interval = i /\ p.dayOfMonth = n /\ p.month = 0
      BY <3>0 DEF Pattern
    <3>2. PatternOf(rule) = p
      <4>1. rule.freq = "MONTHLY" /\ rule.bymonthday # 0
        <5>1. n # 0
          OBVIOUS
        <5> QED BY <2>2, <3>1, <5>1, FreqsOfTypes
      <4>2. PatternOf(rule) = Pattern("absoluteMonthly", rule.interval, <<>>, rule.bymonthday, 0, "")
        BY <4>1, PatternCases
      <4> QED BY <2>2, <3>0, <3>1, <4>2
    <3>3. rule \in RulesOK
      <4>1. rule = RuleOf("MONTHLY", i, <<>>, n, 0, e)
        BY <2>1, <3>1, FreqsOfTypes
      <4> QED BY <1>2, <1>3, <1>4, <4>1
    <3> QED BY <3>2, <3>3, SameAgain
  <2>5. CASE \E n \in 1 .. 31, m \in 1 .. 12 : p = Pattern("absoluteYearly", i, <<>>, n, m, "")
    <3>0. PICK n \in 1 .. 31, m \in 1 .. 12 : p = Pattern("absoluteYearly", i, <<>>, n, m, "")
      BY <2>5
    <3>1. p.type = "absoluteYearly" /\ p.interval = i /\ p.dayOfMonth = n /\ p.month = m
      BY <3>0 DEF Pattern
    <3>2. PatternOf(rule) = p
      <4>1. rule.freq = "YEARLY" /\ rule.bymonthday # 0 /\ Len(rule.byday) # 1
        <5>1. n # 0
          OBVIOUS
        <5>2. Len(rule.byday) # 1
          BY <1>3, <2>2
        <5> QED BY <2>2, <3>1, <5>1, <5>2, FreqsOfTypes
      <4>2. PatternOf(rule) = Pattern("absoluteYearly", rule.interval, <<>>, rule.bymonthday, rule.bymonth, "")
        BY <4>1, PatternCases
      <4> QED BY <2>2, <3>0, <3>1, <4>2
    <3>3. rule \in RulesOK
      <4>1. rule = RuleOf("YEARLY", i, <<>>, n, m, e)
        BY <2>1, <3>1, FreqsOfTypes
      <4> QED BY <1>2, <1>3, <1>4, <4>1
    <3> QED BY <3>2, <3>3, SameAgain
  <2>6. \A t, d, n, m, x : p = Pattern(t, i, d, n, m, x) => p.type = t
    BY PartsOfPattern
  <2> QED BY <1>1, <1>6, <2>3, <2>4, <2>5, <2>6
<1>7. CASE \E d \in Seq(Names) \ {<<>>} : p = Pattern("weekly", i, d, 0, 0, "")
  <2>0. PICK d \in Seq(Names) \ {<<>>} : p = Pattern("weekly", i, d, 0, 0, "")
    BY <1>7
  <2>1. p.type = "weekly" /\ p.interval = i /\ p.days = d /\ p.dayOfMonth = 0 /\ p.month = 0
    BY <2>0 DEF Pattern
  <2>2. ByDay(p) = Plain(d)
    BY <2>1 DEF ByDay, Relative
  <2>3. rule = RuleOf("WEEKLY", i, Plain(d), 0, 0, e)
    BY <2>1, <2>2, FreqsOfTypes
  <2>4. rule.freq = "WEEKLY" /\ rule.interval = i /\ rule.byday = Plain(d)
    BY <2>3, PartsOfRule
  <2>5. Plain(d) \in Seq(Entries) /\ Each(Plain(d)) = d
    BY DaysComeBack
  <2>6. PatternOf(rule) = p
    BY <2>0, <2>4, <2>5, PatternCases
  <2>7. rule \in RulesOK
    BY <1>2, <1>3, <1>4, <2>3, <2>5
  <2> QED BY <2>6, <2>7, SameAgain
<1>8. CASE \E d \in Seq(Names) \ {<<>>}, x \in Indexes : p = Pattern("relativeMonthly", i, d, 0, 0, x)
  <2>0. PICK d \in Seq(Names) \ {<<>>}, x \in Indexes : p = Pattern("relativeMonthly", i, d, 0, 0, x)
    BY <1>8
  <2>1. /\ p.type = "relativeMonthly" /\ p.interval = i /\ p.days = d /\ p.dayOfMonth = 0 /\ p.month = 0
        /\ p.index = x
    BY <2>0 DEF Pattern
  <2>2. PICK entry \in Entries :
          /\ ByDay(p) = <<entry>> /\ Each(<<entry>>) = <<d[1]>> /\ entry.ord # ""
          /\ IndexName(entry.ord) = x /\ d[1] \in Names /\ (~(Len(d) > 1) => d = <<d[1]>>)
    <3>1. p.type \in Relative
      BY <2>1 DEF Relative
    <3> QED BY <1>5, <2>1, <3>1
  <2>3. rule = RuleOf("MONTHLY", i, <<entry>>, 0, 0, e)
    BY <2>1, <2>2, FreqsOfTypes
  <2>4. rule.freq = "MONTHLY" /\ rule.interval = i /\ rule.byday = <<entry>> /\ rule.bymonthday = 0
    BY <2>3, PartsOfRule
  <2>5. Len(<<entry>>) = 1 /\ <<entry>>[1] = entry /\ <<entry>> \in Seq(Entries)
    OBVIOUS
  <2>6. PatternOf(rule) = Pattern("relativeMonthly", i, <<d[1]>>, 0, 0, x)
    BY <2>2, <2>4, <2>5, PatternCases
  <2>7. HeldPattern(Pattern("relativeMonthly", i, <<d[1]>>, 0, 0, x))
    <3>1. \A y \in Names : <<y>> \in Seq(Names) \ {<<>>}
      OBVIOUS
    <3>2. <<d[1]>> \in Seq(Names) \ {<<>>}
      BY <2>2, <3>1
    <3> QED BY <3>2 DEF HeldPattern
  <2>8. Again(p, rule)
    <3>1. Pattern("relativeMonthly", i, <<d[1]>>, 0, 0, x).interval = i
      BY PartsOfPattern
    <3>2. ~Narrow(p) => d = <<d[1]>>
      <4>1. p.type \in Relative /\ Len(p.days) = Len(d)
        BY <2>1 DEF Relative
      <4> QED BY <2>2, <4>1 DEF Narrow
    <3>3. ~Narrow(p) => p = Pattern("relativeMonthly", i, <<d[1]>>, 0, 0, x)
      BY <2>0, <3>2
    <3> QED BY <2>1, <2>6, <2>7, <3>1, <3>3, HeldIsKept DEF Again
  <2>9. rule \in RulesOK
    BY <1>2, <1>3, <1>4, <2>3, <2>5
  <2> QED BY <2>8, <2>9
<1>9. CASE \E d \in Seq(Names) \ {<<>>}, m \in 1 .. 12, x \in Indexes :
             p = Pattern("relativeYearly", i, d, 0, m, x)
  <2>0. PICK d \in Seq(Names) \ {<<>>}, m \in 1 .. 12, x \in Indexes :
             p = Pattern("relativeYearly", i, d, 0, m, x)
    BY <1>9
  <2>1. /\ p.type = "relativeYearly" /\ p.interval = i /\ p.days = d /\ p.dayOfMonth = 0 /\ p.month = m
        /\ p.index = x
    BY <2>0 DEF Pattern
  <2>2. PICK entry \in Entries :
          /\ ByDay(p) = <<entry>> /\ Each(<<entry>>) = <<d[1]>> /\ entry.ord # ""
          /\ IndexName(entry.ord) = x /\ d[1] \in Names /\ (~(Len(d) > 1) => d = <<d[1]>>)
    <3>1. p.type \in Relative
      BY <2>1 DEF Relative
    <3>2. p.days = d /\ p.index = x
      BY <2>1
    <3> QED BY <1>5, <3>1, <3>2
  <2>3. rule = RuleOf("YEARLY", i, <<entry>>, 0, m, e)
    BY <2>1, <2>2, FreqsOfTypes
  <2>4. /\ rule.freq = "YEARLY" /\ rule.interval = i /\ rule.byday = <<entry>> /\ rule.bymonthday = 0
        /\ rule.bymonth = m
    BY <2>3, PartsOfRule
  <2>5. Len(<<entry>>) = 1 /\ <<entry>> \in Seq(Entries) /\ <<d[1]>> # <<>>
    BY NoEntry
  <2>6. PatternOf(rule) = Pattern("relativeYearly", i, <<d[1]>>, 0, m, "")
    BY <2>2, <2>4, <2>5, PatternCases
  <2>7. PICK q : q = Pattern("relativeYearly", i, <<d[1]>>, 0, m, "")
    OBVIOUS
  <2>8. /\ q.type = "relativeYearly" /\ q.interval = i /\ q.days = <<d[1]>> /\ q.dayOfMonth = 0
        /\ q.month = m /\ q.index = ""
    BY <2>7 DEF Pattern
  <2>9. Again(p, rule)
    <3>1. Accepted(q)
      BY <2>5, <2>8 DEF Accepted, Relative
    <3>2. \A range : Stored([pattern |-> q, range |-> range]).pattern
                       = Pattern("relativeYearly", i, <<d[1]>>, 0, m, "first")
      BY <2>8, StoredParts DEF Relative
    <3>3. Pattern("relativeYearly", i, <<d[1]>>, 0, m, "first").interval = i
      BY PartsOfPattern
    <3>4. ~Narrow(p) => d = <<d[1]>> /\ x = "first"
      <4>1. p.type \in Relative /\ Len(p.days) = Len(d)
        BY <2>1 DEF Relative
      <4> QED BY <2>1, <2>2, <4>1 DEF Narrow
    <3>5. ~Narrow(p) => p = Pattern("relativeYearly", i, <<d[1]>>, 0, m, "first")
      BY <2>0, <3>4
    <3> QED BY <2>1, <2>6, <2>7, <3>1, <3>2, <3>3, <3>5 DEF Again
  <2>10. rule \in RulesOK
    BY <1>2, <1>3, <1>4, <2>3, <2>5
  <2> QED BY <2>9, <2>10
<1>10. \A t, d, n, m, x : p = Pattern(t, i, d, n, m, x) => p.type = t /\ p.days = d
  BY PartsOfPattern
<1> QED BY <1>1, <1>6, <1>7, <1>8, <1>9, <1>10

-----------------------------------------------------------------------------
(* The invariant *)

\* The rules clients write and the series made in Outlook are of the kinds proved about.
LEMMA UpTo2Is ==
  \A S, T : S \subseteq T => UpTo2(S) \subseteq Seq(T)
<1> SUFFICES ASSUME NEW S, NEW T, S \subseteq T, NEW s \in UpTo2(S)
             PROVE  s \in Seq(T)
  OBVIOUS
<1>1. CASE s = <<>>
  BY <1>1
<1>2. CASE \E x \in S : s = <<x>>
  <2>1. PICK x \in S : s = <<x>>
    BY <1>2
  <2> QED BY <2>1
<1>3. CASE \E x, y \in S : s = <<x, y>>
  <2>1. PICK x \in S, y \in S : s = <<x, y>>
    BY <1>3
  <2> QED BY <2>1
<1> QED BY <1>1, <1>2, <1>3 DEF UpTo2

LEMMA WrittenRules == Rules \subseteq RulesOK
<1>1. ByDays \subseteq Seq(Entries)
  <2>1. [ord : Ordinals, day : Days] \subseteq Entries
    BY RecurrenceConstants DEF Entries, Codes
  <2> QED BY <2>1, UpTo2Is DEF ByDays
<1>2. ASSUME NEW f \in Freqs, NEW i \in Intervals, NEW d \in ByDays, NEW n \in MonthDays, NEW m \in Months,
             NEW e \in Ends
      PROVE  RuleOf(f, i, d, n, m, e) \in RulesOK
  <2>1. i \in Nat \ {0} /\ n \in Int /\ m \in Nat /\ e.until \in Untils /\ e.count \in Nat
    BY RecurrenceConstants DEF Untils
  <2>2. d \in Seq(Entries)
    BY <1>1
  <2> QED BY <2>1, <2>2 DEF RuleOf, RulesOK
<1> QED BY <1>2 DEF Rules

LEMMA OutlookHolds == \A g \in OutlookSeries : Held(g)
<1>1. OutlookDays \subseteq Seq(Names)
  <2>1. {DayName(y) : y \in Days} \subseteq Names
    BY DaysAndNames
  <2> QED BY <2>1, UpTo2Is DEF OutlookDays
<1> SUFFICES ASSUME NEW g \in OutlookSeries
             PROVE  Held(g)
  OBVIOUS
<1>3. PICK e \in Ends, p \in OutlookPatterns :
        g = Stored([pattern |-> p, range |-> RangeOf(e)]) /\ Accepted(p)
  BY DEF OutlookSeries
<1>4. OutlookPatterns \subseteq PatternsOK
  <2>1. ASSUME NEW t \in Types, NEW i \in Intervals, NEW d \in OutlookDays,
               NEW n \in MonthDays, NEW m \in Months, NEW x \in Indexes
        PROVE  Pattern(t, i, d, n, m, x) \in PatternsOK
    <3>1. i \in Nat \ {0} /\ n \in Int /\ m \in Nat
      BY RecurrenceConstants
    <3>2. d \in Seq(Names)
      BY <1>1
    <3> QED BY <3>1, <3>2 DEF Pattern, PatternsOK
  <2> QED BY <2>1 DEF OutlookPatterns
<1>5. e.until \in Untils /\ e.count \in Nat
  BY RecurrenceConstants DEF Untils
<1> QED BY <1>3, <1>4, <1>5, StoredIs

\* What Graph makes of a rule: nothing or a series.
Made(rule) == IF Accepted(PatternOf(rule)) THEN Stored(rruleToGraph(rule)) ELSE NoSeries

LEMMA HeldIsSeries ==
  /\ \A g : Held(g) => g # NoSeries
  /\ \A rule \in RulesOK : rule # NoRule
<1>1. \A g : Held(g) => g # NoSeries
  <2>1. DOMAIN NoSeries = {"type"}
    BY DEF NoSeries
  <2>2. \A p, r : DOMAIN [pattern |-> p, range |-> r] = {"pattern", "range"}
    OBVIOUS
  <2>3. "pattern" \notin {"type"}
    OBVIOUS
  <2> QED BY <2>1, <2>2, <2>3 DEF Held
<1>2. \A rule \in RulesOK : rule # NoRule
  BY DEF RulesOK, NoRule, Freqs
<1> QED BY <1>1, <1>2

\* What Graph makes of a rule it accepts.
LEMMA MadeIsHeld ==
  ASSUME NEW rule \in RulesOK
  PROVE  /\ Made(rule) # NoSeries <=> Accepted(PatternOf(rule))
         /\ Made(rule) # NoSeries => Held(Made(rule)) /\ Made(rule).range = Kept(RangeOf(rule))
<1>1. rule.until \in Untils /\ rule.count \in Nat
  BY DEF RulesOK
<1>2. Accepted(PatternOf(rule)) =>
        /\ Held(Stored([pattern |-> PatternOf(rule), range |-> RangeOf(rule)]))
        /\ Stored([pattern |-> PatternOf(rule), range |-> RangeOf(rule)]).range = Kept(RangeOf(rule))
  BY <1>1, PatternIs, StoredIs
<1> QED BY <1>2, HeldIsSeries DEF Made, rruleToGraph

\* A series made by createEvent has at most one day where one is all that is shown.
LEMMA MadeIsWhole ==
  ASSUME NEW rule \in RulesOK, Made(rule) # NoSeries
  PROVE  ~Narrow(Made(rule).pattern)
<1> DEFINE p == PatternOf(rule)
           q == Made(rule).pattern
<1>1. Accepted(p) /\ p.type \in Types
  BY MadeIsHeld, PatternIs DEF PatternsOK
<1>2. /\ q.type = p.type
      /\ p.type \in Relative => q.days = p.days
      /\ p.type \in Relative => q.index = IF p.index = "" THEN "first" ELSE p.index
  <2>1. q = Pattern(p.type, p.interval,
                 IF p.type \in {"weekly"} \cup Relative THEN p.days ELSE <<>>,
                 IF p.type \in {"absoluteMonthly", "absoluteYearly"} THEN p.dayOfMonth ELSE 0,
                 IF p.type \in {"absoluteYearly", "relativeYearly"} THEN p.month ELSE 0,
                 IF p.type \notin Relative THEN "" ELSE IF p.index = "" THEN "first" ELSE p.index)
    BY <1>1, StoredParts DEF Made, rruleToGraph
  <2> HIDE DEF p, q
  <2> QED BY <2>1 DEF Pattern
<1>3. p.type \in Relative => Len(p.days) <= 1
  <2>1. rule.byday \in Seq(Entries)
    BY DEF RulesOK
  <2>2. Len(rule.byday) = 1 => Len(Each(rule.byday)) = 1
    BY <2>1, EachIs
  <2>3. \A n : n = 1 \/ n = 0 => n <= 1
    OBVIOUS
  <2>4. CASE rule.freq = "DAILY" \/ rule.freq = "WEEKLY" \/ rule.freq = "HOURLY"
    BY <2>4 DEF PatternOf, Pattern, Relative
  <2>5. CASE rule.freq = "MONTHLY" /\ (rule.bymonthday # 0 \/ Len(rule.byday) # 1)
    BY <2>5 DEF PatternOf, Pattern, Relative
  <2>6. CASE rule.freq = "MONTHLY" /\ rule.bymonthday = 0 /\ Len(rule.byday) = 1
    <3>1. p = IF rule.byday[1].ord = "" THEN Pattern("relativeMonthly", rule.interval, <<>>, 0, 0, "")
              ELSE Pattern("relativeMonthly", rule.interval, Each(rule.byday), 0, 0,
                           IndexName(rule.byday[1].ord))
      BY <2>6 DEF PatternOf
    <3>2. p.days = <<>> \/ p.days = Each(rule.byday)
      <4>1. CASE rule.byday[1].ord = ""
        <5>1. p = Pattern("relativeMonthly", rule.interval, <<>>, 0, 0, "")
          BY <3>1, <4>1
        <5>2. \A d, x : Pattern("relativeMonthly", rule.interval, d, 0, 0, x).days = d
          BY DEF Pattern
        <5> HIDE DEF p
        <5> QED BY <5>1, <5>2
      <4>2. CASE rule.byday[1].ord # ""
        <5>1. p = Pattern("relativeMonthly", rule.interval, Each(rule.byday), 0, 0,
                          IndexName(rule.byday[1].ord))
          BY <3>1, <4>2
        <5>2. \A d, x : Pattern("relativeMonthly", rule.interval, d, 0, 0, x).days = d
          BY DEF Pattern
        <5> HIDE DEF p
        <5> QED BY <5>1, <5>2
      <4> QED BY <4>1, <4>2
    <3> QED BY <2>2, <2>3, <2>6, <3>2, NoEntry
  <2>7. CASE rule.freq = "YEARLY"
    <3>1. p = Pattern(IF rule.bymonthday # 0 THEN "absoluteYearly" ELSE "relativeYearly", rule.interval,
                      IF Len(rule.byday) = 1 THEN Each(rule.byday) ELSE <<>>, rule.bymonthday,
                      rule.bymonth, "")
      BY <2>7 DEF PatternOf
    <3>2. p.days = IF Len(rule.byday) = 1 THEN Each(rule.byday) ELSE <<>>
      <4>1. \A t, d : Pattern(t, rule.interval, d, rule.bymonthday, rule.bymonth, "").days = d
        BY DEF Pattern
      <4> HIDE DEF p
      <4> QED BY <3>1, <4>1
    <3> QED BY <2>2, <2>3, <3>2, NoEntry
  <2>8. rule.freq \in Freqs
    BY DEF RulesOK
  <2> QED BY <2>4, <2>5, <2>6, <2>7, <2>8 DEF Freqs
<1>4. p.type = "relativeYearly" => p.index = ""
  <2>1. rule.freq \in Freqs
    BY DEF RulesOK
  <2>2. rule.freq = "YEARLY" => p.index = ""
    BY DEF PatternOf, Pattern
  <2>3. rule.freq # "YEARLY" => p.type # "relativeYearly"
    BY <2>1 DEF PatternOf, Pattern, Freqs
  <2> QED BY <2>2, <2>3
<1>5. p.type \in Relative => ~(Len(p.days) > 1)
  <2>1. p.type \in Relative => Len(p.days) \in Nat
    BY PatternIs, LenProperties DEF PatternsOK
  <2> QED BY <1>3, <2>1
<1> HIDE DEF p, q
<1>6. ~Narrow(q)
  BY <1>2, <1>4, <1>5 DEF Narrow, Relative
<1> QED BY <1>6 DEF q

\* What the rule shown of a series comes to.
LEMMA CopyIs ==
  ASSUME NEW g, Held(g)
  PROVE  LET again == graphToRrule(g) IN
         /\ again \in RulesOK /\ Made(again) # NoSeries
         /\ Made(again).range = g.range /\ Made(again).pattern.interval = g.pattern.interval
         /\ ~Narrow(g.pattern) => Made(again) = g
<1>1. HeldPattern(g.pattern) /\ g.range \in HeldRanges /\ g = [pattern |-> g.pattern, range |-> g.range]
  BY DEF Held
<1>2. PICK e : e = EndOf(g.range)
  OBVIOUS
<1>3. e.until \in Untils /\ e.count \in Nat /\ RangeOf(e) = g.range /\ Kept(g.range) = g.range
  BY <1>1, <1>2, RangeComesBack
<1>4. PICK again : again = graphToRrule(g)
  OBVIOUS
<1>5. again = RuleOf(FreqOf(g.pattern.type), g.pattern.interval, ByDay(g.pattern), g.pattern.dayOfMonth,
                     g.pattern.month, e)
  BY <1>2, <1>4 DEF graphToRrule
<1>6. again \in RulesOK /\ Again(g.pattern, again)
  BY <1>1, <1>3, <1>5, PatternComesBack
<1>7. RangeOf(again) = g.range
  BY <1>3, <1>5, RangeOfRule
<1>8. Accepted(PatternOf(again)) /\ Made(again) = Stored([pattern |-> PatternOf(again), range |-> g.range])
  BY <1>6, <1>7 DEF Again, Made, rruleToGraph
<1>9. /\ Made(again).range = g.range
      /\ Made(again) = [pattern |-> Made(again).pattern, range |-> g.range]
  <2>1. \A q : /\ Stored([pattern |-> q, range |-> g.range]).range = Kept(g.range)
              /\ Stored([pattern |-> q, range |-> g.range])
                   = [pattern |-> Stored([pattern |-> q, range |-> g.range]).pattern, range |-> Kept(g.range)]
    BY StoredParts
  <2> QED BY <1>3, <1>8, <2>1
<1>10. /\ Made(again).pattern.interval = g.pattern.interval
       /\ ~Narrow(g.pattern) => Made(again).pattern = g.pattern
  BY <1>6, <1>8 DEF Again
<1>11. Made(again) # NoSeries
  BY <1>6, <1>8, MadeIsHeld
<1>12. ~Narrow(g.pattern) => Made(again) = g
  BY <1>1, <1>9, <1>10
<1> QED BY <1>4, <1>6, <1>9, <1>10, <1>11, <1>12

-----------------------------------------------------------------------------
(* A rule of a supported form *)

Cut(until) == IF until = <<>> THEN <<>> ELSE <<until[1], "midnight">>

\* The end of a rule comes back, but for the time of day.
LEMMA EndComesBack ==
  ASSUME NEW rule \in RulesOK, rule.until = <<>> \/ rule.count = 0
  PROVE  EndOf(Kept(RangeOf(rule))) = [until |-> Cut(rule.until), count |-> rule.count]
<1>1. rule.until \in Untils /\ rule.count \in Nat
  BY DEF RulesOK
<1>2. CASE rule.until # <<>>
  <2>1. Kept(RangeOf(rule)) = Ranged("endDate", rule.until[1], 0)
    BY <1>2 DEF RangeOf, Kept, Ranged
  <2>2. EndOf(Kept(RangeOf(rule))) = [until |-> <<rule.until[1], "midnight">>, count |-> 0]
    BY <2>1 DEF EndOf, Ranged
  <2> QED BY <1>2, <2>2 DEF Cut
<1>3. CASE rule.until = <<>> /\ rule.count # 0
  <2>1. Kept(RangeOf(rule)) = Ranged("numbered", 0, rule.count)
    BY <1>3 DEF RangeOf, Kept, Ranged
  <2>2. EndOf(Kept(RangeOf(rule))) = [until |-> <<>>, count |-> rule.count]
    BY <2>1 DEF EndOf, Ranged
  <2> QED BY <1>3, <2>2 DEF Cut
<1>4. CASE rule.until = <<>> /\ rule.count = 0
  <2>1. Kept(RangeOf(rule)) = Ranged("noEnd", 0, 0)
    BY <1>4 DEF RangeOf, Kept, Ranged
  <2>2. EndOf(Kept(RangeOf(rule))) = [until |-> <<>>, count |-> 0]
    BY <2>1 DEF EndOf, Ranged
  <2> QED BY <1>4, <2>2 DEF Cut
<1> QED BY <1>2, <1>3, <1>4

\* When the pattern is held as it was sent and its parts are the rule's, so is the rule.
LEMMA BackIs ==
  ASSUME NEW rule \in RulesOK, rule.until = <<>> \/ rule.count = 0,
         NEW p, p = PatternOf(rule), HeldPattern(p), FreqOf(p.type) = rule.freq,
         p.interval = rule.interval, ByDay(p) = rule.byday,
         p.dayOfMonth = rule.bymonthday, p.month = rule.bymonth
  PROVE  Made(rule) # NoSeries /\ graphToRrule(Made(rule)) = [rule EXCEPT !.until = Cut(rule.until)]
<1>1. Accepted(p) /\ \A range : Stored([pattern |-> p, range |-> range]).pattern = p
  BY HeldIsKept
<1>2. Made(rule) = Stored([pattern |-> p, range |-> RangeOf(rule)]) /\ Made(rule) # NoSeries
  BY <1>1, MadeIsHeld DEF Made, rruleToGraph
<1>3. Made(rule).pattern = p /\ Made(rule).range = Kept(RangeOf(rule))
  BY <1>1, <1>2, MadeIsHeld
<1>4. graphToRrule(Made(rule)) =
        RuleOf(rule.freq, rule.interval, rule.byday, rule.bymonthday, rule.bymonth,
               [until |-> Cut(rule.until), count |-> rule.count])
  BY <1>3, EndComesBack DEF graphToRrule
<1>5. rule = [freq |-> rule.freq, interval |-> rule.interval, byday |-> rule.byday,
              bymonthday |-> rule.bymonthday, bymonth |-> rule.bymonth, until |-> rule.until,
              count |-> rule.count]
  BY DEF RulesOK
<1>6. RuleOf(rule.freq, rule.interval, rule.byday, rule.bymonthday, rule.bymonth,
             [until |-> Cut(rule.until), count |-> rule.count])
        = [rule EXCEPT !.until = Cut(rule.until)]
  BY <1>5 DEF RuleOf
<1> QED BY <1>2, <1>4, <1>6

LEMMA SupportedIsShown ==
  ASSUME NEW rule \in RulesOK, Supported(rule)
  PROVE  Made(rule) # NoSeries /\ graphToRrule(Made(rule)) = [rule EXCEPT !.until = Cut(rule.until)]
<1>1. /\ rule.until = <<>> \/ rule.count = 0
      /\ rule.interval \in Nat \ {0} /\ rule.byday \in Seq(Entries)
  BY DEF Supported, RulesOK
<1>2. Plain(<<>>) = <<>> /\ Len(<<>>) = 0
  BY NoEntry
<1> DEFINE plain == \A i \in DOMAIN rule.byday :
                      rule.byday[i].ord = "" /\ rule.byday[i].day \in DOMAIN DayNames
<1>3. CASE rule.freq = "DAILY" /\ rule.byday = <<>> /\ rule.bymonthday = 0 /\ rule.bymonth = 0
  <2>1. PICK p : p = Pattern("daily", rule.interval, <<>>, 0, 0, "")
    OBVIOUS
  <2>2. /\ p.type = "daily" /\ p.interval = rule.interval /\ p.days = <<>> /\ p.dayOfMonth = 0
        /\ p.month = 0
    BY <2>1 DEF Pattern
  <2>3. PatternOf(rule) = p
    BY <1>3, <2>1, PatternCases
  <2>4. HeldPattern(p)
    BY <1>1, <2>1 DEF HeldPattern
  <2>5. FreqOf(p.type) = rule.freq /\ ByDay(p) = rule.byday
    BY <1>2, <1>3, <2>2, FreqsOfTypes DEF ByDay
  <2> QED BY <1>1, <1>3, <2>2, <2>3, <2>4, <2>5, BackIs
<1>4. CASE rule.freq = "WEEKLY" /\ rule.byday # <<>> /\ plain /\ rule.bymonthday = 0 /\ rule.bymonth = 0
  <2>1. PICK p : p = Pattern("weekly", rule.interval, Each(rule.byday), 0, 0, "")
    OBVIOUS
  <2>2. /\ p.type = "weekly" /\ p.interval = rule.interval /\ p.days = Each(rule.byday)
        /\ p.dayOfMonth = 0 /\ p.month = 0
    BY <2>1 DEF Pattern
  <2>3. PatternOf(rule) = p
    BY <1>4, <2>1, PatternCases
  <2>4. /\ Each(rule.byday) \in Seq(Names) /\ Len(Each(rule.byday)) = Len(rule.byday)
        /\ \A k \in 1 .. Len(rule.byday) : Each(rule.byday)[k] = DayName(rule.byday[k].day)
    BY <1>1, EachIs
  <2>5. Each(rule.byday) # <<>>
    BY <1>1, <1>4, <2>4, EmptySeq
  <2>6. HeldPattern(p)
    BY <1>1, <2>1, <2>4, <2>5 DEF HeldPattern
  <2>7. /\ Plain(Each(rule.byday)) \in Seq(Entries) /\ Len(Plain(Each(rule.byday))) = Len(rule.byday)
        /\ \A k \in 1 .. Len(rule.byday) :
             Plain(Each(rule.byday))[k] = [ord |-> "", day |-> DayOf(Each(rule.byday)[k])]
    BY <2>4, PlainIs
  <2>8. ASSUME NEW k \in 1 .. Len(rule.byday)
        PROVE  Plain(Each(rule.byday))[k] = rule.byday[k]
    <3>1. rule.byday[k].ord = "" /\ rule.byday[k].day \in Codes /\ rule.byday[k] \in Entries
      <4>1. k \in DOMAIN rule.byday
        BY <1>1, LenProperties
      <4>2. rule.byday[k].ord = "" /\ rule.byday[k].day \in DOMAIN DayNames
        BY <1>4, <4>1
      <4>3. rule.byday[k] \in Entries
        BY <1>1, ElementOfSeq
      <4> QED BY <4>2, <4>3, DayNamesAre
    <3>2. DayOf(Each(rule.byday)[k]) = rule.byday[k].day
      BY <2>4, <3>1, DaysAndNames
    <3>3. rule.byday[k] = [ord |-> rule.byday[k].ord, day |-> rule.byday[k].day]
      BY <3>1 DEF Entries
    <3> QED BY <2>7, <3>1, <3>2, <3>3
  <2>9. Plain(Each(rule.byday)) = rule.byday
    BY <1>1, <2>7, <2>8, SeqEqual
  <2>10. FreqOf(p.type) = rule.freq /\ ByDay(p) = rule.byday
    BY <1>4, <2>2, <2>9, FreqsOfTypes DEF ByDay, Relative
  <2> QED BY <1>1, <1>4, <2>2, <2>3, <2>6, <2>10, BackIs
<1>5. CASE rule.freq = "MONTHLY" /\ rule.byday = <<>> /\ rule.bymonthday \in 1 .. 31 /\ rule.bymonth = 0
  <2>1. PICK p : p = Pattern("absoluteMonthly", rule.interval, <<>>, rule.bymonthday, 0, "")
    OBVIOUS
  <2>2. /\ p.type = "absoluteMonthly" /\ p.interval = rule.interval /\ p.days = <<>>
        /\ p.dayOfMonth = rule.bymonthday /\ p.month = 0
    BY <2>1 DEF Pattern
  <2>3. PatternOf(rule) = p
    <3>1. rule.bymonthday # 0
      <4>1. \A n \in 1 .. 31 : n # 0
        OBVIOUS
      <4> QED BY <1>5, <4>1
    <3> QED BY <1>5, <2>1, <3>1, PatternCases
  <2>4. HeldPattern(p)
    BY <1>1, <1>5, <2>1 DEF HeldPattern
  <2>5. FreqOf(p.type) = rule.freq /\ ByDay(p) = rule.byday
    BY <1>2, <1>5, <2>2, FreqsOfTypes DEF ByDay
  <2> QED BY <1>1, <1>5, <2>2, <2>3, <2>4, <2>5, BackIs
<1>6. CASE /\ rule.freq = "MONTHLY" /\ Len(rule.byday) = 1 /\ rule.bymonthday = 0 /\ rule.bymonth = 0
           /\ rule.byday[1].ord \in DOMAIN IndexNames /\ rule.byday[1].day \in DOMAIN DayNames
  <2>1. PICK entry \in Entries : rule.byday = <<entry>> /\ rule.byday[1] = entry
    BY <1>1, <1>6, OneEntry
  <2>2. PICK p : p = Pattern("relativeMonthly", rule.interval, <<DayName(entry.day)>>, 0, 0,
                             IndexName(entry.ord))
    OBVIOUS
  <2>3. /\ p.type = "relativeMonthly" /\ p.interval = rule.interval
        /\ p.days = <<DayName(entry.day)>> /\ p.dayOfMonth = 0 /\ p.month = 0
        /\ p.index = IndexName(entry.ord)
    BY <2>2 DEF Pattern
  <2>4. entry.ord \in {"1", "2", "3", "4", "-1"} /\ entry.ord # "" /\ entry.day \in Codes
    BY <1>6, <2>1, IndexNamesAre, DayNamesAre
  <2>5. Each(rule.byday) = <<DayName(entry.day)>>
    BY <2>1, NoEntry
  <2>6. PatternOf(rule) = p
    BY <1>6, <2>1, <2>2, <2>4, <2>5, PatternCases
  <2>7. /\ IndexName(entry.ord) \in Indexes /\ OrdinalOf(IndexName(entry.ord)) = entry.ord
        /\ DayName(entry.day) \in Names /\ DayOf(DayName(entry.day)) = entry.day
    BY <2>4, IndexesAndOrdinals, IndexNamesAre, DaysAndNames
  <2>8. HeldPattern(p)
    <3>1. \A y \in Names : <<y>> \in Seq(Names) \ {<<>>}
      OBVIOUS
    <3>2. <<DayName(entry.day)>> \in Seq(Names) \ {<<>>}
      BY <2>7, <3>1
    <3> QED BY <1>1, <2>2, <2>7, <3>2 DEF HeldPattern
  <2>9. ByDay(p) = rule.byday
    <3>1. p.days # <<>> /\ p.days[1] = DayName(entry.day) /\ p.type \in Relative
      BY <2>3 DEF Relative
    <3>2. ByDay(p) = <<[ord |-> entry.ord, day |-> entry.day]>>
      BY <2>3, <2>7, <3>1 DEF ByDay
    <3>3. entry = [ord |-> entry.ord, day |-> entry.day]
      BY DEF Entries
    <3> QED BY <2>1, <3>2, <3>3
  <2>10. FreqOf(p.type) = rule.freq
    BY <1>6, <2>3, FreqsOfTypes
  <2> QED BY <1>1, <1>6, <2>3, <2>6, <2>8, <2>9, <2>10, BackIs
<1>7. CASE /\ rule.freq = "YEARLY" /\ rule.byday = <<>> /\ rule.bymonthday \in 1 .. 31
           /\ rule.bymonth \in 1 .. 12
  <2>1. PICK p : p = Pattern("absoluteYearly", rule.interval, <<>>, rule.bymonthday, rule.bymonth, "")
    OBVIOUS
  <2>2. /\ p.type = "absoluteYearly" /\ p.interval = rule.interval /\ p.days = <<>>
        /\ p.dayOfMonth = rule.bymonthday /\ p.month = rule.bymonth
    BY <2>1 DEF Pattern
  <2>3. PatternOf(rule) = p
    <3>1. rule.bymonthday # 0 /\ Len(rule.byday) # 1
      <4>1. \A n \in 1 .. 31 : n # 0
        OBVIOUS
      <4>2. Len(rule.byday) = 0 /\ 0 # 1
        BY <1>2, <1>7
      <4>3. Len(rule.byday) # 1
        BY <4>2
      <4> QED BY <1>7, <4>1, <4>3
    <3> QED BY <1>7, <2>1, <3>1, PatternCases
  <2>4. HeldPattern(p)
    BY <1>1, <1>7, <2>1 DEF HeldPattern
  <2>5. FreqOf(p.type) = rule.freq /\ ByDay(p) = rule.byday
    BY <1>2, <1>7, <2>2, FreqsOfTypes DEF ByDay
  <2> QED BY <1>1, <2>2, <2>3, <2>4, <2>5, BackIs
<1> QED BY <1>3, <1>4, <1>5, <1>6, <1>7 DEF Supported

-----------------------------------------------------------------------------
(* The theorems *)

\* What was sent and what Graph holds follow from the rule last written, and what
\* was read from what Graph holds.
RInv ==
  /\ written = NoRule => sent = NoSeries /\ (series = NoSeries \/ Held(series))
  /\ written # NoRule =>
       written \in RulesOK /\ sent = rruleToGraph(written) /\ series = Made(written)
  /\ shown # NoRule => series # NoSeries /\ shown = graphToRrule(series)
  /\ copies \in Nat

LEMMA SeriesIsHeld == RInv /\ series # NoSeries => Held(series)
BY MadeIsHeld DEF RInv

LEMMA PostIs ==
  ASSUME NEW rule \in RulesOK, Post(rule)
  PROVE  /\ written' = rule /\ written' # NoRule /\ sent' = rruleToGraph(rule)
         /\ series' = Made(rule) /\ shown' = NoRule
<1>1. rruleToGraph(rule).pattern = PatternOf(rule)
  BY DEF rruleToGraph
<1> QED BY <1>1, HeldIsSeries DEF Post, Made

LEMMA RInvStep ==
  ASSUME RInv, [Next]_vars
  PROVE  RInv'
<1>1. CASE Write
  <2>1. PICK rule \in RulesOK : Post(rule)
    BY <1>1, WrittenRules DEF Write
  <2>2. copies' = copies
    BY <1>1 DEF Write
  <2> QED BY <2>1, <2>2, PostIs DEF RInv
<1>2. CASE MadeInOutlook
  <2>1. Held(series') /\ UNCHANGED <<written, sent, shown, copies>> /\ written = NoRule /\ series = NoSeries
    BY <1>2, OutlookHolds DEF MadeInOutlook
  <2> QED BY <2>1 DEF RInv
<1>3. CASE Read
  BY <1>3 DEF Read, RInv
<1>4. CASE Copy
  <2>1. Held(series) /\ shown = graphToRrule(series)
    BY <1>4, SeriesIsHeld DEF Copy, RInv
  <2>2. shown \in RulesOK
    BY <2>1, CopyIs
  <2>3. Post(shown) /\ copies' = copies + 1
    BY <1>4 DEF Copy
  <2> QED BY <2>2, <2>3, PostIs DEF RInv
<1>5. CASE UNCHANGED vars
  BY <1>5 DEF vars, RInv
<1> QED BY <1>1, <1>2, <1>3, <1>4, <1>5 DEF Next

LEMMA RInvHolds == Spec => []RInv
<1>1. Init => RInv
  BY DEF Init, RInv
<1> QED BY <1>1, RInvStep, PTL DEF Spec

\* What is sent to Graph has the form of GraphRecurrence and so has what it holds,
\* whatever rules clients write (rrule.ts:3-23).
THEOREM TypeCorrect == Spec => []TypeOK
<1>1. \A p \in PatternsOK :
        /\ p.type \in Types /\ p.interval \in Nat \ {0} /\ p.dayOfMonth \in Int /\ p.month \in Nat
        /\ p.index \in Indexes \cup {""}
        /\ \A i \in DOMAIN p.days : \E d \in DOMAIN DayNames : p.days[i] = DayNames[d]
  <2> TAKE p \in PatternsOK
  <2>1. p.days \in Seq(Names)
    BY DEF PatternsOK
  <2>2. \A i \in DOMAIN p.days : p.days[i] \in Names
    BY <2>1, LenProperties, ElementOfSeq
  <2>3. \A i \in DOMAIN p.days : \E d \in DOMAIN DayNames : p.days[i] = DayNames[d]
    BY <2>2, DayNamesAre
  <2> QED BY <2>3 DEF PatternsOK
<1>2. \A p : HeldPattern(p) => p \in PatternsOK
  <2> TAKE p
  <2> HAVE HeldPattern(p)
  <2>1. PICK i \in Nat \ {0}, t \in Types, d \in Seq(Names), n \in Int, m \in Nat, x \in Indexes \cup {""} :
          p = Pattern(t, i, d, n, m, x)
    <3>1. 0 \in Int /\ 0 \in Nat /\ 1 .. 31 \subseteq Int /\ 1 .. 12 \subseteq Nat
      OBVIOUS
    <3>2. <<>> \in Seq(Names)
      BY NoEntry
    <3>3. Indexes \subseteq Indexes \cup {""} /\ "" \in Indexes \cup {""}
      OBVIOUS
    <3> QED BY <3>1, <3>2, <3>3 DEF HeldPattern, Types
  <2> QED BY <2>1 DEF Pattern, PatternsOK
<1>3. HeldRanges \subseteq RangeType
  BY DEF HeldRanges, RangeType, Ranged
<1>4. RInv => TypeOK
  <2> SUFFICES ASSUME RInv, NEW g \in {sent, series} \ {NoSeries}
               PROVE  g.pattern \in PatternsOK /\ g.range \in RangeType
    BY <1>1 DEF TypeOK
  <2>1. CASE g = series
    BY <1>2, <1>3, <2>1, SeriesIsHeld DEF Held
  <2>2. CASE g = sent
    <3>1. written \in RulesOK /\ g = rruleToGraph(written)
      BY <2>2 DEF RInv
    <3>2. g.pattern = PatternOf(written) /\ g.range = RangeOf(written)
      BY <3>1 DEF rruleToGraph
    <3>3. written.until \in Untils /\ written.count \in Nat
      BY <3>1 DEF RulesOK
    <3> QED BY <3>1, <3>2, <3>3, PatternIs, RangeIs
  <2> QED BY <2>1, <2>2
<1> QED BY <1>4, RInvHolds, PTL

\* A rule of a supported form is accepted and comes back as it was written, but for
\* the time of day of its UNTIL (rrule.ts:36-144), whatever series it is a copy of.
THEOREM WrittenComesBack == Spec => []WrittenIsShown
<1>1. RInv => WrittenIsShown
  <2> SUFFICES ASSUME RInv, written # NoRule, Supported(written)
               PROVE  /\ series # NoSeries
                      /\ shown # NoRule =>
                           shown = [written EXCEPT !.until = IF @ = <<>> THEN <<>> ELSE <<@[1], "midnight">>]
    BY DEF WrittenIsShown
  <2>1. written \in RulesOK /\ series = Made(written)
    BY DEF RInv
  <2>2. series # NoSeries /\ graphToRrule(series) = [written EXCEPT !.until = Cut(written.until)]
    BY <2>1, SupportedIsShown
  <2>3. shown # NoRule => shown = [written EXCEPT !.until = Cut(written.until)]
    BY <2>2 DEF RInv
  <2> QED BY <2>2, <2>3 DEF Cut
<1> QED BY <1>1, RInvHolds, PTL

\* Making an event anew from the rule it is shown with is never refused, keeps how
\* often and how long it repeats, and keeps the whole series unless the conversion
\* narrows it, which it never does to a series createEvent made (rrule.ts:56-141).
THEOREM CopiesKeep == Spec => CopyKeeps
<1>1. RInv /\ [Next]_vars =>
        [copies' > copies =>
           /\ series' # NoSeries
           /\ series'.range = series.range /\ series'.pattern.interval = series.pattern.interval
           /\ written # NoRule \/ ~Narrowed(series) => series' = series]_vars
  <2> SUFFICES ASSUME RInv, Next, copies' > copies
               PROVE  /\ series' # NoSeries
                      /\ series'.range = series.range
                      /\ series'.pattern.interval = series.pattern.interval
                      /\ written # NoRule \/ ~Narrowed(series) => series' = series
    OBVIOUS
  <2>1. Copy
    <3>1. copies \in Nat /\ ~(copies > copies)
      BY DEF RInv
    <3> QED BY <3>1 DEF Next, Write, MadeInOutlook, Read
  <2>2. Held(series) /\ series # NoSeries /\ shown = graphToRrule(series)
    BY <2>1, SeriesIsHeld DEF Copy, RInv
  <2>3. /\ shown \in RulesOK /\ Made(shown) # NoSeries
        /\ Made(shown).range = series.range /\ Made(shown).pattern.interval = series.pattern.interval
        /\ ~Narrow(series.pattern) => Made(shown) = series
    BY <2>2, CopyIs
  <2>4. series' = Made(shown)
    BY <2>1, <2>3, PostIs DEF Copy
  <2>5. written # NoRule \/ ~Narrowed(series) => ~Narrow(series.pattern)
    <3>1. written # NoRule => ~Narrow(series.pattern)
      BY <2>2, MadeIsWhole DEF RInv
    <3> QED BY <3>1 DEF Narrowed, Narrow
  <2> QED BY <2>3, <2>4, <2>5
<1> QED BY <1>1, RInvHolds, PTL DEF Spec, CopyKeeps
====
