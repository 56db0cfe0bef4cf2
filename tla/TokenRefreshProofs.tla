-------------------------- MODULE TokenRefreshProofs --------------------------
(***************************************************************************)
(* Theorems about TokenRefresh for every number of accounts, overlapping   *)
(* passes, batch limit, failure limit, and faults.                         *)
(***************************************************************************)
EXTENDS TokenRefresh, TLAPS

\* An update by id changes one row, and none that was deleted.
LEMMA WriteEffect ==
  ASSUME rows \in [Accounts -> Row], NEW a \in Accounts, NEW b \in Accounts, NEW row, Write(a, row)
  PROVE  rows'[b] = rows[b] \/ (b = a /\ Exists(b) /\ rows'[b] = row)
BY DEF Write, Exists

LEMMA WriteType ==
  ASSUME rows \in [Accounts -> Row], NEW a \in Accounts, NEW row \in Row, Write(a, row)
  PROVE  rows' \in [Accounts -> Row]
BY DEF Write

LEMMA RowType ==
  ASSUME NEW s \in Status, NEW n \in Nat, NEW f \in BOOLEAN, NEW t \in Nat
  PROVE  RowOf(s, n, f, t) \in Row
BY DEF RowOf, Row

\* The clock changes no more than the freshness of one row.
LEMMA ExpireEffect ==
  ASSUME rows \in [Accounts -> Row], NEW a \in Accounts, NEW b \in Accounts, Expire(a)
  PROVE  rows'[b].status = rows[b].status /\ rows'[b].failCount = rows[b].failCount
<1>1. rows' = [rows EXCEPT ![a] = RowOf(rows[a].status, rows[a].failCount, FALSE, rows[a].token)]
  BY DEF Expire, Write
<1>2. CASE a = b
  BY <1>1, <1>2 DEF RowOf
<1>3. CASE a # b
  BY <1>1, <1>3
<1> QED
  BY <1>2, <1>3

LEMMA InitType == Init => TypeOK
BY ConstantsAssumption DEF Init, TypeOK, Row, RowOf, Columns, Status, Steps

\* The generation a server hands out is one of its numbers.
LEMMA HonourType ==
  ASSUME TypeOK, NEW a \in Accounts, NEW next \in 0..MaxToken, Honour(a, next)
  PROVE  /\ valid' \in [Accounts -> SUBSET Nat]
         /\ issued' \in [Accounts -> Nat]
<1>1. next \in Nat /\ {next} \in SUBSET Nat
  BY ConstantsAssumption
<1>2. CASE UNCHANGED server
  BY <1>2 DEF TypeOK, server
<1>3. CASE issued' = [issued EXCEPT ![a] = next] /\ valid' = [valid EXCEPT ![a] = {next}]
  BY <1>1, <1>3 DEF TypeOK
<1> QED
  BY <1>2, <1>3 DEF Honour

LEMMA NextType == ASSUME TypeOK, [Next]_vars PROVE TypeOK'
<1> USE ConstantsAssumption DEF TypeOK, pass, faults, server, Goto, NextAccount
<1>a. ASSUME NEW a \in Accounts
      PROVE  /\ rows[a] \in Row /\ rows[a].status \in Status /\ rows[a].failCount \in Nat
             /\ rows[a].fresh \in BOOLEAN /\ rows[a].token \in Nat
  BY DEF Row
<1>1. ASSUME NEW a \in Accounts, Connect(a) PROVE TypeOK'
  <2>1. RowOf("active", 0, TRUE, 1) \in Row
    BY DEF Row, RowOf, Status
  <2>2. {1} \in SUBSET Nat
    OBVIOUS
  <2>3. rows' \in [Accounts -> Row]
    BY <1>1, <2>1 DEF Connect
  <2>4. valid' \in [Accounts -> SUBSET Nat] /\ issued' \in [Accounts -> Nat]
    BY <1>1, <2>2 DEF Connect
  <2> QED
    BY <1>1, <2>3, <2>4 DEF Connect
<1>2. ASSUME NEW a \in Accounts, Delete(a) PROVE TypeOK'
  <2>1. RowOf("deleted", 0, FALSE, 0) \in Row
    BY DEF Row, RowOf, Status
  <2> QED
    BY <1>2, <2>1 DEF Delete
<1>3. ASSUME NEW a \in Accounts, Expire(a) PROVE TypeOK'
  <2>1. RowOf(rows[a].status, rows[a].failCount, FALSE, rows[a].token) \in Row
    BY <1>a, RowType
  <2>2. rows' \in [Accounts -> Row]
    BY <1>3, <2>1, WriteType DEF Expire
  <2> QED
    BY <1>3, <2>2 DEF Expire
<1>4. ASSUME NEW a \in Accounts, Revoke(a) PROVE TypeOK'
  BY <1>4 DEF Revoke
<1>5. ASSUME NEW w \in Workers, StartPass(w) PROVE TypeOK'
  <2>1. ASSUME NEW batch \in SUBSET Expiring
        PROVE  [a \in Accounts |-> IF a \in batch THEN Columns(rows[a].failCount, rows[a].token)
                                                  ELSE Columns(0, 0)]
                 \in [Accounts -> [failCount : Nat, token : Nat]]
    BY <1>a DEF Columns
  <2>2. PICK batch \in SUBSET Expiring :
          /\ todo' = [todo EXCEPT ![w] = batch]
          /\ seen' = [seen EXCEPT ![w] = [a \in Accounts |->
               IF a \in batch THEN Columns(rows[a].failCount, rows[a].token) ELSE Columns(0, 0)]]
    BY <1>5 DEF StartPass
  <2>3. seen' \in [Workers -> [Accounts -> [failCount : Nat, token : Nat]]]
    BY <2>1, <2>2
  <2>4. todo' \in [Workers -> SUBSET Accounts]
    BY <2>2 DEF Expiring
  <2> QED
    BY <1>5, <2>3, <2>4 DEF StartPass, Steps
<1>6. ASSUME NEW w \in Workers, NextInBatch(w) PROVE TypeOK'
  BY <1>6 DEF NextInBatch, Steps
<1>7. ASSUME NEW w \in Workers, Granted(w) PROVE TypeOK'
  <2>1. PICK next \in 0..MaxToken :
          /\ Honour(cur[w], next)
          /\ got' = [got EXCEPT ![w] = IF cur[w] \in Google THEN next ELSE 0]
    BY <1>7 DEF Granted
  <2>2. got' \in [Workers -> Nat]
    BY <2>1
  <2> QED
    BY <1>7, <2>1, <2>2, HonourType DEF Granted, Steps
<1>8. ASSUME NEW w \in Workers, Refused(w) PROVE TypeOK'
  BY <1>8 DEF Refused, Steps, OneMore
<1>9. ASSUME NEW w \in Workers, AnswerLost(w) PROVE TypeOK'
  <2>1. PICK next \in 0..MaxToken : Honour(cur[w], next)
    BY <1>9 DEF AnswerLost
  <2> QED
    BY <1>9, <2>1, HonourType DEF AnswerLost, Steps, OneMore
<1>10. ASSUME NEW w \in Workers, SaveTokens(w) PROVE TypeOK'
  <2> DEFINE row == RowOf("active", 0, TRUE, IF got[w] = 0 THEN rows[cur[w]].token ELSE got[w])
  <2>1. row \in Row
    BY <1>a, RowType DEF Status
  <2>2. rows' \in [Accounts -> Row]
    BY <1>10, <2>1, WriteType DEF SaveTokens
  <2>3. failures' \in [Accounts -> 0..MaxFailCount]
    BY <1>10 DEF SaveTokens
  <2>4. got' \in [Workers -> Nat] /\ pc' \in [Workers -> Steps]
    BY <1>10 DEF SaveTokens, Steps
  <2> QED
    BY <1>10, <2>2, <2>3, <2>4 DEF SaveTokens
<1>11. ASSUME NEW w \in Workers, RecordFailure(w) PROVE TypeOK'
  <2>1. PICK s \in Status :
          Write(cur[w], RowOf(s, seen[w][cur[w]].failCount + 1, rows[cur[w]].fresh, rows[cur[w]].token))
    BY <1>11 DEF RecordFailure, Status
  <2>2. RowOf(s, seen[w][cur[w]].failCount + 1, rows[cur[w]].fresh, rows[cur[w]].token) \in Row
    BY <1>a, RowType
  <2>3. rows' \in [Accounts -> Row]
    BY <2>1, <2>2, WriteType
  <2> QED
    BY <1>11, <2>3 DEF RecordFailure, Steps
<1>12. ASSUME NEW w \in Workers, DbErrorInTry(w) PROVE TypeOK'
  BY <1>12 DEF DbErrorInTry, Steps, OneMore
<1>13. ASSUME NEW w \in Workers, DbErrorInCatch(w) PROVE TypeOK'
  BY <1>13 DEF DbErrorInCatch, AbandonPass, Steps
<1>14. ASSUME NEW w \in Workers, Crash(w) PROVE TypeOK'
  BY <1>14 DEF Crash, AbandonPass, Steps
<1>15. CASE UNCHANGED vars
  BY <1>15 DEF vars
<1> QED
  BY <1>1, <1>2, <1>3, <1>4, <1>5, <1>6, <1>7, <1>8, <1>9, <1>10, <1>11, <1>12, <1>13, <1>14, <1>15
     DEF Next, PassStep, Fault

\* Every variable keeps its type.
THEOREM TypeCorrect == Spec => []TypeOK
<1>1. TypeOK /\ [Next]_vars => TypeOK'
  BY NextType
<1> QED
  BY InitType, <1>1, PTL DEF Spec

-----------------------------------------------------------------------------
\* The status and the counter of a row tell the same story, however passes
\* overlap: both columns are written by one update.
StatusMatchesCount ==
  \A a \in Accounts : Exists(a) =>
    (rows[a].status = "refresh_failed" <=> rows[a].failCount >= MaxFailCount)

LEMMA CountNext == ASSUME TypeOK, StatusMatchesCount, [Next]_vars PROVE StatusMatchesCount'
<1> USE ConstantsAssumption DEF TypeOK, StatusMatchesCount, Exists
<1>1. ASSUME UNCHANGED rows PROVE StatusMatchesCount'
  BY <1>1
<1>2. ASSUME NEW a \in Accounts, Connect(a) \/ Delete(a) PROVE StatusMatchesCount'
  <2>1. CASE Connect(a)
    BY <2>1 DEF Connect, RowOf
  <2>2. CASE Delete(a)
    BY <2>2 DEF Delete, RowOf
  <2> QED
    BY <1>2, <2>1, <2>2
<1>3. ASSUME NEW a \in Accounts, Expire(a) PROVE StatusMatchesCount'
  BY <1>3, ExpireEffect
<1>4. ASSUME NEW w \in Workers, SaveTokens(w) PROVE StatusMatchesCount'
  <2>1. ASSUME NEW b \in Accounts
        PROVE  rows'[b] = rows[b] \/ (rows'[b].status = "active" /\ rows'[b].failCount = 0)
    BY <1>4, WriteEffect DEF SaveTokens, RowOf
  <2> QED
    BY <2>1
<1>5. ASSUME NEW w \in Workers, RecordFailure(w) PROVE StatusMatchesCount'
  <2> DEFINE n == seen[w][cur[w]].failCount + 1
  <2>0. n \in Nat
    OBVIOUS
  <2>1. ASSUME NEW b \in Accounts
        PROVE  \/ rows'[b] = rows[b]
               \/ /\ rows'[b].failCount = n
                  /\ rows'[b].status = IF n >= MaxFailCount THEN "refresh_failed" ELSE "active"
    BY <1>5, WriteEffect DEF RecordFailure, RowOf
  <2> QED
    BY <2>0, <2>1
<1> QED
  BY <1>1, <1>2, <1>3, <1>4, <1>5
     DEF Next, PassStep, Fault, Revoke, StartPass, NextInBatch, Granted, Refused, AnswerLost,
         DbErrorInTry, DbErrorInCatch, Crash, vars

-----------------------------------------------------------------------------
\* One pass at a time.
Serial == \A v, w \in Workers : v = w

Reaches(a, n) == n <= failures[a] \/ failures[a] = MaxFailCount

\* The counter of a row does not run ahead of the failures behind it.
CounterEarned(a) == Exists(a) => Reaches(a, rows[a].failCount)

\* What the pass holds of an account it has still to update is what the row
\* says: only one pass writes.
PassIsCurrent(w, a) ==
  /\ pc[w] = "idle" => todo[w] = {}
  /\ (a \in todo[w] /\ pc[w] \in Busy) => cur[w] # a
  /\ a \in todo[w] \/ (pc[w] \in Busy /\ cur[w] = a) =>
       \/ rows[a].status = "deleted"
       \/ rows[a].status = "active" /\ seen[w][a].failCount = rows[a].failCount
  /\ (pc[w] = "catch" /\ cur[w] = a /\ rows[a].status = "active") =>
       Reaches(a, rows[a].failCount + 1)

EarnedInv ==
  /\ TypeOK
  /\ StatusMatchesCount
  /\ \A a \in Accounts : CounterEarned(a)
  /\ \A w \in Workers, a \in Accounts : PassIsCurrent(w, a)

LEMMA EarnedInit == Init => EarnedInv
BY InitType DEF Init, EarnedInv, StatusMatchesCount, CounterEarned, PassIsCurrent, Exists, RowOf,
  Busy

LEMMA EarnedNext ==
  ASSUME Serial, EarnedInv, [Next]_vars
  PROVE  EarnedInv'
<1>0. TypeOK /\ TypeOK' /\ StatusMatchesCount'
  BY NextType, CountNext DEF EarnedInv
<1>01. ASSUME NEW a \in Accounts PROVE CounterEarned(a)
  BY DEF EarnedInv
<1>02. ASSUME NEW w \in Workers, NEW a \in Accounts PROVE PassIsCurrent(w, a)
  BY DEF EarnedInv
<1> USE <1>0, <1>01, <1>02, ConstantsAssumption
    DEF TypeOK, CounterEarned, PassIsCurrent, Reaches, Exists, pass, faults, server, Goto, NextAccount
<1> DEFINE Good == /\ \A a \in Accounts : CounterEarned(a)
                   /\ \A w \in Workers, a \in Accounts : PassIsCurrent(w, a)
<1>1. ASSUME NEW a \in Accounts, Connect(a) PROVE Good'
  <2>1. /\ UNCHANGED <<pass, failures>>
        /\ rows[a].status = "none"
        /\ rows'[a].failCount = 0
        /\ \A b \in Accounts \ {a} : rows'[b] = rows[b]
    BY <1>1 DEF Connect, RowOf
  <2>2. ASSUME NEW b \in Accounts PROVE CounterEarned(b)'
    BY <2>1
  <2>3. ASSUME NEW w \in Workers, NEW b \in Accounts PROVE PassIsCurrent(w, b)'
    <3>1. CASE a = b
      <4>1. PassIsCurrent(w, a)
        OBVIOUS
      <4>2. a \notin todo[w] /\ ~(pc[w] \in Busy /\ cur[w] = a)
        BY <2>1, <4>1
      <4> QED
        BY <2>1, <3>1, <4>1, <4>2 DEF Busy
    <3>2. CASE a # b
      BY <2>1, <3>2
    <3> QED
      BY <3>1, <3>2
  <2> QED
    BY <2>2, <2>3
<1>2. ASSUME NEW a \in Accounts, Delete(a) PROVE Good'
  BY <1>2 DEF Delete, RowOf
<1>3. ASSUME NEW a \in Accounts, Expire(a) PROVE Good'
  <2>1. ASSUME NEW b \in Accounts
        PROVE  rows'[b].status = rows[b].status /\ rows'[b].failCount = rows[b].failCount
    BY <1>3, ExpireEffect
  <2>2. UNCHANGED <<pass, failures>>
    BY <1>3 DEF Expire
  <2>3. ASSUME NEW b \in Accounts PROVE CounterEarned(b)'
    BY <2>1, <2>2
  <2>4. ASSUME NEW w \in Workers, NEW b \in Accounts PROVE PassIsCurrent(w, b)'
    <3>1. PassIsCurrent(w, b)
      OBVIOUS
    <3>2. /\ rows'[b].status = rows[b].status
          /\ rows'[b].failCount = rows[b].failCount
          /\ UNCHANGED <<pc, todo, seen, cur, failures>>
      BY <2>1, <2>2
    <3> QED
      BY <3>1, <3>2
  <2> QED
    BY <2>3, <2>4
<1>4. ASSUME NEW w \in Workers, StartPass(w) PROVE Good'
  <2>1. PICK batch \in SUBSET Expiring :
          /\ todo' = [todo EXCEPT ![w] = batch]
          /\ seen' = [seen EXCEPT ![w] = [a \in Accounts |->
               IF a \in batch THEN Columns(rows[a].failCount, rows[a].token) ELSE Columns(0, 0)]]
    BY <1>4 DEF StartPass
  <2>2. \A a \in batch : rows[a].status = "active" /\ seen'[w][a].failCount = rows[a].failCount
    BY <2>1 DEF Expiring, Columns
  <2>3. /\ pc' = [pc EXCEPT ![w] = "loop"]
        /\ UNCHANGED <<rows, cur, failures>>
    BY <1>4 DEF StartPass
  <2>4. ASSUME NEW a \in Accounts PROVE CounterEarned(a)'
    BY <2>3
  <2>5. ASSUME NEW v \in Workers, NEW a \in Accounts PROVE PassIsCurrent(v, a)'
    <3>1. v = w
      BY DEF Serial
    <3>2. pc'[v] = "loop" /\ todo'[v] = batch
      BY <2>1, <2>3, <3>1
    <3>3. a \in batch => rows'[a].status = "active" /\ seen'[v][a].failCount = rows'[a].failCount
      BY <2>2, <2>3, <3>1
    <3> QED
      BY <3>2, <3>3 DEF Busy
  <2> QED
    BY <2>4, <2>5
<1>5. ASSUME NEW w \in Workers, NextInBatch(w) PROVE Good'
  BY <1>5 DEF NextInBatch, Busy, Serial
<1>6. ASSUME NEW w \in Workers, Granted(w) PROVE Good'
  BY <1>6 DEF Granted, Busy, Serial
<1>7. ASSUME NEW w \in Workers, Refused(w) \/ AnswerLost(w) \/ DbErrorInTry(w) PROVE Good'
  <2>1. /\ UNCHANGED <<rows, todo, seen, cur>>
        /\ pc[w] \in {"fetch", "save"} /\ pc' = [pc EXCEPT ![w] = "catch"]
        /\ failures' = [failures EXCEPT ![cur[w]] = OneMore(@)]
    BY <1>7 DEF Refused, AnswerLost, DbErrorInTry
  <2>2. ASSUME NEW a \in Accounts
        PROVE  /\ failures[a] <= failures'[a] /\ failures'[a] <= MaxFailCount
               /\ a = cur[w] => failures'[a] = failures[a] + 1 \/ failures'[a] = MaxFailCount
    BY <2>1 DEF OneMore
  <2>3. ASSUME NEW a \in Accounts PROVE rows[a].failCount \in Nat
    BY DEF Row
  <2>4. ASSUME NEW a \in Accounts PROVE CounterEarned(a)'
    BY <2>1, <2>2, <2>3
  <2>5. ASSUME NEW v \in Workers, NEW a \in Accounts PROVE PassIsCurrent(v, a)'
    <3>1. v = w
      BY DEF Serial
    <3>2. (cur[w] = a /\ rows[a].status = "active") => Reaches(a, rows[a].failCount + 1)'
      <4> SUFFICES ASSUME cur[w] = a, rows[a].status = "active"
                   PROVE  Reaches(a, rows[a].failCount + 1)'
        OBVIOUS
      <4>1. rows[a].failCount <= failures[a] \/ failures[a] = MaxFailCount
        OBVIOUS
      <4>2. failures'[a] = failures[a] + 1 \/ failures'[a] = MaxFailCount
        BY <2>2
      <4>3. rows[a].failCount \in Nat /\ failures[a] \in 0..MaxFailCount
            /\ failures[a] <= failures'[a] /\ failures'[a] <= MaxFailCount
        BY <2>2, <2>3
      <4>4. rows[a].failCount + 1 <= failures'[a] \/ failures'[a] = MaxFailCount
        BY <4>1, <4>2, <4>3
      <4> QED
        BY <2>1, <4>4
    <3> QED
      BY <2>1, <3>1, <3>2 DEF Busy
  <2> QED
    BY <2>4, <2>5
<1>8. ASSUME NEW w \in Workers, SaveTokens(w) PROVE Good'
  <2>1. ASSUME NEW a \in Accounts
        PROVE  rows'[a] = rows[a] \/ (a = cur[w] /\ rows'[a].failCount = 0 /\ rows'[a].status = "active")
    BY <1>8, WriteEffect DEF SaveTokens, RowOf
  <2>2. ~Exists(cur[w]) \/ rows'[cur[w]].failCount = 0
    BY <1>8 DEF SaveTokens, RowOf, Write
  <2>3. ~Exists(cur[w]) => rows'[cur[w]] = rows[cur[w]]
    BY <1>8 DEF SaveTokens, Write
  <2>4. ASSUME NEW a \in Accounts PROVE CounterEarned(a)'
    BY <1>8, <2>1, <2>2, <2>3 DEF SaveTokens
  <2>5. ASSUME NEW v \in Workers, NEW a \in Accounts PROVE PassIsCurrent(v, a)'
    <3>1. v = w /\ pc'[w] \notin Busy /\ (pc'[w] = "idle" => todo[w] = {}) /\ UNCHANGED <<todo, seen, cur>>
          /\ pc[w] \in Busy
      BY <1>8 DEF SaveTokens, Serial, Busy
    <3>2. a \in todo[w] => a # cur[w] /\ rows'[a] = rows[a]
      BY <2>1, <3>1
    <3> QED
      BY <3>1, <3>2 DEF Busy
  <2> QED
    BY <2>4, <2>5
<1>9. ASSUME NEW w \in Workers, RecordFailure(w) PROVE Good'
  <2>1. ASSUME NEW a \in Accounts
        PROVE  \/ rows'[a] = rows[a]
               \/ a = cur[w] /\ Exists(a) /\ rows'[a].failCount = seen[w][a].failCount + 1
    BY <1>9, WriteEffect DEF RecordFailure, RowOf
  <2>2. pc[w] = "catch" /\ pc[w] \in Busy /\ UNCHANGED <<todo, seen, cur, failures>>
    BY <1>9 DEF RecordFailure, Busy
  <2>3. Exists(cur[w]) => rows[cur[w]].status = "active"
    BY <2>2
  <2>4. ASSUME NEW a \in Accounts PROVE CounterEarned(a)'
    <3>1. CASE rows'[a] = rows[a]
      BY <2>2, <3>1
    <3>2. CASE a = cur[w] /\ Exists(a) /\ rows'[a].failCount = seen[w][a].failCount + 1
      <4>1. PassIsCurrent(w, a)
        OBVIOUS
      <4>2. Reaches(a, rows[a].failCount + 1) /\ seen[w][a].failCount = rows[a].failCount
        BY <2>2, <2>3, <3>2, <4>1
      <4> QED
        BY <2>2, <3>2, <4>2
    <3> QED
      BY <2>1, <3>1, <3>2
  <2>5. ASSUME NEW v \in Workers, NEW a \in Accounts PROVE PassIsCurrent(v, a)'
    <3>1. v = w /\ pc'[w] \notin Busy /\ (pc'[w] = "idle" => todo[w] = {})
      BY <1>9 DEF RecordFailure, Serial, Busy
    <3>2. a \in todo[w] => a # cur[w] /\ rows'[a] = rows[a]
      BY <2>1, <2>2, <3>1
    <3> QED
      BY <2>2, <3>1, <3>2 DEF Busy
  <2> QED
    BY <2>4, <2>5
<1>10. ASSUME NEW w \in Workers, DbErrorInCatch(w) \/ Crash(w) PROVE Good'
  BY <1>10 DEF DbErrorInCatch, Crash, AbandonPass, Busy, Serial
<1>11. ASSUME UNCHANGED <<rows, pass, failures>> PROVE Good'
  BY <1>11
<1>12. Good'
  BY <1>1, <1>2, <1>3, <1>4, <1>5, <1>6, <1>7, <1>8, <1>9, <1>10, <1>11
     DEF Next, PassStep, Fault, Revoke, vars
<1> QED
  BY <1>12 DEF EarnedInv

\* While passes do not overlap, an account is given up only after MAX_FAIL_COUNT
\* failed refreshes with no saved one between them, through crashes and errors.
THEOREM RefreshFailedEarned == ASSUME Serial PROVE Spec => []RefreshFailedIsEarned
<1>1. EarnedInv /\ [Next]_vars => EarnedInv'
  BY EarnedNext
<1>2. EarnedInv => RefreshFailedIsEarned
  <2> SUFFICES ASSUME EarnedInv, NEW a \in Accounts, rows[a].status = "refresh_failed"
               PROVE  failures[a] = MaxFailCount
    BY DEF RefreshFailedIsEarned
  <2>1. rows[a].failCount >= MaxFailCount
    BY DEF EarnedInv, StatusMatchesCount, Exists
  <2>2. Reaches(a, rows[a].failCount)
    BY DEF EarnedInv, CounterEarned, Exists
  <2>3. rows[a].failCount \in Nat /\ failures[a] \in 0..MaxFailCount
    BY DEF EarnedInv, TypeOK, Row
  <2> QED
    BY <2>1, <2>2, <2>3, ConstantsAssumption DEF Reaches
<1> QED
  BY EarnedInit, <1>1, <1>2, PTL DEF Spec

\* The row of an account in the rotation has every failure since the last saved
\* refresh, but for the one its pass is about to write.
Counted(a) ==
  /\ rows[a].status = "none" => failures[a] = 0
  /\ rows[a].status = "active" =>
       \/ failures[a] <= rows[a].failCount
       \/ /\ failures[a] <= rows[a].failCount + 1
          /\ \E w \in Workers : pc[w] = "catch" /\ cur[w] = a

TimelyInv == EarnedInv /\ (crashes + dbErrors = 0 => \A a \in Accounts : Counted(a))

LEMMA CountedNext ==
  ASSUME Serial, EarnedInv, [Next]_vars, NEW a \in Accounts, Counted(a),
         crashes' + dbErrors' = 0, crashes + dbErrors = 0
  PROVE  Counted(a)'
<1>0. TypeOK /\ (\A w \in Workers : PassIsCurrent(w, a))
      /\ rows[a].failCount \in Nat /\ failures[a] \in 0..MaxFailCount
  BY DEF EarnedInv, TypeOK, Row
<1>1. ASSUME NEW b \in Accounts, Connect(b) PROVE Counted(a)'
  <2>1. UNCHANGED <<pc, cur, failures>> /\ (a # b => rows'[a] = rows[a])
        /\ (a = b => rows[a].status = "none" /\ rows'[a].status = "active" /\ rows'[a].failCount = 0)
    BY <1>0, <1>1 DEF Connect, TypeOK, RowOf, pass
  <2> QED
    BY <1>0, <2>1 DEF Counted
<1>2. ASSUME NEW b \in Accounts, Delete(b) PROVE Counted(a)'
  <2>1. UNCHANGED <<pc, cur, failures>> /\ (rows'[a] = rows[a] \/ rows'[a].status = "deleted")
    BY <1>0, <1>2 DEF Delete, TypeOK, RowOf, pass
  <2> QED
    BY <1>0, <2>1 DEF Counted
<1>3. ASSUME NEW b \in Accounts, Expire(b) PROVE Counted(a)'
  <2>1. UNCHANGED <<pc, cur, failures>>
        /\ rows'[a].status = rows[a].status /\ rows'[a].failCount = rows[a].failCount
    BY <1>0, <1>3, ExpireEffect DEF Expire, TypeOK, pass
  <2> QED
    BY <2>1 DEF Counted
<1>4. ASSUME NEW w \in Workers, StartPass(w) \/ NextInBatch(w) \/ Granted(w) PROVE Counted(a)'
  <2>1. UNCHANGED <<rows, failures>> /\ pc[w] # "catch" /\ (\A v \in Workers : v = w)
    BY <1>4 DEF StartPass, NextInBatch, Granted, Serial
  <2>2. failures[a] <= rows[a].failCount \/ rows[a].status # "active"
    BY <2>1 DEF Counted
  <2> QED
    BY <2>1, <2>2 DEF Counted
<1>5. ASSUME NEW w \in Workers, Refused(w) \/ AnswerLost(w) PROVE Counted(a)'
  <2>1. /\ UNCHANGED <<rows, cur>> /\ pc[w] = "fetch" /\ pc'[w] = "catch"
        /\ failures' = [failures EXCEPT ![cur[w]] = OneMore(@)]
        /\ \A v \in Workers : v = w
    BY <1>0, <1>5 DEF Refused, AnswerLost, Goto, TypeOK, Serial
  <2>2. failures[a] <= rows[a].failCount \/ rows[a].status # "active"
    BY <2>1 DEF Counted
  <2>3. CASE cur[w] # a
    <3>1. failures'[a] = failures[a]
      BY <1>0, <2>1, <2>3 DEF TypeOK
    <3> QED
      BY <2>1, <2>2, <3>1 DEF Counted
  <2>4. CASE cur[w] = a
    <3>1. failures'[a] <= failures[a] + 1 /\ failures'[a] \in Nat
      BY <1>0, <2>1, <2>4, ConstantsAssumption DEF TypeOK, OneMore
    <3>2. rows[a].status # "none"
      BY <1>0, <2>1, <2>4 DEF PassIsCurrent, Busy
    <3>3. rows[a].status = "active" => failures'[a] <= rows[a].failCount + 1
      BY <1>0, <2>2, <3>1
    <3> QED
      BY <2>1, <2>4, <3>2, <3>3 DEF Counted
  <2> QED
    BY <2>3, <2>4
<1>6. ASSUME NEW w \in Workers, SaveTokens(w) PROVE Counted(a)'
  <2>1. /\ UNCHANGED cur /\ pc[w] = "save" /\ \A v \in Workers : v = w
        /\ failures' = [failures EXCEPT ![cur[w]] = 0] /\ cur[w] \in Accounts
        /\ Write(cur[w], RowOf("active", 0, TRUE, IF got[w] = 0 THEN rows[cur[w]].token ELSE got[w]))
    BY <1>0, <1>6 DEF SaveTokens, TypeOK, Serial
  <2>2. CASE cur[w] # a
    <3>1. failures'[a] = failures[a] /\ rows'[a] = rows[a]
      BY <1>0, <2>1, <2>2 DEF TypeOK, Write
    <3> QED
      BY <2>1, <3>1 DEF Counted
  <2>3. CASE cur[w] = a
    <3>1. failures'[a] = 0
      BY <1>0, <2>1, <2>3 DEF TypeOK
    <3>2. rows'[a].failCount \in Nat
      BY <1>0, <2>1, <2>3 DEF TypeOK, Write, RowOf
    <3> QED
      BY <3>1, <3>2 DEF Counted
  <2> QED
    BY <2>2, <2>3
<1>7. ASSUME NEW w \in Workers, RecordFailure(w) PROVE Counted(a)'
  <2>1. /\ UNCHANGED <<cur, failures>> /\ pc[w] = "catch" /\ pc'[w] # "catch"
        /\ \A v \in Workers : v = w
        /\ cur[w] \in Accounts
    BY <1>0, <1>7 DEF RecordFailure, NextAccount, Goto, TypeOK, Serial
  <2>2. PICK s \in {"active", "refresh_failed"} : Write(cur[w],
          RowOf(s, seen[w][cur[w]].failCount + 1, rows[cur[w]].fresh, rows[cur[w]].token))
    BY <1>7 DEF RecordFailure
  <2>3. CASE cur[w] # a
    <3>1. rows'[a] = rows[a]
      BY <1>0, <2>1, <2>2, <2>3 DEF TypeOK, Write
    <3>2. failures[a] <= rows[a].failCount \/ rows[a].status # "active"
      BY <2>1, <2>3 DEF Counted
    <3> QED
      BY <2>1, <3>1, <3>2 DEF Counted
  <2>4. CASE cur[w] = a
    <3>1. rows[a].status = "deleted" \/
          (rows[a].status = "active" /\ seen[w][a].failCount = rows[a].failCount)
      BY <1>0, <2>1, <2>4 DEF PassIsCurrent, Busy
    <3>2. CASE rows[a].status = "deleted"
      <4>1. rows'[a] = rows[a]
        BY <2>2, <2>4, <3>2 DEF Write, Exists
      <4> QED
        BY <3>2, <4>1 DEF Counted
    <3>3. CASE rows[a].status = "active" /\ seen[w][a].failCount = rows[a].failCount
      <4>1. rows'[a].failCount = rows[a].failCount + 1 /\ rows'[a].status # "none"
        BY <1>0, <2>2, <2>4, <3>3 DEF Write, Exists, RowOf, TypeOK
      <4>2. failures[a] <= rows[a].failCount + 1
        BY <1>0, <3>3 DEF Counted
      <4> QED
        BY <2>1, <4>1, <4>2 DEF Counted
    <3> QED
      BY <3>1, <3>2, <3>3
  <2> QED
    BY <2>3, <2>4
<1>8. ASSUME NEW w \in Workers, Fault(w), ~AnswerLost(w) PROVE FALSE
  <2>1. crashes \in Nat /\ dbErrors \in Nat
    BY <1>0 DEF TypeOK
  <2>2. \/ crashes' = crashes + 1 /\ dbErrors' = dbErrors
        \/ crashes' = crashes /\ dbErrors' = dbErrors + 1
    BY <1>8 DEF Fault, DbErrorInTry, DbErrorInCatch, Crash
  <2> QED
    BY <2>1, <2>2
<1>9. ASSUME UNCHANGED <<rows, pc, cur, failures>> PROVE Counted(a)'
  BY <1>9 DEF Counted
<1> QED
  BY <1>1, <1>2, <1>3, <1>4, <1>5, <1>6, <1>7, <1>8, <1>9
     DEF Next, PassStep, Fault, Revoke, vars, pass

LEMMA NoneBefore ==
  ASSUME NEW x \in Nat, NEW y \in Nat, NEW u \in Nat, NEW v \in Nat, u >= x, v >= y, u + v = 0
  PROVE  x + y = 0
OBVIOUS

\* While passes do not overlap and nothing keeps a failure from its row, an
\* account is given up no later than after MAX_FAIL_COUNT failures in a row.
THEOREM GivenUpTimely == ASSUME Serial PROVE Spec => []GivenUpInTime
<1>1. Init => TimelyInv
  BY EarnedInit DEF Init, TimelyInv, Counted, RowOf
<1>2. TimelyInv /\ [Next]_vars => TimelyInv'
  <2> SUFFICES ASSUME TimelyInv, [Next]_vars PROVE TimelyInv'
    OBVIOUS
  <2>1. EarnedInv /\ EarnedInv'
    BY EarnedNext DEF TimelyInv
  <2>2. /\ crashes \in Nat /\ dbErrors \in Nat
        /\ crashes' \in Nat /\ dbErrors' \in Nat /\ crashes' >= crashes /\ dbErrors' >= dbErrors
    <3>1. crashes \in Nat /\ dbErrors \in Nat
      BY <2>1 DEF EarnedInv, TypeOK
    <3>2. crashes' \in {crashes, crashes + 1} /\ dbErrors' \in {dbErrors, dbErrors + 1}
      BY DEF Next, PassStep, Fault, Connect, Delete, Expire, Revoke, StartPass, NextInBatch,
             Granted, Refused, AnswerLost, SaveTokens, RecordFailure, DbErrorInTry,
             DbErrorInCatch, Crash, vars, faults
    <3> QED
      BY <3>1, <3>2
  <2>3. ASSUME NEW a \in Accounts, (crashes + dbErrors = 0)' PROVE Counted(a)'
    <3>1. crashes + dbErrors = 0
      BY <2>2, <2>3, NoneBefore
    <3> QED
      BY <2>1, <2>3, <3>1, CountedNext DEF TimelyInv
  <2> QED
    BY <2>1, <2>3 DEF TimelyInv
<1>3. TimelyInv => GivenUpInTime
  <2> SUFFICES ASSUME TimelyInv, crashes + dbErrors = 0, NEW a \in Accounts,
                      rows[a].status = "active", ~InHand(a)
               PROVE  failures[a] < MaxFailCount
    BY DEF GivenUpInTime
  <2>1. failures[a] <= rows[a].failCount
    BY DEF TimelyInv, Counted, InHand, Busy
  <2>2. rows[a].failCount \in Nat /\ failures[a] \in 0..MaxFailCount
    BY DEF TimelyInv, EarnedInv, TypeOK, Row
  <2>3. rows[a].failCount < MaxFailCount
    BY <2>2, ConstantsAssumption DEF TimelyInv, EarnedInv, StatusMatchesCount, Exists
  <2> QED
    BY <2>1, <2>2, <2>3, ConstantsAssumption
<1> QED
  BY <1>1, <1>2, <1>3, PTL DEF Spec

\* ... and it is never taken back into the rotation.
THEOREM RefreshFailedFinal == ASSUME Serial PROVE Spec => RefreshFailedIsFinal
<1>1. EarnedInv /\ [Next]_vars => EarnedInv'
  BY EarnedNext
<1>2. ASSUME EarnedInv, [Next]_vars
      PROVE  [\A a \in Accounts : rows[a].status = "refresh_failed" =>
                rows'[a].status \in {"refresh_failed", "deleted"}]_vars
  <2> SUFFICES ASSUME NEW a \in Accounts, rows[a].status = "refresh_failed"
               PROVE  rows'[a].status \in {"refresh_failed", "deleted"}
    OBVIOUS
  <2>0. TypeOK
    BY <1>2 DEF EarnedInv
  <2>1. ASSUME NEW w \in Workers, SaveTokens(w) \/ RecordFailure(w) PROVE rows'[a] = rows[a]
    <3>1. PICK row : Write(cur[w], row)
      BY <2>1 DEF SaveTokens, RecordFailure
    <3>2. pc[w] \in Busy /\ cur[w] \in Accounts
      BY <2>0, <2>1 DEF SaveTokens, RecordFailure, Busy, TypeOK
    <3>3. cur[w] # a
      BY <1>2, <3>2 DEF EarnedInv, PassIsCurrent
    <3> QED
      BY <2>0, <3>1, <3>2, <3>3, WriteEffect DEF TypeOK
  <2>2. ASSUME NEW b \in Accounts, Connect(b) \/ Delete(b)
        PROVE  rows'[a].status \in {"refresh_failed", "deleted"}
    <3>1. CASE Connect(b)
      BY <2>0, <3>1 DEF Connect, RowOf, TypeOK
    <3>2. CASE Delete(b)
      BY <2>0, <3>2 DEF Delete, RowOf, TypeOK
    <3> QED
      BY <2>2, <3>1, <3>2
  <2>3. ASSUME NEW b \in Accounts, Expire(b) PROVE rows'[a].status = rows[a].status
    BY <2>0, <2>3, ExpireEffect DEF TypeOK
  <2> QED
    BY <1>2, <2>1, <2>2, <2>3
       DEF Next, PassStep, Fault, Revoke, StartPass, NextInBatch, Granted, Refused, AnswerLost,
           DbErrorInTry, DbErrorInCatch, Crash, vars
<1> QED
  BY EarnedInit, <1>1, <1>2, PTL DEF Spec, RefreshFailedIsFinal

-----------------------------------------------------------------------------
(* Stored refresh tokens are good *)

\* The pass holds a token for account a that is not yet stored.
Carried(w, a) == pc[w] = "save" /\ cur[w] = a /\ got[w] # 0

\* The server honours the token on its way to the row, and else the one in the row.
GoodToken(a) ==
  Exists(a) /\ valid[a] # {} =>
    /\ \A w \in Workers : Carried(w, a) => got[w] \in valid[a]
    /\ (\A w \in Workers : ~Carried(w, a)) => rows[a].token \in valid[a]

NoFault == crashes + dbErrors + lost = 0
TokenInv == EarnedInv /\ (NoFault => \A a \in Google : GoodToken(a))

LEMMA TokenInit == Init => TokenInv
<1>1. Init => \A a \in Google : valid[a] = {}
  BY ConstantsAssumption DEF Init
<1> QED BY <1>1, EarnedInit DEF TokenInv, GoodToken

LEMMA TokenNext ==
  ASSUME Serial, TokenInv, [Next]_vars
  PROVE  TokenInv'
<1>0. /\ EarnedInv /\ TypeOK /\ EarnedInv' /\ Google \subseteq Accounts
      /\ crashes \in Nat /\ dbErrors \in Nat /\ lost \in Nat
  BY EarnedNext, ConstantsAssumption DEF TokenInv, EarnedInv, TypeOK
<1>1. SUFFICES ASSUME NoFault' PROVE \A a \in Google : GoodToken(a)'
  BY <1>0 DEF TokenInv
<1>2. CASE UNCHANGED vars
  BY <1>1, <1>2 DEF TokenInv, NoFault, GoodToken, Carried, Exists, vars, pass, faults, server
<1>3. ASSUME NEW w \in Workers, Fault(w) PROVE FALSE
  BY <1>0, <1>1, <1>3 DEF Fault, AnswerLost, DbErrorInTry, DbErrorInCatch, Crash, NoFault
<1>4. ASSUME UNCHANGED faults, NEW a \in Google PROVE GoodToken(a) /\ a \in Accounts
  BY <1>0, <1>1, <1>4 DEF TokenInv, NoFault, faults
<1>5. ASSUME NEW b \in Accounts, Connect(b), NEW a \in Google PROVE GoodToken(a)'
  <2>1. /\ GoodToken(a) /\ a \in Accounts /\ UNCHANGED pass /\ rows[b].status = "none"
        /\ rows' = [rows EXCEPT ![b] = RowOf("active", 0, TRUE, 1)] /\ valid' = [valid EXCEPT ![b] = {1}]
    BY <1>4, <1>5 DEF Connect
  <2>2. CASE a = b
    <3>1. rows'[a].token = 1 /\ valid'[a] = {1}
      BY <1>0, <2>1, <2>2 DEF TypeOK, RowOf
    <3>2. \A w \in Workers : ~Carried(w, a)
      BY <1>0, <2>1, <2>2 DEF EarnedInv, PassIsCurrent, Carried, Busy
    <3> QED BY <2>1, <3>1, <3>2 DEF GoodToken, Carried, pass
  <2>3. CASE a # b
    <3>1. rows'[a] = rows[a] /\ valid'[a] = valid[a]
      BY <1>0, <2>1, <2>3 DEF TypeOK
    <3> QED BY <2>1, <3>1 DEF GoodToken, Carried, Exists, pass
  <2> QED BY <2>2, <2>3
<1>6. ASSUME NEW a \in Google, GoodToken(a), UNCHANGED <<cur, got, valid>>,
             rows'[a].token = rows[a].token, Exists(a)' => Exists(a),
             \A w \in Workers : pc'[w] = "save" <=> pc[w] = "save"
      PROVE  GoodToken(a)'
  BY <1>6 DEF GoodToken, Carried
<1>7. ASSUME NEW b \in Accounts, Delete(b), NEW a \in Google PROVE GoodToken(a)'
  <2>1. GoodToken(a) /\ a \in Accounts /\ UNCHANGED <<pass, server>>
        /\ rows' = [rows EXCEPT ![b] = RowOf("deleted", 0, FALSE, 0)]
    BY <1>4, <1>7 DEF Delete
  <2>2. a = b => ~Exists(a)'
    BY <1>0, <2>1 DEF TypeOK, RowOf, Exists
  <2>3. a # b => rows'[a] = rows[a]
    BY <1>0, <2>1 DEF TypeOK
  <2> QED BY <2>1, <2>2, <2>3 DEF GoodToken, Carried, Exists, pass, server
<1>8. ASSUME NEW b \in Accounts, Expire(b), NEW a \in Google PROVE GoodToken(a)'
  <2>1. rows'[a].token = rows[a].token /\ rows'[a].status = rows[a].status
    BY <1>0, <1>4, <1>8, WriteEffect DEF Expire, RowOf, TypeOK
  <2> QED BY <1>4, <1>6, <1>8, <2>1 DEF Expire, Exists, pass, server
<1>9. ASSUME NEW b \in Accounts, Revoke(b), NEW a \in Google PROVE GoodToken(a)'
  <2>1. GoodToken(a) /\ a \in Accounts /\ UNCHANGED <<rows, pass>> /\ valid' = [valid EXCEPT ![b] = {}]
    BY <1>4, <1>9 DEF Revoke
  <2>2. valid'[a] = valid[a] \/ valid'[a] = {}
    BY <1>0, <2>1 DEF TypeOK
  <2> QED BY <2>1, <2>2 DEF GoodToken, Carried, Exists, pass
<1>10. ASSUME NEW w \in Workers, StartPass(w) \/ NextInBatch(w) \/ Refused(w), NEW a \in Google
       PROVE  GoodToken(a)'
  <2>1. /\ UNCHANGED <<rows, got, server, faults>> /\ pc[w] # "save" /\ pc'[w] # "save"
        /\ \A v \in Workers : v = w
    BY <1>0, <1>10 DEF StartPass, NextInBatch, Refused, Goto, TypeOK, Serial
  <2>2. \A v \in Workers : ~Carried(v, a) /\ ~Carried(v, a)'
    BY <2>1 DEF Carried
  <2> QED BY <1>4, <2>1, <2>2 DEF GoodToken, Exists, server
<1>11. ASSUME NEW w \in Workers, Granted(w), NEW a \in Google PROVE GoodToken(a)'
  <2>1. PICK next \in 0 .. MaxToken :
          /\ Honour(cur[w], next)
          /\ got' = [got EXCEPT ![w] = IF cur[w] \in Google THEN next ELSE 0]
    BY <1>11 DEF Granted
  <2>2. /\ UNCHANGED <<rows, cur, faults>> /\ pc[w] = "fetch" /\ pc'[w] = "save"
        /\ \A v \in Workers : v = w
    BY <1>0, <1>11 DEF Granted, Goto, TypeOK, Serial
  <2>3. GoodToken(a) /\ a \in Accounts /\ cur[w] \in Accounts
        /\ got'[w] = (IF cur[w] \in Google THEN next ELSE 0)
    BY <1>0, <1>4, <2>1, <2>2 DEF TypeOK
  <2>4. \A v \in Workers : ~Carried(v, a)
    BY <2>2 DEF Carried
  <2>5. CASE cur[w] # a
    <3>1. valid'[a] = valid[a]
      BY <1>0, <2>1, <2>3, <2>5 DEF Honour, TypeOK, server
    <3>2. \A v \in Workers : ~Carried(v, a)'
      BY <2>2, <2>5 DEF Carried
    <3> QED BY <2>2, <2>3, <2>4, <3>1, <3>2 DEF GoodToken, Exists
  <2>6. CASE cur[w] = a
    <3>1. CASE next = 0 /\ UNCHANGED server
      <4>1. \A v \in Workers : ~Carried(v, a)'
        BY <2>2, <2>3, <3>1 DEF Carried
      <4> QED BY <2>2, <2>3, <2>4, <3>1, <4>1 DEF GoodToken, Exists, server
    <3>2. CASE next = issued[a] + 1 /\ valid' = [valid EXCEPT ![a] = {next}]
      <4>1. next # 0 /\ valid'[a] = {next} /\ got'[w] = next
        BY <1>0, <2>3, <2>6, <3>2 DEF TypeOK
      <4>2. Carried(w, a)'
        BY <2>2, <2>6, <4>1 DEF Carried
      <4> QED BY <2>2, <4>1, <4>2 DEF GoodToken
    <3> QED BY <2>1, <2>6, <3>1, <3>2 DEF Honour
  <2> QED BY <2>5, <2>6
<1>12. ASSUME NEW w \in Workers, SaveTokens(w), NEW a \in Google PROVE GoodToken(a)'
  <2>1. /\ UNCHANGED <<cur, server, faults>> /\ pc[w] = "save" /\ pc'[w] # "save"
        /\ \A v \in Workers : v = w
        /\ Write(cur[w], RowOf("active", 0, TRUE, IF got[w] = 0 THEN rows[cur[w]].token ELSE got[w]))
    BY <1>0, <1>12 DEF SaveTokens, NextAccount, Goto, TypeOK, Serial
  <2>2. GoodToken(a) /\ a \in Accounts /\ cur[w] \in Accounts
    BY <1>0, <1>4, <2>1 DEF TypeOK
  <2>3. \A v \in Workers : ~Carried(v, a)'
    BY <2>1 DEF Carried
  <2>4. CASE cur[w] # a \/ ~Exists(cur[w])
    <3>1. rows'[a] = rows[a]
      BY <1>0, <2>1, <2>2, <2>4 DEF Write, TypeOK
    <3>2. Exists(a) => \A v \in Workers : ~Carried(v, a)
      BY <2>1, <2>4 DEF Carried
    <3> QED BY <2>1, <2>2, <2>3, <3>1, <3>2 DEF GoodToken, Exists, server
  <2>5. CASE cur[w] = a /\ Exists(a)
    <3>1. rows'[a].token = IF got[w] = 0 THEN rows[a].token ELSE got[w]
      BY <1>0, <2>1, <2>2, <2>5 DEF Write, RowOf, TypeOK
    <3>2. valid[a] # {} => rows'[a].token \in valid[a]
      BY <2>1, <2>2, <2>5, <3>1 DEF GoodToken, Carried
    <3> QED BY <2>1, <2>3, <3>2 DEF GoodToken, server
  <2> QED BY <2>4, <2>5
<1>13. ASSUME NEW w \in Workers, RecordFailure(w), NEW a \in Google PROVE GoodToken(a)'
  <2>1. /\ UNCHANGED <<cur, got, server, faults>> /\ pc[w] = "catch" /\ pc'[w] # "save"
        /\ \A v \in Workers : v = w
    BY <1>0, <1>13 DEF RecordFailure, NextAccount, Goto, TypeOK, Serial
  <2>2. rows'[a].token = rows[a].token /\ (Exists(a)' => Exists(a))
    BY <1>0, <1>4, <1>13, <2>1, WriteEffect DEF RecordFailure, RowOf, TypeOK, Write, Exists
  <2> QED BY <1>4, <1>6, <2>1, <2>2 DEF server
<1> QED
  BY <1>2, <1>3, <1>5, <1>7, <1>8, <1>9, <1>10, <1>11, <1>12, <1>13 DEF Next, PassStep

\* While passes do not overlap, and no crash, error or lost answer comes between the
\* server's step and the update, rotation leaves no account with a token that is withdrawn.
THEOREM StoredTokensAreGood == ASSUME Serial PROVE Spec => []StoredTokenIsGood
<1>1. TokenInv /\ [Next]_vars => TokenInv'
  BY TokenNext
<1>2. TokenInv => StoredTokenIsGood
  BY DEF TokenInv, NoFault, GoodToken, Carried, StoredTokenIsGood, InHand, Busy
<1> QED
  BY TokenInit, <1>1, <1>2, PTL DEF Spec
=============================================================================
