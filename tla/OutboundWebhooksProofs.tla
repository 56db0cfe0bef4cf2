------------------------ MODULE OutboundWebhooksProofs ------------------------
(***************************************************************************)
(* Theorems about OutboundWebhooks for every number of webhooks, events,   *)
(* overlapping passes, retries, crashes and database errors.               *)
(***************************************************************************)
EXTENDS OutboundWebhooks, TLAPS

\* The failCount update leaves rows of outbound_webhooks.
LEMMA WriteFailCountType ==
  ASSUME hooks \in [Hooks -> HookRow], NEW h, NEW n \in 0..1, WriteFailCount(h, n)
  PROVE  hooks' \in [Hooks -> HookRow]
<1>1. HookRowOf("live", n) \in HookRow
  BY DEF HookRow, HookRowOf
<1>2. CASE hooks[h].state = "live"
  <2>1. hooks' = [hooks EXCEPT ![h] = HookRowOf("live", n)]
    BY <1>2 DEF WriteFailCount
  <2> QED
    BY <1>1, <2>1
<1>3. CASE hooks[h].state # "live"
  BY <1>3 DEF WriteFailCount
<1> QED
  BY <1>2, <1>3

LEMMA InitType == Init => TypeOK
BY DEF Init, TypeOK, HookRow, HookRowOf, Row, NoRow, Status, Steps, Busy, AfterPost, Posted, Answers

LEMMA NextType == ASSUME TypeOK, [Next]_vars PROVE TypeOK'
<1> USE ConstantsAssumption
    DEF TypeOK, HookRow, HookRowOf, Row, NoRow, Status, Steps, Busy, AfterPost, Posted, Answers,
        caller, faults, observed, pass, database
<1>1. ASSUME NEW h \in Hooks, CreateWebhook(h) PROVE TypeOK'
  BY <1>1 DEF CreateWebhook
<1>2. ASSUME NEW h \in Hooks, DeleteWebhook(h) PROVE TypeOK'
  BY <1>2 DEF DeleteWebhook
<1>3. ASSUME NEW e \in Events, SelectHooks(e) PROVE TypeOK'
  BY <1>3 DEF SelectHooks
<1>4. ASSUME NEW e \in Events, AbortEnqueue(e) PROVE TypeOK'
  BY <1>4 DEF AbortEnqueue
<1>5. ASSUME NEW h \in Hooks, NEW e \in Events, InsertDelivery(h, e) PROVE TypeOK'
  BY <1>5 DEF InsertDelivery, Deliveries
<1>6. ASSUME NEW d \in Deliveries, RetryDelivery(d) PROVE TypeOK'
  BY <1>6 DEF RetryDelivery, Write, Exists
<1>7. ASSUME NEW d \in Deliveries, DelayElapses(d) PROVE TypeOK'
  BY <1>7 DEF DelayElapses, Write, Exists
<1>8. ASSUME NEW w \in Workers, StartPass(w) PROVE TypeOK'
  BY <1>8 DEF StartPass, Pending, Goto
<1>9. ASSUME NEW w \in Workers, FindHook(w) PROVE TypeOK'
  BY <1>9 DEF FindHook, Goto
<1>10. ASSUME NEW w \in Workers, SkipDelivery(w) PROVE TypeOK'
  BY <1>10 DEF SkipDelivery, Goto
<1>11. ASSUME NEW w \in Workers, Post(w) PROVE TypeOK'
  <2>1. cur[w] \in Deliveries
    BY <1>11 DEF Post
  <2>2. taken' \subseteq Deliveries /\ answer' \in [Deliveries -> Answers]
    BY <1>11, <2>1 DEF Post
  <2>3. posts' \in [Workers -> [Deliveries -> Nat]]
    BY <1>11, <2>1 DEF Post
  <2>4. /\ pc' \in [Workers -> Steps]
        /\ \A v \in Workers : pc'[v] \in Busy => v = w \/ pc[v] \in Busy
    BY <1>11 DEF Post, Goto
  <2> QED
    BY <1>11, <2>1, <2>2, <2>3, <2>4 DEF Post
<1>12. ASSUME NEW w \in Workers, MarkDelivered(w) PROVE TypeOK'
  BY <1>12 DEF MarkDelivered, Write, Goto
<1>13. ASSUME NEW w \in Workers, ResetFailCount(w) PROVE TypeOK'
  <2>1. hooks' \in [Hooks -> HookRow]
    BY <1>13, WriteFailCountType DEF ResetFailCount
  <2>2. /\ pc' \in [Workers -> Steps]
        /\ cur' = [cur EXCEPT ![w] = NoDelivery]
        /\ pc'[w] \notin Busy
        /\ \A v \in Workers \ {w} : pc'[v] = pc[v]
    BY <1>13 DEF ResetFailCount, NextDelivery, Goto
  <2>3. cur' \in [Workers -> Deliveries \cup {NoDelivery}]
    BY <2>2
  <2>4. \A v \in Workers : cur'[v] \in Deliveries \/ (pc'[v] \notin Busy /\ cur'[v] = NoDelivery)
    BY <2>2
  <2> QED
    BY <1>13, <2>1, <2>2, <2>3, <2>4 DEF ResetFailCount
<1>14. ASSUME NEW w \in Workers, ScheduleRetry(w) PROVE TypeOK'
  BY <1>14 DEF ScheduleRetry, Write, NextDelivery, Goto
<1>15. ASSUME NEW w \in Workers, MarkDead(w) PROVE TypeOK'
  BY <1>15 DEF MarkDead, Write, Goto
<1>16. ASSUME NEW w \in Workers, MarkHookFailed(w) PROVE TypeOK'
  <2>1. hooks' \in [Hooks -> HookRow]
    BY <1>16, WriteFailCountType DEF MarkHookFailed
  <2>2. /\ pc' \in [Workers -> Steps]
        /\ cur' = [cur EXCEPT ![w] = NoDelivery]
        /\ pc'[w] \notin Busy
        /\ \A v \in Workers \ {w} : pc'[v] = pc[v]
    BY <1>16 DEF MarkHookFailed, NextDelivery, Goto
  <2>3. cur' \in [Workers -> Deliveries \cup {NoDelivery}]
    BY <2>2
  <2>4. \A v \in Workers : cur'[v] \in Deliveries \/ (pc'[v] \notin Busy /\ cur'[v] = NoDelivery)
    BY <2>2
  <2> QED
    BY <1>16, <2>1, <2>2, <2>3, <2>4 DEF MarkHookFailed
<1>17. ASSUME NEW w \in Workers, DbErrorInTry(w) PROVE TypeOK'
  BY <1>17 DEF DbErrorInTry, Goto
<1>18. ASSUME NEW w \in Workers, DbErrorOutsideTry(w) PROVE TypeOK'
  BY <1>18 DEF DbErrorOutsideTry, AbandonPass, Goto
<1>19. ASSUME NEW w \in Workers, Crash(w) PROVE TypeOK'
  BY <1>19 DEF Crash, AbandonPass, Goto
<1>20. CASE UNCHANGED vars
  BY <1>20 DEF vars
<1>21. QED
  BY <1>1, <1>2, <1>3, <1>4, <1>5, <1>6, <1>7, <1>8, <1>9, <1>10, <1>11, <1>12, <1>13, <1>14, <1>15, <1>16, <1>17, <1>18, <1>19, <1>20 DEF Next, Request, PassStep, Fault

\* Every variable keeps its type, and a pass inside the loop body has a
\* delivery in hand: cur is never read when it holds none.
THEOREM TypeCorrect == Spec => []TypeOK
<1>1. TypeOK /\ [Next]_vars => TypeOK'
  BY NextType
<1> QED
  BY InitType, <1>1, PTL DEF Spec

-----------------------------------------------------------------------------
\* A delivery whose insert an enqueueDelivery call has still ahead of it.
ToInsert(d) == pub[d[2]] = "idle" \/ d[1] \in fan[d[2]]

Allowance(w, d) == 1 + retries[d] + interrupted[w][d]

\* The budget of POSTs of one pass for one delivery: a POST is left wherever
\* one may still be sent, which is while the row is pending (unless this pass
\* has just sent it), in the snapshot, and before the fetch.
Budget(w, d) ==
  /\ posts[w][d] <= Allowance(w, d)
  /\ (rows[d].status = "pending" /\ ~(pc[w] \in Posted /\ cur[w] = d)) => posts[w][d] < Allowance(w, d)
  /\ d \in snap[w] => posts[w][d] < Allowance(w, d)
  /\ (pc[w] = "post" /\ cur[w] = d) => posts[w][d] < Allowance(w, d)

\* A delivery is in hand or in the snapshot, not both; one that is not inserted
\* yet is in neither and has no POST to its name.
Handled(w, d) ==
  /\ (d \in snap[w] /\ pc[w] \in Busy) => cur[w] # d
  /\ ToInsert(d) => /\ rows[d].status = "none"
                    /\ posts[w][d] = 0
                    /\ d \notin snap[w]
                    /\ pc[w] \in Busy => cur[w] # d

PostsInv ==
  /\ TypeOK
  /\ \A w \in Workers, d \in Deliveries : Budget(w, d) /\ Handled(w, d)

\* An update by id changes one row, and none that was deleted.
LEMMA WriteEffect ==
  ASSUME rows \in [Deliveries -> Row], NEW d \in Deliveries, NEW x \in Deliveries,
         NEW status, NEW attempts, NEW due, Write(d, status, attempts, due)
  PROVE  \/ rows'[x] = rows[x] /\ (x = d => rows[x].status = "none")
         \/ /\ x = d /\ rows[x].status # "none"
            /\ rows'[x] = [status |-> status, attempts |-> attempts, due |-> due]
<1>1. CASE Exists(d)
  <2>1. rows' = [rows EXCEPT ![d] = [status |-> status, attempts |-> attempts, due |-> due]]
    BY <1>1 DEF Write
  <2> QED
    BY <2>1, <1>1 DEF Exists
<1>2. CASE ~Exists(d)
  BY <1>2 DEF Write, Exists
<1> QED
  BY <1>1, <1>2

\* Every pass, however many overlap, sends one POST per insertion, per
\* retryDelivery and per attempt of its own that was cut off.
THEOREM PostsAreAccounted == Spec => []PostsAccounted
<1>1. Init => PostsInv
  <2> SUFFICES ASSUME Init PROVE PostsInv
    OBVIOUS
  <2>1. TypeOK
    BY InitType
  <2>2. ASSUME NEW w \in Workers, NEW d \in Deliveries PROVE Budget(w, d) /\ Handled(w, d)
    BY DEF Init, Budget, Handled, Allowance, NoRow, Posted, Busy, AfterPost
  <2> QED
    BY <2>1, <2>2 DEF PostsInv
<1>2. ASSUME PostsInv, [Next]_vars PROVE PostsInv'
  <2>0. TypeOK /\ TypeOK'
    BY <1>2, NextType DEF PostsInv
  <2> SUFFICES ASSUME NEW v \in Workers, NEW x \in Deliveries
               PROVE  (Budget(v, x) /\ Handled(v, x))'
    BY <2>0 DEF PostsInv
  <2>a. Budget(v, x) /\ Handled(v, x)
    BY <1>2 DEF PostsInv
  <2> USE <2>0, <2>a DEF TypeOK, Budget, Handled, Allowance, ToInsert, Row,
          caller, faults, observed, pass, database
  <2>1. ASSUME NEW h \in Hooks, CreateWebhook(h) PROVE (Budget(v, x) /\ Handled(v, x))'
    BY <2>1 DEF CreateWebhook, NoRow, Posted, Busy, AfterPost
  <2>2. ASSUME NEW h \in Hooks, DeleteWebhook(h) PROVE (Budget(v, x) /\ Handled(v, x))'
    BY <2>2 DEF DeleteWebhook, NoRow, Posted, Busy, AfterPost
  <2>3. ASSUME NEW e \in Events, SelectHooks(e) PROVE (Budget(v, x) /\ Handled(v, x))'
    BY <2>3 DEF SelectHooks, NoRow, Posted, Busy, AfterPost
  <2>4. ASSUME NEW e \in Events, AbortEnqueue(e) PROVE (Budget(v, x) /\ Handled(v, x))'
    BY <2>4 DEF AbortEnqueue, NoRow, Posted, Busy, AfterPost
  <2>5. ASSUME NEW h \in Hooks, NEW e \in Events, InsertDelivery(h, e) PROVE (Budget(v, x) /\ Handled(v, x))'
    BY <2>5 DEF InsertDelivery, Deliveries, NoRow, Posted, Busy, AfterPost
  <2>6. ASSUME NEW d \in Deliveries, RetryDelivery(d) PROVE (Budget(v, x) /\ Handled(v, x))'
    BY <2>6 DEF RetryDelivery, Write, Exists, NoRow, Posted, Busy, AfterPost
  <2>7. ASSUME NEW d \in Deliveries, DelayElapses(d) PROVE (Budget(v, x) /\ Handled(v, x))'
    BY <2>7 DEF DelayElapses, Write, Exists, NoRow, Posted, Busy, AfterPost
  <2>8. ASSUME NEW w \in Workers, StartPass(w) PROVE (Budget(v, x) /\ Handled(v, x))'
    BY <2>8 DEF StartPass, Pending, Goto, NoRow, Posted, Busy, AfterPost
  <2>9. ASSUME NEW w \in Workers, FindHook(w) PROVE (Budget(v, x) /\ Handled(v, x))'
    <3>1. UNCHANGED <<rows, pub, fan, posts, retries, interrupted>>
      BY <2>9 DEF FindHook
    <3>2. CASE v # w
      BY <2>9, <3>1, <3>2 DEF FindHook, Goto
    <3>3. CASE v = w
      <4>1. PICK d \in snap[w] : /\ snap'[w] = snap[w] \ {d}
                                 /\ cur'[w] = d
                                 /\ pc[w] = "scan" /\ pc'[w] = "post"
        BY <2>9 DEF FindHook, Goto
      <4> QED
        BY <3>1, <3>3, <4>1 DEF Posted, Busy, AfterPost
    <3> QED
      BY <3>2, <3>3
  <2>10. ASSUME NEW w \in Workers, SkipDelivery(w) PROVE (Budget(v, x) /\ Handled(v, x))'
    <3>1. /\ snap'[v] \subseteq snap[v]
          /\ pc'[v] = pc[v] \/ pc'[v] \notin Busy
          /\ UNCHANGED <<rows, pub, fan, posts, retries, interrupted, cur>>
      BY <2>10 DEF SkipDelivery, Goto, Posted, Busy, AfterPost
    <3>2. pc[v] \in Posted /\ cur[v] = x => pc'[v] = pc[v]
      BY <2>10 DEF SkipDelivery, Goto, Posted
    <3> QED
      BY <3>1, <3>2 DEF Posted, Busy, AfterPost
  <2>11. ASSUME NEW w \in Workers, Post(w) PROVE (Budget(v, x) /\ Handled(v, x))'
    <3>1. /\ UNCHANGED <<rows, pub, fan, snap, cur, retries, interrupted>>
          /\ posts' = [posts EXCEPT ![w][cur[w]] = @ + 1]
          /\ pc[w] = "post" /\ cur[w] \in Deliveries
      BY <2>11 DEF Post, Busy
    <3>2. pc'[w] \in Posted /\ \A u \in Workers \ {w} : pc'[u] = pc[u]
      BY <2>11 DEF Post, Goto, Posted
    <3>3. CASE v = w /\ x = cur[w]
      <4>1. posts'[v][x] = posts[v][x] + 1
        BY <3>1, <3>3
      <4>2. posts[v][x] < Allowance(v, x) /\ x \notin snap[v] /\ ~ToInsert(x)
        BY <3>1, <3>3 DEF Busy
      <4> QED
        BY <3>1, <3>2, <3>3, <4>1, <4>2 DEF Posted
    <3>4. CASE ~(v = w /\ x = cur[w])
      <4>1. posts'[v][x] = posts[v][x]
        BY <3>1, <3>4
      <4> QED
        BY <3>1, <3>2, <3>4, <4>1 DEF Posted, Busy, AfterPost
    <3> QED
      BY <3>3, <3>4
  <2>12. ASSUME NEW w \in Workers, MarkDelivered(w) PROVE (Budget(v, x) /\ Handled(v, x))'
    <3>1. /\ UNCHANGED <<pub, fan, snap, posts, retries, interrupted>>
          /\ pc[w] \in Posted /\ cur[w] \in Deliveries
          /\ \A u \in Workers \ {w} : pc'[u] = pc[u] /\ cur'[u] = cur[u]
      BY <2>12 DEF MarkDelivered, Goto, Posted, Busy, AfterPost
    <3>2. \/ /\ rows'[x] = rows[x]
             /\ x = cur[w] => rows[x].status = "none"
          \/ x = cur[w] /\ rows[x].status # "none" /\ rows'[x].status = "delivered"
      <4>1. Write(cur[w], "delivered", seen[w][cur[w]] + 1, rows[cur[w]].due)
        BY <2>12 DEF MarkDelivered
      <4> QED
        BY <3>1, <4>1, WriteEffect
    <3>3. pc'[w] # "post" /\ (pc'[w] \in Busy => cur'[w] = cur[w])
      BY <2>12 DEF MarkDelivered, Goto, Busy, AfterPost, Posted
    <3>4. pc'[w] \notin Posted
      BY <2>12 DEF MarkDelivered, Goto, Posted
    <3>5. CASE v = w
      BY <3>1, <3>2, <3>3, <3>4, <3>5 DEF Posted, Busy, AfterPost
    <3>6. CASE v # w
      BY <3>1, <3>2, <3>6
    <3> QED
      BY <3>5, <3>6
  <2>13. ASSUME NEW w \in Workers, ResetFailCount(w) PROVE (Budget(v, x) /\ Handled(v, x))'
    BY <2>13 DEF ResetFailCount, NextDelivery, Goto, NoRow, Posted, Busy, AfterPost
  <2>14. ASSUME NEW w \in Workers, ScheduleRetry(w) PROVE (Budget(v, x) /\ Handled(v, x))'
    <3>1. /\ UNCHANGED <<pub, fan, snap, posts, retries, interrupted>>
          /\ pc[w] \in Posted /\ cur[w] \in Deliveries
          /\ \A u \in Workers \ {w} : pc'[u] = pc[u] /\ cur'[u] = cur[u]
      BY <2>14 DEF ScheduleRetry, NextDelivery, Goto, Posted, Busy, AfterPost
    <3>2. \/ /\ rows'[x] = rows[x]
             /\ x = cur[w] => rows[x].status = "none"
          \/ x = cur[w] /\ rows[x].status # "none" /\ rows'[x].status = "failed"
      <4>1. Write(cur[w], "failed", seen[w][cur[w]] + 1, FALSE)
        BY <2>14 DEF ScheduleRetry
      <4>2. CASE Exists(cur[w])
        <5>1. rows' = [rows EXCEPT ![cur[w]] =
                         [status |-> "failed", attempts |-> seen[w][cur[w]] + 1, due |-> FALSE]]
          BY <4>1, <4>2 DEF Write
        <5> QED
          BY <3>1, <4>2, <5>1 DEF Exists
      <4>3. CASE ~Exists(cur[w])
        BY <4>1, <4>3 DEF Write, Exists
      <4> QED
        BY <4>2, <4>3
    <3>3. pc'[w] # "post" /\ (pc'[w] \in Busy => cur'[w] = cur[w])
      BY <2>14 DEF ScheduleRetry, NextDelivery, Goto, Busy, AfterPost, Posted
    <3>4. pc'[w] \notin Posted
      BY <2>14 DEF ScheduleRetry, NextDelivery, Goto, Posted
    <3>5. CASE v = w
      BY <3>1, <3>2, <3>3, <3>4, <3>5 DEF Posted, Busy, AfterPost
    <3>6. CASE v # w
      BY <3>1, <3>2, <3>6
    <3> QED
      BY <3>5, <3>6
  <2>15. ASSUME NEW w \in Workers, MarkDead(w) PROVE (Budget(v, x) /\ Handled(v, x))'
    <3>1. /\ UNCHANGED <<pub, fan, snap, posts, retries, interrupted>>
          /\ pc[w] \in Posted /\ cur[w] \in Deliveries
          /\ \A u \in Workers \ {w} : pc'[u] = pc[u] /\ cur'[u] = cur[u]
      BY <2>15 DEF MarkDead, Goto, Posted, Busy, AfterPost
    <3>2. \/ /\ rows'[x] = rows[x]
             /\ x = cur[w] => rows[x].status = "none"
          \/ x = cur[w] /\ rows[x].status # "none" /\ rows'[x].status = "dead"
      <4>1. Write(cur[w], "dead", seen[w][cur[w]] + 1, rows[cur[w]].due)
        BY <2>15 DEF MarkDead
      <4> QED
        BY <3>1, <4>1, WriteEffect
    <3>3. pc'[w] # "post" /\ (pc'[w] \in Busy => cur'[w] = cur[w])
      BY <2>15 DEF MarkDead, Goto, Busy, AfterPost, Posted
    <3>4. pc'[w] \notin Posted
      BY <2>15 DEF MarkDead, Goto, Posted
    <3>5. CASE v = w
      BY <3>1, <3>2, <3>3, <3>4, <3>5 DEF Posted, Busy, AfterPost
    <3>6. CASE v # w
      BY <3>1, <3>2, <3>6
    <3> QED
      BY <3>5, <3>6
  <2>16. ASSUME NEW w \in Workers, MarkHookFailed(w) PROVE (Budget(v, x) /\ Handled(v, x))'
    BY <2>16 DEF MarkHookFailed, NextDelivery, Goto, NoRow, Posted, Busy, AfterPost
  <2>17. ASSUME NEW w \in Workers, DbErrorInTry(w) PROVE (Budget(v, x) /\ Handled(v, x))'
    BY <2>17 DEF DbErrorInTry, Goto, NoRow, Posted, Busy, AfterPost
  <2>18. ASSUME NEW w \in Workers, DbErrorOutsideTry(w) PROVE (Budget(v, x) /\ Handled(v, x))'
    BY <2>18 DEF DbErrorOutsideTry, AbandonPass, Goto, NoRow, Posted, Busy, AfterPost
  <2>19. ASSUME NEW w \in Workers, Crash(w) PROVE (Budget(v, x) /\ Handled(v, x))'
    BY <2>19 DEF Crash, AbandonPass, Goto, NoRow, Posted, Busy, AfterPost
  <2>20. CASE UNCHANGED vars
    BY <2>20 DEF vars
  <2> QED
    BY <1>2, <2>1, <2>2, <2>3, <2>4, <2>5, <2>6, <2>7, <2>8, <2>9, <2>10, <2>11, <2>12, <2>13, <2>14, <2>15, <2>16, <2>17, <2>18, <2>19, <2>20 DEF Next, Request, PassStep, Fault
<1>3. PostsInv => PostsAccounted
  BY DEF PostsInv, PostsAccounted, Budget, Allowance
<1> QED
  BY <1>1, <1>2, <1>3, PTL DEF Spec

-----------------------------------------------------------------------------
\* A pending row has no attempt behind it, so every snapshot counts from zero.
FirstAttempt(d) ==
  /\ rows[d].attempts <= 1
  /\ rows[d].status = "pending" => rows[d].attempts = 0
  /\ rows[d].status = "dead" => MaxAttempts = 1
  /\ \A w \in Workers : seen[w][d] = 0

AttemptsInv == TypeOK /\ \A d \in Deliveries : FirstAttempt(d)

\* What becomes of a delivery by attempts of the worker's own, none of them asked
\* for by a user.  docs/concepts/webhooks.md:35-46 has a failed one tried again, up
\* to the eighth time, and dead after that; by the code no row has a second attempt
\* and dead is out of reach of any limit above one.
StopsAfterFirst ==
  \A d \in Deliveries :
    /\ rows[d].attempts <= 1
    /\ rows[d].status = "dead" => MaxAttempts = 1

\* The disagreement that RetrySchedule shows in one behaviour is one of all of
\* them: dispatchPendingWebhooks selects status pending, scheduleRetry writes
\* failed, and only a user's retryDelivery leads back, with attempts 0.
THEOREM NoSecondAttempt == Spec => []StopsAfterFirst
<1>1. Init => AttemptsInv
  BY InitType DEF Init, AttemptsInv, FirstAttempt, NoRow
<1>2. ASSUME AttemptsInv, [Next]_vars PROVE AttemptsInv'
  <2>0. TypeOK /\ TypeOK'
    BY <1>2, NextType DEF AttemptsInv
  <2> SUFFICES ASSUME NEW x \in Deliveries PROVE FirstAttempt(x)'
    BY <2>0 DEF AttemptsInv
  <2>a. FirstAttempt(x)
    BY <1>2 DEF AttemptsInv
  <2> USE <2>0, <2>a, ConstantsAssumption
          DEF TypeOK, FirstAttempt, Row, caller, faults, observed, pass, database
  <2>1. ASSUME UNCHANGED <<rows, seen>> PROVE FirstAttempt(x)'
    BY <2>1
  <2>2. ASSUME NEW h \in Hooks, DeleteWebhook(h) PROVE FirstAttempt(x)'
    BY <2>2 DEF DeleteWebhook, NoRow
  <2>3. ASSUME NEW h \in Hooks, NEW e \in Events, InsertDelivery(h, e) PROVE FirstAttempt(x)'
    BY <2>3 DEF InsertDelivery, Deliveries
  <2>4. ASSUME NEW d \in Deliveries, RetryDelivery(d) PROVE FirstAttempt(x)'
    BY <2>4 DEF RetryDelivery, Write, Exists
  <2>5. ASSUME NEW d \in Deliveries, DelayElapses(d) PROVE FirstAttempt(x)'
    BY <2>5 DEF DelayElapses, Write, Exists
  <2>6. ASSUME NEW w \in Workers, StartPass(w) PROVE FirstAttempt(x)'
    BY <2>6 DEF StartPass, Pending
  <2>7. ASSUME NEW w \in Workers, MarkDelivered(w) PROVE FirstAttempt(x)'
    <3>1. cur[w] \in Deliveries /\ UNCHANGED seen
          /\ Write(cur[w], "delivered", seen[w][cur[w]] + 1, rows[cur[w]].due)
      BY <2>7 DEF MarkDelivered, Busy, AfterPost, Posted
    <3>2. seen[w][cur[w]] = 0 \/ x # cur[w]
      OBVIOUS
    <3>3. \/ rows'[x] = rows[x]
          \/ /\ x = cur[w]
             /\ rows'[x].status = "delivered" /\ rows'[x].attempts = seen[w][cur[w]] + 1
      BY <3>1, WriteEffect
    <3> QED
      BY <3>1, <3>2, <3>3
  <2>8. ASSUME NEW w \in Workers, ScheduleRetry(w) PROVE FirstAttempt(x)'
    <3>1. cur[w] \in Deliveries /\ UNCHANGED seen
          /\ Write(cur[w], "failed", seen[w][cur[w]] + 1, FALSE)
      BY <2>8 DEF ScheduleRetry, Busy, AfterPost, Posted
    <3> QED
      BY <3>1 DEF Write, Exists
  <2>9. ASSUME NEW w \in Workers, MarkDead(w) PROVE FirstAttempt(x)'
    <3>1. cur[w] \in Deliveries /\ UNCHANGED seen /\ seen[w][cur[w]] + 1 >= MaxAttempts
          /\ Write(cur[w], "dead", seen[w][cur[w]] + 1, rows[cur[w]].due)
      BY <2>9 DEF MarkDead, Busy, AfterPost, Posted
    <3>2. seen[w][cur[w]] = 0 \/ x # cur[w]
      OBVIOUS
    <3> QED
      BY <3>1, <3>2, WriteEffect
  <2> QED
    BY <1>2, <2>1, <2>2, <2>3, <2>4, <2>5, <2>6, <2>7, <2>8, <2>9
       DEF Next, Request, PassStep, Fault, CreateWebhook, SelectHooks, AbortEnqueue, FindHook,
           SkipDelivery, Post, ResetFailCount, MarkHookFailed, DbErrorInTry, DbErrorOutsideTry,
           Crash, vars
<1>3. AttemptsInv => StopsAfterFirst
  BY DEF AttemptsInv, StopsAfterFirst, FirstAttempt
<1> QED
  BY <1>1, <1>2, <1>3, PTL DEF Spec

-----------------------------------------------------------------------------
\* One pass at a time, over a database whose statements do not throw.
Serial == /\ \A v, w \in Workers : v = w
          /\ MaxDbErrors = 0

Refusal == {"refused", "error"}

\* What a row says, and what the pass in progress is about to write, is the
\* last answer.
RowAgrees(d) ==
  /\ rows[d].status = "delivered" => answer[d] = "ok"
  /\ rows[d].status \in {"failed", "dead"} => answer[d] \in Refusal

PassAgrees(w, d) ==
  /\ (pc[w] = "deliver" /\ cur[w] = d) => answer[d] = "ok"
  /\ (pc[w] \in {"refused", "caught"} /\ cur[w] = d) => answer[d] \in Refusal

\* Until the pass writes it, a row of its snapshot is still pending, or deleted:
\* only one pass writes.
StillOpen(w, d) ==
  /\ pc[w] = "idle" => snap[w] = {}
  /\ d \in snap[w] \/ (pc[w] \in Posted \cup {"post"} /\ cur[w] = d)
       => rows[d].status \in {"none", "pending"}
  /\ (d \in snap[w] /\ pc[w] \in Busy) => cur[w] # d

AnswerInv ==
  /\ TypeOK
  /\ dbErrors = 0
  /\ \A d \in Deliveries : RowAgrees(d)
  /\ \A w \in Workers, d \in Deliveries : PassAgrees(w, d) /\ StillOpen(w, d)

LEMMA AnswerInit == Init => AnswerInv
BY InitType DEF Init, AnswerInv, RowAgrees, PassAgrees, StillOpen, NoRow, Posted

LEMMA AnswerNext ==
  ASSUME Serial, AnswerInv, [Next]_vars
  PROVE  AnswerInv'
<1>0. TypeOK /\ TypeOK'
  BY NextType DEF AnswerInv
<1>00. dbErrors = 0 /\ dbErrors' = 0
  <2>1. dbErrors = 0 /\ ~(dbErrors < MaxDbErrors)
    BY DEF AnswerInv, Serial
  <2>2. ASSUME NEW w \in Workers, PassStep(w) PROVE UNCHANGED dbErrors
    BY <2>2 DEF PassStep, faults, StartPass, FindHook, SkipDelivery, Post, MarkDelivered,
                ResetFailCount, ScheduleRetry, MarkDead, MarkHookFailed
  <2>3. ASSUME NEW w \in Workers, Fault(w) PROVE UNCHANGED dbErrors
    BY <2>1, <2>3 DEF Fault, DbErrorInTry, DbErrorOutsideTry, Crash
  <2>4. ASSUME Request \/ \E d \in Deliveries : DelayElapses(d) PROVE UNCHANGED dbErrors
    BY <2>4 DEF Request, faults, CreateWebhook, DeleteWebhook, SelectHooks, AbortEnqueue,
                InsertDelivery, RetryDelivery, DelayElapses
  <2> QED
    BY <2>1, <2>2, <2>3, <2>4 DEF Next, vars, faults
<1>01. ASSUME NEW x \in Deliveries PROVE RowAgrees(x)
  BY DEF AnswerInv
<1>02. ASSUME NEW v \in Workers, NEW x \in Deliveries PROVE PassAgrees(v, x) /\ StillOpen(v, x)
  BY DEF AnswerInv
<1> USE <1>0, <1>00, <1>01, <1>02
    DEF TypeOK, RowAgrees, PassAgrees, StillOpen, Refusal, Row, caller, faults, observed, pass, database
<1> DEFINE Good == /\ \A x \in Deliveries : RowAgrees(x)
                   /\ \A v \in Workers, x \in Deliveries : PassAgrees(v, x) /\ StillOpen(v, x)
<1>1. ASSUME UNCHANGED <<rows, answer, pc, snap, cur>> PROVE Good'
  BY <1>1 DEF AnswerInv
<1>2. ASSUME NEW h \in Hooks, DeleteWebhook(h) PROVE Good'
  BY <1>2 DEF DeleteWebhook, NoRow
<1>3. ASSUME NEW h \in Hooks, NEW e \in Events, InsertDelivery(h, e) PROVE Good'
  BY <1>3 DEF InsertDelivery, Deliveries
<1>4. ASSUME NEW d \in Deliveries, RetryDelivery(d) PROVE Good'
  BY <1>4 DEF RetryDelivery, Write, Exists
<1>5. ASSUME NEW d \in Deliveries, DelayElapses(d) PROVE Good'
  BY <1>5 DEF DelayElapses, Write, Exists
<1>6. ASSUME NEW w \in Workers, StartPass(w) PROVE Good'
  BY <1>6 DEF StartPass, Pending, Goto, Posted, Busy, AfterPost
<1>7. ASSUME NEW w \in Workers, FindHook(w) PROVE Good'
  BY <1>7 DEF FindHook, Goto, Posted, Busy, AfterPost, Serial
<1>8. ASSUME NEW w \in Workers, SkipDelivery(w) PROVE Good'
  BY <1>8 DEF SkipDelivery, Goto, Posted, Busy, AfterPost, Serial
<1>9. ASSUME NEW w \in Workers, Post(w) PROVE Good'
  <2>1. /\ pc[w] = "post" /\ cur[w] \in Deliveries
        /\ UNCHANGED <<rows, snap, cur>>
    BY <1>9 DEF Post, Busy
  <2>2. PICK a \in Answers : answer' = [answer EXCEPT ![cur[w]] = a]
    BY <1>9 DEF Post, Answers
  <2>3. /\ pc'[w] = "deliver" => answer'[cur[w]] = "ok"
        /\ pc'[w] \in {"refused", "caught"} => answer'[cur[w]] \in Refusal
        /\ pc'[w] \in Posted
    BY <1>9, <2>1 DEF Post, Goto, Posted
  <2>4. ASSUME NEW x \in Deliveries PROVE RowAgrees(x)'
    <3>1. CASE x = cur[w]
      <4>1. rows[x].status \in {"none", "pending"}
        BY <2>1, <3>1
      <4> QED
        BY <2>1, <4>1
    <3>2. CASE x # cur[w]
      BY <2>1, <2>2, <3>2
    <3> QED
      BY <3>1, <3>2
  <2>5. ASSUME NEW v \in Workers, NEW x \in Deliveries PROVE (PassAgrees(v, x) /\ StillOpen(v, x))'
    <3>1. v = w
      BY DEF Serial
    <3> QED
      BY <2>1, <2>3, <3>1 DEF Posted, Busy, AfterPost
  <2> QED
    BY <2>4, <2>5
<1>10. ASSUME NEW w \in Workers, MarkDelivered(w) PROVE Good'
  <2>1. cur[w] \in Deliveries
        /\ Write(cur[w], "delivered", seen[w][cur[w]] + 1, rows[cur[w]].due)
    BY <1>10 DEF MarkDelivered, Busy, AfterPost, Posted
  <2>2. ASSUME NEW x \in Deliveries
        PROVE  rows'[x] = rows[x] \/ (x = cur[w] /\ rows'[x].status = "delivered")
    BY <2>1, WriteEffect
  <2> QED
    BY <1>10, <2>2 DEF MarkDelivered, Goto, Posted, Busy, AfterPost, Serial
<1>11. ASSUME NEW w \in Workers, ScheduleRetry(w) PROVE Good'
  <2>1. cur[w] \in Deliveries
        /\ Write(cur[w], "failed", seen[w][cur[w]] + 1, FALSE)
    BY <1>11 DEF ScheduleRetry, Busy, AfterPost, Posted
  <2>2. ASSUME NEW x \in Deliveries
        PROVE  rows'[x] = rows[x] \/ (x = cur[w] /\ rows'[x].status = "failed")
    BY <2>1 DEF Write, Exists
  <2> QED
    BY <1>11, <2>2 DEF ScheduleRetry, NextDelivery, Goto, Posted, Busy, AfterPost, Serial
<1>12. ASSUME NEW w \in Workers, MarkDead(w) PROVE Good'
  <2>1. cur[w] \in Deliveries
        /\ Write(cur[w], "dead", seen[w][cur[w]] + 1, rows[cur[w]].due)
    BY <1>12 DEF MarkDead, Busy, AfterPost, Posted
  <2>2. ASSUME NEW x \in Deliveries
        PROVE  rows'[x] = rows[x] \/ (x = cur[w] /\ rows'[x].status = "dead")
    BY <2>1, WriteEffect
  <2> QED
    BY <1>12, <2>2 DEF MarkDead, Goto, Posted, Busy, AfterPost, Serial
<1>13. ASSUME NEW w \in Workers, ResetFailCount(w) \/ MarkHookFailed(w) PROVE Good'
  BY <1>13 DEF ResetFailCount, MarkHookFailed, NextDelivery, Goto, Posted, Busy, AfterPost, Serial
<1>14. ASSUME NEW w \in Workers, Crash(w) PROVE Good'
  BY <1>14 DEF Crash, AbandonPass, Goto, Posted, Busy, AfterPost, Serial
<1>15. Good'
  BY <1>1, <1>2, <1>3, <1>4, <1>5, <1>6, <1>7, <1>8, <1>9, <1>10, <1>11, <1>12, <1>13, <1>14,
     ConstantsAssumption
     DEF Next, Request, PassStep, Fault, CreateWebhook, SelectHooks, AbortEnqueue,
         DbErrorInTry, DbErrorOutsideTry, Serial, vars
<1> QED
  BY <1>15 DEF AnswerInv

\* One pass at a time over a database that answers: a settled row tells what the
\* endpoint answered last, through any number of crashes, deletions and retries.
THEOREM StatusIsTruthful == ASSUME Serial PROVE Spec => []StatusTellsAnswer
<1>1. AnswerInv /\ [Next]_vars => AnswerInv'
  BY AnswerNext
<1>2. AnswerInv => StatusTellsAnswer
  BY DEF AnswerInv, RowAgrees, Refusal, StatusTellsAnswer
<1> QED
  BY AnswerInit, <1>1, <1>2, PTL DEF Spec
-----------------------------------------------------------------------------
\* A row that exists goes only with its webhook: updates by id never remove it.
Kept(d) == Exists(d) => Exists(d)' \/ hooks'[HookOf(d)].state = "deleted"

\* Whatever a step does to a row, it never makes it delivered but for a delivery
\* whose pass is past a 2xx answer.
EarnedMark(d) ==
  (rows'[d].status = "delivered" /\ rows[d].status # "delivered")
    => \E w \in Workers : pc[w] = "deliver" /\ cur[w] = d

LEMMA WriteKeeps ==
  ASSUME rows \in [Deliveries -> Row], NEW d \in Deliveries, NEW x \in Deliveries,
         NEW status \in Status \ {"none"}, NEW attempts, NEW due, Write(d, status, attempts, due)
  PROVE  /\ Kept(x)
         /\ rows'[x].status = rows[x].status \/ (x = d /\ rows'[x].status = status)
<1>1. \/ rows'[x] = rows[x]
      \/ x = d /\ rows'[x] = [status |-> status, attempts |-> attempts, due |-> due]
  BY WriteEffect
<1> QED
  BY <1>1 DEF Kept, Exists

LEMMA RowEffects ==
  ASSUME TypeOK, [Next]_vars, NEW x \in Deliveries
  PROVE  Kept(x) /\ EarnedMark(x)
<1>0. rows \in [Deliveries -> Row]
  BY DEF TypeOK
<1> USE DEF EarnedMark
<1>1. ASSUME UNCHANGED rows PROVE Kept(x) /\ EarnedMark(x)
  BY <1>1 DEF Kept, Exists
<1>2. ASSUME NEW h \in Hooks, DeleteWebhook(h) PROVE Kept(x) /\ EarnedMark(x)
  <2>1. x[1] \in Hooks
    BY DEF Deliveries
  <2>2. CASE x[1] = h
    BY <1>2, <2>1, <2>2 DEF DeleteWebhook, HookRowOf, NoRow, Kept, HookOf, TypeOK
  <2>3. CASE x[1] # h
    BY <1>2, <2>1, <2>3 DEF DeleteWebhook, Kept, Exists, HookOf
  <2> QED
    BY <2>2, <2>3
<1>3. ASSUME NEW h \in Hooks, NEW e \in Events, InsertDelivery(h, e) PROVE Kept(x) /\ EarnedMark(x)
  <2>1. rows' = [rows EXCEPT ![<<h, e>>] = [status |-> "pending", attempts |-> 0, due |-> TRUE]]
    BY <1>3 DEF InsertDelivery
  <2>2. rows'[x] = rows[x] \/ rows'[x].status = "pending"
    BY <1>0, <2>1
  <2> QED
    BY <2>2 DEF Kept, Exists
<1>4. ASSUME NEW d \in Deliveries, RetryDelivery(d) PROVE Kept(x) /\ EarnedMark(x)
  <2>1. Write(d, "pending", 0, TRUE) /\ "pending" \in Status \ {"none"}
    BY <1>4 DEF RetryDelivery, Status
  <2>2. Kept(x) /\ (rows'[x].status = rows[x].status \/ rows'[x].status = "pending")
    BY <1>0, <2>1, WriteKeeps
  <2> QED
    BY <2>2
<1>5. ASSUME NEW d \in Deliveries, DelayElapses(d) PROVE Kept(x) /\ EarnedMark(x)
  <2>1. Write(d, rows[d].status, rows[d].attempts, TRUE) /\ rows[d].status \in Status \ {"none"}
    BY <1>0, <1>5 DEF DelayElapses, Status, Row, Exists
  <2>2. Kept(x) /\ (rows'[x].status = rows[x].status \/ (x = d /\ rows'[x].status = rows[d].status))
    BY <1>0, <2>1, WriteKeeps
  <2> QED
    BY <2>2
<1>6. ASSUME NEW w \in Workers, MarkDelivered(w) PROVE Kept(x) /\ EarnedMark(x)
  <2>1. /\ cur[w] \in Deliveries /\ "delivered" \in Status \ {"none"} /\ pc[w] = "deliver"
        /\ Write(cur[w], "delivered", seen[w][cur[w]] + 1, rows[cur[w]].due)
    BY <1>6 DEF MarkDelivered, Busy, AfterPost, Posted, Status, TypeOK
  <2>2. Kept(x) /\ (rows'[x].status = rows[x].status \/ (x = cur[w] /\ rows'[x].status = "delivered"))
    BY <1>0, <2>1, WriteKeeps
  <2> QED
    BY <2>1, <2>2
<1>7. ASSUME NEW w \in Workers, ScheduleRetry(w) PROVE Kept(x) /\ EarnedMark(x)
  <2>1. /\ cur[w] \in Deliveries /\ "failed" \in Status \ {"none"}
        /\ Write(cur[w], "failed", seen[w][cur[w]] + 1, FALSE)
    BY <1>7 DEF ScheduleRetry, Busy, AfterPost, Posted, Status, TypeOK
  <2>2. Kept(x) /\ (rows'[x].status = rows[x].status \/ (x = cur[w] /\ rows'[x].status = "failed"))
    BY <1>0, <2>1, WriteKeeps
  <2> QED
    BY <2>1, <2>2
<1>8. ASSUME NEW w \in Workers, MarkDead(w) PROVE Kept(x) /\ EarnedMark(x)
  <2>1. /\ cur[w] \in Deliveries /\ "dead" \in Status \ {"none"}
        /\ Write(cur[w], "dead", seen[w][cur[w]] + 1, rows[cur[w]].due)
    BY <1>8 DEF MarkDead, Busy, AfterPost, Posted, Status, TypeOK
  <2>2. Kept(x) /\ (rows'[x].status = rows[x].status \/ (x = cur[w] /\ rows'[x].status = "dead"))
    BY <1>0, <2>1, WriteKeeps
  <2> QED
    BY <2>1, <2>2
<1>9. UNCHANGED rows \/ \/ \E h \in Hooks : DeleteWebhook(h)
                        \/ \E h \in Hooks, e \in Events : InsertDelivery(h, e)
                        \/ \E d \in Deliveries : RetryDelivery(d) \/ DelayElapses(d)
                        \/ \E w \in Workers : MarkDelivered(w) \/ ScheduleRetry(w) \/ MarkDead(w)
  BY DEF Next, Request, PassStep, Fault, CreateWebhook, SelectHooks, AbortEnqueue, StartPass,
         FindHook, SkipDelivery, Post, ResetFailCount, MarkHookFailed, DbErrorInTry,
         DbErrorOutsideTry, Crash, vars, database, observed
<1> QED
  BY <1>1, <1>2, <1>3, <1>4, <1>5, <1>6, <1>7, <1>8, <1>9

\* An update to delivered, written or about to be, has a 2xx answer behind it.
TakenInv ==
  /\ TypeOK
  /\ DeliveredWasTaken
  /\ \A w \in Workers : pc[w] = "deliver" => cur[w] \in taken

LEMMA TakenNext == ASSUME TakenInv, [Next]_vars PROVE TakenInv'
<1>1. TypeOK /\ TypeOK'
  BY NextType DEF TakenInv
<1>2. taken \subseteq taken'
  BY DEF Next, Request, PassStep, Fault, CreateWebhook, DeleteWebhook, SelectHooks,
       AbortEnqueue, InsertDelivery, RetryDelivery, DelayElapses, StartPass, FindHook,
       SkipDelivery, Post, MarkDelivered, ResetFailCount, ScheduleRetry, MarkDead,
       MarkHookFailed, DbErrorInTry, DbErrorOutsideTry, Crash, vars, observed
<1>3. DeliveredWasTaken'
  BY <1>1, <1>2, RowEffects DEF TakenInv, DeliveredWasTaken, EarnedMark
<1>4. ASSUME NEW v \in Workers, pc'[v] = "deliver" PROVE cur'[v] \in taken'
  <2>1. CASE pc[v] = "deliver" /\ cur'[v] = cur[v]
    BY <1>2, <2>1 DEF TakenInv
  <2>2. ASSUME NEW w \in Workers, Post(w), v = w PROVE cur'[v] \in taken'
    BY <1>1, <1>4, <2>2 DEF Post, Goto, TypeOK
  <2>3. ASSUME NEW w \in Workers, ~(Post(w) /\ v = w), PassStep(w) \/ Fault(w)
        PROVE  pc[v] = "deliver" /\ cur'[v] = cur[v]
    <3>1. CASE StartPass(w) \/ FindHook(w)
      BY <1>1, <1>4, <2>3, <3>1 DEF StartPass, FindHook, NextDelivery, AbandonPass, Goto, pass, TypeOK
    <3>2. CASE SkipDelivery(w) \/ Post(w)
      BY <1>1, <1>4, <2>3, <3>2 DEF SkipDelivery, Post, NextDelivery, Goto, pass, TypeOK
    <3>3. CASE MarkDelivered(w) \/ ResetFailCount(w)
      BY <1>1, <1>4, <2>3, <3>3 DEF MarkDelivered, ResetFailCount, NextDelivery, Goto, pass, TypeOK
    <3>4. CASE ScheduleRetry(w) \/ MarkDead(w)
      BY <1>1, <1>4, <2>3, <3>4 DEF ScheduleRetry, MarkDead, NextDelivery, Goto, pass, TypeOK
    <3>5. CASE MarkHookFailed(w)
      BY <1>1, <1>4, <2>3, <3>5 DEF MarkHookFailed, NextDelivery, Goto, pass, TypeOK
    <3>6. CASE DbErrorInTry(w) \/ DbErrorOutsideTry(w)
      BY <1>1, <1>4, <2>3, <3>6 DEF DbErrorInTry, DbErrorOutsideTry, NextDelivery, AbandonPass, Goto, pass, TypeOK
    <3>7. CASE Crash(w)
      BY <1>1, <1>4, <2>3, <3>7 DEF Crash, AbandonPass, Goto, pass, TypeOK
    <3> QED
      BY <2>3, <3>1, <3>2, <3>3, <3>4, <3>5, <3>6, <3>7 DEF PassStep, Fault
  <2>4. ASSUME UNCHANGED pass PROVE pc[v] = "deliver" /\ cur'[v] = cur[v]
    BY <1>4, <2>4 DEF pass
  <2>5. UNCHANGED pass \/ \E w \in Workers : PassStep(w) \/ Fault(w)
    BY DEF Next, Request, CreateWebhook, DeleteWebhook, SelectHooks, AbortEnqueue,
                InsertDelivery, RetryDelivery, DelayElapses, vars
  <2> QED
    BY <2>1, <2>2, <2>3, <2>4, <2>5
<1> QED
  BY <1>1, <1>3, <1>4 DEF TakenInv

\* However many passes overlap, whatever fails: no row says delivered of what no
\* endpoint accepted.
THEOREM DeliveredIsTaken == Spec => []DeliveredWasTaken
<1>1. Init => TakenInv
  BY InitType DEF Init, TakenInv, DeliveredWasTaken, NoRow
<1>2. TakenInv /\ [Next]_vars => TakenInv'
  BY TakenNext
<1>3. TakenInv => DeliveredWasTaken
  BY DEF TakenInv
<1> QED
  BY <1>1, <1>2, <1>3, PTL DEF Spec

-----------------------------------------------------------------------------
\* What an enqueueDelivery call has selected is stored, still before its loop,
\* or was deleted with its webhook.
Reached(h, e) ==
  \/ Exists(<<h, e>>)
  \/ hooks[h].state = "deleted"
  \/ pub[e] = "loop" /\ h \in fan[e]

FanInv ==
  /\ TypeOK
  /\ \A e \in Events : pub[e] = "idle" => targets[e] = {}
  /\ \A e \in Events : pub[e] \in {"loop", "done"} => \A h \in targets[e] : Reached(h, e)

\* However webhooks come and go while it loops and passes run beside it, an
\* enqueueDelivery call that returns has reached every webhook it selected.
THEOREM FanOutsAreComplete == Spec => []FanOutComplete
<1>1. Init => FanInv
  BY InitType DEF Init, FanInv
<1>2. ASSUME FanInv, [Next]_vars PROVE FanInv'
  <2>1. TypeOK /\ TypeOK'
    BY <1>2, NextType DEF FanInv
  <2>2. ASSUME NEW h \in Hooks, hooks[h].state = "deleted" PROVE hooks'[h].state = "deleted"
    BY <1>2, <2>1, <2>2
       DEF Next, Request, PassStep, Fault, CreateWebhook, DeleteWebhook, SelectHooks,
         AbortEnqueue, InsertDelivery, RetryDelivery, DelayElapses, StartPass, FindHook,
         SkipDelivery, Post, MarkDelivered, ResetFailCount, ScheduleRetry, MarkDead,
         MarkHookFailed, DbErrorInTry, DbErrorOutsideTry, Crash, WriteFailCount, HookRowOf,
         vars, database, TypeOK
  <2>3. ASSUME NEW h \in Hooks, NEW e \in Events, Exists(<<h, e>>)
        PROVE  Exists(<<h, e>>)' \/ hooks'[h].state = "deleted"
    BY <1>2, <2>1, <2>3, RowEffects DEF Kept, HookOf, Deliveries
  <2>4. ASSUME NEW e \in Events,
               pub'[e] = pub[e], fan'[e] = fan[e], targets'[e] = targets[e]
        PROVE  /\ pub'[e] = "idle" => targets'[e] = {}
               /\ pub'[e] \in {"loop", "done"} => \A h \in targets'[e] : Reached(h, e)'
    BY <1>2, <2>1, <2>2, <2>3, <2>4 DEF FanInv, Reached, TypeOK
  <2>5. ASSUME NEW e \in Events, SelectHooks(e), NEW f \in Events
        PROVE  /\ pub'[f] = "idle" => targets'[f] = {}
               /\ pub'[f] \in {"loop", "done"} => \A h \in targets'[f] : Reached(h, f)'
    <3>1. CASE f = e
      BY <2>1, <2>5, <3>1 DEF SelectHooks, Reached, TypeOK
    <3>2. CASE f # e
      BY <2>1, <2>4, <2>5, <3>2 DEF SelectHooks, TypeOK
    <3> QED
      BY <3>1, <3>2
  <2>6. ASSUME NEW h \in Hooks, NEW e \in Events, InsertDelivery(h, e), NEW f \in Events
        PROVE  /\ pub'[f] = "idle" => targets'[f] = {}
               /\ pub'[f] \in {"loop", "done"} => \A g \in targets'[f] : Reached(g, f)'
    <3>1. CASE f = e
      <4>1. /\ pub[e] = "loop" /\ pub'[e] \in {"loop", "done"}
            /\ targets'[e] = targets[e] /\ targets[e] \subseteq Hooks
            /\ fan'[e] = fan[e] \ {h} /\ (pub'[e] = "done" => fan[e] = {h})
            /\ Exists(<<h, e>>)'
        BY <2>1, <2>6 DEF InsertDelivery, TypeOK, Exists, Deliveries
      <4>2. ASSUME NEW g \in targets[e] PROVE Reached(g, e)'
        <5>1. Reached(g, e)
          BY <1>2, <4>1 DEF FanInv
        <5> QED
          BY <2>2, <2>3, <4>1, <5>1 DEF Reached
      <4> QED
        BY <3>1, <4>1, <4>2
    <3>2. CASE f # e
      BY <2>1, <2>4, <2>6, <3>2 DEF InsertDelivery, TypeOK
    <3> QED
      BY <3>1, <3>2
  <2>7. ASSUME NEW e \in Events, AbortEnqueue(e), NEW f \in Events
        PROVE  /\ pub'[f] = "idle" => targets'[f] = {}
               /\ pub'[f] \in {"loop", "done"} => \A h \in targets'[f] : Reached(h, f)'
    <3>1. CASE f = e
      BY <2>1, <2>7, <3>1 DEF AbortEnqueue, TypeOK
    <3>2. CASE f # e
      BY <2>1, <2>4, <2>7, <3>2 DEF AbortEnqueue, TypeOK
    <3> QED
      BY <3>1, <3>2
  <2>8. \/ UNCHANGED caller
        \/ \E e \in Events : SelectHooks(e) \/ AbortEnqueue(e)
        \/ \E h \in Hooks, e \in Events : InsertDelivery(h, e)
    BY <1>2 DEF Next, Request, PassStep, Fault, CreateWebhook, DeleteWebhook,
         RetryDelivery, DelayElapses, StartPass, FindHook,
         SkipDelivery, Post, MarkDelivered, ResetFailCount, ScheduleRetry, MarkDead,
         MarkHookFailed, DbErrorInTry, DbErrorOutsideTry, Crash, vars
  <2>9. ASSUME UNCHANGED caller, NEW e \in Events
        PROVE  pub'[e] = pub[e] /\ fan'[e] = fan[e] /\ targets'[e] = targets[e]
    BY <2>9 DEF caller
  <2> QED
    BY <2>1, <2>4, <2>5, <2>6, <2>7, <2>8, <2>9 DEF FanInv
<1>3. FanInv => FanOutComplete
  BY DEF FanInv, FanOutComplete, Reached
<1> QED
  BY <1>1, <1>2, <1>3, PTL DEF Spec
-----------------------------------------------------------------------------
(* The refinement: every step is a step of the contract or changes nothing   *)
(* that the contract speaks of.                                              *)

IsDeleted(h) == hooks[h].state = "deleted"

\* A pass has a delivery still before it, or in hand and not yet written.
InHands(w, d) ==
  d \in snap[w] \/ (pc[w] \in Posted \cup {"post"} /\ cur[w] = d)

\* A delivery whose row a pass no longer finds went with its webhook; one whose
\* insert is still to come has no row, nor has one whose webhook was deleted.
Traced(d) ==
  /\ \A w \in Workers : InHands(w, d) => Exists(d) \/ IsDeleted(HookOf(d))
  /\ ToInsert(d) => ~Exists(d)
  /\ IsDeleted(HookOf(d)) => ~Exists(d)

RefInv ==
  /\ AnswerInv /\ TakenInv
  /\ \A d \in Deliveries : Traced(d)

\* The state of a delivery in the contract, by its row and its webhook.
LEMMA AbstractStateIs ==
  ASSUME NEW d, IsDeleted(HookOf(d)) => ~Exists(d)
  PROVE  /\ IsDeleted(HookOf(d)) => AbstractState(d) = "gone"
         /\ ~IsDeleted(HookOf(d)) =>
              /\ rows[d].status = "none" => AbstractState(d) = "none"
              /\ rows[d].status = "pending" => AbstractState(d) = "owed"
              /\ rows[d].status = "delivered" => AbstractState(d) = "delivered"
              /\ rows[d].status \in {"failed", "dead"} => AbstractState(d) = "failed"
<1>1. CASE IsDeleted(HookOf(d))
  <2>1. rows[d].status = "none"
    BY <1>1 DEF Exists
  <2> QED
    BY <1>1, <2>1 DEF AbstractState, IsDeleted
<1>2. CASE ~IsDeleted(HookOf(d)) /\ rows[d].status = "pending"
  BY <1>2 DEF AbstractState, IsDeleted
<1>3. CASE ~IsDeleted(HookOf(d)) /\ rows[d].status = "dead"
  BY <1>3 DEF AbstractState, IsDeleted
<1>4. CASE ~IsDeleted(HookOf(d)) /\ rows[d].status \notin {"pending", "dead"}
  <2>1. AbstractState(d) = rows[d].status
    BY <1>4 DEF AbstractState, IsDeleted
  <2> QED
    BY <1>4, <2>1
<1> QED
  BY <1>1, <1>2, <1>3, <1>4

\* A delivery whose row and webhook keep their state keeps its own.
LEMMA SameState ==
  ASSUME NEW d, IsDeleted(HookOf(d))' <=> IsDeleted(HookOf(d)),
         IsDeleted(HookOf(d)) => ~Exists(d) /\ ~Exists(d)',
         IsDeleted(HookOf(d)) \/ rows'[d].status = rows[d].status
  PROVE  AbstractState(d)' = AbstractState(d)
<1>1. rows'[d].status = rows[d].status
  BY DEF Exists
<1> QED
  BY <1>1 DEF AbstractState, IsDeleted, HookOf

\* A webhook that is deleted stays so, and only DeleteWebhook deletes one.
LEMMA DeletedForGood ==
  ASSUME TypeOK, [Next]_vars, NEW h \in Hooks
  PROVE  /\ IsDeleted(h) => IsDeleted(h)'
         /\ IsDeleted(h)' => IsDeleted(h) \/ DeleteWebhook(h)
<1>1. ASSUME UNCHANGED hooks
      PROVE  /\ IsDeleted(h) => IsDeleted(h)'
             /\ IsDeleted(h)' => IsDeleted(h) \/ DeleteWebhook(h)
  BY <1>1 DEF IsDeleted
<1>2. ASSUME NEW w \in Workers, ResetFailCount(w) \/ MarkHookFailed(w)
      PROVE  IsDeleted(h) <=> IsDeleted(h)'
  <2>1. PICK g : \E n \in 0..1 : WriteFailCount(g, n)
    BY <1>2 DEF ResetFailCount, MarkHookFailed
  <2> PICK n \in 0..1 : WriteFailCount(g, n)
    BY <2>1
  <2>2. CASE hooks[g].state = "live"
    <3>1. hooks' = [hooks EXCEPT ![g] = HookRowOf("live", n)]
      BY <2>1, <2>2 DEF WriteFailCount
    <3>2. hooks'[h] = hooks[h] \/ (g = h /\ hooks'[h].state = "live")
      BY <3>1 DEF HookRowOf, TypeOK
    <3> QED
      BY <2>2, <3>2 DEF IsDeleted
  <2>3. CASE hooks[g].state # "live"
    BY <2>1, <2>3 DEF WriteFailCount, IsDeleted
  <2> QED
    BY <2>2, <2>3
<1>3. ASSUME NEW g \in Hooks, CreateWebhook(g)
      PROVE  IsDeleted(h) <=> IsDeleted(h)'
  BY <1>3 DEF CreateWebhook, HookRowOf, IsDeleted, TypeOK
<1>4. ASSUME NEW g \in Hooks, DeleteWebhook(g)
      PROVE  /\ IsDeleted(h) => IsDeleted(h)'
             /\ IsDeleted(h)' => IsDeleted(h) \/ DeleteWebhook(h)
  <2>1. CASE g = h
    BY <1>4, <2>1 DEF DeleteWebhook, HookRowOf, IsDeleted, TypeOK
  <2>2. CASE g # h
    BY <1>4, <2>2 DEF DeleteWebhook, IsDeleted, TypeOK
  <2> QED
    BY <2>1, <2>2
<1>5. \/ UNCHANGED hooks
      \/ \E w \in Workers : ResetFailCount(w) \/ MarkHookFailed(w)
      \/ \E g \in Hooks : CreateWebhook(g) \/ DeleteWebhook(g)
  BY DEF Next, Request, PassStep, Fault, SelectHooks, AbortEnqueue, InsertDelivery,
         RetryDelivery, DelayElapses, StartPass, FindHook, SkipDelivery, Post, MarkDelivered,
         ScheduleRetry, MarkDead, DbErrorInTry, DbErrorOutsideTry, Crash, vars, database
<1> QED
  BY <1>1, <1>2, <1>3, <1>4, <1>5

\* A pass gets hold of a delivery only by selecting its pending row.
LEMMA InHandsBySelect ==
  ASSUME Serial, AnswerInv, [Next]_vars, NEW v \in Workers, NEW x \in Deliveries, InHands(v, x)'
  PROVE  InHands(v, x) \/ rows'[x].status = "pending"
<1>0. TypeOK /\ ~(dbErrors < MaxDbErrors)
  BY DEF AnswerInv, Serial
<1> USE DEF InHands, Posted
<1>1. ASSUME UNCHANGED pass PROVE InHands(v, x)
  BY <1>1 DEF pass
<1>2. ASSUME NEW w \in Workers, StartPass(w) PROVE InHands(v, x) \/ rows'[x].status = "pending"
  BY <1>0, <1>2 DEF StartPass, Goto, Pending, TypeOK, database
<1>3. ASSUME NEW w \in Workers, FindHook(w) PROVE InHands(v, x)
  BY <1>0, <1>3 DEF FindHook, Goto, TypeOK
<1>4. ASSUME NEW w \in Workers, SkipDelivery(w) PROVE InHands(v, x)
  BY <1>0, <1>4 DEF SkipDelivery, Goto, TypeOK
<1>5. ASSUME NEW w \in Workers, Post(w) PROVE InHands(v, x)
  BY <1>0, <1>5 DEF Post, Goto, TypeOK
<1>6. ASSUME NEW w \in Workers, MarkDelivered(w) \/ MarkDead(w) PROVE InHands(v, x)
  BY <1>0, <1>6 DEF MarkDelivered, MarkDead, Goto, TypeOK
<1>7. ASSUME NEW w \in Workers, ResetFailCount(w) \/ ScheduleRetry(w) \/ MarkHookFailed(w)
      PROVE  InHands(v, x)
  BY <1>0, <1>7 DEF ResetFailCount, ScheduleRetry, MarkHookFailed, NextDelivery, Goto, TypeOK
<1>8. ASSUME NEW w \in Workers, Crash(w) PROVE InHands(v, x)
  BY <1>0, <1>8 DEF Crash, AbandonPass, Goto, TypeOK
<1>9. \/ UNCHANGED pass
      \/ \E w \in Workers : PassStep(w) \/ Crash(w)
  BY <1>0 DEF Next, Request, Fault, CreateWebhook, DeleteWebhook, SelectHooks, AbortEnqueue,
         InsertDelivery, RetryDelivery, DelayElapses, DbErrorInTry, DbErrorOutsideTry, vars
<1> QED
  BY <1>1, <1>2, <1>3, <1>4, <1>5, <1>6, <1>7, <1>8, <1>9 DEF PassStep

\* Rows are made by inserts only.
LEMMA MadeByInsert ==
  ASSUME TypeOK, [Next]_vars, NEW x \in Deliveries,
         \A h \in Hooks, e \in Events : ~InsertDelivery(h, e)
  PROVE  Exists(x)' => Exists(x)
<1>0. rows \in [Deliveries -> Row]
  BY DEF TypeOK
<1>1. ASSUME NEW d \in Deliveries, NEW status, NEW attempts, NEW due,
             Write(d, status, attempts, due)
      PROVE  Exists(x)' => Exists(x)
  BY <1>0, <1>1, WriteEffect DEF Exists
<1>2. ASSUME NEW h \in Hooks, DeleteWebhook(h) PROVE Exists(x)' => Exists(x)
  BY <1>2 DEF DeleteWebhook, NoRow, Exists
<1>3. ASSUME NEW w \in Workers, MarkDelivered(w) \/ ScheduleRetry(w) \/ MarkDead(w)
      PROVE  Exists(x)' => Exists(x)
  <2>1. cur[w] \in Deliveries
    BY <1>3 DEF TypeOK, MarkDelivered, ScheduleRetry, MarkDead, Busy, AfterPost, Posted
  <2> QED
    BY <1>1, <1>3, <2>1 DEF MarkDelivered, ScheduleRetry, MarkDead
<1>4. ASSUME NEW d \in Deliveries, RetryDelivery(d) \/ DelayElapses(d) PROVE Exists(x)' => Exists(x)
  BY <1>1, <1>4 DEF RetryDelivery, DelayElapses
<1>5. \/ UNCHANGED rows
      \/ \E h \in Hooks : DeleteWebhook(h)
      \/ \E d \in Deliveries : RetryDelivery(d) \/ DelayElapses(d)
      \/ \E w \in Workers : MarkDelivered(w) \/ ScheduleRetry(w) \/ MarkDead(w)
  BY DEF Next, Request, PassStep, Fault, CreateWebhook, SelectHooks, AbortEnqueue,
       StartPass, FindHook, SkipDelivery, Post, ResetFailCount, MarkHookFailed, DbErrorInTry,
       DbErrorOutsideTry, Crash, vars, database, observed
<1> QED
  BY <1>2, <1>3, <1>4, <1>5 DEF Exists

\* An insert is not repeated.
LEMMA InsertsOnce ==
  ASSUME TypeOK, [Next]_vars, NEW x \in Deliveries, ToInsert(x) => ~Exists(x)
  PROVE  (ToInsert(x) => ~Exists(x))'
<1>0. x[1] \in Hooks /\ x[2] \in Events /\ x = <<x[1], x[2]>> /\ rows \in [Deliveries -> Row]
  BY DEF Deliveries, TypeOK
<1>1. ASSUME NEW h \in Hooks, NEW e \in Events, InsertDelivery(h, e) PROVE (ToInsert(x) => ~Exists(x))'
  <2>1. CASE x = <<h, e>>
    BY <1>0, <1>1, <2>1 DEF InsertDelivery, ToInsert, TypeOK
  <2>2. CASE x # <<h, e>>
    <3>1. rows'[x] = rows[x]
      BY <1>0, <1>1, <2>2 DEF InsertDelivery
    <3>2. ToInsert(x)' => ToInsert(x)
      BY <1>0, <1>1 DEF InsertDelivery, ToInsert, TypeOK
    <3> QED
      BY <3>1, <3>2 DEF Exists
  <2> QED
    BY <2>1, <2>2
<1>2. ASSUME Exists(x)' => Exists(x), ToInsert(x)' => ToInsert(x) PROVE (ToInsert(x) => ~Exists(x))'
  BY <1>2
<1>3. ASSUME \A h \in Hooks, e \in Events : ~InsertDelivery(h, e) PROVE ToInsert(x)' => ToInsert(x)
  <2>1. ASSUME NEW e \in Events, SelectHooks(e) PROVE ToInsert(x)' => ToInsert(x)
    BY <1>0, <2>1 DEF SelectHooks, ToInsert, TypeOK
  <2>2. ASSUME NEW e \in Events, AbortEnqueue(e) PROVE ToInsert(x)' => ToInsert(x)
    BY <1>0, <2>2 DEF AbortEnqueue, ToInsert, TypeOK
  <2>3. ASSUME UNCHANGED caller PROVE ToInsert(x)' => ToInsert(x)
    BY <2>3 DEF caller, ToInsert
  <2>4. UNCHANGED caller \/ \E e \in Events : SelectHooks(e) \/ AbortEnqueue(e)
    BY <1>3 DEF Next, Request, PassStep, Fault, CreateWebhook, DeleteWebhook,
         RetryDelivery, DelayElapses, StartPass, FindHook, SkipDelivery, Post, MarkDelivered,
         ResetFailCount, ScheduleRetry, MarkDead, MarkHookFailed, DbErrorInTry,
         DbErrorOutsideTry, Crash, vars
  <2> QED
    BY <2>1, <2>2, <2>3, <2>4
<1>4. ASSUME \A h \in Hooks, e \in Events : ~InsertDelivery(h, e) PROVE Exists(x)' => Exists(x)
  BY <1>4, MadeByInsert
<1> QED
  BY <1>1, <1>2, <1>3, <1>4

\* The rows of a webhook go with it, and none comes after.
LEMMA RowsGoWithHook ==
  ASSUME TypeOK, [Next]_vars, NEW x \in Deliveries, IsDeleted(HookOf(x)) => ~Exists(x)
  PROVE  (IsDeleted(HookOf(x)) => ~Exists(x))'
<1>0. HookOf(x) \in Hooks /\ rows \in [Deliveries -> Row]
  BY DEF Deliveries, HookOf, TypeOK
<1>1. CASE DeleteWebhook(HookOf(x))
  BY <1>0, <1>1 DEF DeleteWebhook, NoRow, Exists
<1>2. ASSUME NEW h \in Hooks, NEW e \in Events, InsertDelivery(h, e)
      PROVE  (IsDeleted(HookOf(x)) => ~Exists(x))'
  <2>1. UNCHANGED hooks /\ ~IsDeleted(h)
    BY <1>2 DEF InsertDelivery, IsDeleted
  <2>2. CASE HookOf(x) = h
    BY <2>1, <2>2 DEF IsDeleted, HookOf
  <2>3. CASE HookOf(x) # h
    <3>1. rows'[x] = rows[x]
      BY <1>0, <1>2, <2>3 DEF InsertDelivery, HookOf
    <3> QED
      BY <2>1, <3>1 DEF IsDeleted, Exists, HookOf
  <2> QED
    BY <2>2, <2>3
<1>3. CASE ~DeleteWebhook(HookOf(x)) /\ \A h \in Hooks, e \in Events : ~InsertDelivery(h, e)
  <2>1. Exists(x)' => Exists(x)
    BY <1>3, MadeByInsert
  <2>2. IsDeleted(HookOf(x))' => IsDeleted(HookOf(x))
    BY <1>0, <1>3, DeletedForGood DEF HookOf
  <2> QED
    BY <2>1, <2>2
<1> QED
  BY <1>1, <1>2, <1>3

LEMMA RefNext ==
  ASSUME Serial, RefInv, [Next]_vars
  PROVE  RefInv'
<1>1. AnswerInv /\ TakenInv /\ TypeOK /\ TypeOK'
  BY NextType DEF RefInv, AnswerInv
<1>2. AnswerInv' /\ TakenInv'
  BY <1>1, AnswerNext, TakenNext
<1>3. ASSUME NEW x \in Deliveries PROVE Traced(x)'
  <2>1. Traced(x) /\ HookOf(x) \in Hooks /\ Kept(x)
    BY <1>1, RowEffects DEF RefInv, HookOf, Deliveries
  <2>2. IsDeleted(HookOf(x)) => IsDeleted(HookOf(x))'
    BY <1>1, <2>1, DeletedForGood
  <2>3. ASSUME NEW w \in Workers, InHands(w, x)' PROVE Exists(x)' \/ IsDeleted(HookOf(x))'
    <3>1. CASE InHands(w, x)
      BY <2>1, <2>2, <3>1 DEF Traced, Kept, IsDeleted, HookOf
    <3>2. CASE rows'[x].status = "pending"
      BY <3>2 DEF Exists
    <3> QED
      BY <1>1, <2>3, <3>1, <3>2, InHandsBySelect
  <2>4. (ToInsert(x) => ~Exists(x))'
    BY <1>1, <2>1, InsertsOnce DEF Traced
  <2>5. (IsDeleted(HookOf(x)) => ~Exists(x))'
    BY <1>1, <2>1, RowsGoWithHook DEF Traced
  <2> QED
    BY <2>3, <2>4, <2>5 DEF Traced
<1> QED
  BY <1>2, <1>3 DEF RefInv

Settled == {"delivered", "failed"}

\* What the contract sees of a step that changes the status of one row at most.
LEMMA OneRow ==
  ASSUME RefInv, RefInv', NEW d \in Deliveries, UNCHANGED hooks,
         \A x \in Deliveries \ {d} : rows'[x] = rows[x]
  PROVE  /\ \A x \in Deliveries \ {d} : AbstractState(x)' = AbstractState(x)
         /\ rows'[d].status = rows[d].status \/ IsDeleted(HookOf(d))
              => AbstractState(d)' = AbstractState(d)
<1>1. \A x \in Deliveries : IsDeleted(HookOf(x)) => ~Exists(x) /\ ~Exists(x)'
  BY DEF RefInv, Traced, IsDeleted, HookOf
<1>2. \A x \in Deliveries : IsDeleted(HookOf(x))' <=> IsDeleted(HookOf(x))
  BY DEF IsDeleted, HookOf
<1> QED
  BY <1>1, <1>2, SameState

\* How the contract names a change of one delivery.
LEMMA OneMove ==
  ASSUME NEW d \in Deliveries,
         \A x \in Deliveries \ {d} : AbstractState(x)' = AbstractState(x)
  PROVE  [x \in Deliveries |-> AbstractState(x)]' =
           [[x \in Deliveries |-> AbstractState(x)] EXCEPT ![d] = AbstractState(d)']
OBVIOUS

LEMMA StutterStep ==
  ASSUME \A x \in Deliveries : AbstractState(x)' = AbstractState(x), UNCHANGED taken
  PROVE  UNCHANGED Contract!vars
BY DEF Contract!vars

LEMMA SubmitStep ==
  ASSUME NEW d \in Deliveries, AbstractState(d) = "none", AbstractState(d)' = "owed", UNCHANGED taken,
         \A x \in Deliveries \ {d} : AbstractState(x)' = AbstractState(x)
  PROVE  Contract!Next
<1>1. Contract!Submit(d)
  BY OneMove DEF Contract!Submit
<1> QED
  BY <1>1 DEF Contract!Next, Contract!Deliveries, Deliveries

LEMMA SettleStep ==
  ASSUME NEW d \in Deliveries, AbstractState(d) = "owed", UNCHANGED taken,
         AbstractState(d)' \in Settled, AbstractState(d)' = "delivered" => d \in taken,
         \A x \in Deliveries \ {d} : AbstractState(x)' = AbstractState(x)
  PROVE  Contract!Next
<1>1. Contract!Settle(d)
  BY OneMove DEF Contract!Settle, Settled
<1> QED
  BY <1>1 DEF Contract!Next, Contract!Deliveries, Deliveries

LEMMA AskStep ==
  ASSUME NEW d \in Deliveries, AbstractState(d) \in Settled, UNCHANGED taken,
         AbstractState(d)' = "owed",
         \A x \in Deliveries \ {d} : AbstractState(x)' = AbstractState(x)
  PROVE  Contract!Next
<1>1. Contract!Ask(d)
  BY OneMove DEF Contract!Ask, Settled
<1> QED
  BY <1>1 DEF Contract!Next, Contract!Deliveries, Deliveries

LEMMA AcceptStep ==
  ASSUME NEW d \in Deliveries, AbstractState(d) \in {"owed", "gone"}, taken' = taken \cup {d},
         \A x \in Deliveries : AbstractState(x)' = AbstractState(x)
  PROVE  Contract!Next
<1>1. Contract!Accept(d)
  BY DEF Contract!Accept
<1> QED
  BY <1>1 DEF Contract!Next, Contract!Deliveries, Deliveries

LEMMA RemoveStep ==
  ASSUME NEW h \in Hooks, UNCHANGED taken,
         \A x \in Deliveries : AbstractState(x)' = IF HookOf(x) = h THEN "gone" ELSE AbstractState(x)
  PROVE  Contract!Next
<1>1. Contract!Remove(h)
  BY DEF Contract!Remove, Contract!Deliveries, Deliveries, HookOf
<1> QED
  BY <1>1 DEF Contract!Next

\* An update by id, seen from all rows.
LEMMA WriteOneRow ==
  ASSUME rows \in [Deliveries -> Row], NEW d \in Deliveries,
         NEW status, NEW attempts, NEW due, Write(d, status, attempts, due)
  PROVE  /\ \A x \in Deliveries \ {d} : rows'[x] = rows[x]
         /\ rows'[d].status = IF Exists(d) THEN status ELSE rows[d].status
<1>1. CASE Exists(d)
  <2>1. rows' = [rows EXCEPT ![d] = [status |-> status, attempts |-> attempts, due |-> due]]
    BY <1>1 DEF Write
  <2> QED
    BY <1>1, <2>1
<1>2. CASE ~Exists(d)
  BY <1>2 DEF Write
<1> QED
  BY <1>1, <1>2

\* A row of the pass in progress is settled, unless it went with its webhook.
LEMMA WriteSettles ==
  ASSUME RefInv, RefInv', NEW w \in Workers, NEW d \in Deliveries,
         pc[w] \in Posted, cur[w] = d, UNCHANGED <<hooks, taken>>,
         NEW status \in {"delivered", "failed", "dead"}, NEW attempts, NEW due,
         Write(d, status, attempts, due), status = "delivered" => d \in taken
  PROVE  Contract!Next \/ UNCHANGED Contract!vars
<1>0. TypeOK /\ rows \in [Deliveries -> Row] /\ Traced(d) /\ Traced(d)'
  BY DEF RefInv, AnswerInv, TypeOK
<1>1. /\ \A x \in Deliveries \ {d} : rows'[x] = rows[x]
      /\ rows'[d].status = IF Exists(d) THEN status ELSE rows[d].status
  BY <1>0, WriteOneRow
<1>2. \A x \in Deliveries \ {d} : AbstractState(x)' = AbstractState(x)
  BY <1>1, OneRow
<1>3. CASE rows'[d].status = rows[d].status
  <2>1. AbstractState(d)' = AbstractState(d)
    BY <1>1, <1>3, OneRow
  <2> QED
    BY <1>2, <2>1, StutterStep
<1>4. CASE rows'[d].status # rows[d].status
  <2>1. rows[d].status = "pending"
    <3>1. StillOpen(w, d)
      BY DEF RefInv, AnswerInv
    <3> QED
      BY <1>1, <1>4, <3>1 DEF StillOpen, Posted, Exists
  <2>2. ~IsDeleted(HookOf(d)) /\ ~IsDeleted(HookOf(d))'
    BY <1>0, <2>1 DEF Traced, Exists, IsDeleted, HookOf
  <2>3. AbstractState(d) = "owed"
    BY <2>1, <2>2, AbstractStateIs
  <2>4. rows'[d].status = status
    BY <1>1, <1>4
  <2>5. AbstractState(d)' = IF status = "delivered" THEN "delivered" ELSE "failed"
    BY <2>2, <2>4 DEF AbstractState, IsDeleted
  <2> QED
    BY <1>2, <2>3, <2>5, SettleStep DEF Settled
<1> QED
  BY <1>3, <1>4

\* A step of the deliveries is a step of the contract, or none of its business.
LEMMA StepRefines ==
  ASSUME Serial, RefInv, [Next]_vars
  PROVE  Contract!Next \/ UNCHANGED Contract!vars
<1>0. RefInv' /\ TypeOK /\ rows \in [Deliveries -> Row] /\ ~(dbErrors < MaxDbErrors)
  BY RefNext DEF RefInv, AnswerInv, TypeOK, Serial
<1>00. ASSUME NEW x \in Deliveries PROVE Traced(x) /\ Traced(x)' /\ HookOf(x) \in Hooks
  BY <1>0 DEF RefInv, Deliveries, HookOf
<1> USE DEF database, observed
\* Nothing of the rows, the webhooks and what the endpoints took changes.
<1>1. ASSUME UNCHANGED <<hooks, rows, taken>> PROVE UNCHANGED Contract!vars
  <2>1. \A x \in Deliveries : AbstractState(x)' = AbstractState(x)
    BY <1>1 DEF AbstractState
  <2> QED
    BY <1>1, <2>1, StutterStep
\* The webhooks change, but none is deleted.
<1>2. ASSUME UNCHANGED <<rows, taken>>, \A h \in Hooks : ~DeleteWebhook(h)
      PROVE  UNCHANGED Contract!vars
  <2>1. ASSUME NEW x \in Deliveries PROVE AbstractState(x)' = AbstractState(x)
    <3>1. IsDeleted(HookOf(x))' <=> IsDeleted(HookOf(x))
      BY <1>0, <1>00, <1>2, DeletedForGood DEF HookOf
    <3>2. IsDeleted(HookOf(x)) => ~Exists(x) /\ ~Exists(x)'
      BY <1>00, <3>1 DEF Traced
    <3>3. rows'[x].status = rows[x].status
      BY <1>2
    <3> QED
      BY <3>1, <3>2, <3>3, SameState
  <2> QED
    BY <1>2, <2>1, StutterStep
<1>3. ASSUME NEW h \in Hooks, DeleteWebhook(h) PROVE Contract!Next
  <2>1. UNCHANGED taken
    BY <1>3 DEF DeleteWebhook
  <2>2. ASSUME NEW x \in Deliveries
        PROVE  AbstractState(x)' = IF HookOf(x) = h THEN "gone" ELSE AbstractState(x)
    <3>1. CASE HookOf(x) = h
      <4>1. IsDeleted(HookOf(x))' /\ rows'[x].status = "none"
        BY <1>0, <1>3, <3>1 DEF DeleteWebhook, HookRowOf, NoRow, IsDeleted, HookOf, TypeOK
      <4> QED
        BY <3>1, <4>1 DEF AbstractState, IsDeleted, HookOf
    <3>2. CASE HookOf(x) # h
      <4>1. rows'[x] = rows[x] /\ hooks'[HookOf(x)] = hooks[HookOf(x)]
        BY <1>0, <1>00, <1>3, <3>2 DEF DeleteWebhook, TypeOK
      <4> QED
        BY <3>2, <4>1 DEF AbstractState, HookOf
    <3> QED
      BY <3>1, <3>2
  <2> QED
    BY <2>1, <2>2, RemoveStep
<1>4. ASSUME NEW h \in Hooks, NEW e \in Events, InsertDelivery(h, e) PROVE Contract!Next
  <2> DEFINE d == <<h, e>>
  <2>1. /\ d \in Deliveries /\ HookOf(d) = h
        /\ UNCHANGED <<hooks, taken>> /\ hooks[h].state = "live"
        /\ rows' = [rows EXCEPT ![d] = [status |-> "pending", attempts |-> 0, due |-> TRUE]]
        /\ ToInsert(d)
    BY <1>4 DEF InsertDelivery, Deliveries, HookOf, ToInsert
  <2>2. rows[d].status = "none"
    BY <1>00, <2>1 DEF Traced, Exists
  <2>3. rows'[d].status = "pending" /\ \A x \in Deliveries \ {d} : rows'[x] = rows[x]
    BY <1>0, <2>1
  <2>4. \A x \in Deliveries \ {d} : AbstractState(x)' = AbstractState(x)
    BY <1>0, <2>1, <2>3, OneRow
  <2>5. AbstractState(d) = "none" /\ AbstractState(d)' = "owed"
    BY <2>1, <2>2, <2>3 DEF AbstractState, HookOf
  <2> QED
    BY <2>1, <2>4, <2>5, SubmitStep
<1>5. ASSUME NEW d \in Deliveries, RetryDelivery(d) PROVE Contract!Next \/ UNCHANGED Contract!vars
  <2>1. Write(d, "pending", 0, TRUE) /\ Exists(d) /\ UNCHANGED <<hooks, taken>>
    BY <1>5 DEF RetryDelivery
  <2>3. /\ \A x \in Deliveries \ {d} : rows'[x] = rows[x]
        /\ rows'[d].status = "pending" /\ rows[d].status # "none"
    BY <1>0, <2>1, WriteOneRow DEF Exists
  <2>4. \A x \in Deliveries \ {d} : AbstractState(x)' = AbstractState(x)
    BY <1>0, <2>1, <2>3, OneRow
  <2>5. CASE rows[d].status = "pending"
    <3>1. AbstractState(d)' = AbstractState(d)
      BY <1>0, <2>1, <2>3, <2>5, OneRow
    <3> QED
      BY <2>1, <2>4, <3>1, StutterStep
  <2>6. CASE rows[d].status # "pending"
    <3>1. ~IsDeleted(HookOf(d)) /\ ~IsDeleted(HookOf(d))'
      BY <1>00, <2>1 DEF Traced, IsDeleted, HookOf
    <3>2. rows[d].status \in {"delivered", "failed", "dead"}
      <4>1. rows[d].status \in Status
        BY <1>0 DEF Row
      <4> QED
        BY <2>3, <2>6, <4>1 DEF Status
    <3>3. AbstractState(d) \in Settled
      BY <3>1, <3>2, AbstractStateIs DEF Settled
    <3>4. AbstractState(d)' = "owed"
      BY <2>3, <3>1 DEF AbstractState, IsDeleted
    <3> QED
      BY <2>1, <2>4, <3>3, <3>4, AskStep
  <2> QED
    BY <2>5, <2>6
<1>6. ASSUME NEW d \in Deliveries, DelayElapses(d) PROVE UNCHANGED Contract!vars
  <2>1. Write(d, rows[d].status, rows[d].attempts, TRUE) /\ UNCHANGED <<hooks, taken>>
    BY <1>6 DEF DelayElapses
  <2>2. /\ \A x \in Deliveries \ {d} : rows'[x] = rows[x]
        /\ rows'[d].status = rows[d].status
    BY <1>0, <2>1, WriteOneRow
  <2>3. \A x \in Deliveries : AbstractState(x)' = AbstractState(x)
    BY <1>0, <2>1, <2>2, OneRow
  <2> QED
    BY <2>1, <2>3, StutterStep
<1>7. ASSUME NEW w \in Workers, Post(w) PROVE Contract!Next \/ UNCHANGED Contract!vars
  <2>1. PICK d \in Deliveries : d = cur[w]
    BY <1>0, <1>7 DEF Post, TypeOK, Busy
  <2>2. /\ pc[w] = "post" /\ UNCHANGED <<hooks, rows>>
        /\ taken' = taken \/ taken' = taken \cup {d}
    BY <1>7, <2>1 DEF Post
  <2>3. ASSUME NEW x \in Deliveries PROVE AbstractState(x)' = AbstractState(x)
    BY <2>2 DEF AbstractState
  <2>4. AbstractState(d) \in {"owed", "gone"}
    <3>1. StillOpen(w, d)
      BY DEF RefInv, AnswerInv
    <3>2. rows[d].status \in {"none", "pending"}
      BY <2>1, <2>2, <3>1 DEF StillOpen
    <3>3. Exists(d) \/ IsDeleted(HookOf(d))
      BY <1>00, <2>1, <2>2 DEF Traced, InHands
    <3>4. IsDeleted(HookOf(d)) => ~Exists(d)
      BY <1>00 DEF Traced
    <3> QED
      BY <3>2, <3>3, <3>4, AbstractStateIs DEF Exists
  <2> QED
    BY <2>2, <2>3, <2>4, StutterStep, AcceptStep
<1>8. ASSUME NEW w \in Workers, MarkDelivered(w) PROVE Contract!Next \/ UNCHANGED Contract!vars
  <2>1. PICK d \in Deliveries : d = cur[w]
    BY <1>0, <1>8 DEF MarkDelivered, TypeOK, Busy, AfterPost, Posted
  <2>2. /\ pc[w] \in Posted /\ UNCHANGED <<hooks, taken>>
        /\ Write(d, "delivered", seen[w][d] + 1, rows[d].due) /\ d \in taken
    BY <1>8, <2>1 DEF MarkDelivered, Posted, RefInv, TakenInv
  <2> QED
    BY <1>0, <2>1, <2>2, WriteSettles
<1>9. ASSUME NEW w \in Workers, ScheduleRetry(w) PROVE Contract!Next \/ UNCHANGED Contract!vars
  <2>1. PICK d \in Deliveries : d = cur[w]
    BY <1>0, <1>9 DEF ScheduleRetry, TypeOK, Busy, AfterPost, Posted
  <2>2. /\ pc[w] \in Posted /\ UNCHANGED <<hooks, taken>>
        /\ Write(d, "failed", seen[w][d] + 1, FALSE)
    BY <1>9, <2>1 DEF ScheduleRetry, Posted
  <2> QED
    BY <1>0, <2>1, <2>2, WriteSettles
<1>10. ASSUME NEW w \in Workers, MarkDead(w) PROVE Contract!Next \/ UNCHANGED Contract!vars
  <2>1. PICK d \in Deliveries : d = cur[w]
    BY <1>0, <1>10 DEF MarkDead, TypeOK, Busy, AfterPost, Posted
  <2>2. /\ pc[w] \in Posted /\ UNCHANGED <<hooks, taken>>
        /\ Write(d, "dead", seen[w][d] + 1, rows[d].due)
    BY <1>10, <2>1 DEF MarkDead, Posted
  <2> QED
    BY <1>0, <2>1, <2>2, WriteSettles
<1>11. ASSUME NEW h \in Hooks, CreateWebhook(h) PROVE \A g \in Hooks : ~DeleteWebhook(g)
  <2>1. hooks'[h].state = "live" /\ hooks[h].state = "none"
    BY <1>0, <1>11 DEF CreateWebhook, HookRowOf, TypeOK
  <2>2. ASSUME NEW g \in Hooks, DeleteWebhook(g) PROVE FALSE
    BY <1>0, <2>1, <2>2 DEF DeleteWebhook, HookRowOf, TypeOK
  <2> QED
    BY <2>2
<1>12. ASSUME NEW w \in Workers, ResetFailCount(w) \/ MarkHookFailed(w)
       PROVE  (\A g \in Hooks : ~DeleteWebhook(g)) /\ UNCHANGED <<rows, taken>>
  BY <1>0, <1>12 DEF ResetFailCount, MarkHookFailed, NextDelivery, Goto, DeleteWebhook, pass, TypeOK
<1>13. \/ UNCHANGED <<hooks, rows, taken>>
       \/ \E h \in Hooks : CreateWebhook(h) \/ DeleteWebhook(h)
       \/ \E h \in Hooks, e \in Events : InsertDelivery(h, e)
       \/ \E d \in Deliveries : RetryDelivery(d) \/ DelayElapses(d)
       \/ \E w \in Workers : \/ Post(w) \/ MarkDelivered(w) \/ ScheduleRetry(w) \/ MarkDead(w)
                             \/ ResetFailCount(w) \/ MarkHookFailed(w)
  BY DEF Next, Request, PassStep, Fault, SelectHooks, AbortEnqueue, StartPass, FindHook,
         SkipDelivery, DbErrorInTry, DbErrorOutsideTry, Crash, vars
<1>14. ASSUME NEW h \in Hooks, CreateWebhook(h) PROVE UNCHANGED Contract!vars
  BY <1>2, <1>11, <1>14 DEF CreateWebhook
<1>15. ASSUME NEW w \in Workers, ResetFailCount(w) \/ MarkHookFailed(w) PROVE UNCHANGED Contract!vars
  BY <1>2, <1>12, <1>15
<1> QED
  BY <1>1, <1>3, <1>4, <1>5, <1>6, <1>7, <1>8, <1>9, <1>10, <1>13, <1>14, <1>15

\* One pass at a time over a database that answers: the deliveries keep the
\* contract's safety part, so a delivery is owed until it is settled once, and
\* settled as delivered only after its endpoint took it.
THEOREM ContractIsKept == ASSUME Serial PROVE Spec => Contract!Spec
<1>1. ASSUME Init PROVE RefInv
  <2>1. AnswerInv /\ TakenInv
    BY <1>1, AnswerInit, InitType DEF Init, TakenInv, DeliveredWasTaken, NoRow
  <2>2. ASSUME NEW d \in Deliveries PROVE Traced(d)
    BY <1>1, <2>2 DEF Init, Traced, InHands, Exists, NoRow, Posted
  <2> QED
    BY <2>1, <2>2 DEF RefInv
<1>2. RefInv /\ [Next]_vars => RefInv'
  BY RefNext
<1>3. ASSUME Init PROVE Contract!Init
  <2>1. ASSUME NEW d \in Deliveries PROVE AbstractState(d) = "none"
    BY <1>1, <1>3 DEF Init, AbstractState, NoRow, HookRowOf, HookOf, Deliveries
  <2> QED
    BY <1>3, <2>1 DEF Init, Contract!Init, Contract!Deliveries, Deliveries
<1>4. RefInv /\ [Next]_vars => [Contract!Next]_(Contract!vars)
  BY StepRefines
<1> QED
  BY <1>1, <1>2, <1>3, <1>4, PTL DEF Spec, Contract!Spec
=============================================================================
