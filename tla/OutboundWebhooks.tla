--------------------------- MODULE OutboundWebhooks ---------------------------
(***************************************************************************)
(* Outbound webhook delivery: the rows of outbound_webhooks and            *)
(* webhook_deliveries, the API calls that create, fan out, retry and       *)
(* delete them, and the dispatcher passes that POST pending deliveries.    *)
(*                                                                         *)
(* One action per database statement or HTTP request, so that everything   *)
(* another process can do while the code awaits is a behaviour here.  A    *)
(* worker is one pass of dispatchPendingWebhooks; several workers are      *)
(* passes that overlap (two worker processes, or one process whose job     *)
(* outlived the pg-boss expiry and whose next job has started).            *)
(*                                                                         *)
(* A delivery is identified by its webhook and the event it announces:     *)
(* one enqueueDelivery call inserts at most one row per webhook.           *)
(***************************************************************************)
EXTENDS Integers, FiniteSets, Functions

CONSTANTS
  Hooks,          \* outbound webhook ids
  Events,         \* enqueueDelivery calls
  Workers,        \* dispatcher passes that may be active at the same time
  Subscriptions,  \* <<hook, event>>: the hook's eventTypes include the event's type or "*"
  MaxAttempts,    \* RETRY_DELAYS_MS.length, 8 in the source
  MaxRetries,     \* bound: retryDelivery calls per delivery
  MaxCrashes,     \* bound: worker crashes
  MaxDbErrors     \* bound: database statements of a pass that throw

ASSUME ConstantsAssumption ==
  /\ Subscriptions \subseteq Hooks \X Events
  /\ MaxAttempts \in Nat \ {0}
  /\ MaxRetries \in Nat /\ MaxCrashes \in Nat /\ MaxDbErrors \in Nat

VARIABLES
  hooks,        \* [Hooks -> outbound_webhooks row]
  rows,         \* [Deliveries -> webhook_deliveries row]
  pub,          \* [Events -> progress of the enqueueDelivery call]
  fan,          \* [Events -> hooks its loop has still to reach]
  pc,           \* [Workers -> await the pass is at]
  snap,         \* [Workers -> deliveries of the snapshot not yet handled]
  seen,         \* [Workers -> [Deliveries -> attempts column in the snapshot]]
  cur,          \* [Workers -> delivery being handled]
  crashes, dbErrors,
  \* what the endpoints and the callers observed
  taken,        \* deliveries some endpoint has accepted
  answer,       \* [Deliveries -> outcome of the last POST]
  posts,        \* [Workers -> [Deliveries -> POSTs sent]]
  interrupted,  \* [Workers -> [Deliveries -> attempts cut off after the POST]]
  retries,      \* [Deliveries -> retryDelivery calls]
  targets       \* [Events -> hooks selected by the enqueueDelivery call]

database == <<hooks, rows>>
caller   == <<pub, fan, targets>>
faults   == <<crashes, dbErrors>>
observed == <<taken, answer, posts, retries>>
pass     == <<pc, snap, seen, cur>>
vars     == <<database, caller, faults, observed, interrupted, pass>>

-----------------------------------------------------------------------------
Deliveries == Hooks \X Events
HookOf(d)  == d[1]
NoDelivery == <<>>

Status  == {"none", "pending", "delivered", "failed", "dead"}
Row     == [status : Status, attempts : Nat, due : BOOLEAN]
NoRow   == [status |-> "none", attempts |-> 0, due |-> FALSE]
HookRow == [state : {"none", "live", "deleted"}, failCount : 0..1]

HookRowOf(state, failCount) == [state |-> state, failCount |-> failCount]

Answers == {"none", "ok", "refused", "error"}

\* "scan": the for loop, about to read the hook; "post": about to call fetch;
\* "deliver", "hook": the two updates after a 2xx answer; "refused", "caught":
\* scheduleRetry, called from the else branch and from the catch block;
\* "deadInTry", "deadInCatch": the failCount update after status dead.
Posted  == {"deliver", "refused", "caught"}
AfterPost == Posted \cup {"hook", "deadInTry", "deadInCatch"}
Busy    == AfterPost \cup {"post"}
Steps   == Busy \cup {"idle", "scan"}

Exists(d) == rows[d].status # "none"

\* Altered forms (mutation tests): the select takes every row that was not
\* delivered; it takes only rows attempted before.
PendingUndelivered == {d \in Deliveries : rows[d].status \in {"pending", "failed", "dead"} /\ rows[d].due}
PendingAttempted == {d \in Deliveries : rows[d].status = "pending" /\ rows[d].due /\ rows[d].attempts > 0}

\* lte(nextAttemptAt, now) of a row the API made pending holds at once; the
\* delay of scheduleRetry elapses later.
Pending == {d \in Deliveries : rows[d].status = "pending" /\ rows[d].due}

\* UPDATE ... WHERE id = d.id: a row that was deleted meanwhile stays deleted.
Write(d, status, attempts, due) ==
  rows' = IF Exists(d)
          THEN [rows EXCEPT ![d] = [status |-> status, attempts |-> attempts, due |-> due]]
          ELSE rows

WriteFailCount(h, n) ==
  hooks' = IF hooks[h].state = "live"
           THEN [hooks EXCEPT ![h] = HookRowOf("live", n)]
           ELSE hooks

Goto(w, step) == pc' = [pc EXCEPT ![w] = step]

\* The pass leaves the loop body: next delivery of the snapshot, or the end.
NextDelivery(w) ==
  /\ Goto(w, IF snap[w] = {} THEN "idle" ELSE "scan")
  /\ cur' = [cur EXCEPT ![w] = NoDelivery]

\* The pass ends without reaching the rest of its snapshot.
AbandonPass(w) ==
  /\ Goto(w, "idle")
  /\ snap' = [snap EXCEPT ![w] = {}]
  /\ cur' = [cur EXCEPT ![w] = NoDelivery]
  /\ interrupted' = IF pc[w] \in Posted
                    THEN [interrupted EXCEPT ![w][cur[w]] = @ + 1]
                    ELSE interrupted

Init ==
  /\ hooks = [h \in Hooks |-> HookRowOf("none", 0)]
  /\ rows = [d \in Deliveries |-> NoRow]
  /\ pub = [e \in Events |-> "idle"]
  /\ fan = [e \in Events |-> {}]
  /\ targets = [e \in Events |-> {}]
  /\ pc = [w \in Workers |-> "idle"]
  /\ snap = [w \in Workers |-> {}]
  /\ seen = [w \in Workers |-> [d \in Deliveries |-> 0]]
  /\ cur = [w \in Workers |-> NoDelivery]
  /\ crashes = 0 /\ dbErrors = 0
  /\ taken = {}
  /\ answer = [d \in Deliveries |-> "none"]
  /\ posts = [w \in Workers |-> [d \in Deliveries |-> 0]]
  /\ interrupted = [w \in Workers |-> [d \in Deliveries |-> 0]]
  /\ retries = [d \in Deliveries |-> 0]

-----------------------------------------------------------------------------
(* API requests: services/outboundWebhooks.ts *)

CreateWebhook(h) ==
  /\ hooks[h].state = "none"
  /\ hooks' = [hooks EXCEPT ![h] = HookRowOf("live", 0)]
  /\ UNCHANGED <<rows, caller, faults, observed, interrupted, pass>>

\* ON DELETE CASCADE takes the deliveries of the webhook with it.
DeleteWebhook(h) ==
  /\ hooks[h].state = "live"
  /\ hooks' = [hooks EXCEPT ![h] = HookRowOf("deleted", 0)]
  /\ rows' = [d \in Deliveries |-> IF HookOf(d) = h THEN NoRow ELSE rows[d]]
  /\ UNCHANGED <<caller, faults, observed, interrupted, pass>>

\* The select of enqueueDelivery; the column active is TRUE in every row.
SelectHooks(e) ==
  /\ pub[e] = "idle"
  /\ LET selected == {h \in Hooks : hooks[h].state = "live" /\ <<h, e>> \in Subscriptions}
     IN  /\ targets' = [targets EXCEPT ![e] = selected]
         /\ fan' = [fan EXCEPT ![e] = selected]
         /\ pub' = [pub EXCEPT ![e] = IF selected = {} THEN "done" ELSE "loop"]
  /\ UNCHANGED <<database, faults, observed, interrupted, pass>>

\* Altered form: the loop over the hooks ends after its first insert.
InsertFirstOnly(h, e) ==
  /\ pub[e] = "loop" /\ h \in fan[e]
  /\ hooks[h].state = "live"
  /\ rows' = [rows EXCEPT ![<<h, e>>] = [status |-> "pending", attempts |-> 0, due |-> TRUE]]
  /\ fan' = [fan EXCEPT ![e] = {}]
  /\ pub' = [pub EXCEPT ![e] = "done"]
  /\ UNCHANGED <<hooks, targets, faults, observed, interrupted, pass>>

InsertDelivery(h, e) ==
  /\ pub[e] = "loop" /\ h \in fan[e]
  /\ hooks[h].state = "live"
  /\ rows' = [rows EXCEPT ![<<h, e>>] = [status |-> "pending", attempts |-> 0, due |-> TRUE]]
  /\ fan' = [fan EXCEPT ![e] = @ \ {h}]
  /\ pub' = [pub EXCEPT ![e] = IF fan[e] = {h} THEN "done" ELSE "loop"]
  /\ UNCHANGED <<hooks, targets, faults, observed, interrupted, pass>>

\* The insert throws (the webhook is gone and its foreign key with it, or the
\* database is away), or the API process dies: the other inserts never happen.
AbortEnqueue(e) ==
  /\ pub[e] = "loop"
  /\ fan' = [fan EXCEPT ![e] = {}]
  /\ pub' = [pub EXCEPT ![e] = "aborted"]
  /\ UNCHANGED <<database, targets, faults, observed, interrupted, pass>>

\* The update has no condition on the status of the row.
RetryDelivery(d) ==
  /\ Exists(d) /\ retries[d] < MaxRetries
  /\ Write(d, "pending", 0, TRUE)
  /\ retries' = [retries EXCEPT ![d] = @ + 1]
  /\ UNCHANGED <<hooks, caller, faults, taken, answer, posts, interrupted, pass>>

\* The delay written by scheduleRetry runs out.
DelayElapses(d) ==
  /\ Exists(d) /\ ~rows[d].due
  /\ Write(d, rows[d].status, rows[d].attempts, TRUE)
  /\ UNCHANGED <<hooks, caller, faults, observed, interrupted, pass>>

-----------------------------------------------------------------------------
(* One pass: workers/outboundWebhookDispatcher.ts *)

StartPass(w) ==
  /\ pc[w] = "idle" /\ Pending # {}
  /\ Goto(w, "scan")
  /\ snap' = [snap EXCEPT ![w] = Pending]
  /\ seen' = [seen EXCEPT ![w] =
       [d \in Deliveries |-> IF d \in Pending THEN rows[d].attempts ELSE 0]]
  /\ UNCHANGED <<database, caller, faults, observed, interrupted, cur>>

\* Altered form: the delivery taken from the snapshot is not kept.
FindHookKeepsNone(w) ==
  /\ pc[w] = "scan"
  /\ \E d \in snap[w] :
       /\ hooks[HookOf(d)].state = "live"
       /\ snap' = [snap EXCEPT ![w] = @ \ {d}]
  /\ Goto(w, "post")
  /\ UNCHANGED <<database, caller, faults, observed, interrupted, seen, cur>>

\* The webhook is read again; the delivery is not.
FindHook(w) ==
  /\ pc[w] = "scan"
  /\ \E d \in snap[w] :
       /\ hooks[HookOf(d)].state = "live"
       /\ snap' = [snap EXCEPT ![w] = @ \ {d}]
       /\ cur' = [cur EXCEPT ![w] = d]
  /\ Goto(w, "post")
  /\ UNCHANGED <<database, caller, faults, observed, interrupted, seen>>

SkipDelivery(w) ==
  /\ pc[w] = "scan"
  /\ \E d \in snap[w] :
       /\ hooks[HookOf(d)].state # "live"
       /\ snap' = [snap EXCEPT ![w] = @ \ {d}]
       /\ Goto(w, IF snap[w] = {d} THEN "idle" ELSE "scan")
  /\ UNCHANGED <<database, caller, faults, observed, interrupted, seen, cur>>

\* fetch: a 2xx answer, another answer, or a network error or the 10 s timeout,
\* after which nobody knows whether the endpoint processed the request.
Post(w) ==
  LET d == cur[w] IN
  /\ pc[w] = "post"
  /\ posts' = [posts EXCEPT ![w][d] = @ + 1]
  /\ \/ /\ answer' = [answer EXCEPT ![d] = "ok"]
        /\ taken' = taken \cup {d}
        /\ Goto(w, "deliver")
     \/ /\ answer' = [answer EXCEPT ![d] = "refused"]
        /\ taken' = taken
        /\ Goto(w, "refused")
     \/ /\ answer' = [answer EXCEPT ![d] = "error"]
        /\ taken' \in {taken, taken \cup {d}}
        /\ Goto(w, "caught")
  /\ UNCHANGED <<database, caller, faults, retries, interrupted, snap, seen, cur>>

\* Altered form: res.ok is not tested.
MarkDeliveredAnyAnswer(w) ==
  /\ pc[w] \in {"deliver", "refused"}
  /\ Write(cur[w], "delivered", seen[w][cur[w]] + 1, rows[cur[w]].due)
  /\ Goto(w, "hook")
  /\ UNCHANGED <<hooks, caller, faults, observed, interrupted, snap, seen, cur>>

MarkDelivered(w) ==
  /\ pc[w] = "deliver"
  /\ Write(cur[w], "delivered", seen[w][cur[w]] + 1, rows[cur[w]].due)
  /\ Goto(w, "hook")
  /\ UNCHANGED <<hooks, caller, faults, observed, interrupted, snap, seen, cur>>

ResetFailCount(w) ==
  /\ pc[w] = "hook"
  /\ WriteFailCount(HookOf(cur[w]), 0)
  /\ NextDelivery(w)
  /\ UNCHANGED <<rows, caller, faults, observed, interrupted, snap, seen>>

\* scheduleRetry below MAX_ATTEMPTS.
ScheduleRetry(w) ==
  LET attempts == seen[w][cur[w]] + 1 IN
  /\ pc[w] \in {"refused", "caught"} /\ attempts < MaxAttempts
  /\ Write(cur[w], "failed", attempts, FALSE)
  /\ NextDelivery(w)
  /\ UNCHANGED <<hooks, caller, faults, observed, interrupted, snap, seen>>

\* scheduleRetry at MAX_ATTEMPTS; the second update is MarkHookFailed.
MarkDead(w) ==
  LET attempts == seen[w][cur[w]] + 1 IN
  /\ pc[w] \in {"refused", "caught"} /\ attempts >= MaxAttempts
  /\ Write(cur[w], "dead", attempts, rows[cur[w]].due)
  /\ Goto(w, IF pc[w] = "refused" THEN "deadInTry" ELSE "deadInCatch")
  /\ UNCHANGED <<hooks, caller, faults, observed, interrupted, snap, seen, cur>>

MarkHookFailed(w) ==
  /\ pc[w] \in {"deadInTry", "deadInCatch"}
  /\ WriteFailCount(HookOf(cur[w]), 1)
  /\ NextDelivery(w)
  /\ UNCHANGED <<rows, caller, faults, observed, interrupted, snap, seen>>

\* A statement inside the try block throws: the catch block runs scheduleRetry,
\* whatever the endpoint answered and whatever has been written already.
DbErrorInTry(w) ==
  /\ pc[w] \in {"deliver", "hook", "refused", "deadInTry"} /\ dbErrors < MaxDbErrors
  /\ dbErrors' = dbErrors + 1
  /\ Goto(w, "caught")
  /\ UNCHANGED <<database, caller, crashes, observed, interrupted, snap, seen, cur>>

\* A statement outside it throws: dispatchPendingWebhooks rejects and the pass
\* ends with the rest of its snapshot untouched.
DbErrorOutsideTry(w) ==
  /\ pc[w] \in {"scan", "caught", "deadInCatch"} /\ dbErrors < MaxDbErrors
  /\ dbErrors' = dbErrors + 1
  /\ AbandonPass(w)
  /\ UNCHANGED <<database, caller, crashes, observed, seen>>

Crash(w) ==
  /\ pc[w] # "idle" /\ crashes < MaxCrashes
  /\ crashes' = crashes + 1
  /\ AbandonPass(w)
  /\ UNCHANGED <<database, caller, dbErrors, observed, seen>>

-----------------------------------------------------------------------------
PassStep(w) ==
  \/ StartPass(w) \/ FindHook(w) \/ SkipDelivery(w) \/ Post(w)
  \/ MarkDelivered(w) \/ ResetFailCount(w)
  \/ ScheduleRetry(w) \/ MarkDead(w) \/ MarkHookFailed(w)

Fault(w) == DbErrorInTry(w) \/ DbErrorOutsideTry(w) \/ Crash(w)

Request ==
  \/ \E h \in Hooks : CreateWebhook(h) \/ DeleteWebhook(h)
  \/ \E e \in Events : SelectHooks(e) \/ AbortEnqueue(e)
  \/ \E h \in Hooks, e \in Events : InsertDelivery(h, e)
  \/ \E d \in Deliveries : RetryDelivery(d)

Next ==
  \/ Request
  \/ \E d \in Deliveries : DelayElapses(d)
  \/ \E w \in Workers : PassStep(w) \/ Fault(w)

Spec == Init /\ [][Next]_vars

\* pg-boss starts a pass every minute and every await of a pass returns (fetch
\* within 10 s); clocks advance.  Nothing obliges users or faults to act.
FairSpec ==
  /\ Spec
  /\ \A w \in Workers : WF_vars(PassStep(w))
  /\ \A d \in Deliveries : WF_vars(DelayElapses(d))

-----------------------------------------------------------------------------
(* Properties *)

TypeOK ==
  /\ hooks \in [Hooks -> HookRow]
  /\ rows \in [Deliveries -> Row]
  /\ pub \in [Events -> {"idle", "loop", "done", "aborted"}]
  /\ fan \in [Events -> SUBSET Hooks]
  /\ targets \in [Events -> SUBSET Hooks]
  /\ pc \in [Workers -> Steps]
  /\ snap \in [Workers -> SUBSET Deliveries]
  /\ seen \in [Workers -> [Deliveries -> Nat]]
  /\ \A w \in Workers : cur[w] \in Deliveries \/ (pc[w] \notin Busy /\ cur[w] = NoDelivery)
  /\ cur \in [Workers -> Deliveries \cup {NoDelivery}]
  /\ crashes \in Nat /\ dbErrors \in Nat
  /\ taken \subseteq Deliveries
  /\ answer \in [Deliveries -> Answers]
  /\ posts \in [Workers -> [Deliveries -> Nat]]
  /\ interrupted \in [Workers -> [Deliveries -> Nat]]
  /\ retries \in [Deliveries -> Nat]

\* A pass POSTs a delivery once for its insertion, once more for each
\* retryDelivery, and once more for each of its own attempts that a crash or a
\* database error cut off after the request left: whatever the interleaving with
\* other passes, deletions and retries, no pass sends more.
PostsAccounted ==
  \A w \in Workers, d \in Deliveries :
    posts[w][d] <= 1 + retries[d] + interrupted[w][d]

\* An enqueueDelivery call that returns has stored a row for every webhook it
\* selected, unless the webhook was deleted since.
FanOutComplete ==
  \A e \in Events : pub[e] = "done" =>
    \A h \in targets[e] : Exists(<<h, e>>) \/ hooks[h].state = "deleted"

\* A row says delivered only of a delivery that some endpoint accepted, even
\* when passes overlap and statements fail.
DeliveredWasTaken ==
  \A d \in Deliveries : rows[d].status = "delivered" => d \in taken

InFlight(d) == \E w \in Workers : pc[w] \in AfterPost /\ cur[w] = d

\* With one pass at a time and a database that answers, the status of a settled
\* row agrees with the last answer of the endpoint.
StatusTellsAnswer ==
  \A d \in Deliveries :
    /\ rows[d].status = "delivered" => answer[d] = "ok"
    /\ rows[d].status \in {"failed", "dead"} => answer[d] \in {"refused", "error"}

PostCount(d) == FoldFunction(+, 0, [w \in Workers |-> posts[w][d]])

\* A delivery that is pending and not in flight gets another POST, unless its
\* webhook is deleted: an insert or a retryDelivery is never forgotten by the
\* select.  (A retry made while the POST is in flight is: the pass overwrites it.)
OwedIsPosted ==
  \A d \in Deliveries, n \in 0..(1 + MaxRetries + MaxCrashes + MaxDbErrors) * Cardinality(Workers) :
    (rows[d].status = "pending" /\ ~InFlight(d) /\ PostCount(d) = n)
      ~> (PostCount(d) > n \/ ~Exists(d))

\* docs/concepts/webhooks.md:35-46: a failed attempt is followed by another one
\* after its delay, up to the eighth.
RetrySchedule ==
  \A d \in Deliveries :
    (rows[d].status = "failed" /\ rows[d].due) ~> rows[d].status # "failed"

-----------------------------------------------------------------------------
(* The contract the deliveries implement when passes do not overlap.       *)

AbstractState(d) ==
  CASE hooks[HookOf(d)].state = "deleted" -> "gone"
    [] rows[d].status = "pending" -> "owed"
    [] rows[d].status = "dead" -> "failed"
    [] OTHER -> rows[d].status

Contract == INSTANCE DeliveryContract WITH
  state <- [d \in Deliveries |-> AbstractState(d)],
  taken <- taken

\* Every step is a step of the contract, and every delivery owed is settled.
ImplementsContract == Contract!FairSpec
=============================================================================
