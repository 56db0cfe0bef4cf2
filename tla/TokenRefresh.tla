----------------------------- MODULE TokenRefresh -----------------------------
(***************************************************************************)
(* OAuth access tokens: the calendar_accounts rows of the Google and       *)
(* Microsoft accounts, the passes of runTokenRefresh that renew them, and  *)
(* the authorization servers that answer (external).                       *)
(*                                                                         *)
(* A refresh token is a number: the generation the authorization server    *)
(* issued it in.  Where the server rotates, a refresh may return the next  *)
(* generation and withdraw the one it was asked with.  An access token is  *)
(* fresh or expires within REFRESH_WINDOW_MS.                              *)
(*                                                                         *)
(* A pass reads its accounts once and updates each by id from what it      *)
(* read; workers are passes that overlap.  Every account has a refresh     *)
(* token: callback.ts encrypts one or throws.                              *)
(***************************************************************************)
EXTENDS Integers, FiniteSets

CONSTANTS
  Accounts,      \* account ids the OAuth callback creates
  Google,        \* those of provider google; the others are microsoft
  Workers,       \* passes that may be active at the same time
  Rotates,       \* whether the authorization servers rotate refresh tokens
  MaxFailCount,  \* MAX_FAIL_COUNT, 5 in the source
  BatchLimit,    \* accounts per pass, 100 in the source
  MaxToken,      \* bound: generations an authorization server issues
  MaxCrashes,    \* bound: worker crashes
  MaxDbErrors,   \* bound: updates of a pass that throw
  MaxLost        \* bound: answers of an authorization server that get lost

ASSUME ConstantsAssumption ==
  /\ Google \subseteq Accounts
  /\ Rotates \in BOOLEAN
  /\ MaxFailCount \in Nat \ {0} /\ BatchLimit \in Nat \ {0} /\ MaxToken \in Nat \ {0}
  /\ MaxCrashes \in Nat /\ MaxDbErrors \in Nat /\ MaxLost \in Nat

VARIABLES
  rows,      \* [Accounts -> calendar_accounts row]
  pc,        \* [Workers -> await the pass is at]
  todo,      \* [Workers -> accounts of the batch not yet handled]
  seen,      \* [Workers -> [Accounts -> columns in the batch]]
  cur,       \* [Workers -> account being handled]
  got,       \* [Workers -> refresh token the result carries, or 0]
  crashes, dbErrors, lost,
  \* the authorization servers and the history of their answers
  valid,     \* [Accounts -> generations the server honours]
  issued,    \* [Accounts -> last generation issued]
  failures   \* [Accounts -> failed refreshes since the last one that succeeded]

pass   == <<pc, todo, seen, cur, got>>
faults == <<crashes, dbErrors, lost>>
server == <<valid, issued>>
vars   == <<rows, pass, faults, server, failures>>

-----------------------------------------------------------------------------
Status == {"none", "active", "refresh_failed", "deleted"}
Row    == [status : Status, failCount : Nat, fresh : BOOLEAN, token : Nat]
Steps  == {"idle", "loop", "fetch", "save", "catch"}
Busy   == {"fetch", "save", "catch"}

RowOf(status, failCount, fresh, token) ==
  [status |-> status, failCount |-> failCount, fresh |-> fresh, token |-> token]

Columns(failCount, token) == [failCount |-> failCount, token |-> token]

Exists(a) == rows[a].status \in {"active", "refresh_failed"}

\* Altered form (mutation tests): the select takes accounts of any status.
ExpiringAnyStatus == {a \in Accounts : Exists(a) /\ ~rows[a].fresh}

Expiring == {a \in Accounts : rows[a].status = "active" /\ ~rows[a].fresh}

Goto(w, step) == pc' = [pc EXCEPT ![w] = step]

NextAccount(w) == Goto(w, IF todo[w] = {} THEN "idle" ELSE "loop")

\* UPDATE ... WHERE id = a: nothing happens to an account deleted meanwhile.
Write(a, row) == rows' = IF Exists(a) THEN [rows EXCEPT ![a] = row] ELSE rows

\* The history only tells numbers of failures up to the threshold apart.
OneMore(n) == IF n < MaxFailCount THEN n + 1 ELSE n

Init ==
  /\ rows = [a \in Accounts |-> RowOf("none", 0, FALSE, 0)]
  /\ pc = [w \in Workers |-> "idle"]
  /\ todo = [w \in Workers |-> {}]
  /\ seen = [w \in Workers |-> [a \in Accounts |-> Columns(0, 0)]]
  /\ cur \in [Workers -> Accounts]
  /\ got = [w \in Workers |-> 0]
  /\ crashes = 0 /\ dbErrors = 0 /\ lost = 0
  /\ valid = [a \in Accounts |-> {}]
  /\ issued = [a \in Accounts |-> 0]
  /\ failures = [a \in Accounts |-> 0]

-----------------------------------------------------------------------------
(* Accounts and their grants *)

\* The insert at the end of the OAuth callback; every consent makes a new row.
Connect(a) ==
  /\ rows[a].status = "none"
  /\ rows' = [rows EXCEPT ![a] = RowOf("active", 0, TRUE, 1)]
  /\ valid' = [valid EXCEPT ![a] = {1}]
  /\ issued' = [issued EXCEPT ![a] = 1]
  /\ UNCHANGED <<pass, faults, failures>>

Delete(a) ==
  /\ Exists(a)
  /\ rows' = [rows EXCEPT ![a] = RowOf("deleted", 0, FALSE, 0)]
  /\ UNCHANGED <<pass, faults, server, failures>>

Expire(a) ==
  /\ Exists(a) /\ rows[a].fresh
  /\ Write(a, RowOf(rows[a].status, rows[a].failCount, FALSE, rows[a].token))
  /\ UNCHANGED <<pass, faults, server, failures>>

\* The user withdraws the consent at the provider.
Revoke(a) ==
  /\ valid[a] # {}
  /\ valid' = [valid EXCEPT ![a] = {}]
  /\ UNCHANGED <<rows, pass, faults, issued, failures>>

-----------------------------------------------------------------------------
(* One pass: workers/tokenRefresh.ts *)

\* The select has no ORDER BY: with more accounts than the limit, any of them.
StartPass(w) ==
  /\ pc[w] = "idle" /\ Expiring # {}
  /\ \E batch \in SUBSET Expiring :
       /\ \/ batch = Expiring /\ Cardinality(batch) <= BatchLimit
          \/ Cardinality(batch) = BatchLimit
       /\ todo' = [todo EXCEPT ![w] = batch]
       /\ seen' = [seen EXCEPT ![w] = [a \in Accounts |->
            IF a \in batch THEN Columns(rows[a].failCount, rows[a].token) ELSE Columns(0, 0)]]
  /\ Goto(w, "loop")
  /\ UNCHANGED <<rows, cur, got, faults, server, failures>>

NextInBatch(w) ==
  /\ pc[w] = "loop"
  /\ \E a \in todo[w] :
       /\ todo' = [todo EXCEPT ![w] = @ \ {a}]
       /\ cur' = [cur EXCEPT ![w] = a]
  /\ Goto(w, "fetch")
  /\ UNCHANGED <<rows, seen, got, faults, server, failures>>

\* The server honours the token: the same one stays good, or (where it rotates)
\* the next generation replaces all earlier ones.
Honour(a, next) ==
  \/ next = 0 /\ UNCHANGED server
  \/ /\ Rotates /\ issued[a] < MaxToken
     /\ next = issued[a] + 1
     /\ issued' = [issued EXCEPT ![a] = next]
     /\ valid' = [valid EXCEPT ![a] = {next}]

\* Altered form: Google's new refresh token is dropped as Microsoft's is.
GrantedDropsToken(w) ==
  LET a == cur[w] IN
  /\ pc[w] = "fetch" /\ seen[w][a].token \in valid[a]
  /\ \E next \in 0..MaxToken : Honour(a, next) /\ got' = [got EXCEPT ![w] = 0]
  /\ Goto(w, "save")
  /\ UNCHANGED <<rows, todo, seen, cur, faults, failures>>

\* microsoft/oauth.ts returns no refresh token, whatever the server sent.
Granted(w) ==
  LET a == cur[w] IN
  /\ pc[w] = "fetch" /\ seen[w][a].token \in valid[a]
  /\ \E next \in 0..MaxToken :
       /\ Honour(a, next)
       /\ got' = [got EXCEPT ![w] = IF a \in Google THEN next ELSE 0]
  /\ Goto(w, "save")
  /\ UNCHANGED <<rows, todo, seen, cur, faults, failures>>

\* A non-2xx answer or a network error before the server acted.
Refused(w) ==
  LET a == cur[w] IN
  /\ pc[w] = "fetch"
  /\ failures' = [failures EXCEPT ![a] = OneMore(@)]
  /\ Goto(w, "catch")
  /\ UNCHANGED <<rows, todo, seen, cur, got, faults, server>>

\* The server acted and its answer got lost.
AnswerLost(w) ==
  LET a == cur[w] IN
  /\ pc[w] = "fetch" /\ seen[w][a].token \in valid[a] /\ lost < MaxLost
  /\ \E next \in 0..MaxToken : Honour(a, next)
  /\ lost' = lost + 1
  /\ failures' = [failures EXCEPT ![a] = OneMore(@)]
  /\ Goto(w, "catch")
  /\ UNCHANGED <<rows, todo, seen, cur, got, crashes, dbErrors>>

\* Altered form: refreshFailCount is not reset.
SaveTokensKeepCount(w) ==
  LET a == cur[w]
      token == IF got[w] = 0 THEN rows[a].token ELSE got[w]
  IN  /\ pc[w] = "save"
      /\ Write(a, RowOf("active", rows[a].failCount, TRUE, token))
      /\ got' = [got EXCEPT ![w] = 0]
      /\ failures' = [failures EXCEPT ![a] = 0]
      /\ NextAccount(w)
      /\ UNCHANGED <<todo, seen, cur, faults, server>>

SaveTokens(w) ==
  LET a == cur[w]
      token == IF got[w] = 0 THEN rows[a].token ELSE got[w]
  IN  /\ pc[w] = "save"
      /\ Write(a, RowOf("active", 0, TRUE, token))
      /\ got' = [got EXCEPT ![w] = 0]
      /\ failures' = [failures EXCEPT ![a] = 0]
      /\ NextAccount(w)
      /\ UNCHANGED <<todo, seen, cur, faults, server>>

\* Altered forms: the limit is passed one failure late; the failure is not
\* counted; it is counted the wrong way.
RecordFailureLate(w) ==
  LET a == cur[w]
      newCount == seen[w][a].failCount + 1
      newStatus == IF newCount > MaxFailCount THEN "refresh_failed" ELSE "active"
  IN  /\ pc[w] = "catch"
      /\ Write(a, RowOf(newStatus, newCount, rows[a].fresh, rows[a].token))
      /\ NextAccount(w)
      /\ UNCHANGED <<todo, seen, cur, got, faults, server, failures>>

RecordFailureUncounted(w) ==
  /\ pc[w] = "catch"
  /\ NextAccount(w)
  /\ UNCHANGED <<rows, todo, seen, cur, got, faults, server, failures>>

RecordFailureCountsDown(w) ==
  LET a == cur[w] IN
  /\ pc[w] = "catch"
  /\ Write(a, RowOf("active", seen[w][a].failCount - 1, rows[a].fresh, rows[a].token))
  /\ NextAccount(w)
  /\ UNCHANGED <<todo, seen, cur, got, faults, server, failures>>

\* The catch block counts on from the value in the batch.
RecordFailure(w) ==
  LET a == cur[w]
      newCount == seen[w][a].failCount + 1
      newStatus == IF newCount >= MaxFailCount THEN "refresh_failed" ELSE "active"
  IN  /\ pc[w] = "catch"
      /\ Write(a, RowOf(newStatus, newCount, rows[a].fresh, rows[a].token))
      /\ NextAccount(w)
      /\ UNCHANGED <<todo, seen, cur, got, faults, server, failures>>

\* The update after a refresh throws: the catch block counts a failure, and the
\* tokens just obtained are gone.
DbErrorInTry(w) ==
  /\ pc[w] = "save" /\ dbErrors < MaxDbErrors
  /\ dbErrors' = dbErrors + 1
  /\ got' = [got EXCEPT ![w] = 0]
  /\ failures' = [failures EXCEPT ![cur[w]] = OneMore(@)]
  /\ Goto(w, "catch")
  /\ UNCHANGED <<rows, todo, seen, cur, crashes, lost, server>>

\* The pass ends without reaching the rest of its batch.
AbandonPass(w) ==
  /\ Goto(w, "idle")
  /\ todo' = [todo EXCEPT ![w] = {}]
  /\ got' = [got EXCEPT ![w] = 0]
  /\ UNCHANGED <<seen, cur>>

DbErrorInCatch(w) ==
  /\ pc[w] = "catch" /\ dbErrors < MaxDbErrors
  /\ dbErrors' = dbErrors + 1
  /\ AbandonPass(w)
  /\ UNCHANGED <<rows, crashes, lost, server, failures>>

Crash(w) ==
  /\ pc[w] # "idle" /\ crashes < MaxCrashes
  /\ crashes' = crashes + 1
  /\ AbandonPass(w)
  /\ UNCHANGED <<rows, dbErrors, lost, server, failures>>

-----------------------------------------------------------------------------
PassStep(w) ==
  \/ StartPass(w) \/ NextInBatch(w) \/ Granted(w) \/ Refused(w)
  \/ SaveTokens(w) \/ RecordFailure(w)

Fault(w) == AnswerLost(w) \/ DbErrorInTry(w) \/ DbErrorInCatch(w) \/ Crash(w)

Next ==
  \/ \E a \in Accounts : Connect(a) \/ Delete(a) \/ Expire(a) \/ Revoke(a)
  \/ \E w \in Workers : PassStep(w) \/ Fault(w)

Spec == Init /\ [][Next]_vars

\* A pass starts every minute and each of its awaits returns.
FairSpec == Spec /\ \A w \in Workers : WF_vars(PassStep(w))

-----------------------------------------------------------------------------
(* Properties *)

TypeOK ==
  /\ rows \in [Accounts -> Row]
  /\ pc \in [Workers -> Steps]
  /\ todo \in [Workers -> SUBSET Accounts]
  /\ seen \in [Workers -> [Accounts -> [failCount : Nat, token : Nat]]]
  /\ cur \in [Workers -> Accounts]
  /\ got \in [Workers -> Nat]
  /\ crashes \in Nat /\ dbErrors \in Nat /\ lost \in Nat
  /\ valid \in [Accounts -> SUBSET Nat]
  /\ issued \in [Accounts -> Nat]
  /\ failures \in [Accounts -> 0..MaxFailCount]

InHand(a) == \E w \in Workers : pc[w] \in Busy /\ cur[w] = a

\* docs/concepts/auth.md:50: an account is set to refresh_failed after five
\* consecutive failures.  It is so while passes do not overlap, whatever crashes
\* or throws; a pass that overlaps counts on from a stale value.
RefreshFailedIsEarned ==
  \A a \in Accounts : rows[a].status = "refresh_failed" => failures[a] = MaxFailCount

\* And in time: an account whose refresh failed five times in a row does not stay
\* in the rotation, as long as no crash and no failing statement kept a failure
\* from its row and passes do not overlap (two that fail together count one).
GivenUpInTime ==
  crashes + dbErrors = 0 =>
    \A a \in Accounts : (rows[a].status = "active" /\ ~InHand(a)) => failures[a] < MaxFailCount

\* Nothing brings an account back from refresh_failed (a new consent makes a
\* new row), as long as passes do not overlap.
RefreshFailedIsFinal ==
  [][\A a \in Accounts : rows[a].status = "refresh_failed" =>
       rows'[a].status \in {"refresh_failed", "deleted"}]_vars

\* Between passes the stored refresh token is one the server still honours, as
\* long as the user has not withdrawn the consent: rotation loses nothing unless
\* a crash, an error or a lost answer separates the server's step from the update.
StoredTokenIsGood ==
  crashes + dbErrors + lost = 0 =>
    \A a \in Google : (Exists(a) /\ valid[a] # {} /\ ~InHand(a)) => rows[a].token \in valid[a]

\* An account whose token is about to expire is renewed, given up or deleted:
\* no account stays at the edge for ever.
ExpiringIsResolved ==
  \A a \in Accounts : (a \in Expiring) ~> (a \notin Expiring)
=============================================================================
