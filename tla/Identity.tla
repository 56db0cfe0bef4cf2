------------------------------- MODULE Identity -------------------------------
(***************************************************************************)
(* Whom a request speaks for, and how calendar accounts come to be: the    *)
(* hook of authPlugin.ts before every route, resolveEndUser and            *)
(* createApplication of services/auth.ts, the OAuth broker of              *)
(* routes/auth (url, callback, apple connect) and deleteAccount.           *)
(*                                                                         *)
(* Requests run side by side, one database statement or one call to a      *)
(* provider per step.  Every request here carries an Authorization header  *)
(* and an X-End-User-Id: the hook answers one without them at once, 401 or *)
(* 400, and that is all there is to it.  The callback is no exception (its *)
(* path is not among those the hook skips), so a browser's own redirect is *)
(* answered 401, and the callbacks here are those an application passes on.*)
(***************************************************************************)
EXTENDS Integers, FiniteSets

CONSTANTS
  Requests,   \* requests; also names what a request creates: rows, state tokens
  Codes,      \* authorization codes that the provider can give
  Apps,       \* applications
  Users,      \* external ids that applications give their users
  StateLife,  \* validity of a state token (the source: 10 minutes)
  MaxTime     \* bound: the clock stops there

ASSUME IdentityConstants == StateLife \in Nat /\ MaxTime \in Nat /\ "none" \notin Requests \cup Codes

VARIABLES
  keys,      \* [Apps -> application row and its api_keys row]
  endUsers,  \* rows of end_users
  accounts,  \* rows of calendar_accounts
  tokens,    \* [Requests -> state token the request was answered with, or NoToken]
  codes,     \* [Codes -> what has become of the code at the provider]
  req,       \* [Requests -> progress of a request]
  now,
  \* history
  removed    \* deletions: the account's row and the end user of the request

vars == <<keys, endUsers, accounts, tokens, codes, req, now, removed>>

-----------------------------------------------------------------------------
Ops == {"url", "callback", "apple", "delete"}
Ended == {"ok", "failed"}
Steps == {"unsent", "select", "insert", "reselect", "sign", "verify", "exchange",
          "find", "login", "store", "check", "delete"} \cup Ended
None == "none"

\* Rows carry the request that made them as their primary key, and an account the
\* state token and the code of its callback, which no column holds.
User    == [id : Requests, app : Apps, user : Users]
Account == [id : Requests, owner : Requests, state : Requests \cup {None},
            code : Codes \cup {None}]
Token   == [app : Apps, user : Users, exp : Nat]
NoToken == [app |-> None, user |-> None, exp |-> -1]

NoRequest == [at |-> "unsent", op |-> "url", app |-> None, user |-> None,
              named |-> None, ref |-> None, code |-> None, row |-> None, owner |-> None]

Serving(r) == req[r].at \notin Ended \cup {"unsent"}
UsersOf(app) == {u \in endUsers : u.app = app}
Goto(r, step) == req' = [req EXCEPT ![r].at = step]

\* The request is answered well, or with 4xx or 5xx or not at all; what it had in
\* hand is gone.
Answer(r) == req' = [req EXCEPT ![r] = [NoRequest EXCEPT !.at = "ok", !.op = req[r].op]]
Fail(r)   == req' = [req EXCEPT ![r] = [NoRequest EXCEPT !.at = "failed"]]

Init ==
  /\ keys = [a \in Apps |-> "absent"]
  /\ endUsers = {} /\ accounts = {} /\ removed = {}
  /\ tokens = [r \in Requests |-> NoToken]
  /\ codes = [c \in Codes |-> "none"]
  /\ req = [r \in Requests |-> NoRequest]
  /\ now = 0

-----------------------------------------------------------------------------
(* Applications, their keys and the clock.                                 *)

\* createApplication inserts the application, then its key: two statements.
CreateApplication(a) ==
  /\ keys[a] = "absent"
  /\ keys' = [keys EXCEPT ![a] = "keyless"]
  /\ UNCHANGED <<endUsers, accounts, tokens, codes, req, now, removed>>

IssueKey(a) ==
  /\ keys[a] = "keyless"
  /\ keys' = [keys EXCEPT ![a] = "live"]
  /\ UNCHANGED <<endUsers, accounts, tokens, codes, req, now, removed>>

RevokeKey(a) ==
  /\ keys[a] = "live"
  /\ keys' = [keys EXCEPT ![a] = "revoked"]
  /\ UNCHANGED <<endUsers, accounts, tokens, codes, req, now, removed>>

Tick ==
  /\ now < MaxTime
  /\ now' = now + 1
  /\ UNCHANGED <<keys, endUsers, accounts, tokens, codes, req, removed>>

-----------------------------------------------------------------------------
(* The hook.                                                               *)

\* The application whose key the header carries, unless it was revoked; the
\* last_used_at written is read nowhere.
verifyApiKey(app) == keys[app] = "live"

\* A request comes in: one whose key was revoked is answered 401.
Arrive(r, op, app, user, named, ref, code) ==
  /\ req[r].at = "unsent" /\ keys[app] \in {"live", "revoked"}
  /\ \/ /\ verifyApiKey(app)
        /\ req' = [req EXCEPT ![r] = [NoRequest EXCEPT !.at = "select", !.op = op, !.app = app,
                            !.user = user, !.named = named, !.ref = ref, !.code = code]]
     \/ ~verifyApiKey(app) /\ Fail(r)
  /\ UNCHANGED <<keys, endUsers, accounts, tokens, codes, now, removed>>

\* What it may be about: the user that an authorization URL is for; the state token and
\* the code that a callback brings, two parameters of their own; the account to delete.
Ask(r, app, user) ==
  \/ \E u \in Users : Arrive(r, "url", app, user, u, None, None)
  \/ \E t \in Requests, c \in Codes :
       /\ tokens[t] # NoToken /\ codes[c] # "none"
       /\ Arrive(r, "callback", app, user, None, t, c)
  \/ Arrive(r, "apple", app, user, None, None, None)
  \/ \E d \in Requests :
       /\ req[d].at = "ok" /\ req[d].op \in {"callback", "apple"}
       /\ Arrive(r, "delete", app, user, None, d, None)

Handler(op) ==
  CASE op = "url" -> "sign" [] op = "callback" -> "verify"
    [] op = "apple" -> "login" [] op = "delete" -> "check"

\* A select by application alone, LIMIT 1 without an order: any of its rows.
Resolve(r) ==
  \E u \in UsersOf(req[r].app) :
    req' = [req EXCEPT ![r].row = u.id, ![r].at = Handler(req[r].op)]

SelectUser(r) ==
  /\ req[r].at = "select"
  /\ \/ Resolve(r)
     \/ UsersOf(req[r].app) = {} /\ Goto(r, "insert")
  /\ UNCHANGED <<keys, endUsers, accounts, tokens, codes, now, removed>>

\* ON CONFLICT DO NOTHING: the index is unique in application and external id.
InsertUser(r) ==
  LET q == req[r] IN
  /\ q.at = "insert"
  /\ endUsers' = IF \E u \in UsersOf(q.app) : u.user = q.user THEN endUsers
                 ELSE endUsers \cup {[id |-> r, app |-> q.app, user |-> q.user]}
  /\ Goto(r, "reselect")
  /\ UNCHANGED <<keys, accounts, tokens, codes, now, removed>>

\* Altered form (mutation tests): the id that was generated is returned without
\* selecting again.
ReselectNothing(r) ==
  /\ req[r].at = "reselect"
  /\ req' = [req EXCEPT ![r].row = r, ![r].at = Handler(req[r].op)]
  /\ UNCHANGED <<keys, endUsers, accounts, tokens, codes, now, removed>>

\* Altered form: the second select comes back empty and its row is not looked at.
ReselectUnknown(r) ==
  /\ req[r].at = "reselect"
  /\ req' = [req EXCEPT ![r].row = "undefined", ![r].at = Handler(req[r].op)]
  /\ UNCHANGED <<keys, endUsers, accounts, tokens, codes, now, removed>>

Reselect(r) ==
  /\ req[r].at = "reselect"
  /\ Resolve(r)
  /\ UNCHANGED <<keys, endUsers, accounts, tokens, codes, now, removed>>

-----------------------------------------------------------------------------
(* The OAuth broker.                                                       *)

\* buildAuthUrl; the token is signed, so a callback cannot bring back another.
SignState(r) ==
  LET q == req[r] IN
  /\ q.at = "sign"
  /\ tokens' = [tokens EXCEPT ![r] = [app |-> q.app, user |-> q.named, exp |-> now + StateLife]]
  /\ Answer(r)
  /\ UNCHANGED <<keys, endUsers, accounts, codes, now, removed>>

\* Somebody agrees at the provider, which gives a code that is good for once: at any
\* URL that was asked for, any number of times.
Consent(c, t) ==
  /\ tokens[t] # NoToken /\ codes[c] = "none"
  /\ codes' = [codes EXCEPT ![c] = "granted"]
  /\ UNCHANGED <<keys, endUsers, accounts, tokens, req, now, removed>>

VerifyState(r) ==
  /\ req[r].at = "verify"
  /\ IF now <= tokens[req[r].ref].exp THEN Goto(r, "exchange") ELSE Fail(r)
  /\ UNCHANGED <<keys, endUsers, accounts, tokens, codes, now, removed>>

\* Altered form: the status of the token endpoint's answer is not looked at.
ExchangeUnchecked(r) ==
  /\ req[r].at = "exchange"
  /\ codes' = [codes EXCEPT ![req[r].code] = "spent"]
  /\ Goto(r, "find")
  /\ UNCHANGED <<keys, endUsers, accounts, tokens, now, removed>>

\* exchangeCode: an answer that is not ok throws.
ExchangeCode(r) ==
  LET c == req[r].code IN
  /\ req[r].at = "exchange"
  /\ codes' = [codes EXCEPT ![c] = "spent"]
  /\ IF codes[c] = "granted" THEN Goto(r, "find") ELSE Fail(r)
  /\ UNCHANGED <<keys, endUsers, accounts, tokens, now, removed>>

\* The provider takes the code, and its answer or the userinfo one is lost.
ExchangeLost(r) ==
  /\ req[r].at = "exchange"
  /\ codes' = [codes EXCEPT ![req[r].code] = "spent"]
  /\ Fail(r)
  /\ UNCHANGED <<keys, endUsers, accounts, tokens, now, removed>>

\* Altered form: the callback looks for a row of the application only.
FindOfApplication(r) ==
  LET t == tokens[req[r].ref] IN
  /\ req[r].at = "find"
  /\ \/ \E u \in UsersOf(t.app) : req' = [req EXCEPT ![r].owner = u.id, ![r].at = "store"]
     \/ UsersOf(t.app) = {} /\ Fail(r)
  /\ UNCHANGED <<keys, endUsers, accounts, tokens, codes, now, removed>>

\* The callback wants the row of the user the token names, and makes none.
FindNamed(r) ==
  LET t == tokens[req[r].ref] IN
  /\ req[r].at = "find"
  /\ \/ \E u \in UsersOf(t.app) :
          /\ u.user = t.user
          /\ req' = [req EXCEPT ![r].owner = u.id, ![r].at = "store"]
     \/ ~ (\E u \in UsersOf(t.app) : u.user = t.user) /\ Fail(r)
  /\ UNCHANGED <<keys, endUsers, accounts, tokens, codes, now, removed>>

\* Apple: a CalDAV login with the password tells whether it is good.
Login(r) ==
  /\ req[r].at = "login"
  /\ \/ req' = [req EXCEPT ![r].owner = req[r].row, ![r].at = "store"]
     \/ Fail(r)
  /\ UNCHANGED <<keys, endUsers, accounts, tokens, codes, now, removed>>

\* The insert of callback.ts and appleConnect.ts.  The unique index covers
\* provider_account_id, which neither sets, so ON CONFLICT never meets a conflict.
StoreAccount(r) ==
  LET q == req[r] IN
  /\ q.at = "store"
  /\ accounts' = accounts \cup {[id |-> r, owner |-> q.owner, state |-> q.ref, code |-> q.code]}
  /\ Answer(r)
  /\ UNCHANGED <<keys, endUsers, tokens, codes, now, removed>>

-----------------------------------------------------------------------------
(* deleteAccount, and what may interrupt a request.                        *)

\* Altered form: getAccount selects by the account's id alone.
CheckAccount(r) ==
  LET q == req[r] IN
  /\ q.at = "check"
  /\ IF \E a \in accounts : a.id = q.ref THEN Goto(r, "delete") ELSE Fail(r)
  /\ UNCHANGED <<keys, endUsers, accounts, tokens, codes, now, removed>>

\* getAccount: the account of that id and of the resolved end user.
CheckOwner(r) ==
  LET q == req[r] IN
  /\ q.at = "check"
  /\ IF \E a \in accounts : a.id = q.ref /\ a.owner = q.row THEN Goto(r, "delete") ELSE Fail(r)
  /\ UNCHANGED <<keys, endUsers, accounts, tokens, codes, now, removed>>

DeleteAccount(r) ==
  LET gone == {a \in accounts : a.id = req[r].ref} IN
  /\ req[r].at = "delete"
  /\ accounts' = accounts \ gone
  /\ removed' = removed \cup {[row |-> a, by |-> req[r].row] : a \in gone}
  /\ Answer(r)
  /\ UNCHANGED <<keys, endUsers, tokens, codes, now>>

\* The process dies or a statement throws.
Interrupted(r) ==
  /\ Serving(r)
  /\ Fail(r)
  /\ UNCHANGED <<keys, endUsers, accounts, tokens, codes, now, removed>>

HookStep(r) == SelectUser(r) \/ InsertUser(r) \/ Reselect(r)
RouteStep(r) ==
  \/ SignState(r) \/ VerifyState(r) \/ ExchangeCode(r) \/ ExchangeLost(r) \/ FindNamed(r)
  \/ Login(r) \/ StoreAccount(r) \/ CheckOwner(r) \/ DeleteAccount(r)

Next ==
  \/ \E a \in Apps : CreateApplication(a) \/ IssueKey(a) \/ RevokeKey(a)
  \/ \E r \in Requests, a \in Apps, u \in Users : Ask(r, a, u)
  \/ \E r \in Requests : HookStep(r) \/ RouteStep(r) \/ Interrupted(r)
  \/ \E c \in Codes, t \in Requests : Consent(c, t)
  \/ Tick

Spec == Init /\ [][Next]_vars

-----------------------------------------------------------------------------
(* Properties.                                                             *)

\* Every variable has its type.
TypeOK ==
  /\ keys \in [Apps -> {"absent", "keyless", "live", "revoked"}]
  /\ endUsers \subseteq User
  /\ accounts \subseteq Account
  /\ tokens \in [Requests -> Token \cup {NoToken}]
  /\ codes \in [Codes -> {"none", "granted", "spent"}]
  /\ req \in [Requests -> [at : Steps, op : Ops, app : Apps \cup {None}, user : Users \cup {None},
                           named : Users \cup {None}, ref : Requests \cup {None},
                           code : Codes \cup {None}, row : Requests \cup {None}, owner : Requests \cup {None}]]
  /\ now \in Nat
  /\ removed \subseteq [row : Account, by : Requests]

\* However the first requests of an application race through select, insert and
\* select (services/auth.ts:37-50), the id a request goes on with is that of a row
\* that is there, and of its own application: row!.id is never undefined.
RowOfApplication ==
  \A r \in Requests : req[r].row # None =>
    \E u \in endUsers : u.id = req[r].row /\ u.app = req[r].app

\* An account that a callback made belongs to the end user that the application asked
\* the authorization URL of its state for, whoever carried the callback and whatever
\* was inserted since (url.ts:37-41, callback.ts:41-65); any account belongs to a row
\* that is there.  It is the user who agreed only when code and state come from the
\* same consent, which callback.ts:20-38 has no means to tell.
AccountsOfNamed ==
  \A a \in accounts \cup {d.row : d \in removed} : \E u \in endUsers :
    /\ u.id = a.owner
    /\ a.code # None => u.app = tokens[a.state].app /\ u.user = tokens[a.state].user

\* A consent makes one account at most, however often, however close together and with
\* whatever states its code is brought (callback.ts:35-38): its second exchange throws.
OneAccountPerConsent ==
  \A a, b \in accounts \cup {d.row : d \in removed} :
    a.code # None /\ a.code = b.code => a = b

\* An account goes only at the word of a request that resolved to its owner, the
\* check and the delete being two statements (services/accounts.ts:53-56).
DeletedByOwner ==
  \A d \in removed : d.by = d.row.owner

\* Stated by docs/concepts/auth.md:15 ("Caldera lazily creates an internal record on
\* first use"): a request works with the record of the user it names.
OwnRecord ==
  \A r \in Requests : req[r].row # None =>
    \E u \in endUsers : u.id = req[r].row /\ u.user = req[r].user

=============================================================================
