---------------------------- MODULE IdentityProofs ----------------------------
(***************************************************************************)
(* Theorems about Identity, for any number of requests, applications and   *)
(* users and any life of a state token.                                    *)
(***************************************************************************)
EXTENDS Identity, TLAPS

-----------------------------------------------------------------------------
(* Type correctness *)

Progress == [at : Steps, op : Ops, app : Apps \cup {None}, user : Users \cup {None},
             named : Users \cup {None}, ref : Requests \cup {None}, code : Codes \cup {None},
             row : Requests \cup {None}, owner : Requests \cup {None}]

\* What a request has in hand at the step it is at: TypeOK is not inductive without,
\* since rows and tokens are made of it.
Complete(q) ==
  /\ q.at \notin {"unsent", "ok", "failed"} =>
       /\ q.app \in Apps /\ q.user \in Users
       /\ q.op = "url" => q.named \in Users
       /\ q.op \in {"callback", "delete"} => q.ref \in Requests
       /\ q.op \in {"url", "apple"} => q.ref = None
       /\ q.op = "callback" <=> q.code \in Codes
  /\ q.at \in {"sign", "verify", "exchange", "find", "login", "store", "check", "delete"} =>
       q.row \in Requests
  /\ q.at = "sign" => q.op = "url"
  /\ q.at \in {"verify", "exchange", "find"} => q.op = "callback"
  /\ q.at = "login" => q.op = "apple"
  /\ q.at = "store" => q.op \in {"callback", "apple"} /\ q.owner \in Requests
  /\ q.at \in {"check", "delete"} => q.op = "delete"

Sound == {q \in Progress : Complete(q)}

TInv == TypeOK /\ req \in [Requests -> Sound]

LEMMA StepNames ==
  Steps = {"unsent", "select", "insert", "reselect", "sign", "verify", "exchange",
           "find", "login", "store", "check", "delete", "ok", "failed"}
  BY DEF Steps, Ended

LEMMA InitType == Init => TInv
<1>1. NoRequest \in Sound
  BY StepNames DEF NoRequest, Sound, Progress, Complete, Ops
<1> QED BY <1>1, StepNames DEF Init, TInv, TypeOK, NoRequest, Ops

\* A request that is answered, fails or goes on keeps what it has in hand.
LEMMA Moves ==
  ASSUME TInv, NEW r \in Requests
  PROVE  /\ Answer(r) \/ Fail(r) => req' \in [Requests -> Sound]
         /\ \A s \in Steps :
              Goto(r, s) /\ Complete([req[r] EXCEPT !.at = s]) => req' \in [Requests -> Sound]
<1>1. /\ [NoRequest EXCEPT !.at = "ok", !.op = req[r].op] \in Sound
      /\ [NoRequest EXCEPT !.at = "failed"] \in Sound
  BY StepNames DEF TInv, NoRequest, Sound, Progress, Complete, Ops
<1>2. Answer(r) \/ Fail(r) => req' \in [Requests -> Sound]
  BY <1>1 DEF TInv, Answer, Fail
<1>3. ASSUME NEW s \in Steps, Goto(r, s), Complete([req[r] EXCEPT !.at = s])
      PROVE  req' \in [Requests -> Sound]
  <2>1. [req[r] EXCEPT !.at = s] \in Sound
    BY <1>3 DEF TInv, Sound, Progress
  <2> QED BY <1>3, <2>1 DEF TInv, Goto
<1> QED BY <1>2, <1>3

\* So does one that takes up the row of an end user of its application.
LEMMA ResolveMoves ==
  ASSUME TInv, NEW r \in Requests, req[r].at \in {"select", "reselect"}, Resolve(r)
  PROVE  req' \in [Requests -> Sound]
<1>1. PICK u \in UsersOf(req[r].app) :
        req' = [req EXCEPT ![r] = [@ EXCEPT !.row = u.id, !.at = Handler(req[r].op)]]
  BY DEF Resolve
<1>2. u.id \in Requests
  BY DEF UsersOf, TInv, TypeOK, User
<1>3. [req[r] EXCEPT !.row = u.id, !.at = Handler(req[r].op)] \in Sound
  <2>1. req[r] \in Progress /\ Complete(req[r]) /\ req[r].op \in Ops
    BY DEF TInv, Sound, Progress
  <2>2. Handler(req[r].op) \in Steps
    BY <2>1, StepNames DEF Handler, Ops
  <2>3. [req[r] EXCEPT !.row = u.id, !.at = Handler(req[r].op)] \in Progress
    BY <2>1, <2>2, <1>2 DEF Progress
  <2>4. Complete([req[r] EXCEPT !.row = u.id, !.at = Handler(req[r].op)])
    BY <2>1, <1>2 DEF Complete, Handler, Ops, Progress
  <2> QED BY <2>3, <2>4 DEF Sound
<1> QED BY <1>1, <1>3 DEF TInv

\* A callback comes with a token that was signed and a code that was given.
Brought(q) ==
  q.ref \in Requests /\ tokens[q.ref] # NoToken /\ q.code \in Codes /\ codes[q.code] # "none"

\* A request comes in from nowhere, and holds neither row nor owner.
LEMMA Arrives ==
  ASSUME TInv, NEW r \in Requests, NEW a \in Apps, NEW u \in Users, Ask(r, a, u)
  PROVE  \E q \in Sound :
           /\ req' = [req EXCEPT ![r] = q] /\ req[r].at = "unsent"
           /\ q.at \in {"select", "failed"} /\ q.row = None
           /\ q.at = "select" /\ q.op = "callback" => Brought(q)
           /\ q.at = "select" /\ q.op = "delete" => q.ref \in Requests /\ req[q.ref].at = "ok"
           /\ UNCHANGED <<keys, endUsers, accounts, tokens, codes, now, removed>>
<1>0. PICK op \in Ops, named \in Users \cup {None}, ref \in Requests \cup {None},
           code \in Codes \cup {None} :
        /\ Arrive(r, op, a, u, named, ref, code)
        /\ op = "url" => named \in Users
        /\ op = "callback" => /\ ref \in Requests /\ tokens[ref] # NoToken
                              /\ code \in Codes /\ codes[code] # "none"
        /\ op # "callback" => code = None
        /\ op = "delete" => ref \in Requests /\ req[ref].at = "ok"
        /\ op \in {"url", "apple"} => ref = None
  <2>1. CASE \E n \in Users : Arrive(r, "url", a, u, n, None, None)
    BY <2>1 DEF Ops
  <2>2. CASE \E t \in Requests, c \in Codes :
               /\ tokens[t] # NoToken /\ codes[c] # "none"
               /\ Arrive(r, "callback", a, u, None, t, c)
    BY <2>2 DEF Ops
  <2>3. CASE Arrive(r, "apple", a, u, None, None, None)
    BY <2>3 DEF Ops
  <2>4. CASE \E d \in Requests :
               /\ req[d].at = "ok" /\ req[d].op \in {"callback", "apple"}
               /\ Arrive(r, "delete", a, u, None, d, None)
    BY <2>4 DEF Ops
  <2> QED BY <2>1, <2>2, <2>3, <2>4 DEF Ask
<1>1. CASE Fail(r)
  <2>1. [NoRequest EXCEPT !.at = "failed"] \in Sound
    BY StepNames DEF NoRequest, Sound, Progress, Complete, Ops
  <2> QED BY <1>0, <1>1, <2>1 DEF Arrive, Fail, NoRequest
<1>2. CASE ~Fail(r)
  <2> DEFINE q == [NoRequest EXCEPT !.at = "select", !.op = op, !.app = a, !.user = u,
                                    !.named = named, !.ref = ref, !.code = code]
  <2>1. q \in Sound
    BY <1>0, StepNames, IdentityConstants DEF NoRequest, Sound, Progress, Complete, Ops, None
  <2>2. q.at = "select" /\ q.op = op /\ q.ref = ref /\ q.code = code /\ q.row = None
    BY DEF NoRequest
  <2>3. req' = [req EXCEPT ![r] = q]
    BY <1>0, <1>2 DEF Arrive
  <2> QED BY <1>0, <2>1, <2>2, <2>3 DEF Arrive, Brought
<1> QED BY <1>1, <1>2

LEMMA NextType == TInv /\ [Next]_vars => TInv'
<1> SUFFICES ASSUME TInv, [Next]_vars PROVE TInv'
  OBVIOUS
<1>0. /\ TypeOK
      /\ \A r \in Requests : req[r] \in Progress /\ Complete(req[r])
  BY DEF TInv, Sound
<1>t. ASSUME req' \in [Requests -> Sound] PROVE req' \in [Requests -> Progress]
  BY <1>t DEF Sound
<1>1. ASSUME NEW a \in Apps, CreateApplication(a) \/ IssueKey(a) \/ RevokeKey(a) PROVE TInv'
  BY <1>1 DEF CreateApplication, IssueKey, RevokeKey, TInv, TypeOK
<1>2. ASSUME NEW r \in Requests, NEW a \in Apps, NEW u \in Users, Ask(r, a, u)
      PROVE TInv'
  <2>1. req' \in [Requests -> Sound]
    BY <1>2, Arrives DEF TInv
  <2> QED BY <1>2, <2>1, <1>t, Arrives DEF TInv, TypeOK, Progress
<1>3. ASSUME NEW r \in Requests, SelectUser(r) PROVE TInv'
  <2>1. req' \in [Requests -> Sound]
    BY <1>3, <1>0, Moves, ResolveMoves, StepNames DEF SelectUser, Complete, Progress
  <2> QED BY <1>3, <2>1, <1>0, <1>t DEF SelectUser, TInv, TypeOK, Progress
<1>4. ASSUME NEW r \in Requests, InsertUser(r) PROVE TInv'
  <2>1. req' \in [Requests -> Sound]
    BY <1>4, <1>0, Moves, StepNames DEF InsertUser, Complete, Progress
  <2> QED BY <1>4, <2>1, <1>0, <1>t DEF InsertUser, TInv, TypeOK, Progress, User, Complete
<1>5. ASSUME NEW r \in Requests, Reselect(r) PROVE TInv'
  <2>1. req' \in [Requests -> Sound]
    BY <1>5, ResolveMoves DEF Reselect
  <2> QED BY <1>5, <2>1, <1>0, <1>t DEF Reselect, TInv, TypeOK, Progress
<1>6. ASSUME NEW r \in Requests, SignState(r) PROVE TInv'
  <2>1. req' \in [Requests -> Sound]
    BY <1>6, <1>0, Moves, StepNames DEF SignState
  <2>2. tokens' \in [Requests -> Token \cup {NoToken}]
    <3>1. [app |-> req[r].app, user |-> req[r].named, exp |-> now + StateLife] \in Token
      BY <1>6, <1>0, IdentityConstants DEF SignState, Token, Complete, TypeOK
    <3> QED BY <1>6, <3>1, <1>0 DEF SignState, TypeOK
  <2> QED BY <1>6, <2>1, <2>2, <1>0, <1>t DEF SignState, TInv, TypeOK, Progress
<1>7. ASSUME NEW r \in Requests, VerifyState(r) PROVE TInv'
  <2>1. req' \in [Requests -> Sound]
    BY <1>7, <1>0, Moves, StepNames DEF VerifyState, Complete, Progress
  <2> QED BY <1>7, <2>1, <1>0, <1>t DEF VerifyState, TInv, TypeOK, Progress
<1>8. ASSUME NEW r \in Requests, ExchangeCode(r) PROVE TInv'
  <2>1. req' \in [Requests -> Sound]
    BY <1>8, <1>0, Moves, StepNames DEF ExchangeCode, Complete, Progress
  <2> QED BY <1>8, <2>1, <1>0, <1>t DEF ExchangeCode, TInv, TypeOK, Progress
<1>9. ASSUME NEW r \in Requests, ExchangeLost(r) PROVE TInv'
  <2>1. req' \in [Requests -> Sound]
    BY <1>9, <1>0, Moves, StepNames DEF ExchangeLost
  <2> QED BY <1>9, <2>1, <1>0, <1>t DEF ExchangeLost, TInv, TypeOK, Progress
<1>10. ASSUME NEW r \in Requests, FindNamed(r) PROVE TInv'
  <2>1. req' \in [Requests -> Sound]
    <3>1. ASSUME NEW u \in endUsers, req' = [req EXCEPT ![r].owner = u.id, ![r].at = "store"]
          PROVE  req' \in [Requests -> Sound]
      <4>1. [req[r] EXCEPT !.owner = u.id, !.at = "store"] \in Sound
        <5>1. req[r] \in Progress /\ Complete(req[r]) /\ req[r].at = "find" /\ u.id \in Requests
          BY <1>10, <1>0 DEF FindNamed, TypeOK, User
        <5>2. [req[r] EXCEPT !.owner = u.id, !.at = "store"] \in Progress
          BY <5>1, StepNames DEF Progress
        <5>3. Complete([req[r] EXCEPT !.owner = u.id, !.at = "store"])
          BY <5>1 DEF Complete, Progress
        <5> QED BY <5>2, <5>3 DEF Sound
      <4> QED BY <3>1, <4>1 DEF TInv
    <3> QED BY <1>10, <3>1, Moves DEF FindNamed, UsersOf
  <2> QED BY <1>10, <2>1, <1>0, <1>t DEF FindNamed, TInv, TypeOK, Progress
<1>11. ASSUME NEW r \in Requests, Login(r) PROVE TInv'
  <2>1. req' \in [Requests -> Sound]
    <3>1. [req[r] EXCEPT !.owner = req[r].row, !.at = "store"] \in Sound
      <4>1. req[r] \in Progress /\ Complete(req[r]) /\ req[r].at = "login"
        BY <1>11, <1>0 DEF Login
      <4>2. [req[r] EXCEPT !.owner = req[r].row, !.at = "store"] \in Progress
        BY <4>1, StepNames DEF Progress
      <4>3. Complete([req[r] EXCEPT !.owner = req[r].row, !.at = "store"])
        BY <4>1 DEF Complete, Progress
      <4> QED BY <4>2, <4>3 DEF Sound
    <3> QED BY <1>11, <3>1, Moves DEF Login, TInv
  <2> QED BY <1>11, <2>1, <1>0, <1>t DEF Login, TInv, TypeOK, Progress
<1>12. ASSUME NEW r \in Requests, StoreAccount(r) PROVE TInv'
  <2>1. req' \in [Requests -> Sound]
    BY <1>12, <1>0, Moves, StepNames DEF StoreAccount
  <2> QED BY <1>12, <2>1, <1>0, <1>t DEF StoreAccount, TInv, TypeOK, Progress, Account, Complete
<1>13. ASSUME NEW r \in Requests, CheckOwner(r) PROVE TInv'
  <2>1. req' \in [Requests -> Sound]
    BY <1>13, <1>0, Moves, StepNames DEF CheckOwner, Complete, Progress
  <2> QED BY <1>13, <2>1, <1>0, <1>t DEF CheckOwner, TInv, TypeOK, Progress
<1>14. ASSUME NEW r \in Requests, DeleteAccount(r) PROVE TInv'
  <2>1. req' \in [Requests -> Sound]
    BY <1>14, <1>0, Moves, StepNames DEF DeleteAccount
  <2> QED BY <1>14, <2>1, <1>0, <1>t DEF DeleteAccount, TInv, TypeOK, Progress, Account, Complete
<1>15. ASSUME NEW r \in Requests, Interrupted(r) PROVE TInv'
  <2>1. req' \in [Requests -> Sound]
    BY <1>15, <1>0, Moves, StepNames DEF Interrupted
  <2> QED BY <1>15, <2>1, <1>0, <1>t DEF Interrupted, TInv, TypeOK, Progress
<1>16. ASSUME NEW c \in Codes, NEW t \in Requests, Consent(c, t) PROVE TInv'
  BY <1>16 DEF Consent, TInv, TypeOK
<1>17. CASE Tick
  BY <1>17 DEF Tick, TInv, TypeOK
<1>18. CASE UNCHANGED vars
  BY <1>18 DEF vars, TInv, TypeOK
<1> QED
  BY <1>1, <1>2, <1>3, <1>4, <1>5, <1>6, <1>7, <1>8, <1>9, <1>10, <1>11, <1>12, <1>13, <1>14,
     <1>15, <1>16, <1>17, <1>18
    DEF Next, HookStep, RouteStep

\* Every variable keeps its type in every execution.
THEOREM TypeCorrect == Spec => []TypeOK
<1>1. TInv => TypeOK
  BY DEF TInv
<1> QED BY <1>1, InitType, NextType, PTL DEF Spec

-----------------------------------------------------------------------------
(* What a step leaves alone *)

\* A request is answered with a token when it ends, and a callback brings one, and a
\* code that was given.
Signed ==
  /\ \A t \in Requests : tokens[t] # NoToken => req[t].at = "ok"
  /\ \A r \in Requests : req[r].op = "callback" /\ req[r].at \notin {"unsent", "ok", "failed"} =>
       Brought(req[r])

\* Rows that are there or were.
AllAccounts == accounts \cup {d.row : d \in removed}

LEMMA SignedInit == Init => Signed
  BY DEF Init, Signed, NoRequest

LEMMA SignedNext == TInv /\ Signed /\ [Next]_vars => Signed'
<1> SUFFICES ASSUME TInv /\ Signed, [Next]_vars PROVE Signed'
  OBVIOUS
<1>1. ASSUME NEW a \in Apps, CreateApplication(a) \/ IssueKey(a) \/ RevokeKey(a) PROVE Signed'
  BY <1>1 DEF CreateApplication, IssueKey, RevokeKey, TInv, TypeOK, Signed, Brought, Sound, Complete,
              Progress
<1>2. ASSUME NEW r \in Requests, NEW a \in Apps, NEW u \in Users, Ask(r, a, u)
      PROVE Signed'
  <2>1. PICK q \in Sound :
          /\ req' = [req EXCEPT ![r] = q] /\ req[r].at = "unsent"
          /\ q.at \in {"select", "failed"} /\ q.row = None
          /\ q.at = "select" /\ q.op = "callback" => Brought(q)
          /\ q.at = "select" /\ q.op = "delete" => q.ref \in Requests /\ req[q.ref].at = "ok"
          /\ UNCHANGED <<keys, endUsers, accounts, tokens, codes, now, removed>>
    BY <1>2, Arrives
  <2> QED BY <2>1 DEF TInv, TypeOK, Sound, Complete, Progress, Signed, Brought
<1>3. ASSUME NEW r \in Requests, SelectUser(r) PROVE Signed'
  <2>1. CASE Resolve(r)
    <3>1. PICK u \in endUsers :
            /\ u.app = req[r].app
            /\ req' = [req EXCEPT ![r] = [@ EXCEPT !.row = u.id, !.at = Handler(req[r].op)]]
      BY <2>1 DEF Resolve, UsersOf
    <3>2. u.id \in Requests /\ Handler(req[r].op) \in {"sign", "verify", "login", "check"}
      BY DEF TInv, TypeOK, User, Sound, Progress, Ops, Handler
    <3> QED BY <1>3, <3>1, <3>2 DEF SelectUser, Reselect, TInv, TypeOK, Sound, Complete,
                                    Progress, Signed, Brought
  <2>2. CASE Goto(r, "insert")
    <3>1. /\ req[r].at = "select" /\ req' = [req EXCEPT ![r] = [@ EXCEPT !.at = "insert"]]
          /\ UNCHANGED <<keys, endUsers, accounts, tokens, codes, now, removed>>
      BY <1>3, <2>2 DEF SelectUser, Goto
    <3> QED BY <3>1 DEF TInv, TypeOK, Sound, Complete, Progress, Signed, Brought
  <2> QED BY <1>3, <2>1, <2>2 DEF SelectUser
<1>4. ASSUME NEW r \in Requests, InsertUser(r) PROVE Signed'
  BY <1>4 DEF InsertUser, TInv, TypeOK, Signed, Brought, Sound, Complete, Progress, Goto, UsersOf
<1>5. ASSUME NEW r \in Requests, Reselect(r) PROVE Signed'
  <2>1. CASE Resolve(r)
    <3>1. PICK u \in endUsers :
            /\ u.app = req[r].app
            /\ req' = [req EXCEPT ![r] = [@ EXCEPT !.row = u.id, !.at = Handler(req[r].op)]]
      BY <2>1 DEF Resolve, UsersOf
    <3>2. u.id \in Requests /\ Handler(req[r].op) \in {"sign", "verify", "login", "check"}
      BY DEF TInv, TypeOK, User, Sound, Progress, Ops, Handler
    <3> QED BY <1>5, <3>1, <3>2 DEF SelectUser, Reselect, TInv, TypeOK, Sound, Complete,
                                    Progress, Signed, Brought
  <2> QED BY <1>5, <2>1 DEF Reselect
<1>6. ASSUME NEW r \in Requests, SignState(r) PROVE Signed'
  BY <1>6 DEF SignState, TInv, TypeOK, Signed, Brought, Sound, Complete, Progress, Answer, NoRequest
<1>7. ASSUME NEW r \in Requests, VerifyState(r) PROVE Signed'
  BY <1>7 DEF VerifyState, TInv, TypeOK, Signed, Brought, Sound, Complete, Progress, Goto, Fail, NoRequest
<1>8. ASSUME NEW r \in Requests, ExchangeCode(r) PROVE Signed'
  BY <1>8 DEF ExchangeCode, TInv, TypeOK, Signed, Brought, Sound, Complete, Progress, Goto, Fail, NoRequest
<1>9. ASSUME NEW r \in Requests, ExchangeLost(r) PROVE Signed'
  BY <1>9 DEF ExchangeLost, TInv, TypeOK, Signed, Brought, Sound, Complete, Progress, Fail, NoRequest
<1>10. ASSUME NEW r \in Requests, FindNamed(r) PROVE Signed'
  <2>1. CASE Fail(r)
    <3>1. /\ req' = [req EXCEPT ![r] = [NoRequest EXCEPT !.at = "failed"]] /\ req[r].at = "find"
          /\ UNCHANGED <<keys, endUsers, accounts, tokens, codes, now, removed>>
      BY <1>10, <2>1 DEF FindNamed, Fail
    <3> QED BY <3>1 DEF NoRequest, TInv, TypeOK, Sound, Complete, Progress, Signed, Brought
  <2>2. CASE ~Fail(r)
    <3>1. PICK u \in endUsers :
            /\ u.app = tokens[req[r].ref].app /\ u.user = tokens[req[r].ref].user
            /\ req' = [req EXCEPT ![r] = [@ EXCEPT !.owner = u.id, !.at = "store"]]
      BY <1>10, <2>2 DEF FindNamed, UsersOf
    <3>2. /\ u.id \in Requests /\ req[r].at = "find" /\ req[r].op = "callback" /\ req[r].ref \in Requests
          /\ UNCHANGED <<keys, endUsers, accounts, tokens, codes, now, removed>>
      BY <1>10 DEF FindNamed, TInv, TypeOK, User, Sound, Complete
    <3> QED BY <3>1, <3>2 DEF TInv, TypeOK, Sound, Complete, Progress, Signed, Brought
  <2> QED BY <2>1, <2>2
<1>11. ASSUME NEW r \in Requests, Login(r) PROVE Signed'
  BY <1>11 DEF Login, TInv, TypeOK, Signed, Brought, Sound, Complete, Progress, Fail, NoRequest
<1>12. ASSUME NEW r \in Requests, StoreAccount(r) PROVE Signed'
  BY <1>12 DEF StoreAccount, TInv, TypeOK, Signed, Brought, Sound, Complete, Progress, Answer, NoRequest
<1>13. ASSUME NEW r \in Requests, CheckOwner(r) PROVE Signed'
  BY <1>13 DEF CheckOwner, TInv, TypeOK, Signed, Brought, Sound, Complete, Progress, Goto, Fail, NoRequest
<1>14. ASSUME NEW r \in Requests, DeleteAccount(r) PROVE Signed'
  BY <1>14 DEF DeleteAccount, TInv, TypeOK, Signed, Brought, Sound, Complete, Progress, Answer, NoRequest
<1>15. ASSUME NEW r \in Requests, Interrupted(r) PROVE Signed'
  BY <1>15 DEF Interrupted, TInv, TypeOK, Signed, Brought, Sound, Complete, Progress, Fail, NoRequest,
               Serving, Ended
<1>16. ASSUME NEW c \in Codes, NEW t \in Requests, Consent(c, t) PROVE Signed'
  BY <1>16 DEF Consent, TInv, TypeOK, Signed, Brought, Sound, Complete, Progress
<1>17. CASE Tick
  BY <1>17 DEF Tick, TInv, TypeOK, Signed, Brought, Sound, Complete, Progress
<1>18. CASE UNCHANGED vars
  BY <1>18 DEF vars, TInv, TypeOK, Signed, Brought, Sound, Complete, Progress, Goto, Answer, Fail,
               Resolve, NoRequest, Serving, Ended, UsersOf, Handler
<1> QED
  BY <1>1, <1>2, <1>3, <1>4, <1>5, <1>6, <1>7, <1>8, <1>9, <1>10, <1>11, <1>12, <1>13, <1>14,
     <1>15, <1>16, <1>17, <1>18
    DEF Next, HookStep, RouteStep

\* What was answered, inserted, signed or spent stays so.
Kept ==
  /\ \A r \in Requests : req[r].at = "ok" => req'[r] = req[r]
  /\ endUsers \subseteq endUsers'
  /\ \A t \in Requests : tokens[t] # NoToken => tokens'[t] = tokens[t]
  /\ \A c \in Codes : codes[c] # "none" => codes'[c] # "none"
  /\ \A c \in Codes : codes[c] = "spent" => codes'[c] = "spent"

LEMMA KeptByNext == TInv /\ Signed /\ [Next]_vars => Kept
<1> SUFFICES ASSUME TInv /\ Signed, [Next]_vars PROVE Kept
  OBVIOUS
<1>1. ASSUME NEW a \in Apps, CreateApplication(a) \/ IssueKey(a) \/ RevokeKey(a) PROVE Kept
  BY <1>1 DEF CreateApplication, IssueKey, RevokeKey, TInv, TypeOK, Signed, Sound, Complete,
              Progress, Kept
<1>2. ASSUME NEW r \in Requests, NEW a \in Apps, NEW u \in Users, Ask(r, a, u)
      PROVE Kept
  <2>1. PICK q \in Sound :
          /\ req' = [req EXCEPT ![r] = q] /\ req[r].at = "unsent"
          /\ q.at \in {"select", "failed"} /\ q.row = None
          /\ q.at = "select" /\ q.op = "callback" => Brought(q)
          /\ q.at = "select" /\ q.op = "delete" => q.ref \in Requests /\ req[q.ref].at = "ok"
          /\ UNCHANGED <<keys, endUsers, accounts, tokens, codes, now, removed>>
    BY <1>2, Arrives
  <2> QED BY <2>1 DEF TInv, TypeOK, Sound, Complete, Progress, Signed, Kept
<1>3. ASSUME NEW r \in Requests, SelectUser(r) PROVE Kept
  BY <1>3 DEF SelectUser, TInv, TypeOK, Signed, Sound, Complete, Progress, Goto, Resolve,
              UsersOf, Handler, Kept
<1>4. ASSUME NEW r \in Requests, InsertUser(r) PROVE Kept
  BY <1>4 DEF InsertUser, TInv, TypeOK, Signed, Sound, Complete, Progress, Goto, UsersOf, Kept
<1>5. ASSUME NEW r \in Requests, Reselect(r) PROVE Kept
  BY <1>5 DEF Reselect, TInv, TypeOK, Signed, Sound, Complete, Progress, Resolve, UsersOf,
              Handler, Kept
<1>6. ASSUME NEW r \in Requests, SignState(r) PROVE Kept
  BY <1>6 DEF SignState, TInv, TypeOK, Signed, Sound, Complete, Progress, Answer, NoRequest, Kept
<1>7. ASSUME NEW r \in Requests, VerifyState(r) PROVE Kept
  BY <1>7 DEF VerifyState, TInv, TypeOK, Signed, Sound, Complete, Progress, Goto, Fail,
              NoRequest, Kept
<1>8. ASSUME NEW r \in Requests, ExchangeCode(r) PROVE Kept
  BY <1>8 DEF ExchangeCode, TInv, TypeOK, Signed, Sound, Complete, Progress, Goto, Fail,
              NoRequest, Kept
<1>9. ASSUME NEW r \in Requests, ExchangeLost(r) PROVE Kept
  BY <1>9 DEF ExchangeLost, TInv, TypeOK, Signed, Sound, Complete, Progress, Fail, NoRequest, Kept
<1>10. ASSUME NEW r \in Requests, FindNamed(r) PROVE Kept
  <2>1. CASE Fail(r)
    <3>1. /\ req' = [req EXCEPT ![r] = [NoRequest EXCEPT !.at = "failed"]] /\ req[r].at = "find"
          /\ UNCHANGED <<keys, endUsers, accounts, tokens, codes, now, removed>>
      BY <1>10, <2>1 DEF FindNamed, Fail
    <3> QED BY <3>1 DEF NoRequest, TInv, TypeOK, Sound, Complete, Progress, Signed, Kept
  <2>2. CASE ~Fail(r)
    <3>1. PICK u \in endUsers :
            /\ u.app = tokens[req[r].ref].app /\ u.user = tokens[req[r].ref].user
            /\ req' = [req EXCEPT ![r] = [@ EXCEPT !.owner = u.id, !.at = "store"]]
      BY <1>10, <2>2 DEF FindNamed, UsersOf
    <3>2. /\ u.id \in Requests /\ req[r].at = "find" /\ req[r].op = "callback" /\ req[r].ref \in Requests
          /\ UNCHANGED <<keys, endUsers, accounts, tokens, codes, now, removed>>
      BY <1>10 DEF FindNamed, TInv, TypeOK, User, Sound, Complete
    <3> QED BY <3>1, <3>2 DEF TInv, TypeOK, Sound, Complete, Progress, Signed, Kept
  <2> QED BY <2>1, <2>2
<1>11. ASSUME NEW r \in Requests, Login(r) PROVE Kept
  BY <1>11 DEF Login, TInv, TypeOK, Signed, Sound, Complete, Progress, Fail, NoRequest, Kept
<1>12. ASSUME NEW r \in Requests, StoreAccount(r) PROVE Kept
  BY <1>12 DEF StoreAccount, TInv, TypeOK, Signed, Sound, Complete, Progress, Answer,
               NoRequest, Kept
<1>13. ASSUME NEW r \in Requests, CheckOwner(r) PROVE Kept
  BY <1>13 DEF CheckOwner, TInv, TypeOK, Signed, Sound, Complete, Progress, Goto, Fail,
               NoRequest, Kept
<1>14. ASSUME NEW r \in Requests, DeleteAccount(r) PROVE Kept
  BY <1>14 DEF DeleteAccount, TInv, TypeOK, Signed, Sound, Complete, Progress, Answer,
               NoRequest, Kept
<1>15. ASSUME NEW r \in Requests, Interrupted(r) PROVE Kept
  BY <1>15 DEF Interrupted, TInv, TypeOK, Signed, Sound, Complete, Progress, Fail, NoRequest,
               Serving, Ended, Kept
<1>16. ASSUME NEW c \in Codes, NEW t \in Requests, Consent(c, t) PROVE Kept
  BY <1>16 DEF Consent, TInv, TypeOK, Signed, Sound, Complete, Progress, Kept
<1>17. CASE Tick
  BY <1>17 DEF Tick, Kept
<1>18. CASE UNCHANGED vars
  BY <1>18 DEF vars, TInv, TypeOK, Signed, Sound, Complete, Progress, Goto, Answer, Fail,
               Resolve, NoRequest, Serving, Ended, UsersOf, Handler, Kept
<1> QED
  BY <1>1, <1>2, <1>3, <1>4, <1>5, <1>6, <1>7, <1>8, <1>9, <1>10, <1>11, <1>12, <1>13, <1>14,
     <1>15, <1>16, <1>17, <1>18
    DEF Next, HookStep, RouteStep

\* An account comes with the end of the request that stores it.
Stored(r) == [id |-> r, owner |-> req[r].owner, state |-> req[r].ref, code |-> req[r].code]
OnlyStored ==
  \/ AllAccounts' = AllAccounts
  \/ \E s \in Requests : StoreAccount(s) /\ AllAccounts' = AllAccounts \cup {Stored(s)}

LEMMA AccountsStored == TInv /\ Signed /\ [Next]_vars => OnlyStored
<1> SUFFICES ASSUME TInv /\ Signed, [Next]_vars PROVE OnlyStored
  OBVIOUS
<1>1. ASSUME NEW a \in Apps, CreateApplication(a) \/ IssueKey(a) \/ RevokeKey(a) PROVE OnlyStored
  BY <1>1 DEF CreateApplication, IssueKey, RevokeKey, AllAccounts, Stored, OnlyStored, TInv,
              TypeOK
<1>2. ASSUME NEW r \in Requests, NEW a \in Apps, NEW u \in Users, Ask(r, a, u)
      PROVE OnlyStored
  BY <1>2 DEF Ask, Arrive, AllAccounts, Stored, OnlyStored, TInv, TypeOK
<1>3. ASSUME NEW r \in Requests, SelectUser(r) PROVE OnlyStored
  BY <1>3 DEF SelectUser, AllAccounts, Stored, OnlyStored, TInv, TypeOK
<1>4. ASSUME NEW r \in Requests, InsertUser(r) PROVE OnlyStored
  BY <1>4 DEF InsertUser, AllAccounts, Stored, OnlyStored, TInv, TypeOK
<1>5. ASSUME NEW r \in Requests, Reselect(r) PROVE OnlyStored
  BY <1>5 DEF Reselect, AllAccounts, Stored, OnlyStored, TInv, TypeOK
<1>6. ASSUME NEW r \in Requests, SignState(r) PROVE OnlyStored
  BY <1>6 DEF SignState, Answer, AllAccounts, Stored, OnlyStored, TInv, TypeOK
<1>7. ASSUME NEW r \in Requests, VerifyState(r) PROVE OnlyStored
  BY <1>7 DEF VerifyState, AllAccounts, Stored, OnlyStored, TInv, TypeOK
<1>8. ASSUME NEW r \in Requests, ExchangeCode(r) PROVE OnlyStored
  BY <1>8 DEF ExchangeCode, AllAccounts, Stored, OnlyStored, TInv, TypeOK
<1>9. ASSUME NEW r \in Requests, ExchangeLost(r) PROVE OnlyStored
  BY <1>9 DEF ExchangeLost, AllAccounts, Stored, OnlyStored, TInv, TypeOK
<1>10. ASSUME NEW r \in Requests, FindNamed(r) PROVE OnlyStored
  BY <1>10 DEF FindNamed, AllAccounts, Stored, OnlyStored, TInv, TypeOK
<1>11. ASSUME NEW r \in Requests, Login(r) PROVE OnlyStored
  BY <1>11 DEF Login, AllAccounts, Stored, OnlyStored, TInv, TypeOK
<1>12. ASSUME NEW r \in Requests, StoreAccount(r) PROVE OnlyStored
  BY <1>12 DEF StoreAccount, Answer, AllAccounts, Stored, OnlyStored, TInv, TypeOK
<1>13. ASSUME NEW r \in Requests, CheckOwner(r) PROVE OnlyStored
  BY <1>13 DEF CheckOwner, AllAccounts, Stored, OnlyStored, TInv, TypeOK
<1>14. ASSUME NEW r \in Requests, DeleteAccount(r) PROVE OnlyStored
  <2>1. accounts' = accounts \ {a \in accounts : a.id = req[r].ref}
    BY <1>14 DEF DeleteAccount
  <2>2. removed' = removed \cup {[row |-> a, by |-> req[r].row] : a \in {b \in accounts : b.id = req[r].ref}}
    BY <1>14 DEF DeleteAccount
  <2>3. ASSUME NEW x, x \in {d.row : d \in removed'}
        PROVE  x \in {d.row : d \in removed} \cup {a \in accounts : a.id = req[r].ref}
    BY <2>2, <2>3
  <2>4. ASSUME NEW x \in {d.row : d \in removed} PROVE x \in {d.row : d \in removed'}
    BY <2>2
  <2>5. ASSUME NEW x \in accounts, x.id = req[r].ref PROVE x \in {d.row : d \in removed'}
    <3>1. [row |-> x, by |-> req[r].row] \in removed'
      BY <2>2, <2>5
    <3> QED BY <3>1
  <2>6. {d.row : d \in removed'} = {d.row : d \in removed} \cup {a \in accounts : a.id = req[r].ref}
    BY <2>3, <2>4, <2>5
  <2> QED BY <2>1, <2>6 DEF AllAccounts, OnlyStored
<1>15. ASSUME NEW r \in Requests, Interrupted(r) PROVE OnlyStored
  BY <1>15 DEF Interrupted, AllAccounts, Stored, OnlyStored, TInv, TypeOK
<1>16. ASSUME NEW c \in Codes, NEW t \in Requests, Consent(c, t) PROVE OnlyStored
  BY <1>16 DEF Consent, AllAccounts, Stored, OnlyStored, TInv, TypeOK
<1>17. CASE Tick
  BY <1>17 DEF Tick, AllAccounts, Stored, OnlyStored, TInv, TypeOK
<1>18. CASE UNCHANGED vars
  BY <1>18 DEF vars, Answer, AllAccounts, Stored, OnlyStored, TInv, TypeOK
<1> QED
  BY <1>1, <1>2, <1>3, <1>4, <1>5, <1>6, <1>7, <1>8, <1>9, <1>10, <1>11, <1>12, <1>13, <1>14,
     <1>15, <1>16, <1>17, <1>18
    DEF Next, HookStep, RouteStep

LEMMA RowNext == TInv /\ RowOfApplication /\ [Next]_vars => RowOfApplication'
<1> SUFFICES ASSUME TInv /\ RowOfApplication, [Next]_vars PROVE RowOfApplication'
  OBVIOUS
<1>1. ASSUME NEW a \in Apps, CreateApplication(a) \/ IssueKey(a) \/ RevokeKey(a) PROVE RowOfApplication'
  BY <1>1 DEF CreateApplication, IssueKey, RevokeKey, TInv, TypeOK, Signed, Sound, Complete,
              Progress, RowOfApplication
<1>2. ASSUME NEW r \in Requests, NEW a \in Apps, NEW u \in Users, Ask(r, a, u)
      PROVE RowOfApplication'
  <2>1. PICK q \in Sound :
          /\ req' = [req EXCEPT ![r] = q] /\ req[r].at = "unsent"
          /\ q.at \in {"select", "failed"} /\ q.row = None
          /\ q.at = "select" /\ q.op = "callback" => Brought(q)
          /\ q.at = "select" /\ q.op = "delete" => q.ref \in Requests /\ req[q.ref].at = "ok"
          /\ UNCHANGED <<keys, endUsers, accounts, tokens, codes, now, removed>>
    BY <1>2, Arrives
  <2> QED BY <2>1 DEF TInv, TypeOK, Sound, Complete, Progress, RowOfApplication
<1>3. ASSUME NEW r \in Requests, SelectUser(r) PROVE RowOfApplication'
  <2>1. CASE Resolve(r)
    <3>1. PICK u \in endUsers :
            /\ u.app = req[r].app
            /\ req' = [req EXCEPT ![r] = [@ EXCEPT !.row = u.id, !.at = Handler(req[r].op)]]
      BY <2>1 DEF Resolve, UsersOf
    <3>2. u.id \in Requests /\ Handler(req[r].op) \in {"sign", "verify", "login", "check"}
      BY DEF TInv, TypeOK, User, Sound, Progress, Ops, Handler
    <3> QED BY <1>3, <3>1, <3>2 DEF SelectUser, Reselect, TInv, TypeOK, Sound, Complete,
                                    Progress, RowOfApplication
  <2>2. CASE Goto(r, "insert")
    <3>1. /\ req[r].at = "select" /\ req' = [req EXCEPT ![r] = [@ EXCEPT !.at = "insert"]]
          /\ UNCHANGED <<keys, endUsers, accounts, tokens, codes, now, removed>>
      BY <1>3, <2>2 DEF SelectUser, Goto
    <3> QED BY <3>1 DEF TInv, TypeOK, Sound, Complete, Progress, RowOfApplication
  <2> QED BY <1>3, <2>1, <2>2 DEF SelectUser
<1>4. ASSUME NEW r \in Requests, InsertUser(r) PROVE RowOfApplication'
  BY <1>4 DEF InsertUser, TInv, TypeOK, Signed, Sound, Complete, Progress, Goto, UsersOf,
              RowOfApplication
<1>5. ASSUME NEW r \in Requests, Reselect(r) PROVE RowOfApplication'
  <2>1. CASE Resolve(r)
    <3>1. PICK u \in endUsers :
            /\ u.app = req[r].app
            /\ req' = [req EXCEPT ![r] = [@ EXCEPT !.row = u.id, !.at = Handler(req[r].op)]]
      BY <2>1 DEF Resolve, UsersOf
    <3>2. u.id \in Requests /\ Handler(req[r].op) \in {"sign", "verify", "login", "check"}
      BY DEF TInv, TypeOK, User, Sound, Progress, Ops, Handler
    <3> QED BY <1>5, <3>1, <3>2 DEF SelectUser, Reselect, TInv, TypeOK, Sound, Complete,
                                    Progress, RowOfApplication
  <2> QED BY <1>5, <2>1 DEF Reselect
<1>6. ASSUME NEW r \in Requests, SignState(r) PROVE RowOfApplication'
  BY <1>6 DEF SignState, TInv, TypeOK, Signed, Sound, Complete, Progress, Answer, NoRequest,
              RowOfApplication
<1>7. ASSUME NEW r \in Requests, VerifyState(r) PROVE RowOfApplication'
  BY <1>7 DEF VerifyState, TInv, TypeOK, Signed, Sound, Complete, Progress, Goto, Fail,
              NoRequest, RowOfApplication
<1>8. ASSUME NEW r \in Requests, ExchangeCode(r) PROVE RowOfApplication'
  BY <1>8 DEF ExchangeCode, TInv, TypeOK, Signed, Sound, Complete, Progress, Goto, Fail,
              NoRequest, RowOfApplication
<1>9. ASSUME NEW r \in Requests, ExchangeLost(r) PROVE RowOfApplication'
  BY <1>9 DEF ExchangeLost, TInv, TypeOK, Signed, Sound, Complete, Progress, Fail, NoRequest,
              RowOfApplication
<1>10. ASSUME NEW r \in Requests, FindNamed(r) PROVE RowOfApplication'
  <2>1. CASE Fail(r)
    <3>1. /\ req' = [req EXCEPT ![r] = [NoRequest EXCEPT !.at = "failed"]] /\ req[r].at = "find"
          /\ UNCHANGED <<keys, endUsers, accounts, tokens, codes, now, removed>>
      BY <1>10, <2>1 DEF FindNamed, Fail
    <3> QED BY <3>1 DEF NoRequest, TInv, TypeOK, Sound, Complete, Progress, RowOfApplication
  <2>2. CASE ~Fail(r)
    <3>1. PICK u \in endUsers :
            /\ u.app = tokens[req[r].ref].app /\ u.user = tokens[req[r].ref].user
            /\ req' = [req EXCEPT ![r] = [@ EXCEPT !.owner = u.id, !.at = "store"]]
      BY <1>10, <2>2 DEF FindNamed, UsersOf
    <3>2. /\ u.id \in Requests /\ req[r].at = "find" /\ req[r].op = "callback" /\ req[r].ref \in Requests
          /\ UNCHANGED <<keys, endUsers, accounts, tokens, codes, now, removed>>
      BY <1>10 DEF FindNamed, TInv, TypeOK, User, Sound, Complete
    <3> QED BY <3>1, <3>2 DEF TInv, TypeOK, Sound, Complete, Progress, RowOfApplication
  <2> QED BY <2>1, <2>2
<1>11. ASSUME NEW r \in Requests, Login(r) PROVE RowOfApplication'
  BY <1>11 DEF Login, TInv, TypeOK, Signed, Sound, Complete, Progress, Fail, NoRequest,
               RowOfApplication
<1>12. ASSUME NEW r \in Requests, StoreAccount(r) PROVE RowOfApplication'
  BY <1>12 DEF StoreAccount, TInv, TypeOK, Signed, Sound, Complete, Progress, Answer,
               NoRequest, RowOfApplication
<1>13. ASSUME NEW r \in Requests, CheckOwner(r) PROVE RowOfApplication'
  BY <1>13 DEF CheckOwner, TInv, TypeOK, Signed, Sound, Complete, Progress, Goto, Fail,
               NoRequest, RowOfApplication
<1>14. ASSUME NEW r \in Requests, DeleteAccount(r) PROVE RowOfApplication'
  BY <1>14 DEF DeleteAccount, TInv, TypeOK, Signed, Sound, Complete, Progress, Answer,
               NoRequest, RowOfApplication
<1>15. ASSUME NEW r \in Requests, Interrupted(r) PROVE RowOfApplication'
  BY <1>15 DEF Interrupted, TInv, TypeOK, Signed, Sound, Complete, Progress, Fail, NoRequest,
               Serving, Ended, RowOfApplication
<1>16. ASSUME NEW c \in Codes, NEW t \in Requests, Consent(c, t) PROVE RowOfApplication'
  BY <1>16 DEF Consent, TInv, TypeOK, Signed, Sound, Complete, Progress, RowOfApplication
<1>17. CASE Tick
  BY <1>17 DEF Tick, TInv, TypeOK, Signed, Sound, Complete, Progress, RowOfApplication
<1>18. CASE UNCHANGED vars
  BY <1>18 DEF vars, TInv, TypeOK, Signed, Sound, Complete, Progress, Goto, Answer, Fail,
               Resolve, NoRequest, Serving, Ended, UsersOf, Handler, RowOfApplication
<1> QED
  BY <1>1, <1>2, <1>3, <1>4, <1>5, <1>6, <1>7, <1>8, <1>9, <1>10, <1>11, <1>12, <1>13, <1>14,
     <1>15, <1>16, <1>17, <1>18
    DEF Next, HookStep, RouteStep

\* However the first requests of an application race, a request goes on with the row
\* of an end user that is there, and of its own application.
THEOREM RowsAreThere == Spec => []RowOfApplication
<1>1. Init => RowOfApplication
  BY DEF Init, RowOfApplication, NoRequest
<1> QED BY <1>1, InitType, NextType, RowNext, PTL DEF Spec

-----------------------------------------------------------------------------
(* Consents, accounts and their owners *)

\* A callback past the exchange holds a code that is spent, alone, and no account
\* has come of it yet; an account that came of a code is the only one.
SpentOnce ==
  /\ \A r \in Requests : req[r].op = "callback" /\ req[r].at \in {"find", "store"} =>
       /\ codes[req[r].code] = "spent"
       /\ \A a \in AllAccounts : a.code # req[r].code
       /\ \A s \in Requests :
            req[s].op = "callback" /\ req[s].at \in {"find", "store"} /\ req[s].code = req[r].code => s = r
  /\ \A a \in AllAccounts : a.code # None => a.code \in Codes /\ codes[a.code] = "spent"
  /\ \A a, b \in AllAccounts : a.code # None /\ a.code = b.code => a = b

LEMMA SpentNext == TInv /\ Signed /\ SpentOnce /\ [Next]_vars => SpentOnce'
<1> SUFFICES ASSUME TInv /\ Signed /\ SpentOnce, [Next]_vars PROVE SpentOnce'
  OBVIOUS
<1>1. ASSUME NEW a \in Apps, CreateApplication(a) \/ IssueKey(a) \/ RevokeKey(a) PROVE SpentOnce'
  BY <1>1 DEF CreateApplication, IssueKey, RevokeKey, TInv, TypeOK, Signed, Sound, Complete,
              Progress, AllAccounts, SpentOnce
<1>2. ASSUME NEW r \in Requests, NEW a \in Apps, NEW u \in Users, Ask(r, a, u)
      PROVE SpentOnce'
  <2>1. PICK q \in Sound :
          /\ req' = [req EXCEPT ![r] = q] /\ req[r].at = "unsent"
          /\ q.at \in {"select", "failed"} /\ q.row = None
          /\ q.at = "select" /\ q.op = "callback" => Brought(q)
          /\ q.at = "select" /\ q.op = "delete" => q.ref \in Requests /\ req[q.ref].at = "ok"
          /\ UNCHANGED <<keys, endUsers, accounts, tokens, codes, now, removed>>
    BY <1>2, Arrives
  <2> QED BY <2>1 DEF TInv, TypeOK, Sound, Complete, Progress, SpentOnce, Goto, Answer, Fail,
                      NoRequest, Serving, Ended, AllAccounts
<1>3. ASSUME NEW r \in Requests, SelectUser(r) PROVE SpentOnce'
  <2>1. CASE Resolve(r)
    <3>1. PICK u \in endUsers :
            /\ u.app = req[r].app
            /\ req' = [req EXCEPT ![r] = [@ EXCEPT !.row = u.id, !.at = Handler(req[r].op)]]
      BY <2>1 DEF Resolve, UsersOf
    <3>2. u.id \in Requests /\ Handler(req[r].op) \in {"sign", "verify", "login", "check"}
      BY DEF TInv, TypeOK, User, Sound, Progress, Ops, Handler
    <3> QED BY <1>3, <3>1, <3>2 DEF SelectUser, Reselect, TInv, TypeOK, Sound, Complete,
                                    Progress, SpentOnce, Goto, AllAccounts
  <2>2. CASE Goto(r, "insert")
    <3>1. /\ req[r].at = "select" /\ req' = [req EXCEPT ![r] = [@ EXCEPT !.at = "insert"]]
          /\ UNCHANGED <<keys, endUsers, accounts, tokens, codes, now, removed>>
      BY <1>3, <2>2 DEF SelectUser, Goto
    <3> QED BY <3>1 DEF TInv, TypeOK, Sound, Complete, Progress, SpentOnce, Goto, Answer,
                        Fail, NoRequest, Serving, Ended, AllAccounts
  <2> QED BY <1>3, <2>1, <2>2 DEF SelectUser
<1>4. ASSUME NEW r \in Requests, InsertUser(r) PROVE SpentOnce'
  BY <1>4 DEF InsertUser, TInv, TypeOK, Signed, Sound, Complete, Progress, AllAccounts,
              SpentOnce, Goto
<1>5. ASSUME NEW r \in Requests, Reselect(r) PROVE SpentOnce'
  <2>1. CASE Resolve(r)
    <3>1. PICK u \in endUsers :
            /\ u.app = req[r].app
            /\ req' = [req EXCEPT ![r] = [@ EXCEPT !.row = u.id, !.at = Handler(req[r].op)]]
      BY <2>1 DEF Resolve, UsersOf
    <3>2. u.id \in Requests /\ Handler(req[r].op) \in {"sign", "verify", "login", "check"}
      BY DEF TInv, TypeOK, User, Sound, Progress, Ops, Handler
    <3> QED BY <1>5, <3>1, <3>2 DEF SelectUser, Reselect, TInv, TypeOK, Sound, Complete,
                                    Progress, SpentOnce, Goto, AllAccounts
  <2> QED BY <1>5, <2>1 DEF Reselect
<1>6. ASSUME NEW r \in Requests, SignState(r) PROVE SpentOnce'
  BY <1>6 DEF SignState, TInv, TypeOK, Signed, Sound, Complete, Progress, AllAccounts,
              SpentOnce, Answer, NoRequest
<1>7. ASSUME NEW r \in Requests, VerifyState(r) PROVE SpentOnce'
  BY <1>7 DEF VerifyState, TInv, TypeOK, Signed, Sound, Complete, Progress, AllAccounts,
              SpentOnce, Goto, Fail, NoRequest
<1>8. ASSUME NEW r \in Requests, ExchangeCode(r) PROVE SpentOnce'
  <2>0. req[r].at = "exchange" /\ req[r].op = "callback" /\ req[r].code \in Codes
    BY <1>8 DEF ExchangeCode, TInv, Sound, Complete
  <2>1. CASE codes[req[r].code] = "granted"
    <3>1. /\ req' = [req EXCEPT ![r] = [@ EXCEPT !.at = "find"]]
          /\ codes' = [codes EXCEPT ![req[r].code] = "spent"] /\ UNCHANGED <<accounts, removed>>
      BY <1>8, <2>1 DEF ExchangeCode, Goto
    <3>2. \A a \in AllAccounts : a.code # req[r].code
      BY <2>0, <2>1, IdentityConstants DEF SpentOnce, None
    <3>3. \A s \in Requests : req[s].op = "callback" /\ req[s].at \in {"find", "store"} => req[s].code # req[r].code
      BY <2>0, <2>1 DEF SpentOnce
    <3> QED BY <2>0, <3>1, <3>2, <3>3 DEF NoRequest, TInv, TypeOK, Signed, Sound, Complete,
                                          Progress, AllAccounts, SpentOnce
  <2>2. CASE codes[req[r].code] # "granted"
    <3>1. /\ req' = [req EXCEPT ![r] = [NoRequest EXCEPT !.at = "failed"]]
          /\ codes' = [codes EXCEPT ![req[r].code] = "spent"] /\ UNCHANGED <<accounts, removed>>
      BY <1>8, <2>2 DEF ExchangeCode, Fail
    <3> QED BY <2>0, <3>1 DEF NoRequest, TInv, TypeOK, Signed, Sound, Complete, Progress,
                              AllAccounts, SpentOnce
  <2> QED BY <2>1, <2>2
<1>9. ASSUME NEW r \in Requests, ExchangeLost(r) PROVE SpentOnce'
  BY <1>9 DEF ExchangeLost, TInv, TypeOK, Signed, Sound, Complete, Progress, AllAccounts,
              SpentOnce, Fail, NoRequest
<1>10. ASSUME NEW r \in Requests, FindNamed(r) PROVE SpentOnce'
  <2>1. CASE Fail(r)
    <3>1. /\ req' = [req EXCEPT ![r] = [NoRequest EXCEPT !.at = "failed"]] /\ req[r].at = "find"
          /\ UNCHANGED <<keys, endUsers, accounts, tokens, codes, now, removed>>
      BY <1>10, <2>1 DEF FindNamed, Fail
    <3> QED BY <3>1 DEF NoRequest, TInv, TypeOK, Sound, Complete, Progress, SpentOnce, Goto,
                        Answer, Fail, Serving, Ended, AllAccounts
  <2>2. CASE ~Fail(r)
    <3>1. PICK u \in endUsers :
            /\ u.app = tokens[req[r].ref].app /\ u.user = tokens[req[r].ref].user
            /\ req' = [req EXCEPT ![r] = [@ EXCEPT !.owner = u.id, !.at = "store"]]
      BY <1>10, <2>2 DEF FindNamed, UsersOf
    <3>2. /\ u.id \in Requests /\ req[r].at = "find" /\ req[r].op = "callback" /\ req[r].ref \in Requests
          /\ UNCHANGED <<keys, endUsers, accounts, tokens, codes, now, removed>>
      BY <1>10 DEF FindNamed, TInv, TypeOK, User, Sound, Complete
    <3> QED BY <3>1, <3>2 DEF TInv, TypeOK, Sound, Complete, Progress, SpentOnce, Goto,
                              Answer, Fail, NoRequest, Serving, Ended, AllAccounts
  <2> QED BY <2>1, <2>2
<1>11. ASSUME NEW r \in Requests, Login(r) PROVE SpentOnce'
  <2>0. req[r].at = "login" /\ req[r].op = "apple" /\ UNCHANGED <<codes, accounts, removed>>
    BY <1>11 DEF Login, TInv, Sound, Complete
  <2>1. CASE Fail(r)
    BY <2>0, <2>1 DEF Fail, NoRequest, TInv, TypeOK, Signed, Sound, Complete, Progress,
                      AllAccounts, SpentOnce
  <2>2. CASE ~Fail(r)
    <3>1. req' = [req EXCEPT ![r] = [@ EXCEPT !.owner = req[r].row, !.at = "store"]]
      BY <1>11, <2>2 DEF Login
    <3> QED BY <2>0, <3>1 DEF NoRequest, TInv, TypeOK, Signed, Sound, Complete, Progress,
                              AllAccounts, SpentOnce
  <2> QED BY <2>1, <2>2
<1>12. ASSUME NEW r \in Requests, StoreAccount(r) PROVE SpentOnce'
  BY <1>12 DEF StoreAccount, TInv, TypeOK, Signed, Sound, Complete, Progress, AllAccounts,
               SpentOnce, Answer, NoRequest
<1>13. ASSUME NEW r \in Requests, CheckOwner(r) PROVE SpentOnce'
  BY <1>13 DEF CheckOwner, TInv, TypeOK, Signed, Sound, Complete, Progress, AllAccounts,
               SpentOnce, Goto, Fail, NoRequest
<1>14. ASSUME NEW r \in Requests, DeleteAccount(r) PROVE SpentOnce'
  BY <1>14 DEF DeleteAccount, TInv, TypeOK, Signed, Sound, Complete, Progress, AllAccounts,
               SpentOnce, Answer, NoRequest
<1>15. ASSUME NEW r \in Requests, Interrupted(r) PROVE SpentOnce'
  BY <1>15 DEF Interrupted, TInv, TypeOK, Signed, Sound, Complete, Progress, AllAccounts,
               SpentOnce, Fail, NoRequest, Serving, Ended
<1>16. ASSUME NEW c \in Codes, NEW t \in Requests, Consent(c, t) PROVE SpentOnce'
  BY <1>16 DEF Consent, TInv, TypeOK, Signed, Sound, Complete, Progress, AllAccounts, SpentOnce
<1>17. CASE Tick
  BY <1>17 DEF Tick, TInv, TypeOK, Signed, Sound, Complete, Progress, AllAccounts, SpentOnce
<1>18. CASE UNCHANGED vars
  BY <1>18 DEF vars, TInv, TypeOK, Signed, Sound, Complete, Progress, Handler, AllAccounts,
               SpentOnce, Goto, Answer, Fail, NoRequest, Serving, Ended
<1> QED
  BY <1>1, <1>2, <1>3, <1>4, <1>5, <1>6, <1>7, <1>8, <1>9, <1>10, <1>11, <1>12, <1>13, <1>14,
     <1>15, <1>16, <1>17, <1>18
    DEF Next, HookStep, RouteStep

\* A consent makes one account at most, however its callbacks overlap.
THEOREM OneAccount == Spec => []OneAccountPerConsent
<1>1. Init => SpentOnce
  BY DEF Init, SpentOnce, NoRequest, AllAccounts
<1>2. SpentOnce => OneAccountPerConsent
  BY DEF SpentOnce, OneAccountPerConsent, AllAccounts
<1> QED BY <1>1, <1>2, InitType, NextType, SignedInit, SignedNext, SpentNext, PTL DEF Spec

\* There is a row of this id and, if a code brought it, of the user that the state token
\* which came along names.
HasOwner(users, toks, id, t, c) ==
  \E u \in users :
    /\ u.id = id
    /\ c # None => /\ t \in Requests /\ toks[t] # NoToken
                  /\ u.app = toks[t].app /\ u.user = toks[t].user

\* So is the row a request is about to store an account for, and that of every account.
OwnerNamed ==
  \A r \in Requests : req[r].at = "store" =>
    HasOwner(endUsers, tokens, req[r].owner, req[r].ref, req[r].code)
AccountsNamed ==
  \A a \in AllAccounts : HasOwner(endUsers, tokens, a.owner, a.state, a.code)

CInv == TInv /\ Signed /\ RowOfApplication

\* A row stays, and so does the token that names its user.
LEMMA NamedStays ==
  ASSUME CInv, [Next]_vars, NEW id, NEW t, NEW c, HasOwner(endUsers, tokens, id, t, c)
  PROVE  HasOwner(endUsers', tokens', id, t, c)
<1>1. Kept
  BY KeptByNext DEF CInv
<1>2. t \in Requests /\ tokens[t] # NoToken => tokens'[t] = tokens[t]
  BY <1>1 DEF Kept
<1> QED BY <1>1, <1>2 DEF Kept, HasOwner

LEMMA ResolvedAt ==
  ASSUME TInv, NEW r \in Requests, Resolve(r)
  PROVE  /\ \A s \in Requests \ {r} : req'[s] = req[s]
         /\ req'[r].at \in {"sign", "verify", "login", "check"}
<1>1. PICK u \in UsersOf(req[r].app) :
        req' = [req EXCEPT ![r] = [@ EXCEPT !.row = u.id, !.at = Handler(req[r].op)]]
  BY DEF Resolve
<1>2. req[r] \in Progress
  BY DEF TInv, Sound
<1>3. Handler(req[r].op) \in {"sign", "verify", "login", "check"}
  BY <1>2 DEF Progress, Handler, Ops
<1> QED BY <1>1, <1>2, <1>3 DEF TInv, Progress

LEMMA OwnerNext == CInv /\ OwnerNamed /\ [Next]_vars => OwnerNamed'
<1> SUFFICES ASSUME CInv /\ OwnerNamed, [Next]_vars PROVE OwnerNamed'
  OBVIOUS
<1>k. ASSUME NEW s \in Requests, req[s].at = "store", req'[s] = req[s]
      PROVE  HasOwner(endUsers', tokens', req'[s].owner, req'[s].ref, req'[s].code)
  BY <1>k, NamedStays DEF OwnerNamed
<1>1. ASSUME NEW a \in Apps,  CreateApplication(a) \/ IssueKey(a) \/ RevokeKey(a) PROVE OwnerNamed'
  <2>1. req' = req
    BY <1>1 DEF CreateApplication, IssueKey, RevokeKey
  <2> QED BY <2>1, <1>k DEF OwnerNamed
<1>2. ASSUME NEW r \in Requests, NEW a \in Apps, NEW u \in Users, Ask(r, a, u)
      PROVE OwnerNamed'
  <2>1. PICK q \in Sound : req' = [req EXCEPT ![r] = q] /\ q.at \in {"select", "failed"}
    BY <1>2, Arrives DEF CInv
  <2>2. \A s \in Requests : req'[s].at = "store" => req'[s] = req[s]
    BY <2>1 DEF CInv, TInv, TypeOK
  <2> QED BY <2>2, <1>k DEF OwnerNamed
<1>3. ASSUME NEW r \in Requests, SelectUser(r) PROVE OwnerNamed'
  <2>1. CASE Resolve(r)
    BY <2>1, <1>k, ResolvedAt DEF CInv, OwnerNamed
  <2>2. CASE Goto(r, "insert")
    <3>1. \A s \in Requests : req'[s].at = "store" => req'[s] = req[s]
      BY <2>2 DEF Goto, CInv, TInv, TypeOK
    <3> QED BY <3>1, <1>k DEF OwnerNamed
  <2> QED BY <1>3, <2>1, <2>2 DEF SelectUser
<1>4. ASSUME NEW r \in Requests, InsertUser(r) PROVE OwnerNamed'
  <2>1. \A s \in Requests : req'[s].at = "store" => req'[s] = req[s]
    BY <1>4 DEF InsertUser, Goto, CInv, TInv, TypeOK, Sound, Complete, Progress
  <2> QED BY <2>1, <1>k DEF OwnerNamed
<1>5. ASSUME NEW r \in Requests, Reselect(r) PROVE OwnerNamed'
  BY <1>5, <1>k, ResolvedAt DEF Reselect, CInv, OwnerNamed
<1>6. ASSUME NEW r \in Requests, SignState(r) PROVE OwnerNamed'
  <2>1. \A s \in Requests : req'[s].at = "store" => req'[s] = req[s]
    BY <1>6 DEF SignState, Answer, NoRequest, CInv, TInv, TypeOK, Sound, Complete, Progress
  <2> QED BY <2>1, <1>k DEF OwnerNamed
<1>7. ASSUME NEW r \in Requests, VerifyState(r) PROVE OwnerNamed'
  <2>1. \A s \in Requests : req'[s].at = "store" => req'[s] = req[s]
    BY <1>7 DEF VerifyState, Goto, Fail, NoRequest, CInv, TInv, TypeOK, Sound, Complete, Progress
  <2> QED BY <2>1, <1>k DEF OwnerNamed
<1>8. ASSUME NEW r \in Requests, ExchangeCode(r) PROVE OwnerNamed'
  <2>1. \A s \in Requests : req'[s].at = "store" => req'[s] = req[s]
    BY <1>8 DEF ExchangeCode, Goto, Fail, NoRequest, CInv, TInv, TypeOK, Sound, Complete, Progress
  <2> QED BY <2>1, <1>k DEF OwnerNamed
<1>9. ASSUME NEW r \in Requests, ExchangeLost(r) PROVE OwnerNamed'
  <2>1. \A s \in Requests : req'[s].at = "store" => req'[s] = req[s]
    BY <1>9 DEF ExchangeLost, Fail, NoRequest, CInv, TInv, TypeOK, Sound, Complete, Progress
  <2> QED BY <2>1, <1>k DEF OwnerNamed
<1>10. ASSUME NEW r \in Requests, FindNamed(r) PROVE OwnerNamed'
  <2>0. \A s \in Requests \ {r} : req'[s] = req[s]
    BY <1>10 DEF FindNamed, Fail, CInv, TInv, TypeOK
  <2>1. CASE Fail(r)
    <3>1. req'[r].at # "store"
      BY <2>1 DEF Fail, NoRequest, CInv, TInv, TypeOK
    <3> QED BY <2>0, <3>1, <1>k DEF OwnerNamed
  <2>2. CASE ~Fail(r)
    <3>1. PICK u \in endUsers :
            /\ u.app = tokens[req[r].ref].app /\ u.user = tokens[req[r].ref].user
            /\ req' = [req EXCEPT ![r] = [@ EXCEPT !.owner = u.id, !.at = "store"]]
      BY <1>10, <2>2 DEF FindNamed, UsersOf
    <3>2. req'[r].owner = u.id /\ req'[r].ref = req[r].ref
      BY <3>1 DEF CInv, TInv, Sound, Progress
    <3>3. UNCHANGED <<endUsers, tokens>> /\ Brought(req[r])
      BY <1>10 DEF FindNamed, CInv, TInv, Sound, Complete, Signed
    <3>4. HasOwner(endUsers', tokens', req'[r].owner, req'[r].ref, req'[r].code)
      BY <3>1, <3>2, <3>3 DEF HasOwner, Brought
    <3> QED BY <2>0, <3>4, <1>k DEF OwnerNamed
  <2> QED BY <2>1, <2>2
<1>11. ASSUME NEW r \in Requests, Login(r) PROVE OwnerNamed'
  <2>0. /\ \A s \in Requests \ {r} : req'[s] = req[s]
        /\ UNCHANGED <<endUsers, tokens>>
    BY <1>11 DEF Login, Fail, CInv, TInv, TypeOK
  <2>1. CASE Fail(r)
    <3>1. req'[r].at # "store"
      BY <2>1 DEF Fail, NoRequest, CInv, TInv, TypeOK
    <3> QED BY <2>0, <3>1, <1>k DEF OwnerNamed
  <2>2. CASE ~Fail(r)
    <3>0. req[r].code = None /\ req[r].row # None
      BY <1>11, IdentityConstants DEF Login, None, CInv, TInv, Sound, Complete, Progress
    <3>1. req'[r].owner = req[r].row /\ req'[r].code = None
      BY <1>11, <3>0, <2>2 DEF Login, CInv, TInv, Sound, Progress
    <3>2. \E u \in endUsers' : u.id = req'[r].owner
      BY <2>0, <3>0, <3>1 DEF CInv, RowOfApplication
    <3>3. HasOwner(endUsers', tokens', req'[r].owner, req'[r].ref, req'[r].code)
      BY <3>1, <3>2 DEF HasOwner
    <3> QED BY <2>0, <3>3, <1>k DEF OwnerNamed
  <2> QED BY <2>1, <2>2
<1>12. ASSUME NEW r \in Requests, StoreAccount(r) PROVE OwnerNamed'
  <2>1. \A s \in Requests : req'[s].at = "store" => req'[s] = req[s]
    BY <1>12 DEF StoreAccount, Answer, NoRequest, CInv, TInv, TypeOK, Sound, Complete, Progress
  <2> QED BY <2>1, <1>k DEF OwnerNamed
<1>13. ASSUME NEW r \in Requests, CheckOwner(r) PROVE OwnerNamed'
  <2>1. \A s \in Requests : req'[s].at = "store" => req'[s] = req[s]
    BY <1>13 DEF CheckOwner, Goto, Fail, NoRequest, CInv, TInv, TypeOK, Sound, Complete, Progress
  <2> QED BY <2>1, <1>k DEF OwnerNamed
<1>14. ASSUME NEW r \in Requests, DeleteAccount(r) PROVE OwnerNamed'
  <2>1. \A s \in Requests : req'[s].at = "store" => req'[s] = req[s]
    BY <1>14 DEF DeleteAccount, Answer, NoRequest, CInv, TInv, TypeOK, Sound, Complete, Progress
  <2> QED BY <2>1, <1>k DEF OwnerNamed
<1>15. ASSUME NEW r \in Requests, Interrupted(r) PROVE OwnerNamed'
  <2>1. \A s \in Requests : req'[s].at = "store" => req'[s] = req[s]
    BY <1>15 DEF Interrupted, Fail, NoRequest, CInv, TInv, TypeOK, Sound, Complete, Progress
  <2> QED BY <2>1, <1>k DEF OwnerNamed
<1>16. ASSUME NEW c \in Codes, NEW t \in Requests, Consent(c, t) PROVE OwnerNamed'
  <2>1. \A s \in Requests : req'[s].at = "store" => req'[s] = req[s]
    BY <1>16 DEF Consent, CInv, TInv, TypeOK, Sound, Complete, Progress
  <2> QED BY <2>1, <1>k DEF OwnerNamed
<1>17. CASE Tick
  <2>1. \A s \in Requests : req'[s].at = "store" => req'[s] = req[s]
    BY <1>17 DEF Tick, CInv, TInv, TypeOK, Sound, Complete, Progress
  <2> QED BY <2>1, <1>k DEF OwnerNamed
<1>18. CASE UNCHANGED vars
  <2>1. \A s \in Requests : req'[s].at = "store" => req'[s] = req[s]
    BY <1>18 DEF vars, Goto, Answer, Fail, NoRequest, CInv, TInv, TypeOK, Sound, Complete,
                 Progress
  <2> QED BY <2>1, <1>k DEF OwnerNamed
<1> QED
  BY <1>1, <1>2, <1>3, <1>4, <1>5, <1>6, <1>7, <1>8, <1>9, <1>10, <1>11, <1>12, <1>13, <1>14,
     <1>15, <1>16, <1>17, <1>18
    DEF Next, HookStep, RouteStep

LEMMA AccountsNext == CInv /\ OwnerNamed /\ AccountsNamed /\ [Next]_vars => AccountsNamed'
<1> SUFFICES ASSUME CInv, OwnerNamed, AccountsNamed, [Next]_vars, NEW a \in AllAccounts'
             PROVE  HasOwner(endUsers', tokens', a.owner, a.state, a.code)
  BY DEF AccountsNamed
<1>1. CASE a \in AllAccounts
  BY <1>1, NamedStays DEF AccountsNamed
<1>2. ASSUME NEW s \in Requests, StoreAccount(s), a = Stored(s)
      PROVE  HasOwner(endUsers', tokens', a.owner, a.state, a.code)
  <2>1. a.owner = req[s].owner /\ a.state = req[s].ref /\ a.code = req[s].code
    BY <1>2 DEF Stored
  <2>2. UNCHANGED <<endUsers, tokens>> /\ req[s].at = "store"
    BY <1>2 DEF StoreAccount
  <2> QED BY <2>1, <2>2 DEF OwnerNamed
<1> QED BY <1>1, <1>2, AccountsStored DEF CInv, OnlyStored

\* An account that a callback made is that of the end user whom the authorization URL of
\* its state was asked for, and every account has a row to belong to.  Whose code the
\* callback brought, neither the code nor the theorem can tell.
THEOREM AccountsAreOfNamed == Spec => []AccountsOfNamed
<1>1. Init => RowOfApplication /\ OwnerNamed /\ AccountsNamed
  BY DEF Init, RowOfApplication, OwnerNamed, AccountsNamed, NoRequest, AllAccounts
<1>2. CInv /\ [Next]_vars => CInv'
  BY NextType, SignedNext, RowNext DEF CInv
<1>3. Init => CInv
  BY <1>1, InitType, SignedInit DEF CInv
<1>4. AccountsNamed => AccountsOfNamed
  BY DEF AccountsNamed, AccountsOfNamed, AllAccounts, HasOwner
<1> QED BY <1>1, <1>2, <1>3, <1>4, OwnerNext, AccountsNext, PTL DEF Spec

-----------------------------------------------------------------------------
(* Deletions *)

\* The id of an account is that of a request that has ended, so no other account can
\* come to have the id that a deletion has checked.
Checked ==
  /\ \A a \in accounts : req[a.id].at = "ok"
  /\ \A r \in Requests : req[r].op = "delete" /\ req[r].at \notin {"unsent", "ok", "failed"} =>
       req[req[r].ref].at = "ok"
  /\ \A r \in Requests : req[r].at = "delete" =>
       \A a \in accounts : a.id = req[r].ref => a.owner = req[r].row

IdsOnce == \A a, b \in accounts : a.id = b.id => a = b

LEMMA CheckedNext == TInv /\ Checked /\ IdsOnce /\ [Next]_vars => Checked'
<1> SUFFICES ASSUME TInv /\ Checked /\ IdsOnce, [Next]_vars PROVE Checked'
  OBVIOUS
<1>1. ASSUME NEW a \in Apps, CreateApplication(a) \/ IssueKey(a) \/ RevokeKey(a) PROVE Checked'
  BY <1>1 DEF CreateApplication, IssueKey, RevokeKey, TInv, TypeOK, Account, Sound, Complete,
              Progress, Checked
<1>2. ASSUME NEW r \in Requests, NEW a \in Apps, NEW u \in Users, Ask(r, a, u)
      PROVE Checked'
  <2>1. PICK q \in Sound :
          /\ req' = [req EXCEPT ![r] = q] /\ req[r].at = "unsent"
          /\ q.at \in {"select", "failed"} /\ q.row = None
          /\ q.at = "select" /\ q.op = "callback" => Brought(q)
          /\ q.at = "select" /\ q.op = "delete" => q.ref \in Requests /\ req[q.ref].at = "ok"
          /\ UNCHANGED <<keys, endUsers, accounts, tokens, codes, now, removed>>
    BY <1>2, Arrives
  <2> QED BY <2>1 DEF TInv, TypeOK, Sound, Complete, Progress, Account, Signed, Goto, Answer,
                      Fail, NoRequest, Checked, Serving, Ended
<1>3. ASSUME NEW r \in Requests, SelectUser(r) PROVE Checked'
  <2>1. CASE Resolve(r)
    <3>1. PICK u \in endUsers :
            /\ u.app = req[r].app
            /\ req' = [req EXCEPT ![r] = [@ EXCEPT !.row = u.id, !.at = Handler(req[r].op)]]
      BY <2>1 DEF Resolve, UsersOf
    <3>2. u.id \in Requests /\ Handler(req[r].op) \in {"sign", "verify", "login", "check"}
      BY DEF TInv, TypeOK, User, Sound, Progress, Ops, Handler
    <3> QED BY <1>3, <3>1, <3>2 DEF SelectUser, Reselect, TInv, TypeOK, Sound, Complete,
                                    Progress, Account, Signed, Goto, Checked
  <2>2. CASE Goto(r, "insert")
    <3>1. /\ req[r].at = "select" /\ req' = [req EXCEPT ![r] = [@ EXCEPT !.at = "insert"]]
          /\ UNCHANGED <<keys, endUsers, accounts, tokens, codes, now, removed>>
      BY <1>3, <2>2 DEF SelectUser, Goto
    <3> QED BY <3>1 DEF TInv, TypeOK, Sound, Complete, Progress, Account, Signed, Goto,
                        Answer, Fail, NoRequest, Checked, Serving, Ended
  <2> QED BY <1>3, <2>1, <2>2 DEF SelectUser
<1>4. ASSUME NEW r \in Requests, InsertUser(r) PROVE Checked'
  BY <1>4 DEF InsertUser, TInv, TypeOK, Account, Sound, Complete, Progress, Goto, Checked
<1>5. ASSUME NEW r \in Requests, Reselect(r) PROVE Checked'
  <2>1. CASE Resolve(r)
    <3>1. PICK u \in endUsers :
            /\ u.app = req[r].app
            /\ req' = [req EXCEPT ![r] = [@ EXCEPT !.row = u.id, !.at = Handler(req[r].op)]]
      BY <2>1 DEF Resolve, UsersOf
    <3>2. u.id \in Requests /\ Handler(req[r].op) \in {"sign", "verify", "login", "check"}
      BY DEF TInv, TypeOK, User, Sound, Progress, Ops, Handler
    <3> QED BY <1>5, <3>1, <3>2 DEF SelectUser, Reselect, TInv, TypeOK, Sound, Complete,
                                    Progress, Account, Signed, Goto, Checked
  <2> QED BY <1>5, <2>1 DEF Reselect
<1>6. ASSUME NEW r \in Requests, SignState(r) PROVE Checked'
  BY <1>6 DEF SignState, TInv, TypeOK, Account, Sound, Complete, Progress, Answer, NoRequest,
              Checked
<1>7. ASSUME NEW r \in Requests, VerifyState(r) PROVE Checked'
  BY <1>7 DEF VerifyState, TInv, TypeOK, Account, Sound, Complete, Progress, Goto, Fail,
              NoRequest, Checked
<1>8. ASSUME NEW r \in Requests, ExchangeCode(r) PROVE Checked'
  <2>1. CASE Goto(r, "find") /\ UNCHANGED <<accounts>>
    BY <1>8, <2>1 DEF ExchangeCode, Goto, TInv, TypeOK, Sound, Complete, Progress, Checked,
                      Account
  <2>2. CASE Fail(r) /\ UNCHANGED <<accounts>>
    BY <1>8, <2>2 DEF ExchangeCode, Fail, NoRequest, TInv, TypeOK, Sound, Complete, Progress,
                      Checked, Account
  <2> QED BY <1>8, <2>1, <2>2 DEF ExchangeCode
<1>9. ASSUME NEW r \in Requests, ExchangeLost(r) PROVE Checked'
  BY <1>9 DEF ExchangeLost, TInv, TypeOK, Account, Sound, Complete, Progress, Fail, NoRequest,
              Checked
<1>10. ASSUME NEW r \in Requests, FindNamed(r) PROVE Checked'
  <2>1. CASE Fail(r)
    <3>1. /\ req' = [req EXCEPT ![r] = [NoRequest EXCEPT !.at = "failed"]] /\ req[r].at = "find"
          /\ UNCHANGED <<keys, endUsers, accounts, tokens, codes, now, removed>>
      BY <1>10, <2>1 DEF FindNamed, Fail
    <3> QED BY <3>1 DEF NoRequest, TInv, TypeOK, Sound, Complete, Progress, Account, Signed,
                        Goto, Answer, Fail, Checked, Serving, Ended
  <2>2. CASE ~Fail(r)
    <3>1. PICK u \in endUsers :
            /\ u.app = tokens[req[r].ref].app /\ u.user = tokens[req[r].ref].user
            /\ req' = [req EXCEPT ![r] = [@ EXCEPT !.owner = u.id, !.at = "store"]]
      BY <1>10, <2>2 DEF FindNamed, UsersOf
    <3>2. /\ u.id \in Requests /\ req[r].at = "find" /\ req[r].op = "callback" /\ req[r].ref \in Requests
          /\ UNCHANGED <<keys, endUsers, accounts, tokens, codes, now, removed>>
      BY <1>10 DEF FindNamed, TInv, TypeOK, User, Sound, Complete
    <3> QED BY <3>1, <3>2 DEF TInv, TypeOK, Sound, Complete, Progress, Account, Signed, Goto,
                              Answer, Fail, NoRequest, Checked, Serving, Ended
  <2> QED BY <2>1, <2>2
<1>11. ASSUME NEW r \in Requests, Login(r) PROVE Checked'
  BY <1>11 DEF Login, TInv, TypeOK, Account, Sound, Complete, Progress, Fail, NoRequest, Checked
<1>12. ASSUME NEW r \in Requests, StoreAccount(r) PROVE Checked'
  BY <1>12 DEF StoreAccount, TInv, TypeOK, Account, Sound, Complete, Progress, Answer,
               NoRequest, Checked
<1>13. ASSUME NEW r \in Requests, CheckOwner(r) PROVE Checked'
  <2>0. req[r].at = "check" /\ req[r].op = "delete" /\ accounts' = accounts
    BY <1>13 DEF CheckOwner, TInv, Sound, Complete
  <2>1. CASE \E a \in accounts : a.id = req[r].ref /\ a.owner = req[r].row
    <3>1. req' = [req EXCEPT ![r] = [@ EXCEPT !.at = "delete"]]
      BY <1>13, <2>1 DEF CheckOwner, Goto
    <3>2. \A a \in accounts : a.id = req[r].ref => a.owner = req[r].row
      BY <2>1 DEF IdsOnce
    <3> QED BY <2>0, <3>1, <3>2 DEF TInv, TypeOK, Sound, Complete, Progress, Checked, Account
  <2>2. CASE Fail(r)
    BY <2>0, <2>2 DEF Fail, NoRequest, TInv, TypeOK, Sound, Complete, Progress, Checked, Account
  <2> QED BY <1>13, <2>1, <2>2 DEF CheckOwner
<1>14. ASSUME NEW r \in Requests, DeleteAccount(r) PROVE Checked'
  BY <1>14 DEF DeleteAccount, TInv, TypeOK, Account, Sound, Complete, Progress, Answer,
               NoRequest, Checked
<1>15. ASSUME NEW r \in Requests, Interrupted(r) PROVE Checked'
  BY <1>15 DEF Interrupted, TInv, TypeOK, Account, Sound, Complete, Progress, Fail, NoRequest,
               Checked, Serving, Ended
<1>16. ASSUME NEW c \in Codes, NEW t \in Requests, Consent(c, t) PROVE Checked'
  BY <1>16 DEF Consent, TInv, TypeOK, Account, Sound, Complete, Progress, Checked
<1>17. CASE Tick
  BY <1>17 DEF Tick, TInv, TypeOK, Account, Sound, Complete, Progress, Checked
<1>18. CASE UNCHANGED vars
  BY <1>18 DEF vars, TInv, TypeOK, Account, Sound, Complete, Progress, Goto, Answer, Fail,
               NoRequest, Checked, Serving, Ended
<1> QED
  BY <1>1, <1>2, <1>3, <1>4, <1>5, <1>6, <1>7, <1>8, <1>9, <1>10, <1>11, <1>12, <1>13, <1>14,
     <1>15, <1>16, <1>17, <1>18
    DEF Next, HookStep, RouteStep

LEMMA IdsNext == TInv /\ Checked /\ IdsOnce /\ [Next]_vars => IdsOnce'
<1> SUFFICES ASSUME TInv /\ Checked /\ IdsOnce, [Next]_vars PROVE IdsOnce'
  OBVIOUS
<1>1. ASSUME NEW a \in Apps, CreateApplication(a) \/ IssueKey(a) \/ RevokeKey(a) PROVE IdsOnce'
  BY <1>1 DEF CreateApplication, IssueKey, RevokeKey, IdsOnce
<1>2. ASSUME NEW r \in Requests, NEW a \in Apps, NEW u \in Users, Ask(r, a, u)
      PROVE IdsOnce'
  BY <1>2 DEF Ask, Arrive, IdsOnce
<1>3. ASSUME NEW r \in Requests, SelectUser(r) PROVE IdsOnce'
  BY <1>3 DEF SelectUser, IdsOnce
<1>4. ASSUME NEW r \in Requests, InsertUser(r) PROVE IdsOnce'
  BY <1>4 DEF InsertUser, IdsOnce
<1>5. ASSUME NEW r \in Requests, Reselect(r) PROVE IdsOnce'
  BY <1>5 DEF Reselect, IdsOnce
<1>6. ASSUME NEW r \in Requests, SignState(r) PROVE IdsOnce'
  BY <1>6 DEF SignState, IdsOnce
<1>7. ASSUME NEW r \in Requests, VerifyState(r) PROVE IdsOnce'
  BY <1>7 DEF VerifyState, IdsOnce
<1>8. ASSUME NEW r \in Requests, ExchangeCode(r) PROVE IdsOnce'
  BY <1>8 DEF ExchangeCode, IdsOnce
<1>9. ASSUME NEW r \in Requests, ExchangeLost(r) PROVE IdsOnce'
  BY <1>9 DEF ExchangeLost, IdsOnce
<1>10. ASSUME NEW r \in Requests, FindNamed(r) PROVE IdsOnce'
  BY <1>10 DEF FindNamed, IdsOnce
<1>11. ASSUME NEW r \in Requests, Login(r) PROVE IdsOnce'
  BY <1>11 DEF Login, IdsOnce
<1>12. ASSUME NEW r \in Requests, StoreAccount(r) PROVE IdsOnce'
  BY <1>12 DEF StoreAccount, IdsOnce, Checked
<1>13. ASSUME NEW r \in Requests, CheckOwner(r) PROVE IdsOnce'
  BY <1>13 DEF CheckOwner, IdsOnce
<1>14. ASSUME NEW r \in Requests, DeleteAccount(r) PROVE IdsOnce'
  BY <1>14 DEF DeleteAccount, IdsOnce
<1>15. ASSUME NEW r \in Requests, Interrupted(r) PROVE IdsOnce'
  BY <1>15 DEF Interrupted, IdsOnce
<1>16. ASSUME NEW c \in Codes, NEW t \in Requests, Consent(c, t) PROVE IdsOnce'
  BY <1>16 DEF Consent, IdsOnce
<1>17. CASE Tick
  BY <1>17 DEF Tick, IdsOnce
<1>18. CASE UNCHANGED vars
  BY <1>18 DEF vars, IdsOnce
<1> QED
  BY <1>1, <1>2, <1>3, <1>4, <1>5, <1>6, <1>7, <1>8, <1>9, <1>10, <1>11, <1>12, <1>13, <1>14,
     <1>15, <1>16, <1>17, <1>18
    DEF Next, HookStep, RouteStep

OnlyDeleted == removed' = removed \/ \E s \in Requests : DeleteAccount(s)

LEMMA OnlyDelete == TInv /\ [Next]_vars => OnlyDeleted
<1> SUFFICES ASSUME TInv, [Next]_vars PROVE OnlyDeleted
  OBVIOUS
<1>1. ASSUME NEW a \in Apps, CreateApplication(a) \/ IssueKey(a) \/ RevokeKey(a) PROVE OnlyDeleted
  BY <1>1 DEF CreateApplication, IssueKey, RevokeKey, OnlyDeleted
<1>2. ASSUME NEW r \in Requests, NEW a \in Apps, NEW u \in Users, Ask(r, a, u)
      PROVE OnlyDeleted
  BY <1>2 DEF Ask, Arrive, OnlyDeleted
<1>3. ASSUME NEW r \in Requests, SelectUser(r) PROVE OnlyDeleted
  BY <1>3 DEF SelectUser, OnlyDeleted
<1>4. ASSUME NEW r \in Requests, InsertUser(r) PROVE OnlyDeleted
  BY <1>4 DEF InsertUser, OnlyDeleted
<1>5. ASSUME NEW r \in Requests, Reselect(r) PROVE OnlyDeleted
  BY <1>5 DEF Reselect, OnlyDeleted
<1>6. ASSUME NEW r \in Requests, SignState(r) PROVE OnlyDeleted
  BY <1>6 DEF SignState, OnlyDeleted
<1>7. ASSUME NEW r \in Requests, VerifyState(r) PROVE OnlyDeleted
  BY <1>7 DEF VerifyState, OnlyDeleted
<1>8. ASSUME NEW r \in Requests, ExchangeCode(r) PROVE OnlyDeleted
  BY <1>8 DEF ExchangeCode, OnlyDeleted
<1>9. ASSUME NEW r \in Requests, ExchangeLost(r) PROVE OnlyDeleted
  BY <1>9 DEF ExchangeLost, OnlyDeleted
<1>10. ASSUME NEW r \in Requests, FindNamed(r) PROVE OnlyDeleted
  BY <1>10 DEF FindNamed, OnlyDeleted
<1>11. ASSUME NEW r \in Requests, Login(r) PROVE OnlyDeleted
  BY <1>11 DEF Login, OnlyDeleted
<1>12. ASSUME NEW r \in Requests, StoreAccount(r) PROVE OnlyDeleted
  BY <1>12 DEF StoreAccount, OnlyDeleted
<1>13. ASSUME NEW r \in Requests, CheckOwner(r) PROVE OnlyDeleted
  BY <1>13 DEF CheckOwner, OnlyDeleted
<1>14. ASSUME NEW r \in Requests, DeleteAccount(r) PROVE OnlyDeleted
  BY <1>14 DEF OnlyDeleted
<1>15. ASSUME NEW r \in Requests, Interrupted(r) PROVE OnlyDeleted
  BY <1>15 DEF Interrupted, OnlyDeleted
<1>16. ASSUME NEW c \in Codes, NEW t \in Requests, Consent(c, t) PROVE OnlyDeleted
  BY <1>16 DEF Consent, OnlyDeleted
<1>17. CASE Tick
  BY <1>17 DEF Tick, OnlyDeleted
<1>18. CASE UNCHANGED vars
  BY <1>18 DEF vars, OnlyDeleted
<1> QED
  BY <1>1, <1>2, <1>3, <1>4, <1>5, <1>6, <1>7, <1>8, <1>9, <1>10, <1>11, <1>12, <1>13, <1>14,
     <1>15, <1>16, <1>17, <1>18
    DEF Next, HookStep, RouteStep

\* An account goes only at the word of a request that resolved to its owner.
THEOREM OwnersDelete == Spec => []DeletedByOwner
<1>1. Init => Checked /\ IdsOnce /\ DeletedByOwner
  BY DEF Init, Checked, IdsOnce, DeletedByOwner, NoRequest
<1>2. TInv /\ Checked /\ DeletedByOwner /\ [Next]_vars => DeletedByOwner'
  <2> SUFFICES ASSUME TInv, Checked, DeletedByOwner, [Next]_vars, NEW d \in removed', d \notin removed
               PROVE  d.by = d.row.owner
    BY DEF DeletedByOwner
  <2>1. PICK r \in Requests : DeleteAccount(r)
    BY OnlyDelete DEF OnlyDeleted
  <2>2. PICK a \in accounts : a.id = req[r].ref /\ d = [row |-> a, by |-> req[r].row]
    BY <2>1 DEF DeleteAccount
  <2>3. a.owner = req[r].row
    BY <2>1, <2>2 DEF DeleteAccount, Checked
  <2> QED BY <2>2, <2>3
<1> QED BY <1>1, <1>2, InitType, NextType, CheckedNext, IdsNext, PTL DEF Spec

=============================================================================
