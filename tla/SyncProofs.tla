------------------------------ MODULE SyncProofs ------------------------------
(***************************************************************************)
(* Theorems about Sync: types, and that no client of a calendar misses     *)
(* what it is owed, for any number of clients, events, edits, failing      *)
(* calls, lost replies and forgotten cursors.                              *)
(***************************************************************************)
EXTENDS Sync, TLAPS

\* The cursors a call deals with are of the type of cursors.
LEMMA CursorTypes ==
  ASSUME TypeOK
  PROVE  /\ NoCursor \in Cursors
         /\ Silent \in [Events -> [type : Types, ver : Nat]]
         /\ Versions \in [Events -> Nat]
         /\ [at |-> edits, known |-> Versions] \in Cursors
<1>1. NoCursor \in Cursors
  BY DEF NoCursor, NoVersions, Cursors
<1>2. Silent \in [Events -> [type : Types, ver : Nat]]
  BY DEF Silent, Types
<1>3. \A e \in Events : Version(e) \in Nat
  BY DEF TypeOK, Version
<1>4. Versions \in [Events -> Nat]
  BY <1>3 DEF Versions
<1>5. [at |-> edits, known |-> Versions] \in Cursors
  BY <1>4 DEF TypeOK, Cursors
<1> QED
  BY <1>1, <1>2, <1>4, <1>5

\* What a listing adds to the reports of a client is of their type.
LEMMA ReportTypes ==
  ASSUME TypeOK, NEW c \in Clients, NEW es
  PROVE  Reported(c, es) \in [Events -> [type : Types, ver : Nat]]
<1>1. \A e \in Events : ReportOf(c, e) \in [type : Types, ver : Nat]
  BY DEF TypeOK, ReportOf, Types
<1>2. \A e \in Events : reports[c][e] \in [type : Types, ver : Nat]
  BY DEF TypeOK
<1> QED
  BY <1>1, <1>2 DEF Reported

LEMMA InitType == Init => TypeOK
<1>1. ASSUME Init PROVE TypeOK
  <2>1. NoCursor \in Cursors
    BY DEF NoCursor, NoVersions, Cursors
  <2>2. Silent \in [Events -> [type : Types, ver : Nat]]
    BY DEF Silent, Types
  <2>3. NoVersions \in [Events -> Nat]
    BY DEF NoVersions
  <2> QED
    BY <1>1, <2>1, <2>2, <2>3 DEF Init, TypeOK, Steps
<1> QED
  BY <1>1

\* The fields of the calls, for the actions that end one.
CallTyped ==
  /\ pc \in [Clients -> Steps]
  /\ asked \in [Clients -> Cursors] /\ from \in [Clients -> Cursors]
  /\ base \in [Clients -> Cursors]
  /\ rest \in [Clients -> SUBSET Events]
  /\ reports \in [Clients -> [Events -> [type : Types, ver : Nat]]]

LEMMA ForgetType ==
  ASSUME TypeOK, NEW c \in Clients, Forget(c)
  PROVE  CallTyped'
<1>1. NoCursor \in Cursors /\ Silent \in [Events -> [type : Types, ver : Nat]]
  BY CursorTypes
<1> QED
  BY <1>1 DEF TypeOK, CallTyped, Forget, Goto, Steps

LEMMA NextType == ASSUME TypeOK, [Next]_vars PROVE TypeOK'
<1>0. /\ NoCursor \in Cursors
      /\ Silent \in [Events -> [type : Types, ver : Nat]]
      /\ [at |-> edits, known |-> Versions] \in Cursors
  BY CursorTypes
<1> USE DEF remote, call, client, account
<1>1. ASSUME NEW e \in Events, Edit(e) PROVE TypeOK'
  <2>1. PICK alive \in {TRUE, cal[e].ver = 0} :
          cal' = [cal EXCEPT ![e] = [ver |-> edits + 1, alive |-> alive]]
    BY <1>1 DEF Edit
  <2>2. (cal[e].ver = 0) \in BOOLEAN
    OBVIOUS
  <2>3. alive \in BOOLEAN
    BY <2>2
  <2>4. cal' \in [Events -> [ver : Nat, alive : BOOLEAN]]
    BY <2>1, <2>3 DEF TypeOK
  <2> QED
    BY <1>1, <2>4 DEF Edit, TypeOK
<1>2. ASSUME ForgetOldCursors PROVE TypeOK'
  BY <1>2 DEF ForgetOldCursors, TypeOK
<1>3. ASSUME DeleteAccount PROVE TypeOK'
  BY <1>0, <1>3 DEF DeleteAccount, TypeOK
<1>4. ASSUME NEW c \in Clients, Request(c) PROVE TypeOK'
  BY <1>4 DEF Request, TypeOK, Goto, Steps
<1>5. ASSUME NEW c \in Clients, ResolveCursor(c) PROVE TypeOK'
  BY <1>5 DEF ResolveCursor, TypeOK, Goto, Steps
<1>6. ASSUME NEW c \in Clients, LoadContext(c) PROVE TypeOK'
  BY <1>6 DEF LoadContext, TypeOK, Goto, Steps
<1>7. ASSUME NEW c \in Clients, ListFirstPage(c) PROVE TypeOK'
  <2>1. PICK page \in SUBSET Delta(c) :
          /\ reports' = [reports EXCEPT ![c] = Reported(c, page)]
          /\ rest' = [rest EXCEPT ![c] = Delta(c) \ page]
          /\ Goto(c, IF page = Delta(c) THEN "insert" ELSE "pages")
    BY <1>7 DEF ListFirstPage
  <2>2. Reported(c, page) \in [Events -> [type : Types, ver : Nat]]
    BY ReportTypes
  <2>3. reports' \in [Clients -> [Events -> [type : Types, ver : Nat]]]
    BY <2>1, <2>2 DEF TypeOK
  <2>4. rest' \in [Clients -> SUBSET Events]
    BY <2>1 DEF TypeOK, Delta
  <2>5. pc' \in [Clients -> Steps]
    BY <2>1 DEF TypeOK, Goto, Steps
  <2>6. base' \in [Clients -> Cursors]
    BY <1>0, <1>7 DEF ListFirstPage, TypeOK
  <2> QED
    BY <1>7, <2>3, <2>4, <2>5, <2>6 DEF ListFirstPage, TypeOK
<1>8. ASSUME NEW c \in Clients, ListRest(c) PROVE TypeOK'
  <2>1. Reported(c, rest[c]) \in [Events -> [type : Types, ver : Nat]]
    BY ReportTypes
  <2>2. reports' \in [Clients -> [Events -> [type : Types, ver : Nat]]]
    BY <1>8, <2>1 DEF ListRest, TypeOK
  <2> QED
    BY <1>8, <2>2 DEF ListRest, TypeOK, Goto, Steps
<1>9. ASSUME NEW c \in Clients, TokenGone(c) PROVE TypeOK'
  <2>1. CASE provider = "google"
    <3>1. /\ from' = [from EXCEPT ![c] = NoCursor]
          /\ reports' = [reports EXCEPT ![c] = Silent]
          /\ rest' = [rest EXCEPT ![c] = {}]
          /\ pc' = [pc EXCEPT ![c] = "list"]
      BY <1>9, <2>1 DEF TokenGone, Goto
    <3>2. reports' \in [Clients -> [Events -> [type : Types, ver : Nat]]]
      BY <1>0, <3>1 DEF TypeOK
    <3>3. from' \in [Clients -> Cursors] /\ rest' \in [Clients -> SUBSET Events]
      BY <1>0, <3>1 DEF TypeOK
    <3>4. pc' \in [Clients -> Steps]
      BY <3>1 DEF TypeOK, Steps
    <3> QED
      BY <1>9, <2>1, <3>2, <3>3, <3>4 DEF TokenGone, TypeOK
  <2>2. CASE provider # "google"
    <3>1. CallTyped'
      BY <1>9, <2>2, ForgetType DEF TokenGone
    <3> QED
      BY <1>9, <3>1 DEF TokenGone, TypeOK, CallTyped
  <2> QED
    BY <2>1, <2>2
<1>10. ASSUME NEW c \in Clients, SaveInsert(c) PROVE TypeOK'
  BY <1>10 DEF SaveInsert, TypeOK, Goto, Steps
<1>11. ASSUME NEW c \in Clients, SaveUpdate(c) PROVE TypeOK'
  BY <1>11 DEF SaveUpdate, TypeOK, Goto, Steps
<1>12. ASSUME NEW c \in Clients, Reply(c) PROVE TypeOK'
  <2>1. CallTyped'
    BY <1>12, ForgetType DEF Reply
  <2>2. \A e \in Events : Applied(c, e) \in Nat
    BY DEF Applied, TypeOK
  <2>3. copy' \in [Clients -> [Events -> Nat]]
    BY <1>12, <2>2 DEF Reply, TypeOK
  <2>4. cursor' \in [Clients -> Cursors]
    BY <1>12 DEF Reply, TypeOK
  <2>5. Start(c) \in Int
    BY DEF Start, TypeOK, Cursors
  <2>6. start' \in [Clients -> Int]
    BY <1>12, <2>5 DEF Reply, TypeOK
  <2> QED
    BY <1>12, <2>1, <2>3, <2>4, <2>6 DEF Reply, TypeOK, CallTyped
<1>13. ASSUME NEW c \in Clients, AccountGone(c) PROVE TypeOK'
  <2>1. CallTyped'
    BY <1>13, ForgetType DEF AccountGone
  <2> QED
    BY <1>13, <2>1 DEF AccountGone, TypeOK, CallTyped
<1>14. ASSUME NEW c \in Clients, CallFails(c) PROVE TypeOK'
  <2>1. CallTyped'
    BY <1>14, ForgetType DEF CallFails
  <2> QED
    BY <1>14, <2>1 DEF CallFails, TypeOK, CallTyped
<1>15. CASE UNCHANGED vars
  BY <1>15 DEF vars, TypeOK
<1> QED
  BY <1>1, <1>2, <1>3, <1>4, <1>5, <1>6, <1>7, <1>8, <1>9, <1>10, <1>11, <1>12, <1>13, <1>14, <1>15
     DEF Next, CallStep

\* Every variable keeps its type, for any number of clients of the calendar.
THEOREM TypeCorrect == Spec => []TypeOK
<1>1. TypeOK /\ [Next]_vars => TypeOK'
  BY NextType
<1> QED
  BY InitType, <1>1, PTL DEF Spec
-----------------------------------------------------------------------------
(* Knowing a version k of an event, holding v of it in a copy that began with *)
(* the first n edits, is sound if v is current unless the event changed after *)
(* k or has not changed after n.                                             *)
Sound(k, v, n, e) ==
  (/\ listed /\ cal[e].ver > n
   /\ k = Version(e) /\ (provider = "caldav" => cal[e].alive)) => v = Current(e)

\* A cursor knows of no edit made after the listing that produced it.
Past(x, e) == x = NoCursor \/ (x.known[e] <= x.at /\ x.at <= edits)

\* Nobody knows of an edit before it is made.
Bounded(e) ==
  /\ cal[e].ver <= edits
  /\ cal[e].alive => cal[e].ver > 0
  /\ Past(stored, e)
  /\ \A c \in Clients :
       /\ copy[c][e] <= cal[e].ver /\ reports[c][e].ver <= cal[e].ver
       /\ Past(cursor[c], e) /\ Past(base[c], e) /\ Past(from[c], e)

\* Where a call stands: a call that brings a cursor lists from it, or from nothing
\* at all after a 410 of Google; a call that brings none has an empty copy.
Standing(c) ==
  /\ cursor[c] = NoCursor => copy[c] = NoVersions
  /\ pc[c] # "ready" => asked[c] = cursor[c]
  /\ pc[c] = "resolve" => cursor[c] = NoCursor
  /\ (pc[c] \in {"context", "list", "pages"} /\ asked[c] # NoCursor) =>
       from[c] = cursor[c] \/ (from[c] = NoCursor /\ provider = "google")
  /\ pc[c] \in {"pages", "insert", "update", "reply"} => base[c].at >= 0
  /\ pc[c] \in {"ready", "resolve", "context", "list"} => reports[c] = Silent
  /\ pc[c] = "pages" => provider # "caldav"

\* The events a call in progress has listed.
HasListed(c, e) ==
  pc[c] \in {"insert", "update", "reply"} \/ (pc[c] = "pages" /\ e \notin rest[c])

\* The copy goes with the cursor, and what the call would make of the copy with
\* the cursor the call would return.
Knows(c, e) ==
  /\ Sound(cursor[c].known[e], copy[c][e], start[c], e)
  /\ HasListed(c, e) => Sound(base[c].known[e], Applied(c, e), Start(c), e)

SyncInv ==
  /\ TypeOK
  /\ \A e \in Events : Bounded(e)
  /\ \A c \in Clients : Standing(c)
  /\ \A c \in Clients, e \in Events : Knows(c, e)

\* What the parts of a cursor and of a report are when there is none.
LEMMA Nothing ==
  ASSUME NEW e \in Events
  PROVE  /\ NoCursor.at = -1 /\ NoCursor.known[e] = 0 /\ NoVersions[e] = 0
         /\ Silent[e].type = "none" /\ Silent[e].ver = 0
BY DEF NoCursor, NoVersions, Silent

\* What a report says, and what applying it makes of the copy.
LEMMA ReportEffect ==
  ASSUME TypeOK, NEW c \in Clients, NEW e \in Events
  PROVE  /\ ReportOf(c, e).ver = Current(e)
         /\ ReportOf(c, e).type # "none"
         /\ ReportOf(c, e).type = "deleted" <=> ~cal[e].alive
BY DEF TypeOK, ReportOf, Current

\* A call that is over leaves nothing but the cursor and the copy.
LEMMA ForgetEffect ==
  ASSUME TypeOK, NEW c \in Clients, Forget(c), NEW d \in Clients
  PROVE  /\ d = c => /\ pc'[d] = "ready" /\ reports'[d] = Silent
                     /\ base'[d] = NoCursor /\ from'[d] = NoCursor
         /\ d # c => /\ pc'[d] = pc[d] /\ reports'[d] = reports[d] /\ rest'[d] = rest[d]
                     /\ base'[d] = base[d] /\ from'[d] = from[d] /\ asked'[d] = asked[d]
BY DEF TypeOK, Forget, Goto

\* The first page, and the cursor its listing will return.
LEMMA FirstPageEffect ==
  ASSUME TypeOK, NEW c \in Clients, ListFirstPage(c)
  PROVE  \E page \in SUBSET Delta(c) :
           /\ provider = "caldav" => page = Delta(c)
           /\ reports' = [reports EXCEPT ![c] = Reported(c, page)]
           /\ rest'[c] = Delta(c) \ page
           /\ pc'[c] = IF page = Delta(c) THEN "insert" ELSE "pages"
           /\ base' = [base EXCEPT ![c] = [at |-> edits, known |-> Versions]]
<1>1. PICK page \in SUBSET Delta(c) :
        /\ provider = "caldav" => page = Delta(c)
        /\ reports' = [reports EXCEPT ![c] = Reported(c, page)]
        /\ rest' = [rest EXCEPT ![c] = Delta(c) \ page]
        /\ Goto(c, IF page = Delta(c) THEN "insert" ELSE "pages")
  BY DEF ListFirstPage
<1>2. rest'[c] = Delta(c) \ page
  BY <1>1 DEF TypeOK
<1>3. pc'[c] = IF page = Delta(c) THEN "insert" ELSE "pages"
  BY <1>1 DEF TypeOK, Goto
<1> QED
  BY <1>1, <1>2, <1>3 DEF ListFirstPage

\* A client's call leaves those of the others alone.
LEMMA OthersStand ==
  ASSUME TypeOK, NEW c \in Clients, NEW d \in Clients, d # c, CallStep(d) \/ CallFails(d)
  PROVE  /\ pc'[c] = pc[c] /\ asked'[c] = asked[c] /\ from'[c] = from[c] /\ base'[c] = base[c]
         /\ rest'[c] = rest[c] /\ reports'[c] = reports[c]
         /\ cursor'[c] = cursor[c] /\ copy'[c] = copy[c] /\ start'[c] = start[c]
         /\ UNCHANGED <<live, account, remote>>
<1> USE DEF remote, call, client, account, TypeOK, Goto
<1>1. CASE Request(d) \/ ResolveCursor(d) \/ LoadContext(d)
  BY <1>1 DEF Request, ResolveCursor, LoadContext
<1>2. CASE ListFirstPage(d)
  BY <1>2 DEF ListFirstPage
<1>3. CASE ListRest(d)
  BY <1>3 DEF ListRest
<1>4. CASE TokenGone(d)
  BY <1>4 DEF TokenGone, Forget
<1>5. CASE SaveInsert(d) \/ SaveUpdate(d)
  BY <1>5 DEF SaveInsert, SaveUpdate
<1>6. CASE Reply(d)
  BY <1>6 DEF Reply, Forget
<1>7. CASE AccountGone(d) \/ CallFails(d)
  BY <1>7 DEF AccountGone, CallFails, Forget
<1> QED
  BY <1>1, <1>2, <1>3, <1>4, <1>5, <1>6, <1>7 DEF CallStep

LEMMA BoundedNext ==
  ASSUME SyncInv, [Next]_vars, NEW e \in Events
  PROVE  Bounded(e)'
<1>0. TypeOK /\ TypeOK' /\ Bounded(e)
  BY NextType DEF SyncInv
<1>00. /\ edits \in Nat /\ cal[e].ver \in Nat /\ cal[e].alive \in BOOLEAN
       /\ \A c \in Clients : copy[c][e] \in Nat /\ reports[c][e].ver \in Nat
       /\ \A x \in Cursors : x.at \in Int /\ x.known[e] \in Nat
       /\ stored \in Cursors
       /\ \A c \in Clients : cursor[c] \in Cursors /\ base[c] \in Cursors /\ from[c] \in Cursors
  BY <1>0 DEF TypeOK, Cursors
<1>000. Past(NoCursor, e) /\ (Past(NoCursor, e))'
  BY DEF Past
<1> USE DEF remote, call, client, account
<1>1. ASSUME UNCHANGED <<cal, edits, copy, reports, cursor, base>>, UNCHANGED <<stored, from>>
      PROVE  Bounded(e)'
  BY <1>0, <1>1 DEF Bounded, Past
<1>2. ASSUME NEW f \in Events, Edit(f) PROVE Bounded(e)'
  <2>1. PICK alive : cal' = [cal EXCEPT ![f] = [ver |-> edits + 1, alive |-> alive]]
    BY <1>2 DEF Edit
  <2>2. edits' = edits + 1 /\ UNCHANGED <<copy, reports, cursor, base, from, stored>>
    BY <1>2 DEF Edit
  <2>3. cal'[e] = cal[e] \/ cal'[e].ver = edits + 1
    BY <1>0, <2>1 DEF TypeOK
  <2>4. \A x \in Cursors : Past(x, e) => (x = NoCursor \/ (x.known[e] <= x.at /\ x.at <= edits + 1))
    BY <1>00 DEF Past
  <2>5. /\ cal'[e].ver <= edits' /\ (cal'[e].alive => cal'[e].ver > 0)
        /\ \A c \in Clients : copy'[c][e] <= cal'[e].ver /\ reports'[c][e].ver <= cal'[e].ver
    BY <1>0, <1>00, <2>2, <2>3 DEF Bounded
  <2>6. /\ Past(stored, e)'
        /\ \A c \in Clients : Past(cursor[c], e)' /\ Past(base[c], e)' /\ Past(from[c], e)'
    BY <1>0, <1>00, <2>2, <2>4 DEF Bounded, Past
  <2> QED
    BY <2>5, <2>6 DEF Bounded
<1>3. ASSUME NEW c \in Clients, Forget(c), UNCHANGED <<cal, edits, copy, cursor, stored>>
      PROVE  Bounded(e)'
  <2>1. \A d \in Clients :
          /\ reports'[d] = reports[d] \/ reports'[d] = Silent
          /\ base'[d] = base[d] \/ base'[d] = NoCursor
          /\ from'[d] = from[d] \/ from'[d] = NoCursor
    BY <1>0, <1>3, ForgetEffect
  <2>2. \A d \in Clients : reports'[d][e].ver <= cal[e].ver
    BY <1>0, <1>00, <2>1, Nothing DEF Bounded
  <2>3. \A d \in Clients : Past(base[d], e)' /\ Past(from[d], e)' /\ Past(cursor[d], e)'
    BY <1>0, <1>000, <1>3, <2>1 DEF Bounded, Past
  <2> QED
    BY <1>0, <1>3, <2>2, <2>3 DEF Bounded, Past
<1>4. ASSUME NEW c \in Clients, NEW es, reports' = [reports EXCEPT ![c] = Reported(c, es)],
             NEW d \in Clients
      PROVE  reports'[d][e].ver <= cal[e].ver
  <2>1. CASE d = c
    <3>1. reports'[d] = Reported(c, es)
      BY <1>0, <1>4, <2>1 DEF TypeOK
    <3>2. reports'[d][e] \in {ReportOf(c, e), reports[c][e]}
      BY <3>1 DEF Reported
    <3>3. ReportOf(c, e).ver = Current(e)
      BY <1>0, ReportEffect
    <3> QED
      BY <1>0, <1>00, <3>2, <3>3 DEF Bounded, Current
  <2>2. CASE d # c
    <3>1. reports'[d] = reports[d]
      BY <1>0, <1>4, <2>2 DEF TypeOK
    <3> QED
      BY <1>0, <3>1 DEF Bounded
  <2> QED
    BY <2>1, <2>2
<1>5. ASSUME NEW c \in Clients, ListFirstPage(c) PROVE Bounded(e)'
  <2>1. PICK page : /\ reports' = [reports EXCEPT ![c] = Reported(c, page)]
                    /\ base' = [base EXCEPT ![c] = [at |-> edits, known |-> Versions]]
    BY <1>0, <1>5, FirstPageEffect
  <2>2. UNCHANGED <<cal, edits, copy, cursor, from, stored>>
    BY <1>5 DEF ListFirstPage
  <2>3. \A d \in Clients : reports'[d][e].ver <= cal[e].ver
    BY <1>4, <2>1
  <2>4. ASSUME NEW d \in Clients PROVE Past(base[d], e)'
    <3>1. CASE d = c
      <4>1. base'[d].at = edits /\ base'[d].known = Versions
        BY <1>0, <2>1, <3>1 DEF TypeOK
      <4>2. Versions[e] = Version(e) /\ Version(e) <= edits
        BY <1>0, <1>00 DEF Versions, Version, Bounded
      <4> QED
        BY <1>00, <2>2, <4>1, <4>2 DEF Past
    <3>2. CASE d # c
      <4>1. base'[d] = base[d]
        BY <1>0, <2>1, <3>2 DEF TypeOK
      <4> QED
        BY <1>0, <2>2, <4>1 DEF Bounded, Past
    <3> QED
      BY <3>1, <3>2
  <2>5. \A d \in Clients : Past(from[d], e)' /\ Past(cursor[d], e)'
    BY <1>0, <2>2 DEF Bounded, Past
  <2> QED
    BY <1>0, <2>2, <2>3, <2>4, <2>5 DEF Bounded, Past
<1>6. ASSUME NEW c \in Clients, ListRest(c) PROVE Bounded(e)'
  <2>1. /\ reports' = [reports EXCEPT ![c] = Reported(c, rest[c])]
        /\ UNCHANGED <<cal, edits, copy, cursor, base, from, stored>>
    BY <1>6 DEF ListRest
  <2>2. \A d \in Clients : reports'[d][e].ver <= cal[e].ver
    BY <1>4, <2>1
  <2> QED
    BY <1>0, <2>1, <2>2 DEF Bounded, Past
<1>7. ASSUME NEW c \in Clients, TokenGone(c) PROVE Bounded(e)'
  <2>1. CASE provider = "google"
    <3>1. /\ reports' = [reports EXCEPT ![c] = Silent] /\ from' = [from EXCEPT ![c] = NoCursor]
          /\ UNCHANGED <<cal, edits, copy, cursor, base, stored>>
      BY <1>7, <2>1 DEF TokenGone
    <3>2. \A d \in Clients : /\ reports'[d] = reports[d] \/ reports'[d] = Silent
                             /\ from'[d] = from[d] \/ from'[d] = NoCursor
      BY <1>0, <3>1 DEF TypeOK
    <3>3. \A d \in Clients : reports'[d][e].ver <= cal[e].ver
      BY <1>0, <1>00, <3>2, Nothing DEF Bounded
    <3>4. \A d \in Clients : Past(base[d], e)' /\ Past(from[d], e)' /\ Past(cursor[d], e)'
      BY <1>0, <1>000, <3>1, <3>2 DEF Bounded, Past
    <3> QED
      BY <1>0, <3>1, <3>3, <3>4 DEF Bounded, Past
  <2>2. CASE provider # "google"
    BY <1>3, <1>7, <2>2 DEF TokenGone
  <2> QED
    BY <2>1, <2>2
<1>8. ASSUME NEW c \in Clients, Reply(c) PROVE Bounded(e)'
  <2>1. /\ copy' = [copy EXCEPT ![c] = [f \in Events |-> Applied(c, f)]]
        /\ cursor' = [cursor EXCEPT ![c] = base[c]]
        /\ Forget(c) /\ UNCHANGED <<cal, edits, stored>>
    BY <1>8 DEF Reply
  <2>2. Applied(c, e) <= cal[e].ver
    BY <1>0, <1>00 DEF Applied, Bounded
  <2>3. \A d \in Clients : copy'[d][e] = copy[d][e] \/ copy'[d][e] = Applied(c, e)
    BY <1>0, <2>1 DEF TypeOK
  <2>4. \A d \in Clients : cursor'[d] = cursor[d] \/ cursor'[d] = base[c]
    BY <1>0, <2>1 DEF TypeOK
  <2>5. \A d \in Clients : /\ reports'[d] = reports[d] \/ reports'[d] = Silent
                           /\ base'[d] = base[d] \/ base'[d] = NoCursor
                           /\ from'[d] = from[d] \/ from'[d] = NoCursor
    BY <1>0, <2>1, ForgetEffect
  <2>6. \A d \in Clients : copy'[d][e] <= cal[e].ver /\ reports'[d][e].ver <= cal[e].ver
    BY <1>0, <1>00, <2>2, <2>3, <2>5, Nothing DEF Bounded
  <2>7. \A d \in Clients : Past(base[d], e)' /\ Past(from[d], e)' /\ Past(cursor[d], e)'
    BY <1>0, <1>000, <2>1, <2>4, <2>5 DEF Bounded, Past
  <2> QED
    BY <1>0, <2>1, <2>6, <2>7 DEF Bounded, Past
<1>9. ASSUME NEW c \in Clients, UNCHANGED <<cal, edits, copy, reports, cursor, base>>,
             stored' \in {stored, NoCursor, base[c]},
             \A d \in Clients : from'[d] \in {from[d], cursor[d], stored}
      PROVE  Bounded(e)'
  <2>1. Past(stored, e)'
    BY <1>0, <1>000, <1>9 DEF Bounded, Past
  <2>2. \A d \in Clients : Past(from[d], e)'
    BY <1>0, <1>9 DEF Bounded, Past
  <2>3. \A d \in Clients : Past(base[d], e)' /\ Past(cursor[d], e)'
    BY <1>0, <1>9 DEF Bounded, Past
  <2> QED
    BY <1>0, <1>9, <2>1, <2>2, <2>3 DEF Bounded
<1>10. ASSUME NEW c \in Clients, Request(c) PROVE Bounded(e)'
  <2>1. \A d \in Clients : from'[d] \in {from[d], cursor[d], stored}
    BY <1>0, <1>10 DEF Request, TypeOK
  <2>2. UNCHANGED <<cal, edits, copy, reports, cursor, base>> /\ stored' = stored
    BY <1>10 DEF Request
  <2> QED
    BY <1>9, <2>1, <2>2
<1>11. ASSUME NEW c \in Clients, ResolveCursor(c) PROVE Bounded(e)'
  <2>1. \A d \in Clients : from'[d] \in {from[d], cursor[d], stored}
    BY <1>0, <1>11 DEF ResolveCursor, TypeOK
  <2>2. UNCHANGED <<cal, edits, copy, reports, cursor, base>> /\ stored' = stored
    BY <1>11 DEF ResolveCursor
  <2> QED
    BY <1>9, <2>1, <2>2
<1>12. ASSUME NEW c \in Clients, SaveInsert(c) \/ SaveUpdate(c) PROVE Bounded(e)'
  <2>1. UNCHANGED <<cal, edits, copy, reports, cursor, base, from>> /\ stored' \in {stored, NoCursor, base[c]}
    BY <1>12 DEF SaveInsert, SaveUpdate
  <2> QED
    BY <1>9, <2>1
<1>13. ASSUME DeleteAccount PROVE Bounded(e)'
  BY <1>0, <1>000, <1>13 DEF DeleteAccount, Bounded, Past
<1>14. \/ UNCHANGED <<cal, edits, copy, reports, cursor, base>> /\ UNCHANGED <<stored, from>>
       \/ DeleteAccount
       \/ \E f \in Events : Edit(f)
       \/ \E c \in Clients : Forget(c) /\ UNCHANGED <<cal, edits, copy, cursor, stored>>
       \/ \E c \in Clients : \/ ListFirstPage(c) \/ ListRest(c) \/ TokenGone(c) \/ Reply(c)
                             \/ Request(c) \/ ResolveCursor(c) \/ SaveInsert(c) \/ SaveUpdate(c)
  BY DEF Next, CallStep, ForgetOldCursors, LoadContext, AccountGone, CallFails, vars
<1> QED
  BY <1>1, <1>2, <1>3, <1>5, <1>6, <1>7, <1>8, <1>10, <1>11, <1>12, <1>13, <1>14

LEMMA StandingNext ==
  ASSUME SyncInv, [Next]_vars, NEW c \in Clients
  PROVE  Standing(c)'
<1>0. TypeOK /\ TypeOK' /\ Standing(c)
  BY NextType DEF SyncInv
<1>00. edits \in Nat /\ NoCursor.at = -1
  BY <1>0 DEF TypeOK, NoCursor
<1> USE DEF remote, call, client, account
<1>1. ASSUME /\ cursor'[c] = cursor[c] /\ copy'[c] = copy[c] /\ pc'[c] = pc[c]
             /\ asked'[c] = asked[c] /\ from'[c] = from[c] /\ base'[c] = base[c]
             /\ reports'[c] = reports[c] /\ provider' = provider
      PROVE  Standing(c)'
  BY <1>0, <1>1 DEF Standing
<1>3. ASSUME Request(c) PROVE Standing(c)'
  BY <1>0, <1>3 DEF Request, Standing, Goto, TypeOK
<1>4. ASSUME ResolveCursor(c) PROVE Standing(c)'
  <2>1. asked[c] = NoCursor
    BY <1>0, <1>4 DEF ResolveCursor, Standing
  <2> QED
    BY <1>0, <1>4, <2>1 DEF ResolveCursor, Standing, Goto, TypeOK
<1>5. ASSUME LoadContext(c) PROVE Standing(c)'
  BY <1>0, <1>5 DEF LoadContext, Standing, Goto, TypeOK
<1>6. ASSUME ListFirstPage(c) PROVE Standing(c)'
  <2>1. PICK page : /\ provider = "caldav" => page = Delta(c)
                    /\ pc'[c] = IF page = Delta(c) THEN "insert" ELSE "pages"
                    /\ base' = [base EXCEPT ![c] = [at |-> edits, known |-> Versions]]
    BY <1>0, <1>6, FirstPageEffect
  <2>2. base'[c].at >= 0
    BY <1>0, <1>00, <2>1 DEF TypeOK
  <2>3. UNCHANGED <<cursor, copy, stored, asked, from, provider>> /\ pc[c] = "list"
    BY <1>6 DEF ListFirstPage
  <2> QED
    BY <1>0, <2>1, <2>2, <2>3 DEF Standing
<1>7. ASSUME ListRest(c) PROVE Standing(c)'
  BY <1>0, <1>7 DEF ListRest, Standing, Goto, TypeOK
<1>8. ASSUME Forget(c), UNCHANGED <<cursor, copy, provider>>
      PROVE  Standing(c)'
  <2>1. pc'[c] = "ready" /\ reports'[c] = Silent
    BY <1>0, <1>8, ForgetEffect
  <2> QED
    BY <1>0, <1>8, <2>1 DEF Standing
<1>9. ASSUME TokenGone(c) PROVE Standing(c)'
  <2>1. CASE provider = "google"
    <3>1. /\ from'[c] = NoCursor /\ reports'[c] = Silent /\ pc'[c] = "list"
          /\ UNCHANGED <<cursor, copy, stored, provider, asked, base>>
          /\ pc[c] \in {"list", "pages"}
      BY <1>0, <1>9, <2>1 DEF TokenGone, Goto, TypeOK
    <3> QED
      BY <1>0, <2>1, <3>1 DEF Standing
  <2>2. CASE provider # "google"
    BY <1>8, <1>9, <2>2 DEF TokenGone
  <2> QED
    BY <2>1, <2>2
<1>10. ASSUME SaveInsert(c) PROVE Standing(c)'
  BY <1>0, <1>10 DEF SaveInsert, Standing, Goto, TypeOK
<1>11. ASSUME SaveUpdate(c) PROVE Standing(c)'
  BY <1>0, <1>11 DEF SaveUpdate, Standing, Goto, TypeOK
<1>12. ASSUME Reply(c) PROVE Standing(c)'
  <2>1. pc'[c] = "ready" /\ reports'[c] = Silent
    BY <1>0, <1>12, ForgetEffect DEF Reply
  <2>2. cursor'[c] = base[c] /\ base[c].at >= 0 /\ UNCHANGED <<stored, provider>>
    BY <1>0, <1>12 DEF Reply, Standing, TypeOK
  <2>3. cursor'[c] # NoCursor
    BY <1>00, <2>2
  <2> QED
    BY <2>1, <2>3 DEF Standing
<1>13. ASSUME AccountGone(c) \/ CallFails(c) PROVE Standing(c)'
  BY <1>8, <1>13 DEF AccountGone, CallFails
<1>14. ASSUME NEW d \in Clients, d # c, CallStep(d) \/ CallFails(d) PROVE Standing(c)'
  BY <1>0, <1>1, <1>14, OthersStand
<1>15. \/ UNCHANGED <<cursor, copy, pc, asked, from, base, reports, provider>>
       \/ \E d \in Clients : CallStep(d) \/ CallFails(d)
  BY DEF Next, Edit, ForgetOldCursors, DeleteAccount, vars
<1>16. ASSUME UNCHANGED <<cursor, copy, pc, asked, from, base, reports, provider>>
       PROVE  Standing(c)'
  BY <1>1, <1>16
<1> QED
  BY <1>3, <1>4, <1>5, <1>6, <1>7, <1>9, <1>10, <1>11, <1>12, <1>13, <1>14, <1>15, <1>16
     DEF CallStep

\* Nothing is up to date of an event that has just changed, and what was sound of
\* the others is sound still.
LEMMA EditKeepsSound ==
  ASSUME TypeOK, NEW f \in Events, Edit(f), NEW e \in Events,
         NEW k \in Nat, k <= edits, NEW v, NEW n, Sound(k, v, n, e)
  PROVE  Sound(k, v, n, e)'
<1>1. PICK alive : cal' = [cal EXCEPT ![f] = [ver |-> edits + 1, alive |-> alive]]
  BY DEF Edit
<1>2. UNCHANGED <<provider, listed>>
  BY DEF Edit, account
<1>3. CASE e = f
  <2>1. cal'[e].ver = edits + 1
    BY <1>1, <1>3 DEF TypeOK
  <2>2. k # edits + 1
    BY DEF TypeOK
  <2> QED
    BY <1>2, <2>1, <2>2 DEF Sound, Version
<1>4. CASE e # f
  <2>1. cal'[e] = cal[e]
    BY <1>1, <1>4 DEF TypeOK
  <2> QED
    BY <1>2, <2>1 DEF Sound, Version, Current
<1> QED
  BY <1>3, <1>4

\* What a cursor knows is the version of no edit to come.
LEMMA KnownBounded ==
  ASSUME SyncInv, NEW c \in Clients, NEW e \in Events
  PROVE  /\ cursor[c].known[e] \in Nat /\ cursor[c].known[e] <= edits
         /\ base[c].known[e] \in Nat /\ base[c].known[e] <= edits
<1>1. /\ \A x \in Cursors : x.at \in Int /\ x.known[e] \in Nat
      /\ cursor[c] \in Cursors /\ base[c] \in Cursors /\ edits \in Nat
  BY DEF SyncInv, TypeOK, Cursors
<1>2. Past(cursor[c], e) /\ Past(base[c], e)
  BY DEF SyncInv, Bounded
<1>3. \A x \in Cursors : Past(x, e) => x.known[e] <= edits
  BY <1>1, Nothing DEF Past
<1> QED
  BY <1>1, <1>2, <1>3

\* What a listing says nothing of is as the copy has it, or changed before the copy
\* began: nothing happened to it since the cursor the listing starts from, or it is
\* not there and never was.
LEMMA SilenceIsSound ==
  ASSUME TombstonesKept, SyncInv, NEW c \in Clients, NEW e \in Events, pc[c] = "list",
         e \notin Delta(c)
  PROVE  (listed /\ cal[e].ver > Start(c) /\ (provider = "caldav" => cal[e].alive))
           => copy[c][e] = Current(e)
<1> SUFFICES ASSUME listed, cal[e].ver > Start(c), provider = "caldav" => cal[e].alive
             PROVE  copy[c][e] = Current(e)
  OBVIOUS
<1>0. TypeOK /\ Bounded(e) /\ Standing(c) /\ Knows(c, e)
  BY DEF SyncInv
<1>1. /\ cal[e].ver \in Nat /\ copy[c][e] \in Nat
      /\ from[c].known[e] \in Nat /\ from[c].at \in Int
      /\ NoCursor.known[e] = 0 /\ NoVersions[e] = 0
  BY <1>0, Nothing DEF TypeOK, Cursors
<1>2. Version(e) = cal[e].ver
  BY DEF Version
<1>3. asked[c] = cursor[c]
  BY <1>0 DEF Standing
<1>4. CASE from[c] = NoCursor
  <2>1. cal[e].ver = 0 \/ (~cal[e].alive /\ provider # "google")
    BY <1>1, <1>2, <1>4 DEF Delta
  <2>2. CASE cal[e].ver = 0
    BY <1>0, <1>1, <2>2 DEF Bounded, Current
  <2>3. CASE ~cal[e].alive /\ provider # "google"
    <3>1. cursor[c] = NoCursor
      BY <1>0, <1>3, <1>4, <2>3 DEF Standing
    <3> QED
      BY <1>0, <1>1, <2>3, <3>1 DEF Standing, Current
  <2> QED
    BY <2>1, <2>2, <2>3
<1>5. CASE from[c] # NoCursor /\ asked[c] = NoCursor
  <2>1. cal[e].ver = from[c].known[e]
    BY <1>2, <1>5 DEF Delta
  <2>2. from[c].known[e] <= from[c].at
    BY <1>0, <1>5 DEF Bounded, Past
  <2>3. cal[e].ver > from[c].at
    BY <1>5 DEF Start
  <2> QED
    BY <1>1, <2>1, <2>2, <2>3
<1>6. CASE from[c] # NoCursor /\ asked[c] # NoCursor
  <2>1. from[c] = cursor[c] /\ Start(c) = start[c]
    BY <1>0, <1>6 DEF Standing, Start
  <2>2. Version(e) = from[c].known[e]
    BY <1>6 DEF Delta
  <2> QED
    BY <1>0, <2>1, <2>2 DEF Knows, Sound
<1> QED
  BY <1>4, <1>5, <1>6

LEMMA KnowsNext ==
  ASSUME TombstonesKept, SyncInv, [Next]_vars, NEW c \in Clients, NEW e \in Events
  PROVE  Knows(c, e)'
<1>0. TypeOK /\ TypeOK' /\ Bounded(e) /\ Standing(c) /\ Knows(c, e)
  BY NextType DEF SyncInv
<1>00. Silent[e].type = "none" /\ Versions[e] = Version(e)
  BY Nothing DEF Versions
<1>000. /\ cursor[c].known[e] \in Nat /\ cursor[c].known[e] <= edits
        /\ base[c].known[e] \in Nat /\ base[c].known[e] <= edits
  BY KnownBounded
<1> USE DEF remote, call, client, account
\* Nothing of the calendar and of this client's call changes.
<1>1. ASSUME UNCHANGED <<provider, listed, cal>>,
             /\ cursor'[c] = cursor[c] /\ copy'[c] = copy[c] /\ start'[c] = start[c]
             /\ base'[c] = base[c] /\ reports'[c] = reports[c],
             HasListed(c, e)' => HasListed(c, e) /\ from'[c] = from[c] /\ asked'[c] = asked[c]
      PROVE  Knows(c, e)'
  <2>1. Sound(cursor[c].known[e], copy[c][e], start[c], e)'
    BY <1>0, <1>1 DEF Knows, Sound, Version, Current
  <2>2. ASSUME HasListed(c, e)' PROVE Sound(base[c].known[e], Applied(c, e), Start(c), e)'
    <3>1. Start(c)' = Start(c) /\ Applied(c, e)' = Applied(c, e)
      BY <1>1, <2>2 DEF Start, Applied
    <3>2. Sound(base[c].known[e], Applied(c, e), Start(c), e)
      BY <1>0, <1>1, <2>2 DEF Knows
    <3> QED
      BY <1>1, <3>1, <3>2 DEF Sound, Version, Current
  <2> QED
    BY <2>1, <2>2 DEF Knows
<1>2. ASSUME NEW f \in Events, Edit(f) PROVE Knows(c, e)'
  <2>1. UNCHANGED <<provider, pc, cursor, copy, start, asked, from, base, reports, rest>>
    BY <1>2 DEF Edit
  <2>2. Sound(cursor[c].known[e], copy[c][e], start[c], e)'
    BY <1>0, <1>000, <1>2, <2>1, EditKeepsSound DEF Knows
  <2>3. ASSUME HasListed(c, e) PROVE Sound(base[c].known[e], Applied(c, e), Start(c), e)'
    <3>1. Applied(c, e)' = Applied(c, e) /\ Start(c)' = Start(c)
      BY <2>1 DEF Applied, Start
    <3>2. Sound(base[c].known[e], Applied(c, e), Start(c), e)
      BY <1>0, <2>3 DEF Knows
    <3> QED
      BY <1>0, <1>000, <1>2, <2>1, <3>1, <3>2, EditKeepsSound
  <2> QED
    BY <2>1, <2>2, <2>3 DEF Knows, HasListed
\* The copy is the same and no page is listed.
<1>3. ASSUME UNCHANGED <<provider, listed, cal>>,
             cursor'[c] = cursor[c] /\ copy'[c] = copy[c] /\ start'[c] = start[c],
             ~HasListed(c, e)'
      PROVE  Knows(c, e)'
  BY <1>0, <1>3 DEF Knows, Sound, Version, Current
<1>4. ASSUME UNCHANGED <<provider, listed, cal, cursor, copy, start>>,
             Sound(base'[c].known[e], Applied(c, e)', Start(c)', e)
      PROVE  Knows(c, e)'
  BY <1>0, <1>4 DEF Knows, Sound, Version, Current
<1>5. ASSUME UNCHANGED <<provider, listed, cal, copy>>, reports'[c][e] = ReportOf(c, e)
      PROVE  \A k, n : Sound(k, Applied(c, e)', n, e)
  <2>1. /\ ReportOf(c, e).ver = Current(e) /\ ReportOf(c, e).type # "none"
        /\ ReportOf(c, e).type = "deleted" <=> ~cal[e].alive
    BY <1>0, ReportEffect
  <2> QED
    BY <1>0, <1>5, <2>1 DEF Sound, Applied, Current
<1>6. ASSUME ListFirstPage(c) PROVE Knows(c, e)'
  <2>1. PICK page \in SUBSET Delta(c) :
          /\ reports' = [reports EXCEPT ![c] = Reported(c, page)]
          /\ rest'[c] = Delta(c) \ page
          /\ pc'[c] = IF page = Delta(c) THEN "insert" ELSE "pages"
          /\ base' = [base EXCEPT ![c] = [at |-> edits, known |-> Versions]]
    BY <1>0, <1>6, FirstPageEffect
  <2>2. UNCHANGED <<provider, listed, cal, cursor, copy, start, asked, from>> /\ pc[c] = "list"
    BY <1>6 DEF ListFirstPage
  <2>3. base'[c].known[e] = Version(e) /\ Start(c)' = Start(c)
    BY <1>0, <1>00, <2>1, <2>2 DEF TypeOK, Start
  <2>0. reports'[c][e] = IF e \in page THEN ReportOf(c, e) ELSE reports[c][e]
    <3>1. reports'[c] = Reported(c, page)
      BY <1>0, <2>1 DEF TypeOK
    <3> QED
      BY <3>1 DEF Reported
  <2>4. CASE e \in page
    BY <1>4, <1>5, <2>0, <2>2, <2>4
  <2>5. CASE e \notin Delta(c)
    <3>1. reports'[c][e] = reports[c][e] /\ reports[c] = Silent
      BY <1>0, <2>0, <2>1, <2>2, <2>5 DEF Standing
    <3>2. Applied(c, e)' = copy[c][e]
      BY <1>00, <2>2, <3>1 DEF Applied
    <3>3. Sound(base'[c].known[e], Applied(c, e)', Start(c)', e)
      BY <2>2, <2>3, <2>5, <3>2, SilenceIsSound DEF Sound
    <3> QED
      BY <1>4, <2>2, <3>3
  <2>6. CASE e \in Delta(c) \ page
    <3>1. ~HasListed(c, e)'
      BY <2>1, <2>6 DEF HasListed
    <3> QED
      BY <1>3, <2>2, <3>1
  <2> QED
    BY <2>4, <2>5, <2>6
<1>7. ASSUME ListRest(c) PROVE Knows(c, e)'
  <2>1. /\ reports' = [reports EXCEPT ![c] = Reported(c, rest[c])]
        /\ UNCHANGED <<provider, listed, cal, cursor, copy, start, base, asked, from>>
        /\ pc[c] = "pages"
    BY <1>7 DEF ListRest
  <2>0. reports'[c][e] = IF e \in rest[c] THEN ReportOf(c, e) ELSE reports[c][e]
    <3>1. reports'[c] = Reported(c, rest[c])
      BY <1>0, <2>1 DEF TypeOK
    <3> QED
      BY <3>1 DEF Reported
  <2>2. CASE e \in rest[c]
    BY <1>4, <1>5, <2>0, <2>1, <2>2
  <2>3. CASE e \notin rest[c]
    <3>1. reports'[c][e] = reports[c][e]
      BY <2>0, <2>3
    <3>2. Applied(c, e)' = Applied(c, e) /\ Start(c)' = Start(c)
      BY <2>1, <3>1 DEF Applied, Start
    <3>3. Sound(base[c].known[e], Applied(c, e), Start(c), e)
      BY <1>0, <2>1, <2>3 DEF Knows, HasListed
    <3> QED
      BY <1>4, <2>1, <3>2, <3>3
  <2> QED
    BY <2>2, <2>3
<1>8. ASSUME UNCHANGED <<provider, listed, cal, cursor, copy, start>>,
             pc'[c] \in {"ready", "list"}
      PROVE  Knows(c, e)'
  BY <1>3, <1>8 DEF HasListed
<1>9. ASSUME TokenGone(c) \/ AccountGone(c) \/ CallFails(c) PROVE Knows(c, e)'
  BY <1>0, <1>8, <1>9 DEF TokenGone, AccountGone, CallFails, Forget, Goto, TypeOK
<1>10. ASSUME Reply(c) PROVE Knows(c, e)'
  <2>1. /\ copy'[c][e] = Applied(c, e) /\ cursor'[c] = base[c] /\ pc'[c] = "ready"
        /\ start'[c] = Start(c)
        /\ UNCHANGED <<provider, listed, cal>> /\ pc[c] = "reply"
    BY <1>0, <1>10 DEF Reply, Forget, Goto, TypeOK
  <2>2. Sound(base[c].known[e], Applied(c, e), Start(c), e)
    BY <1>0, <2>1 DEF Knows, HasListed
  <2>3. ~HasListed(c, e)'
    BY <2>1 DEF HasListed
  <2> QED
    BY <2>1, <2>2, <2>3 DEF Knows, Sound, Version, Current
<1>11. ASSUME SaveInsert(c) \/ SaveUpdate(c) PROVE Knows(c, e)'
  <2>1. HasListed(c, e)
    BY <1>11 DEF SaveInsert, SaveUpdate, HasListed
  <2>2. UNCHANGED <<provider, listed, cal, cursor, copy, start, base, reports, from, asked>>
    BY <1>11 DEF SaveInsert, SaveUpdate
  <2> QED
    BY <1>1, <2>1, <2>2
<1>12. ASSUME Request(c) \/ ResolveCursor(c) \/ LoadContext(c) PROVE Knows(c, e)'
  <2>1. ~HasListed(c, e)'
    BY <1>0, <1>12 DEF Request, ResolveCursor, LoadContext, HasListed, Goto, TypeOK
  <2>2. UNCHANGED <<provider, listed, cal, cursor, copy, start>>
    BY <1>12 DEF Request, ResolveCursor, LoadContext
  <2> QED
    BY <1>3, <2>1, <2>2
<1>13. ASSUME DeleteAccount \/ ForgetOldCursors \/ UNCHANGED vars PROVE Knows(c, e)'
  <2>1. UNCHANGED <<provider, listed, cal, client, call>>
    BY <1>13 DEF DeleteAccount, ForgetOldCursors, vars
  <2> QED
    BY <1>1, <2>1 DEF HasListed
<1>14. ASSUME NEW d \in Clients, d # c, CallStep(d) \/ CallFails(d) PROVE Knows(c, e)'
  <2>1. /\ pc'[c] = pc[c] /\ asked'[c] = asked[c] /\ from'[c] = from[c] /\ base'[c] = base[c]
        /\ rest'[c] = rest[c] /\ reports'[c] = reports[c]
        /\ cursor'[c] = cursor[c] /\ copy'[c] = copy[c] /\ start'[c] = start[c]
        /\ UNCHANGED <<provider, listed, cal>>
    BY <1>0, <1>14, OthersStand
  <2> QED
    BY <1>1, <2>1 DEF HasListed
<1> QED
  BY <1>2, <1>6, <1>7, <1>9, <1>10, <1>11, <1>12, <1>13, <1>14 DEF Next, CallStep

\* A client that keeps its cursor misses no change it is owed, whatever other
\* clients do and through any number of pages, failing calls, lost replies and
\* forgotten cursors, as long as full Google listings show what was deleted.
THEOREM NothingIsMissed == ASSUME TombstonesKept PROVE Spec => []NothingMissed
<1>1. ASSUME Init PROVE SyncInv
  <2>1. TypeOK
    BY <1>1, InitType
  <2>2. ASSUME NEW e \in Events PROVE Bounded(e)
    <3>1. cal[e].ver = 0 /\ ~cal[e].alive /\ edits = 0 /\ stored = NoCursor
      BY <1>1 DEF Init
    <3>2. ASSUME NEW c \in Clients
          PROVE  /\ copy[c][e] = 0 /\ reports[c][e].ver = 0
                 /\ cursor[c] = NoCursor /\ base[c] = NoCursor /\ from[c] = NoCursor
      BY <1>1, Nothing DEF Init
    <3>3. cal[e].ver <= edits /\ (cal[e].alive => cal[e].ver > 0)
      BY <3>1
    <3>4. ASSUME NEW c \in Clients
          PROVE  copy[c][e] <= cal[e].ver /\ reports[c][e].ver <= cal[e].ver
      BY <3>1, <3>2
    <3> QED
      BY <3>1, <3>2, <3>3, <3>4 DEF Bounded, Past
  <2>3. \A c \in Clients : Standing(c)
    BY <1>1 DEF Init, Standing
  <2>4. \A c \in Clients, e \in Events : Knows(c, e)
    BY <1>1, Nothing DEF Init, Knows, Sound, HasListed, Current
  <2> QED
    BY <2>1, <2>2, <2>3, <2>4 DEF SyncInv
<1>2. ASSUME SyncInv, [Next]_vars PROVE SyncInv'
  BY <1>2, NextType, BoundedNext, StandingNext, KnowsNext DEF SyncInv
<1>3. SyncInv => NothingMissed
  BY DEF SyncInv, Knows, Sound, Owed, NothingMissed
<1> QED
  BY <1>1, <1>2, <1>3, PTL DEF Spec
===============================================================================
