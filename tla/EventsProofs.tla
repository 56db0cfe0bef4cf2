----------------------------- MODULE EventsProofs -----------------------------
(***************************************************************************)
(* Theorems about Events, for any number of requests, events, attempts,    *)
(* foreign edits and faults: a create makes no more events than it has     *)
(* calls without an answer, and one; a field changes only by who named it; *)
(* a CalDAV object is written only by who has found its last version; and  *)
(* an event whose state the answers determine is what they told of it.     *)
(***************************************************************************)
EXTENDS Events, FiniteSetTheorems, TLAPS

-----------------------------------------------------------------------------
(* The invariant *)

Names == {"op", "id", "names", "at", "attempt", "read", "etag"}
DavSteps == Serving \ {"call"}

\* As much of the types as the rest needs.
IsReq(q) ==
  /\ q = [f \in Names |-> q[f]]
  /\ q.op \in Ops /\ q.attempt \in 1 .. MaxAttempts
  /\ q.at \in Serving \cup Ended \cup {"unsent"}
Shape ==
  /\ cal = [p \in Places |-> cal[p]]
  /\ version \in [Places -> Nat] /\ lost \in [Requests -> Nat] /\ edits \in Nat
  /\ req = [r \in Requests |-> req[r]]
  /\ \A r \in Requests : IsReq(req[r])

\* Where a request can be: one call at Google and Microsoft, several steps on CalDAV.  A
\* create finds no object, and takes another attempt only for a call without an answer.
OnItsWay(r) ==
  /\ req[r].at = "unsent" => req[r].op = "read"
  /\ req[r].at = "call" => provider # "caldav"
  /\ req[r].at \in DavSteps => provider = "caldav"
  /\ req[r].op = "create" =>
       /\ req[r].etag = 0 /\ req[r].at \notin {"read", "find", "remove"}
       /\ req[r].attempt <= 1 + lost[r]
       /\ req[r].at = "ok" => req[r].id = IdOf(r)

\* A request other than a create is about an event that some client was told of.
NamesKnown(r) == req[r].op # "create" /\ req[r].at # "unsent" => req[r].id \in Known

\* Request r has come to make its n-th event.
Made(r, n) ==
  /\ req[r].op = "create" /\ req[r].at # "unsent"
  /\ n < req[r].attempt \/ (n = req[r].attempt /\ req[r].at # "call")

\* An event that is there, or once was, was made by its create: before its call a create
\* finds nothing in its place, and nobody else puts an event there first.
MadeByCreate(r) ==
  \A n \in 1 .. MaxAttempts :
    There(Place(<<r, n>>)) \/ version[Place(<<r, n>>)] > 1 => Made(r, n)

EInv == Shape /\ \A r \in Requests : OnItsWay(r) /\ NamesKnown(r) /\ MadeByCreate(r)

-----------------------------------------------------------------------------
(* What a step does to its request *)

\* Only request r changes, and it remains the same operation with the same fields.
Moved(r) ==
  /\ req' = [o \in Requests |-> req'[o]]
  /\ \A o \in Requests \ {r} : req'[o] = req[o]
  /\ IsReq(req'[r]) /\ req'[r].op = req[r].op /\ req'[r].names = req[r].names

LEMMA AnswerIs ==
  ASSUME Shape, NEW r \in Requests, NEW outcome \in Ended, Answer(r, outcome)
  PROVE  /\ Moved(r) /\ req'[r].at = outcome /\ req'[r].id = IdOf(r)
         /\ req'[r].attempt = req[r].attempt /\ req'[r].etag = req[r].etag
<1>1. IsReq(req[r]) /\ req = [o \in Requests |-> req[o]]
  BY DEF Shape
<1>2. req' = [req EXCEPT ![r] = [req[r] EXCEPT !.at = outcome, !.id = IdOf(r)]]
  BY <1>1 DEF Answer
<1>3. req'[r] = [req[r] EXCEPT !.at = outcome, !.id = IdOf(r)]
  BY <1>1, <1>2
<1>4. /\ IsReq(req'[r]) /\ req'[r].op = req[r].op /\ req'[r].at = outcome /\ req'[r].id = IdOf(r)
      /\ req'[r].attempt = req[r].attempt /\ req'[r].etag = req[r].etag
      /\ req'[r].names = req[r].names
  BY <1>1, <1>3 DEF IsReq, Names
<1>5. /\ req' = [o \in Requests |-> req'[o]]
      /\ \A o \in Requests \ {r} : req'[o] = req[o]
  BY <1>1, <1>2
<1> QED BY <1>4, <1>5 DEF Moved

LEMMA AgainIs ==
  ASSUME Shape, NEW r \in Requests, Again(r)
  PROVE  /\ Moved(r) /\ req'[r].etag = req[r].etag
         /\ \/ /\ req'[r].attempt = req[r].attempt + 1
               /\ req'[r].at = req[r].at /\ req'[r].id = req[r].id
            \/ /\ req'[r].attempt = req[r].attempt
               /\ req'[r].at = "failed" /\ req'[r].id = IdOf(r)
<1>1. IsReq(req[r]) /\ req = [o \in Requests |-> req[o]]
  BY DEF Shape
<1>2. CASE req[r].attempt < MaxAttempts /\ req' = [req EXCEPT ![r].attempt = @ + 1]
  <2>1. req' = [req EXCEPT ![r] = [req[r] EXCEPT !.attempt = req[r].attempt + 1]]
    BY <1>1, <1>2
  <2>2. req'[r] = [req[r] EXCEPT !.attempt = req[r].attempt + 1]
    BY <1>1, <2>1
  <2>3. req[r].attempt + 1 \in 1 .. MaxAttempts
    BY <1>1, <1>2, EventConstants DEF IsReq
  <2>4. /\ IsReq(req'[r]) /\ req'[r].op = req[r].op /\ req'[r].at = req[r].at /\ req'[r].id = req[r].id
        /\ req'[r].attempt = req[r].attempt + 1 /\ req'[r].etag = req[r].etag
        /\ req'[r].names = req[r].names
    BY <1>1, <2>2, <2>3 DEF IsReq, Names
  <2>5. /\ req' = [o \in Requests |-> req'[o]]
        /\ \A o \in Requests \ {r} : req'[o] = req[o]
    BY <1>1, <2>1
  <2> QED BY <2>4, <2>5 DEF Moved
<1>3. CASE Answer(r, "failed")
  BY <1>3, AnswerIs DEF Ended
<1> QED BY <1>2, <1>3 DEF Again

LEMMA RefusedIs ==
  ASSUME Shape, NEW r \in Requests, WriteRefused(r)
  PROVE  /\ Moved(r) /\ req'[r].at = (IF req[r].at = "put" THEN "reread" ELSE "ok")
         /\ req'[r].id = IdOf(r) /\ req'[r].read = req[r].read
         /\ req'[r].attempt = req[r].attempt /\ req'[r].etag = req[r].etag
         /\ req[r].at \in {"put", "remove"} /\ unsure' = unsure \cup {IdOf(r)}
         /\ UNCHANGED <<provider, edits, lost, ideal, cal, version>>
<1>1. IsReq(req[r]) /\ req = [o \in Requests |-> req[o]]
  BY DEF Shape
<1>2. PICK step \in {"reread", "ok"} : step = (IF req[r].at = "put" THEN "reread" ELSE "ok")
  OBVIOUS
<1>3. req' = [req EXCEPT ![r] = [req[r] EXCEPT !.at = step, !.id = IdOf(r)]]
  BY <1>1, <1>2 DEF WriteRefused
<1>4. req'[r] = [req[r] EXCEPT !.at = step, !.id = IdOf(r)]
  BY <1>1, <1>3
<1>5. /\ IsReq(req'[r]) /\ req'[r].op = req[r].op /\ req'[r].at = step /\ req'[r].id = IdOf(r)
      /\ req'[r].attempt = req[r].attempt /\ req'[r].etag = req[r].etag
      /\ req'[r].names = req[r].names /\ req'[r].read = req[r].read
  BY <1>1, <1>4 DEF IsReq, Names, Serving, Ended
<1>6. /\ req' = [o \in Requests |-> req'[o]]
      /\ \A o \in Requests \ {r} : req'[o] = req[o]
  BY <1>1, <1>3
<1> QED BY <1>2, <1>5, <1>6 DEF Moved, WriteRefused, Untouched

\* Where a request goes from where it is, and what it takes along.
Goes(r) ==
  /\ Moved(r) /\ provider' = provider /\ edits' = edits /\ req[r].at \in Serving
  /\ req'[r].id \in {req[r].id, IdOf(r)}
  /\ req'[r].at = "ok" => req'[r].id = IdOf(r)
  /\ lost' \in [Requests -> Nat] /\ \A o \in Requests : lost'[o] >= lost[o]
  /\ \/ /\ req'[r].attempt = req[r].attempt
        /\ req'[r].at \in Ended \/ (req[r].at \in DavSteps /\ req'[r].at \in DavSteps)
     \/ /\ req'[r].attempt = req[r].attempt + 1 /\ req[r].at = "call" /\ req'[r].at = "call"
        /\ req[r].op = "create" => lost'[r] = lost[r] + 1
  /\ req[r].op = "create" =>
       req'[r].etag = req[r].etag /\ req'[r].at \notin {"read", "find", "remove"}

LEMMA StepGoes ==
  ASSUME EInv, NEW r \in Requests, Step(r)
  PROVE  Goes(r)
<1>1. /\ Shape /\ OnItsWay(r) /\ IsReq(req[r]) /\ req = [o \in Requests |-> req[o]]
      /\ lost \in [Requests -> Nat]
  BY DEF EInv, Shape
<1>2. [lost EXCEPT ![r] = @ + 1] \in [Requests -> Nat] /\ [lost EXCEPT ![r] = @ + 1][r] = lost[r] + 1
      /\ \A o \in Requests : [lost EXCEPT ![r] = @ + 1][o] >= lost[o]
  BY <1>1
<1>3. \A o \in Requests : lost[o] >= lost[o]
  BY <1>1
<1>4. CASE Called(r)
  BY <1>1, <1>3, <1>4, AnswerIs DEF Called, Ended, Goes, Serving
<1>5. CASE CallUnanswered(r)
  BY <1>1, <1>2, <1>5, AgainIs DEF CallUnanswered, Ended, Goes, Serving
<1>6. CASE CalledMissing(r)
  <2>1. CASE Again(r)
    BY <1>1, <1>3, <1>6, <2>1, AgainIs DEF CalledMissing, Missing, Ended, Goes, Serving
  <2>2. CASE Answer(r, "failed")
    BY <1>1, <1>3, <1>6, <2>2, AnswerIs DEF CalledMissing, Missing, Ended, Goes, Serving
  <2> QED BY <1>6, <2>1, <2>2 DEF CalledMissing
<1>7. CASE Read(r)
  <2>1. ASSUME NEW p, req' = [req EXCEPT ![r].at = "find", ![r].read = cal[p]]
        PROVE  /\ Moved(r) /\ req'[r].at = "find" /\ req'[r].id = req[r].id
               /\ req'[r].attempt = req[r].attempt
    <3>1. req' = [req EXCEPT ![r] = [req[r] EXCEPT !.at = "find", !.read = cal[p]]]
      BY <1>1, <2>1
    <3>2. req'[r] = [req[r] EXCEPT !.at = "find", !.read = cal[p]]
      BY <1>1, <3>1
    <3>3. /\ IsReq(req'[r]) /\ req'[r].op = req[r].op /\ req'[r].at = "find"
          /\ req'[r].id = req[r].id /\ req'[r].attempt = req[r].attempt
          /\ req'[r].names = req[r].names
      BY <1>1, <3>2 DEF IsReq, Names, Serving
    <3>4. /\ req' = [o \in Requests |-> req'[o]]
          /\ \A o \in Requests \ {r} : req'[o] = req[o]
      BY <1>1, <3>1
    <3> QED BY <3>3, <3>4 DEF Moved
  <2>2. req[r].at = "read" /\ req[r].op # "create" /\ UNCHANGED <<provider, edits, lost>>
    BY <1>1, <1>7 DEF Read, OnItsWay
  <2>3. CASE Answer(r, "failed")
    BY <1>1, <1>3, <2>2, <2>3, AnswerIs DEF Ended, Goes, Serving
  <2>4. CASE \E p \in Holding(req[r].id) : req' = [req EXCEPT ![r].at = "find", ![r].read = cal[p]]
    BY <1>1, <1>3, <2>1, <2>2, <2>4 DEF Goes, Serving, DavSteps
  <2> QED BY <1>7, <2>3, <2>4 DEF Read
<1>8. CASE Find(r)
  <2>1. ASSUME NEW e, NEW step \in {"remove", "put"}, req' = [req EXCEPT ![r].etag = e, ![r].at = step]
        PROVE  /\ Moved(r) /\ req'[r].at = step /\ req'[r].id = req[r].id
               /\ req'[r].attempt = req[r].attempt
    <3>1. req' = [req EXCEPT ![r] = [req[r] EXCEPT !.etag = e, !.at = step]]
      BY <1>1, <2>1
    <3>2. req'[r] = [req[r] EXCEPT !.etag = e, !.at = step]
      BY <1>1, <3>1
    <3>3. /\ IsReq(req'[r]) /\ req'[r].op = req[r].op /\ req'[r].at = step
          /\ req'[r].id = req[r].id /\ req'[r].attempt = req[r].attempt
          /\ req'[r].names = req[r].names
      BY <1>1, <3>2 DEF IsReq, Names, Serving
    <3>4. /\ req' = [o \in Requests |-> req'[o]]
          /\ \A o \in Requests \ {r} : req'[o] = req[o]
      BY <1>1, <3>1
    <3> QED BY <3>3, <3>4 DEF Moved
  <2>2. req[r].at = "find" /\ req[r].op # "create" /\ UNCHANGED <<provider, edits, lost>>
    BY <1>1, <1>8 DEF Find, OnItsWay
  <2>3. CASE Answer(r, "ok")
    BY <1>1, <1>3, <2>2, <2>3, AnswerIs DEF Ended, Goes, Serving
  <2>4. CASE \E e : \E step \in {"remove", "put"} : req' = [req EXCEPT ![r].etag = e, ![r].at = step]
    BY <1>1, <1>3, <2>1, <2>2, <2>4 DEF Goes, Serving, DavSteps
  <2>5. \/ Answer(r, "ok")
        \/ \E e : \E step \in {"remove", "put"} : req' = [req EXCEPT ![r].etag = e, ![r].at = step]
    <3> DEFINE e == IF There(Place(req[r].id)) THEN version[Place(req[r].id)] ELSE 0
               step == IF req[r].op = "delete" THEN "remove" ELSE "put"
    <3>1. Answer(r, "ok") \/ req' = [req EXCEPT ![r].etag = e, ![r].at = step]
      BY <1>8 DEF Find
    <3>2. step \in {"remove", "put"}
      OBVIOUS
    <3> HIDE DEF e, step
    <3> QED BY <3>1, <3>2
  <2> QED BY <2>3, <2>4, <2>5
<1>9. CASE Put(r)
  <2>1. req' = [req EXCEPT ![r] = [req[r] EXCEPT !.at = "reread", !.id = IdOf(r)]]
    BY <1>1, <1>9 DEF Put
  <2>2. req'[r] = [req[r] EXCEPT !.at = "reread", !.id = IdOf(r)]
    BY <1>1, <2>1
  <2>3. /\ IsReq(req'[r]) /\ req'[r].op = req[r].op /\ req'[r].at = "reread"
        /\ req'[r].id = IdOf(r) /\ req'[r].attempt = req[r].attempt /\ req'[r].etag = req[r].etag
        /\ req'[r].names = req[r].names
    BY <1>1, <2>2 DEF IsReq, Names, Serving
  <2>4. /\ req' = [o \in Requests |-> req'[o]]
        /\ \A o \in Requests \ {r} : req'[o] = req[o]
    BY <1>1, <2>1
  <2>5. req[r].at = "put" /\ UNCHANGED <<provider, edits, lost>>
    BY <1>9 DEF Put
  <2> QED BY <1>1, <1>3, <2>3, <2>4, <2>5 DEF Moved, Goes, Serving, DavSteps
<1>10. CASE Remove(r)
  BY <1>1, <1>3, <1>10, AnswerIs DEF Remove, Ended, Goes, Serving
<1>11. CASE Reread(r)
  <2>1. Answer(r, "ok") \/ Answer(r, "failed")
    BY <1>11 DEF Reread
  <2> QED BY <1>1, <1>3, <1>11, <2>1, AnswerIs DEF Reread, Ended, Goes, Serving
<1>12. CASE DavFails(r)
  BY <1>1, <1>2, <1>12, AnswerIs DEF DavFails, Ended, Goes, Serving
<1>13. CASE WriteRefused(r)
  BY <1>1, <1>3, <1>13, RefusedIs DEF OnItsWay, Ended, Goes, Serving, DavSteps
<1> QED BY <1>4, <1>5, <1>6, <1>7, <1>8, <1>9, <1>10, <1>11, <1>12, <1>13 DEF Step

-----------------------------------------------------------------------------
(* What a step does to the calendar *)

LEMMA WriteIs ==
  ASSUME Shape, NEW p, NEW fields, Write(p, fields)
  PROVE  /\ cal' = [q \in Places |-> cal'[q]] /\ version' \in [Places -> Nat]
         /\ \A q \in Places \ {p} : cal'[q] = cal[q] /\ version'[q] = version[q]
         /\ p \in Places => cal'[p] = fields
<1>1. /\ cal' = [cal EXCEPT ![p] = fields] /\ cal = [q \in Places |-> cal[q]]
      /\ version' = [version EXCEPT ![p] = @ + 1] /\ version \in [Places -> Nat]
  BY DEF Shape, Write
<1>2. /\ cal' = [q \in Places |-> cal'[q]]
      /\ \A q \in Places \ {p} : cal'[q] = cal[q]
      /\ p \in Places => cal'[p] = fields
  BY <1>1
<1>3. /\ version' \in [Places -> Nat]
      /\ \A q \in Places \ {p} : version'[q] = version[q]
  <2>1. \A q \in Places : version[q] \in Nat /\ version[q] + 1 \in Nat
    BY <1>1
  <2>2. version' = [q \in Places |-> IF q = p THEN version[q] + 1 ELSE version[q]]
    BY <1>1
  <2> QED BY <2>1, <2>2
<1> QED BY <1>2, <1>3

\* What request r may write of its event: a new one, or what it names of one that is
\* there, or its end; and on CalDAV only over what it has found.
MayWrite(r, fields) ==
  LET p == Place(IdOf(r)) IN
  /\ req[r].at \in Serving
  /\ provider = "caldav" => Fresh(r)
  /\ provider # "caldav" =>
       /\ req[r].at = "call"
       /\ \/ req[r].op = "create"
          \/ /\ There(p)
             /\ \/ fields = Nothing
                \/ fields = Overlay(cal[p], req[r].names \cap Patched, r)

LEMMA StepWrites ==
  ASSUME EInv, NEW r \in Requests, Step(r)
  PROVE  Untouched \/ \E fields : MayWrite(r, fields) /\ Write(Place(IdOf(r)), fields)
<1>1. OnItsWay(r) /\ IsReq(req[r])
  BY DEF EInv, Shape
<1>2. ASSUME req[r].at = "call", ~Missing(r), Effect(r)
      PROVE  Untouched \/ \E fields : MayWrite(r, fields) /\ Write(Place(IdOf(r)), fields)
  <2>1. provider # "caldav" /\ req[r].op \in Ops
    BY <1>1, <1>2 DEF OnItsWay, IsReq
  <2>2. CASE req[r].op = "create"
    BY <1>2, <2>1, <2>2 DEF Effect, MayWrite, Serving
  <2>3. CASE req[r].op = "update"
    BY <1>2, <2>1, <2>3 DEF Effect, Missing, MayWrite, Serving
  <2>4. CASE req[r].op = "delete"
    BY <1>2, <2>1, <2>4 DEF Effect, Missing, MayWrite, Serving
  <2>5. CASE req[r].op = "read"
    BY <1>2, <2>1, <2>5 DEF Effect
  <2> QED BY <2>1, <2>2, <2>3, <2>4, <2>5 DEF Ops
<1>3. ASSUME req[r].at \in {"put", "remove"}, Fresh(r), NEW fields, Write(Place(IdOf(r)), fields)
      PROVE  MayWrite(r, fields)
  BY <1>1, <1>3 DEF OnItsWay, MayWrite, Serving, DavSteps
<1>4. CASE Called(r) \/ CallUnanswered(r)
  BY <1>2, <1>4 DEF Called, CallUnanswered
<1>5. CASE CalledMissing(r) \/ Read(r) \/ Find(r) \/ Reread(r) \/ WriteRefused(r)
  BY <1>5 DEF CalledMissing, Read, Find, Reread, WriteRefused
<1>6. CASE Put(r) \/ DavFails(r)
  BY <1>3, <1>6 DEF Put, DavFails
<1>7. CASE Remove(r)
  <2>1. req[r].at = "remove" /\ req[r].op # "create"
    BY <1>1, <1>7 DEF Remove, OnItsWay
  <2>2. IdOf(r) = req[r].id
    BY <2>1 DEF IdOf
  <2> QED BY <1>3, <1>7, <2>1, <2>2 DEF Remove
<1> QED BY <1>4, <1>5, <1>6, <1>7 DEF Step

-----------------------------------------------------------------------------
(* The invariant holds *)

LEMMA EInvInit == Init => EInv
<1> SUFFICES ASSUME Init PROVE EInv
  OBVIOUS
<1>1. /\ IsReq(NoRequest) /\ NoRequest.at = "unsent" /\ NoRequest.op = "read"
  <2>1. 1 \in 1 .. MaxAttempts
    BY EventConstants
  <2> QED BY <2>1 DEF NoRequest, IsReq, Names, Ops
<1>2. Shape
  BY <1>1 DEF Init, Shape
<1>3. \A r \in Requests, n \in 1 .. MaxAttempts : cal[Place(<<r, n>>)] = Nothing
  <2> SUFFICES ASSUME NEW r \in Requests, NEW n \in 1 .. MaxAttempts PROVE cal[Place(<<r, n>>)] = Nothing
    OBVIOUS
  <2>1. Place(<<r, n>>) \in Places
    BY DEF Place, Places, Ids
  <2>2. \A o \in Old : <<o, 1>> # <<r, n>>
    BY EventConstants
  <2>3. \A o \in Old : \A s : Place(<<r, n>>) # <<<<o, 1>>, s>>
    BY <2>2 DEF Place
  <2>4. PICK away \in SUBSET Old :
          cal = [p \in Places |-> IF \E o \in Old : p = <<<<o, 1>>, IF o \in away THEN "foreign" ELSE "own">>
                                  THEN All("old") ELSE Nothing]
    BY DEF Init
  <2> QED BY <2>1, <2>3, <2>4
<1>4. \A r \in Requests, n \in 1 .. MaxAttempts : version[Place(<<r, n>>)] = 1
  <2>1. \A r \in Requests, n \in 1 .. MaxAttempts : Place(<<r, n>>) \in Places
    BY DEF Place, Places, Ids
  <2> QED BY <2>1 DEF Init
<1>5. ASSUME NEW r \in Requests PROVE OnItsWay(r) /\ NamesKnown(r) /\ MadeByCreate(r)
  <2>1. req[r].at = "unsent" /\ req[r].op = "read"
    BY <1>1 DEF Init
  <2>2. OnItsWay(r) /\ NamesKnown(r)
    BY <2>1 DEF OnItsWay, NamesKnown, DavSteps, Serving
  <2>3. MadeByCreate(r)
    BY <1>3, <1>4 DEF MadeByCreate, There
  <2> QED BY <2>2, <2>3
<1> QED BY <1>2, <1>5 DEF EInv

\* What clients have been told of stays so, and so does what a create has come to make.
LEMMA KnownStay ==
  ASSUME EInv, NEW r \in Requests, Goes(r)
  PROVE  Known \subseteq Known'
<1>1. \A q \in Requests : req[q].op = "create" /\ req[q].at = "ok" => req'[q] = req[q]
  BY DEF Goes, Moved, Serving
<1> QED BY <1>1 DEF Known

LEMMA MadeStays ==
  ASSUME EInv, NEW r \in Requests, Goes(r), NEW o \in Requests, NEW n \in 1 .. MaxAttempts, Made(o, n)
  PROVE  Made(o, n)'
<1>1. CASE o # r
  BY <1>1 DEF Made, Goes, Moved
<1>2. CASE o = r
  <2>1. req[r].attempt \in Nat /\ req[r].at \in Serving
    BY DEF EInv, Shape, IsReq, Goes
  <2> QED BY <1>2, <2>1 DEF Made, Goes, Moved, Ended, DavSteps, Serving
<1> QED BY <1>1, <1>2

\* An event of a create that somebody was told of.
LEMMA KnownIsMade ==
  ASSUME EInv, NEW o \in Requests, NEW n \in 1 .. MaxAttempts, <<o, n>> \in Known
  PROVE  Made(o, n)
<1>1. <<o, n>> \notin OldIds
  BY EventConstants DEF OldIds
<1>2. PICK q \in Requests : req[q].op = "create" /\ req[q].at = "ok" /\ req[q].id = <<o, n>>
  BY <1>1 DEF Known
<1>3. IdOf(q) = <<o, n>> /\ req[q].attempt \in 1 .. MaxAttempts
  BY <1>2 DEF EInv, OnItsWay, Shape, IsReq
<1>4. q = o /\ n \in {1, req[q].attempt}
  BY <1>2, <1>3 DEF IdOf
<1> QED BY <1>2, <1>3, <1>4 DEF Made

LEMMA StepEInv ==
  ASSUME EInv, NEW r \in Requests, Step(r)
  PROVE  EInv'
<1>1. Goes(r)
  BY StepGoes
<1>2. Untouched \/ \E fields : MayWrite(r, fields) /\ Write(Place(IdOf(r)), fields)
  BY StepWrites
<1>3. Shape
  BY DEF EInv
<1>4. Shape'
  <2>1. cal' = [q \in Places |-> cal'[q]] /\ version' \in [Places -> Nat]
    BY <1>2, <1>3, WriteIs DEF Untouched, Shape
  <2>2. \A o \in Requests : IsReq(req'[o])
    BY <1>1, <1>3 DEF Goes, Moved, Shape
  <2> QED BY <1>1, <1>3, <2>1, <2>2 DEF Goes, Moved, Shape, IsReq
<1>5. ASSUME NEW o \in Requests PROVE OnItsWay(o)'
  <2>1. provider' = provider /\ lost'[o] >= lost[o] /\ lost'[o] \in Nat /\ lost[o] \in Nat /\ OnItsWay(o)
    BY <1>1, <1>3 DEF Goes, Shape, EInv
  <2>2. CASE o # r
    <3>1. req'[o] = req[o]
      BY <1>1, <2>2 DEF Goes, Moved
    <3>2. req[o].attempt \in Nat
      BY <1>3 DEF Shape, IsReq
    <3> QED BY <2>1, <3>1, <3>2 DEF OnItsWay, IdOf
  <2>3. CASE o = r
    <3>1. req'[r].op = req[r].op /\ req[r].attempt \in Nat /\ req[r].at \in Serving
      BY <1>1, <1>3 DEF Goes, Moved, Shape, IsReq
    <3>2. req'[r].at # "unsent" /\ (req'[r].at = "call" => req[r].at = "call")
          /\ (req'[r].at \in DavSteps => req[r].at \in DavSteps)
      BY <1>1 DEF Goes, Ended, DavSteps, Serving
    <3>3. req[r].op = "create" => req'[r].attempt <= 1 + lost'[r]
      BY <1>1, <2>1, <2>3, <3>1 DEF Goes, OnItsWay
    <3>4. req[r].op = "create" /\ req'[r].at = "ok" => req'[r].id = IdOf(r)'
      BY <1>1, <2>1, <3>1 DEF Goes, IdOf
    <3> QED BY <1>1, <2>1, <2>3, <3>1, <3>2, <3>3, <3>4 DEF Goes, OnItsWay
  <2> QED BY <2>2, <2>3
<1>6. ASSUME NEW o \in Requests PROVE NamesKnown(o)'
  <2>1. Known \subseteq Known' /\ NamesKnown(o)
    BY <1>1, KnownStay DEF EInv
  <2>2. CASE o # r
    BY <1>1, <2>1, <2>2 DEF Goes, Moved, NamesKnown
  <2>3. CASE o = r
    <3>1. req[r].op # "create" => req'[r].id = req[r].id
      BY <1>1 DEF Goes, IdOf
    <3> QED BY <1>1, <2>1, <2>3, <3>1 DEF Goes, Moved, NamesKnown, Serving
  <2> QED BY <2>2, <2>3
<1>7. ASSUME NEW o \in Requests PROVE MadeByCreate(o)'
  <2> SUFFICES ASSUME NEW n \in 1 .. MaxAttempts,
                      There(Place(<<o, n>>))' \/ version'[Place(<<o, n>>)] > 1
               PROVE  Made(o, n)'
    BY DEF MadeByCreate, Place
  <2> DEFINE p == Place(<<o, n>>)
  <2>0. p \in Places
    BY DEF Place, Places, Ids
  <2>1. CASE cal'[p] = cal[p] /\ version'[p] = version[p]
    <3>1. Made(o, n)
      BY <2>1 DEF EInv, MadeByCreate, There, Place
    <3> QED BY <1>1, <3>1, MadeStays
  <2>2. CASE ~(cal'[p] = cal[p] /\ version'[p] = version[p])
    <3>1. PICK fields : MayWrite(r, fields) /\ Write(Place(IdOf(r)), fields)
      BY <1>2, <2>2 DEF Untouched
    <3>2. Place(IdOf(r)) = p
      BY <1>3, <2>0, <2>2, <3>1, WriteIs
    <3>3. IdOf(r) = <<o, n>>
      BY <3>2 DEF Place
    <3>4. CASE req[r].op = "create"
      <4>1. r = o /\ n = (IF provider = "caldav" THEN 1 ELSE req[r].attempt)
        BY <3>3, <3>4 DEF IdOf
      <4>2. req[r].attempt \in Nat \ {0} /\ req[r].at \in Serving
        BY <1>1, <1>3 DEF Goes, Shape, IsReq
      <4>3. provider = "caldav" => req[r].at # "call"
        BY DEF EInv, OnItsWay
      <4> QED BY <1>1, <3>4, <4>1, <4>2, <4>3 DEF Goes, Moved, Made, Ended, DavSteps, Serving
    <3>5. CASE req[r].op # "create"
      <4>1. req[r].id = <<o, n>> /\ req[r].at # "unsent"
        BY <1>1, <3>3, <3>5 DEF IdOf, Goes, Serving
      <4>2. <<o, n>> \in Known
        BY <3>5, <4>1 DEF EInv, NamesKnown
      <4> QED BY <1>1, <4>2, KnownIsMade, MadeStays
    <3> QED BY <3>4, <3>5
  <2> QED BY <2>1, <2>2
<1> QED BY <1>4, <1>5, <1>6, <1>7 DEF EInv

LEMMA SendIs ==
  ASSUME Shape, NEW r \in Requests, NEW op \in Ops, NEW id, NEW names, Send(r, op, id, names)
  PROVE  /\ req' = [o \in Requests |-> req'[o]]
         /\ \A o \in Requests \ {r} : req'[o] = req[o]
         /\ FirstStep(op) \in Serving /\ (FirstStep(op) = "call" <=> provider # "caldav")
         /\ op = "create" => FirstStep(op) \in {"call", "put"}
         /\ IsReq(req'[r]) /\ req'[r].op = op /\ req'[r].id = id /\ req'[r].at = FirstStep(op)
         /\ req'[r].names = names /\ req'[r].attempt = 1 /\ req'[r].etag = 0
<1>1. req' = [req EXCEPT ![r] = [NoRequest EXCEPT !.op = op, !.id = id, !.names = names, !.at = FirstStep(op)]]
  BY DEF Send
<1>2. /\ req' = [o \in Requests |-> req'[o]]
      /\ \A o \in Requests \ {r} : req'[o] = req[o]
      /\ req'[r] = [NoRequest EXCEPT !.op = op, !.id = id, !.names = names, !.at = FirstStep(op)]
  BY <1>1 DEF Shape
<1>3. /\ FirstStep(op) \in Serving /\ (FirstStep(op) = "call" <=> provider # "caldav")
      /\ op = "create" => FirstStep(op) \in {"call", "put"}
  BY DEF FirstStep, Ops, Serving
<1> DEFINE q == [NoRequest EXCEPT !.op = op, !.id = id, !.names = names, !.at = FirstStep(op)]
<1>4. NoRequest = [f \in Names |-> NoRequest[f]] /\ NoRequest.attempt = 1 /\ NoRequest.etag = 0
  BY DEF NoRequest, Names
<1>5. q = [f \in Names |-> q[f]]
  BY <1>4
<1>6. q.op = op /\ q.id = id /\ q.at = FirstStep(op) /\ q.names = names /\ q.attempt = 1 /\ q.etag = 0
  BY <1>4 DEF Names
<1>7. 1 \in 1 .. MaxAttempts
  BY EventConstants
<1>8. req'[r] = q
  BY <1>2
<1> HIDE DEF q
<1>9. IsReq(q)
  BY <1>3, <1>5, <1>6, <1>7 DEF IsReq
<1> QED BY <1>2, <1>3, <1>6, <1>8, <1>9

LEMMA SendEInv ==
  ASSUME EInv, NEW r \in Requests, NEW op \in Ops, NEW id, NEW names, Send(r, op, id, names)
  PROVE  EInv'
<1>1. Shape /\ req[r].at = "unsent" /\ req[r].op = "read"
  BY DEF EInv, OnItsWay, Send
<1>2. UNCHANGED <<provider, cal, version, lost, edits>>
  BY DEF Send, Untouched
<1>3. /\ req' = [o \in Requests |-> req'[o]]
      /\ \A o \in Requests \ {r} : req'[o] = req[o]
  BY <1>1, SendIs
<1>4. /\ FirstStep(op) \in Serving /\ (FirstStep(op) = "call" <=> provider # "caldav")
      /\ op = "create" => FirstStep(op) \in {"call", "put"}
  BY <1>1, SendIs
<1>5. /\ IsReq(req'[r]) /\ req'[r].op = op /\ req'[r].id = id /\ req'[r].at = FirstStep(op)
      /\ req'[r].attempt = 1 /\ req'[r].etag = 0
  BY <1>1, SendIs
<1>6. Shape'
  BY <1>1, <1>2, <1>3, <1>5 DEF Shape, IsReq
<1>7. Known \subseteq Known'
  <2>1. \A q \in Requests : req[q].op = "create" /\ req[q].at = "ok" => req'[q] = req[q]
    BY <1>1, <1>3
  <2> QED BY <2>1 DEF Known
<1>8. ASSUME NEW o \in Requests PROVE OnItsWay(o)' /\ NamesKnown(o)' /\ MadeByCreate(o)'
  <2>1. CASE o # r
    <3>1. req'[o] = req[o]
      BY <1>3, <2>1
    <3>2. OnItsWay(o)'
      BY <1>2, <3>1 DEF EInv, OnItsWay, IdOf
    <3>3. NamesKnown(o)'
      BY <1>7, <3>1 DEF EInv, NamesKnown
    <3>4. MadeByCreate(o)'
      BY <1>2, <3>1 DEF EInv, MadeByCreate, Made, There, Place
    <3> QED BY <3>2, <3>3, <3>4
  <2>2. CASE o = r
    <3>1. lost'[r] \in Nat
      BY <1>6 DEF Shape
    <3>2. OnItsWay(r)'
      BY <1>2, <1>4, <1>5, <3>1 DEF OnItsWay, Serving, DavSteps
    <3>3. NamesKnown(r)'
      BY <1>5, <1>7 DEF Send, NamesKnown
    <3>4. \A n \in 1 .. MaxAttempts : ~Made(r, n)
      BY <1>1 DEF Made
    <3>5. MadeByCreate(r)'
      BY <1>2, <3>4 DEF EInv, MadeByCreate, There, Place
    <3> QED BY <2>2, <3>2, <3>3, <3>5
  <2> QED BY <2>1, <2>2
<1> QED BY <1>6, <1>8 DEF EInv

LEMMA ElsewhereEInv ==
  ASSUME EInv, NEW p \in Places, There(p), NEW fields, Write(p, fields),
         edits' = edits + 1, UNCHANGED <<provider, req, lost>>
  PROVE  EInv'
<1>1. Shape
  BY DEF EInv
<1>2. Shape'
  BY <1>1, WriteIs DEF Shape, IsReq
<1>3. ASSUME NEW r \in Requests PROVE OnItsWay(r)' /\ NamesKnown(r)' /\ MadeByCreate(r)'
  <2>1. OnItsWay(r)' /\ NamesKnown(r)'
    BY DEF EInv, OnItsWay, IdOf, NamesKnown, Known
  <2>2. ASSUME NEW n \in 1 .. MaxAttempts,
               There(Place(<<r, n>>))' \/ version'[Place(<<r, n>>)] > 1
        PROVE  Made(r, n)
    <3>1. Place(<<r, n>>) \in Places
      BY DEF Place, Places, Ids
    <3>2. CASE Place(<<r, n>>) = p
      BY <3>2 DEF EInv, MadeByCreate
    <3>3. CASE Place(<<r, n>>) # p
      <4>1. cal'[Place(<<r, n>>)] = cal[Place(<<r, n>>)] /\ version'[Place(<<r, n>>)] = version[Place(<<r, n>>)]
        BY <1>1, <3>1, <3>3, WriteIs
      <4> QED BY <2>2, <4>1 DEF EInv, MadeByCreate, There, Place
    <3> QED BY <3>2, <3>3
  <2>3. MadeByCreate(r)'
    BY <2>2 DEF MadeByCreate, Made, Place
  <2> QED BY <2>1, <2>3
<1> QED BY <1>2, <1>3 DEF EInv

\* A step is a request's, or sends one, or is a change by another program.
LEMMA OthersMove ==
  ASSUME Next
  PROVE  \/ \E r \in Requests : Step(r)
         \/ \E r \in Requests, op \in Ops : \E id, names : Send(r, op, id, names)
         \/ \E p \in Places : \E fields :
              There(p) /\ Write(p, fields) /\ edits' = edits + 1 /\ UNCHANGED <<provider, req, lost>>
<1>1. ASSUME NEW p \in Places, DeleteElsewhere(p) \/ \E names \in Bodies : EditElsewhere(p, names)
      PROVE  \E fields : /\ There(p) /\ Write(p, fields) /\ edits' = edits + 1
                         /\ UNCHANGED <<provider, req, lost>>
  BY <1>1 DEF DeleteElsewhere, EditElsewhere
<1> QED BY <1>1 DEF Next

LEMMA EInvNext == EInv /\ [Next]_vars => EInv'
<1>1. ASSUME EInv, UNCHANGED vars PROVE EInv'
  <2>1. UNCHANGED <<provider, cal, version, req, lost, edits>>
    BY <1>1 DEF vars, history
  <2> QED BY <1>1, <2>1 DEF EInv, Shape, OnItsWay, IdOf, NamesKnown, Known, MadeByCreate, Made, There
<1>2. ASSUME EInv, Next PROVE EInv'
  BY <1>2, OthersMove, StepEInv, SendEInv, ElsewhereEInv
<1> QED BY <1>1, <1>2

LEMMA EInvAlways == Spec => []EInv
BY EInvInit, EInvNext, PTL DEF Spec

-----------------------------------------------------------------------------
(* What is created, changed and overwritten *)

LEMMA CreatesBounded ==
  ASSUME EInv, NEW r \in Requests
  PROVE  Cardinality({id \in Ids : id[1] = r /\ version[Place(id)] > 1}) <= 1 + lost[r]
<1> DEFINE S == {id \in Ids : id[1] = r /\ version[Place(id)] > 1}
<1>1. \A id \in S : \E n \in 1 .. MaxAttempts : id = <<r, n>> /\ Made(r, n)
  <2> SUFFICES ASSUME NEW id \in S PROVE \E n \in 1 .. MaxAttempts : id = <<r, n>> /\ Made(r, n)
    OBVIOUS
  <2>1. id \notin OldIds
    BY EventConstants DEF OldIds
  <2>2. PICK n \in 1 .. MaxAttempts : id = <<r, n>>
    BY <2>1 DEF Ids
  <2> QED BY <2>2 DEF EInv, MadeByCreate
<1>2. lost[r] \in Nat /\ req[r].attempt \in 1 .. MaxAttempts /\ MaxAttempts \in Nat
  BY EventConstants DEF EInv, Shape, IsReq
<1>3. CASE S = {}
  BY <1>2, <1>3, FS_EmptySet
<1>4. CASE S # {}
  <2>1. req[r].op = "create" /\ req[r].attempt <= 1 + lost[r]
    BY <1>1, <1>4 DEF Made, EInv, OnItsWay
  <2> DEFINE N == 1 .. req[r].attempt
             T == {<<r, n>> : n \in N}
             f == [n \in N |-> <<r, n>>]
  <2>2. IsFiniteSet(N) /\ Cardinality(N) = req[r].attempt
    <3>1. 1 \in Int /\ req[r].attempt \in Int /\ ~(1 > req[r].attempt)
      BY <1>2
    <3>2. Cardinality(N) = req[r].attempt - 1 + 1 /\ IsFiniteSet(N)
      BY <3>1, FS_Interval
    <3> QED BY <3>1, <3>2
  <2>3. f \in Surjection(N, T)
    BY DEF Surjection
  <2>4. IsFiniteSet(T) /\ Cardinality(T) <= Cardinality(N)
    <3> HIDE DEF N, T, f
    <3> QED BY <2>2, <2>3, FS_Surjection
  <2>5. S \in SUBSET T
    BY <1>1, <1>2 DEF Made
  <2>6. IsFiniteSet(S) /\ Cardinality(S) <= Cardinality(T)
    <3> HIDE DEF S, T
    <3> QED BY <2>4, <2>5, FS_Subset
  <2>7. Cardinality(S) \in Nat /\ Cardinality(T) \in Nat
    <3> HIDE DEF S, T
    <3> QED BY <2>4, <2>6, FS_CardinalityType
  <2> QED BY <1>2, <2>1, <2>2, <2>4, <2>6, <2>7
<1> QED BY <1>3, <1>4

\* A create makes one event at most, and one more for each of its calls without an answer,
\* however many requests and editors there are and whatever is deleted and edited since.
THEOREM CreatesAreAccounted == Spec => []CreatesAccounted
<1>1. EInv => CreatesAccounted
  BY CreatesBounded DEF CreatesAccounted
<1> QED BY <1>1, EInvAlways, PTL

LEMMA NamedOnly ==
  ASSUME EInv, Next, NEW p \in Places, NEW f \in Fields, provider # "caldav", edits' = edits,
         There(p), cal'[p] # Nothing, cal'[p][f] # cal[p][f]
  PROVE  \E r \in InFlight(p[1]) : f \in req[r].names
<1>1. Shape
  BY DEF EInv
<1>2. PICK r \in Requests : Step(r)
  <2>1. edits \in Nat /\ edits' # edits + 1
    BY <1>1 DEF Shape
  <2>2. ~Untouched
    BY DEF Untouched
  <2> QED BY <2>1, <2>2, OthersMove DEF Send
<1>3. PICK fields : MayWrite(r, fields) /\ Write(Place(IdOf(r)), fields)
  BY <1>2, StepWrites DEF Untouched
<1>4. p = Place(IdOf(r)) /\ cal'[p] = fields
  BY <1>1, <1>3, WriteIs
<1>5. req[r].at = "call" /\ IsReq(req[r])
  BY <1>1, <1>3 DEF MayWrite, Shape
<1>6. req[r].op # "create"
  <2> SUFFICES ASSUME req[r].op = "create" PROVE FALSE
    OBVIOUS
  <2>1. IdOf(r) = <<r, req[r].attempt>> /\ req[r].attempt \in 1 .. MaxAttempts
    BY <1>5 DEF IdOf, IsReq
  <2>2. Made(r, req[r].attempt)
    BY <1>4, <2>1 DEF EInv, MadeByCreate
  <2> QED BY <1>5, <2>1, <2>2 DEF Made
<1>7. fields = Overlay(cal[p], req[r].names \cap Patched, r)
  BY <1>3, <1>4, <1>6 DEF MayWrite
<1>8. f \in req[r].names
  BY <1>4, <1>7 DEF Overlay
<1>9. p[1] = req[r].id
  BY <1>4, <1>6 DEF IdOf, Place
<1> QED BY <1>5, <1>8, <1>9 DEF InFlight, Serving

\* On Google and Microsoft a field of an event that stays changes only by another program or
\* by a request in flight that named it.
THEOREM NamedFieldsChange == Spec => OnlyNamedFieldsChange
<1> DEFINE A == \A p \in Places, f \in Fields :
       (/\ provider # "caldav" /\ edits' = edits
        /\ There(p) /\ cal'[p] # Nothing /\ cal'[p][f] # cal[p][f])
       => \E r \in InFlight(p[1]) : f \in req[r].names
<1>1. EInv /\ [Next]_vars => [A]_<<cal, edits>>
  BY NamedOnly DEF vars
<1> QED BY <1>1, EInvAlways, PTL DEF Spec, OnlyNamedFieldsChange

LEMMA FoundOnly ==
  ASSUME EInv, Next, NEW p \in Places, provider = "caldav", edits' = edits,
         version'[p] # version[p], There(p)
  PROVE  \E r \in InFlight(p[1]) : req[r].etag = version[p]
<1>1. Shape
  BY DEF EInv
<1>2. PICK r \in Requests : Step(r)
  <2>1. edits \in Nat /\ edits' # edits + 1
    BY <1>1 DEF Shape
  <2>2. ~Untouched
    BY DEF Untouched
  <2> QED BY <2>1, <2>2, OthersMove DEF Send
<1>3. PICK fields : MayWrite(r, fields) /\ Write(Place(IdOf(r)), fields)
  BY <1>2, StepWrites DEF Untouched
<1>4. p = Place(IdOf(r))
  BY <1>1, <1>3, WriteIs
<1>5. req[r].at \in Serving /\ Fresh(r)
  BY <1>3 DEF MayWrite
<1>6. req[r].etag = version[p] /\ req[r].etag # 0
  BY <1>4, <1>5 DEF Fresh
<1>7. req[r].op # "create"
  BY <1>6 DEF EInv, OnItsWay
<1>8. p[1] = req[r].id
  BY <1>4, <1>7 DEF IdOf, Place
<1> QED BY <1>5, <1>6, <1>8 DEF InFlight

\* A CalDAV object that is there is written and removed only by a request that found its last
\* version: no write of a client or of another program since the find is lost.
THEOREM NothingOverwritten == Spec => FoundIsWhatIsWritten
<1> DEFINE A == \A p \in Places :
       (provider = "caldav" /\ edits' = edits /\ version'[p] # version[p] /\ There(p))
       => \E r \in InFlight(p[1]) : req[r].etag = version[p]
<1>1. EInv /\ [Next]_vars => [A]_<<version, edits>>
  BY FoundOnly DEF vars
<1> QED BY <1>1, EInvAlways, PTL DEF Spec, FoundIsWhatIsWritten

-----------------------------------------------------------------------------
(* What the calendar holds while requests are under way *)

\* The updates and deletes of an event that are under way.
Writers(id) ==
  {r \in Requests : req[r].id = id /\ req[r].at \in Serving /\ req[r].op \in {"update", "delete"}}

\* The object holds what clients were told: but for some fields, and in full.
Same(id, names) == \A f \in Shown \ names : cal[Place(id)][f] = ideal[id][f]
Held(id) ==
  /\ There(Place(id)) <=> ideal[id] # Nothing
  /\ There(Place(id)) => Same(id, {})

\* How far an update or a delete that has the event for itself has come.  What it has read
\* and found is still there; before its end the event differs by no more than its fields.
Updating(r, id) ==
  LET p == Place(id)
      names == req[r].names \cap Patched
  IN
  /\ There(p) <=> ideal[id] # Nothing
  /\ req[r].at \in {"find", "put", "reread"} => There(p)
  /\ There(p) => Same(id, IF req[r].at \in {"call", "reread"} THEN names ELSE {})
  /\ req[r].at = "reread" => \A f \in Shown \cap names : cal[p][f] = r
  /\ req[r].at \in {"find", "put"} => req[r].read = cal[p]
  /\ req[r].at = "put" => req[r].etag = version[p]
Deleting(r, id) ==
  LET p == Place(id) IN
  /\ There(p) => Held(id)
  /\ req[r].at # "call" => Held(id)
  /\ req[r].at = "remove" => There(p) /\ req[r].etag = version[p]
Halfway(r, id) ==
  /\ req[r].op = "update" => Updating(r, id)
  /\ req[r].op = "delete" => Deleting(r, id)

\* An event that clients know and whose state the answers determine has one writer at most,
\* holds what they were told when it has none, and is halfway when it has one.
HeldOrHalfway(id) ==
  /\ \A q, r \in Writers(id) : q = r
  /\ Writers(id) = {} => Held(id)
  /\ \A r \in Writers(id) : Halfway(r, id)

\* A create on CalDAV finds its place empty and leaves there what it was given.
CreateHolds(r) ==
  req[r].op = "create" =>
    /\ req[r].at = "put" => ~There(Place(<<r, 1>>))
    /\ req[r].at = "reread" =>
         /\ req[r].id = <<r, 1>>
         /\ req[r].id \in unsure \/ cal[Place(req[r].id)] = NewEvent(r, req[r].names)

\* The steps of each operation on CalDAV; an update writes what it has read.
DavPath(op) ==
  CASE op = "create" -> {"put", "reread"}
    [] op = "read"   -> {"reread"}
    [] op = "update" -> {"read", "find", "put", "reread"}
    [] op = "delete" -> {"find", "remove"}
OnPath(r) ==
  /\ req[r].at \in DavSteps => req[r].at \in DavPath(req[r].op)
  /\ req[r].op = "update" /\ req[r].at \in {"find", "put"} => req[r].read # Nothing

HInv ==
  /\ EInv
  /\ provider \in Providers
  /\ ideal = [id \in Ids |-> ideal[id]]
  /\ \A p \in Places : version[p] >= 1 /\ (p[2] = "foreign" /\ There(p) => p[1] \in unsure)
  /\ \A id \in Known \ unsure : HeldOrHalfway(id)
  /\ \A r \in Requests : OnPath(r) /\ CreateHolds(r)

-----------------------------------------------------------------------------
(* Events and their places *)

LEMMA WrittenIsThere ==
  /\ \A fields, names, v : Overlay(fields, names, v) # Nothing
  /\ \A fields : ICS(fields) # Nothing
  /\ \A r, names : NewEvent(r, names) # Nothing
<1>1. \A g : [f \in Fields |-> g[f]] # Nothing
  <2>1. "title" \in Fields
    BY DEF Fields
  <2>2. \A g : DOMAIN [f \in Fields |-> g[f]] = Fields
    OBVIOUS
  <2>3. DOMAIN Nothing = {}
    BY DEF Nothing
  <2> QED BY <2>1, <2>2, <2>3
<1>2. \A fields, names, v : Overlay(fields, names, v) # Nothing
  <2> SUFFICES ASSUME NEW fields, NEW names, NEW v PROVE Overlay(fields, names, v) # Nothing
    OBVIOUS
  <2>1. Overlay(fields, names, v) = [f \in Fields |-> Overlay(fields, names, v)[f]]
    BY DEF Overlay
  <2> QED BY <1>1, <2>1
<1> QED BY <1>2 DEF ICS, NewEvent

LEMMA PlaceOfIs ==
  /\ \A a, b : Place(a) = Place(b) => a = b
  /\ \A id \in Ids : Place(id) \in Places
  /\ \A p \in Places : p[1] \in Ids /\ (p = Place(p[1]) \/ (p[2] = "foreign" /\ p[1] \in OldIds))
  /\ \A id : Place(id)[1] = id /\ Place(id)[2] = "own"
BY DEF Place, Places, Ids

LEMMA KnownAreIds ==
  ASSUME EInv
  PROVE  Known \subseteq Ids /\ \A r \in Requests : req[r].at # "unsent" => IdOf(r) \in Ids
<1>1. \A r \in Requests : req[r].op = "create" => IdOf(r) \in Ids
  <2>1. \A r \in Requests : req[r].attempt \in 1 .. MaxAttempts /\ 1 \in 1 .. MaxAttempts
    BY EventConstants DEF EInv, Shape, IsReq
  <2> QED BY <2>1 DEF IdOf, Ids
<1>2. Known \subseteq Ids
  <2>1. \A r \in Requests : req[r].op = "create" /\ req[r].at = "ok" => req[r].id = IdOf(r)
    BY DEF EInv, OnItsWay
  <2> QED BY <1>1, <2>1 DEF Known, Ids
<1>3. \A r \in Requests : req[r].op # "create" /\ req[r].at # "unsent" => IdOf(r) \in Known
  BY DEF EInv, NamesKnown, IdOf
<1> QED BY <1>1, <1>2, <1>3

\* Only the place of an event under Caldera's own URL counts, where it is not unsure.
LEMMA WhereItIs ==
  ASSUME HInv, NEW id \in Ids, id \notin unsure
  PROVE  /\ Exists(id) <=> There(Place(id))
         /\ \A p \in Holding(id) : p = Place(id)
         /\ There(Place(id)) => Place(id) \in Holding(id)
<1>1. \A p \in Places : p[1] = id /\ There(p) => p = Place(id)
  BY PlaceOfIs DEF HInv
<1> QED BY <1>1, PlaceOfIs DEF Exists, Holding

-----------------------------------------------------------------------------
(* What a step leaves alone *)

LEMMA AnswerTells ==
  ASSUME ideal = [id \in Ids |-> ideal[id]], NEW r \in Requests, NEW outcome, Answer(r, outcome)
  PROVE  /\ ideal' = [id \in Ids |-> ideal'[id]]
         /\ \A id \in Ids \ {IdOf(r)} : ideal'[id] = ideal[id]
         /\ unsure \subseteq unsure' /\ unsure' \subseteq unsure \cup {IdOf(r)}
         /\ outcome = "failed" => ideal' = ideal /\ (req[r].op # "read" => IdOf(r) \in unsure')
         /\ outcome = "ok" => unsure' = unsure
         /\ outcome = "ok" /\ IdOf(r) \in Ids \ unsure => ideal'[IdOf(r)] = Intended(r, IdOf(r))
<1>1. /\ ideal' = (IF outcome = "ok" /\ IdOf(r) \notin unsure
                   THEN [ideal EXCEPT ![IdOf(r)] = Intended(r, IdOf(r))] ELSE ideal)
      /\ unsure' = (IF outcome = "failed" /\ req[r].op # "read" THEN unsure \cup {IdOf(r)} ELSE unsure)
  BY DEF Answer
<1>2. /\ unsure \subseteq unsure' /\ unsure' \subseteq unsure \cup {IdOf(r)}
      /\ outcome = "failed" => ideal' = ideal /\ (req[r].op # "read" => IdOf(r) \in unsure')
      /\ outcome = "ok" => unsure' = unsure
  BY <1>1
<1>3. CASE outcome = "ok" /\ IdOf(r) \notin unsure
  <2>1. ideal' = [ideal EXCEPT ![IdOf(r)] = Intended(r, IdOf(r))]
    BY <1>1, <1>3
  <2>2. /\ ideal' = [id \in Ids |-> ideal'[id]]
        /\ \A id \in Ids \ {IdOf(r)} : ideal'[id] = ideal[id]
        /\ IdOf(r) \in Ids => ideal'[IdOf(r)] = Intended(r, IdOf(r))
    BY <2>1
  <2> QED BY <1>2, <2>2
<1>4. CASE ~(outcome = "ok" /\ IdOf(r) \notin unsure)
  BY <1>1, <1>2, <1>4
<1> QED BY <1>3, <1>4

LEMMA StepTells ==
  ASSUME NEW r \in Requests, Step(r)
  PROVE  \/ UNCHANGED <<ideal, unsure>> \/ Answer(r, "ok") \/ Answer(r, "failed")
         \/ WriteRefused(r)
<1>1. Called(r) \/ Remove(r) => Answer(r, "ok")
  BY DEF Called, Remove
<1>2. CallUnanswered(r) \/ CalledMissing(r) => UNCHANGED <<ideal, unsure>> \/ Answer(r, "failed")
  BY DEF CallUnanswered, CalledMissing, Again
<1>3. Read(r) \/ DavFails(r) => UNCHANGED <<ideal, unsure>> \/ Answer(r, "failed")
  BY DEF Read, DavFails
<1>4. Find(r) \/ Put(r) => UNCHANGED <<ideal, unsure>> \/ Answer(r, "ok")
  BY DEF Find, Put
<1>5. Reread(r) => Answer(r, "ok") \/ Answer(r, "failed")
  BY DEF Reread
<1> QED BY <1>1, <1>2, <1>3, <1>4, <1>5 DEF Step

\* A step of a request touches nothing but its own event.
Touches(id) ==
  /\ ideal' = [i \in Ids |-> ideal'[i]]
  /\ \A i \in Ids \ {id} : ideal'[i] = ideal[i]
  /\ \A p \in Places \ {Place(id)} : cal'[p] = cal[p] /\ version'[p] = version[p]
  /\ \A p \in Places : version'[p] >= 1
  /\ unsure \subseteq unsure' /\ unsure' \subseteq unsure \cup {id}
  /\ Known \subseteq Known' /\ Known' \subseteq Known \cup {id}

LEMMA StepTouches ==
  ASSUME HInv, NEW r \in Requests, Step(r)
  PROVE  Touches(IdOf(r)) /\ Goes(r) /\ IdOf(r) \in Ids
<1>1. EInv /\ Shape /\ Goes(r)
  BY StepGoes DEF HInv, EInv
<1>2. Untouched \/ \E fields : Write(Place(IdOf(r)), fields)
  BY <1>1, StepWrites
<1>3. \A p \in Places \ {Place(IdOf(r))} : cal'[p] = cal[p] /\ version'[p] = version[p]
  BY <1>1, <1>2, WriteIs DEF Untouched
<1>4. \A p \in Places : version'[p] >= 1
  <2>1. CASE Untouched
    BY <2>1 DEF Untouched, HInv
  <2>2. ASSUME NEW fields, Write(Place(IdOf(r)), fields)
        PROVE  \A p \in Places : version'[p] >= 1
    <3>1. version' = [version EXCEPT ![Place(IdOf(r))] = @ + 1] /\ version \in [Places -> Nat]
      BY <1>1, <2>2 DEF Write, Shape
    <3>2. \A p \in Places : version[p] \in Nat /\ version[p] >= 1
      BY <3>1 DEF HInv
    <3> QED BY <3>1, <3>2
  <2> QED BY <1>2, <2>1, <2>2
<1>5. /\ ideal' = [i \in Ids |-> ideal'[i]]
      /\ \A i \in Ids \ {IdOf(r)} : ideal'[i] = ideal[i]
      /\ unsure \subseteq unsure' /\ unsure' \subseteq unsure \cup {IdOf(r)}
  <2>1. CASE WriteRefused(r)
    BY <1>1, <2>1, RefusedIs DEF HInv
  <2> QED BY <2>1, StepTells, AnswerTells DEF HInv
<1>6. Known \subseteq Known'
  BY <1>1, KnownStay
<1>7. Known' \subseteq Known \cup {IdOf(r)}
  <2>1. \A q \in Requests : q # r => req'[q] = req[q]
    BY <1>1 DEF Goes, Moved
  <2>2. req'[r].at = "ok" => req'[r].id = IdOf(r)
    BY <1>1 DEF Goes
  <2> QED BY <2>1, <2>2 DEF Known
<1>8. IdOf(r) \in Ids
  BY <1>1, KnownAreIds DEF Goes, Serving
<1> QED BY <1>1, <1>3, <1>4, <1>5, <1>6, <1>7, <1>8 DEF Touches

-----------------------------------------------------------------------------
(* An event that is not the step's own *)

LEMMA SameFields ==
  ASSUME provider' = provider
  PROVE  Shown' = Shown /\ Patched' = Patched /\ Created' = Created
BY DEF Shown, Patched, Created, Of

LEMMA NewEventIsTheSame ==
  ASSUME provider' = provider
  PROVE  \A r, names : NewEvent(r, names)' = NewEvent(r, names)
BY SameFields DEF NewEvent, Overlay, All

LEMMA HeldStays ==
  ASSUME provider' = provider, NEW id \in Ids,
         cal'[Place(id)] = cal[Place(id)], ideal'[id] = ideal[id]
  PROVE  (Held(id) => Held(id)') /\ \A names : Same(id, names) <=> Same(id, names)'
<1>1. \A names : Same(id, names) <=> Same(id, names)'
  BY SameFields DEF Same, Place
<1> QED BY <1>1 DEF Held, There, Place

LEMMA HalfwayStays ==
  ASSUME provider' = provider, NEW id \in Ids, NEW r \in Requests, req'[r] = req[r],
         cal'[Place(id)] = cal[Place(id)], ideal'[id] = ideal[id],
         version'[Place(id)] = version[Place(id)], Halfway(r, id)
  PROVE  Halfway(r, id)'
<1>1. (Held(id) => Held(id)') /\ (There(Place(id)) <=> There(Place(id))')
  BY HeldStays DEF There, Place
<1>2. ASSUME Updating(r, id) PROVE Updating(r, id)'
  <2>1. \A f \in Shown \ (req[r].names \cap Patched) : f \in Shown
    OBVIOUS
  <2>2. There(Place(id)) => Same(id, IF req[r].at \in {"call", "reread"} THEN req[r].names \cap Patched ELSE {})
    BY <1>2 DEF Updating
  <2>3. (There(Place(id)) => Same(id, IF req[r].at \in {"call", "reread"} THEN req[r].names \cap Patched ELSE {}))'
    BY <1>1, <2>2, SameFields DEF Same, Place
  <2> QED BY <1>1, <1>2, <2>3, SameFields DEF Updating, There, Place
<1>3. ASSUME Deleting(r, id) PROVE Deleting(r, id)'
  BY <1>1, <1>3 DEF Deleting, There, Place
<1> QED BY <1>2, <1>3 DEF Halfway

LEMMA OthersKeep ==
  ASSUME HInv, NEW r \in Requests, Step(r), NEW id \in Known' \ unsure', id # IdOf(r)
  PROVE  HeldOrHalfway(id)'
<1>1. Touches(IdOf(r)) /\ Goes(r)
  BY StepTouches
<1>2. id \in Known \ unsure /\ id \in Ids /\ HeldOrHalfway(id)
  BY <1>1, KnownAreIds DEF Touches, HInv
<1>3. /\ cal'[Place(id)] = cal[Place(id)] /\ version'[Place(id)] = version[Place(id)]
      /\ ideal'[id] = ideal[id] /\ provider' = provider
  BY <1>1, <1>2, PlaceOfIs DEF Touches, Goes
<1>4. \A q \in Requests : q # r => req'[q] = req[q]
  BY <1>1 DEF Goes, Moved
<1>5. r \notin Writers(id) /\ r \notin Writers(id)'
  <2>1. req[r].op # "create" => req[r].id # id /\ req'[r].id # id
    BY <1>1 DEF Goes, IdOf
  <2> QED BY <1>1, <2>1 DEF Writers, Goes, Moved
<1>6. Writers(id)' = Writers(id)
  BY <1>4, <1>5 DEF Writers
<1>7. (\A q, o \in Writers(id) : q = o)' /\ (Writers(id) = {} => Held(id))'
  BY <1>2, <1>3, <1>6, HeldStays DEF HeldOrHalfway
<1>8. ASSUME NEW q \in Writers(id) PROVE Halfway(q, id)'
  <2>1. q \in Requests /\ Halfway(q, id) /\ req'[q] = req[q]
    BY <1>2, <1>4, <1>5 DEF HeldOrHalfway, Writers
  <2> QED BY <1>2, <1>3, <2>1, HalfwayStays
<1>9. (\A q \in Writers(id) : Halfway(q, id))'
  BY <1>6, <1>8
<1> QED BY <1>7, <1>9 DEF HeldOrHalfway

-----------------------------------------------------------------------------
(* The step's own event *)

\* The event id is held when request r has ended, and halfway before.
Settles(r, id) ==
  /\ req[r].at \in Serving => Halfway(r, id)
  /\ req[r].at \notin Serving => Held(id)

LEMMA ShownAreFields ==
  ASSUME HInv
  PROVE  Shown \subseteq Fields /\ Patched \subseteq Fields /\ Created \subseteq Fields
<1>1. provider \in {"google", "microsoft", "caldav"}
  BY EventConstants DEF HInv
<1> QED BY <1>1 DEF Shown, Patched, Created, Of, Fields, GoogleShown, GraphShown, ICSShown, GooglePatch,
                    GraphPatch, ICSFields, GoogleInsert, GraphPost

LEMMA AgainGoesOn ==
  ASSUME Shape, NEW r \in Requests, Again(r), ~Answer(r, "failed")
  PROVE  req'[r].at = req[r].at /\ UNCHANGED <<ideal, unsure>>
<1>1. req' = [req EXCEPT ![r].attempt = @ + 1] /\ UNCHANGED <<ideal, unsure>>
  BY DEF Again
<1>2. req' = [req EXCEPT ![r] = [req[r] EXCEPT !.attempt = req[r].attempt + 1]]
  BY <1>1 DEF Shape
<1>3. req'[r] = [req[r] EXCEPT !.attempt = req[r].attempt + 1]
  BY <1>2 DEF Shape
<1> QED BY <1>1, <1>3 DEF Shape, IsReq, Names

LEMMA ReadIs ==
  ASSUME Shape, NEW r \in Requests, NEW p, req' = [req EXCEPT ![r].at = "find", ![r].read = cal[p]]
  PROVE  req'[r].at = "find" /\ req'[r].read = cal[p]
<1>1. req' = [req EXCEPT ![r] = [req[r] EXCEPT !.at = "find", !.read = cal[p]]]
  BY DEF Shape
<1>2. req'[r] = [req[r] EXCEPT !.at = "find", !.read = cal[p]]
  BY <1>1 DEF Shape
<1> QED BY <1>2 DEF Shape, IsReq, Names

LEMMA FindIs ==
  ASSUME Shape, NEW r \in Requests, Find(r), req[r].op = "delete" => There(Place(req[r].id))
  PROVE  /\ req'[r].at = (IF req[r].op = "delete" THEN "remove" ELSE "put")
         /\ req'[r].etag = (IF There(Place(req[r].id)) THEN version[Place(req[r].id)] ELSE 0)
         /\ req'[r].read = req[r].read /\ UNCHANGED <<ideal, unsure>>
<1>1. PICK e, step :
        /\ e = IF There(Place(req[r].id)) THEN version[Place(req[r].id)] ELSE 0
        /\ step = IF req[r].op = "delete" THEN "remove" ELSE "put"
  OBVIOUS
<1>2. req' = [req EXCEPT ![r].etag = e, ![r].at = step] /\ UNCHANGED <<ideal, unsure>>
  BY <1>1 DEF Find
<1>3. req' = [req EXCEPT ![r] = [req[r] EXCEPT !.etag = e, !.at = step]]
  BY <1>2 DEF Shape
<1>4. req'[r] = [req[r] EXCEPT !.etag = e, !.at = step]
  BY <1>3 DEF Shape
<1> QED BY <1>1, <1>2, <1>4 DEF Shape, IsReq, Names

LEMMA PutIs ==
  ASSUME Shape, NEW r \in Requests, Put(r)
  PROVE  req'[r].at = "reread" /\ req'[r].id = IdOf(r) /\ req'[r].read = req[r].read
<1>1. req' = [req EXCEPT ![r] = [req[r] EXCEPT !.at = "reread", !.id = IdOf(r)]]
  BY DEF Put, Shape
<1>2. req'[r] = [req[r] EXCEPT !.at = "reread", !.id = IdOf(r)]
  BY <1>1 DEF Shape
<1> QED BY <1>2 DEF Shape, IsReq, Names

\* What an update under way knows, with the step it is at: the premises of each action.
LEMMA UpdateSettles ==
  ASSUME HInv, NEW r \in Requests, Step(r), req[r].op = "update",
         NEW id, id = req[r].id, id \in Known \ unsure, id \notin unsure', Halfway(r, id)
  PROVE  Settles(r, id)'
<1> DEFINE p == Place(id)
           names == req[r].names \cap Patched
<1>1. /\ EInv /\ Shape /\ OnItsWay(r) /\ IsReq(req[r]) /\ Goes(r) /\ id \in Ids /\ p \in Places
      /\ IdOf(r) = id /\ ideal = [i \in Ids |-> ideal[i]]
  BY StepGoes, KnownAreIds, PlaceOfIs DEF HInv, EInv, Shape, IdOf
<1>2. /\ req'[r].op = "update" /\ req'[r].names = req[r].names /\ provider' = provider
      /\ Shown' = Shown /\ Patched' = Patched
  BY <1>1, SameFields DEF Goes, Moved
<1>3. Updating(r, id)
  BY DEF Halfway
<1>4. ~Answer(r, "failed")
  BY <1>1, AnswerTells DEF HInv
<1>5. ASSUME Answer(r, "ok")
      PROVE  req'[r].at = "ok" /\ ideal'[id] = Overlay(ideal[id], names, r)
  BY <1>1, <1>5, AnswerIs, AnswerTells DEF Ended, Intended
<1>6. \A f \in Shown : \A g : Overlay(g, names, r)[f] = (IF f \in names THEN r ELSE g[f])
  BY ShownAreFields DEF Overlay
\* The event becomes what it should be when what is there has the fields, and the rest of it.
<1>7. ASSUME Answer(r, "ok"), cal'[p] # Nothing, ideal[id] # Nothing,
             \A f \in Shown : cal'[p][f] = (IF f \in names THEN r ELSE ideal[id][f])
      PROVE  Settles(r, id)'
  <2>1. ideal'[id] # Nothing /\ \A f \in Shown : cal'[p][f] = ideal'[id][f]
    <3>1. ideal'[id] = Overlay(ideal[id], names, r)
      BY <1>5, <1>7
    <3>2. \A f \in Shown : ideal'[id][f] = (IF f \in names THEN r ELSE ideal[id][f])
      BY <1>6, <3>1
    <3> QED BY <1>7, <3>1, <3>2, WrittenIsThere
  <2>2. Held(id)'
    BY <1>2, <1>7, <2>1 DEF Held, Same, There, Place
  <2> QED BY <1>5, <1>7, <2>2 DEF Settles, Serving
<1>8. CASE Called(r)
  <2>1. req[r].at = "call" /\ There(p) /\ Write(p, Overlay(cal[p], names, r)) /\ Answer(r, "ok")
    BY <1>1, <1>8 DEF Called, Missing, Effect
  <2>2. cal'[p] = Overlay(cal[p], names, r) /\ cal'[p] # Nothing
    BY <1>1, <2>1, WriteIs, WrittenIsThere
  <2>3. ideal[id] # Nothing /\ \A f \in Shown \ names : cal[p][f] = ideal[id][f]
    BY <1>3, <2>1 DEF Updating, Same
  <2>4. \A f \in Shown : cal'[p][f] = (IF f \in names THEN r ELSE cal[p][f])
    BY <1>6, <2>2
  <2> QED BY <1>7, <2>1, <2>2, <2>3, <2>4
<1>9. CASE CallUnanswered(r)
  <2>1. req[r].at = "call" /\ req'[r].at = "call" /\ UNCHANGED <<ideal, unsure>>
    BY <1>1, <1>4, <1>9, AgainGoesOn DEF CallUnanswered
  <2>2. CASE Untouched
    BY <1>2, <1>3, <2>1, <2>2 DEF Untouched, Updating, Settles, Halfway, Same, There, Place, Serving
  <2>3. CASE ~Missing(r) /\ Effect(r)
    <3>1. There(p) /\ Write(p, Overlay(cal[p], names, r))
      BY <1>1, <2>3 DEF Missing, Effect
    <3>2. cal'[p] = Overlay(cal[p], names, r) /\ cal'[p] # Nothing
      BY <1>1, <3>1, WriteIs, WrittenIsThere
    <3>3. ideal[id] # Nothing /\ \A f \in Shown \ names : cal[p][f] = ideal[id][f]
      BY <1>3, <2>1, <3>1 DEF Updating, Same
    <3>4. \A f \in Shown \ names : cal'[p][f] = cal[p][f]
      BY <1>6, <3>2
    <3> QED BY <1>2, <2>1, <3>2, <3>3, <3>4 DEF Updating, Settles, Halfway, Same, There, Place, Serving
  <2> QED BY <1>9, <2>2, <2>3 DEF CallUnanswered
<1>10. CASE CalledMissing(r)
  <2>1. req[r].at = "call" /\ req'[r].at = "call" /\ UNCHANGED <<ideal, unsure, cal, version>>
    BY <1>1, <1>3, <1>4, <1>10, AgainGoesOn DEF CalledMissing, Untouched
  <2> QED BY <1>2, <1>3, <2>1 DEF Updating, Settles, Halfway, Same, There, Place, Serving
<1>11. CASE Read(r)
  <2>1. PICK q \in Holding(id) : req' = [req EXCEPT ![r].at = "find", ![r].read = cal[q]]
                                 /\ UNCHANGED <<ideal, unsure>>
    BY <1>4, <1>11 DEF Read
  <2>2. q = p /\ There(p)
    BY <1>1, <2>1, WhereItIs DEF Holding
  <2>3. req'[r].at = "find" /\ req'[r].read = cal[p]
    BY <1>1, <2>1, <2>2, ReadIs
  <2>4. req[r].at = "read" /\ UNCHANGED <<cal, version>>
    BY <1>11 DEF Read, Untouched
  <2> QED BY <1>2, <1>3, <2>1, <2>2, <2>3, <2>4 DEF Updating, Settles, Halfway, Same, There, Place, Serving
<1>12. CASE Find(r)
  <2>1. req[r].at = "find" /\ UNCHANGED <<cal, version, ideal>> /\ There(p)
    BY <1>3, <1>12 DEF Find, Untouched, Updating
  <2>2. req'[r].at = "put" /\ req'[r].etag = version[p] /\ req'[r].read = req[r].read
    BY <1>1, <1>12, <2>1, FindIs
  <2> QED BY <1>2, <1>3, <2>1, <2>2 DEF Updating, Settles, Halfway, Same, There, Place, Serving
<1>13. CASE Put(r)
  <2>1. req[r].at = "put" /\ There(p) /\ req[r].etag = version[p] /\ req[r].read = cal[p]
    BY <1>3, <1>13 DEF Put, Updating
  <2>2. version[p] # 0
    BY <1>1 DEF HInv
  <2>3. Fresh(r)
    BY <1>1, <2>1, <2>2 DEF Fresh
  <2>4. Write(p, Merged(r)) /\ UNCHANGED <<ideal, unsure>>
    BY <1>1, <1>13, <2>1, <2>3 DEF Put
  <2>5. req'[r].at = "reread"
    BY <1>1, <1>13, PutIs
  <2>6. cal'[p] = ICS(Overlay(cal[p], names, r)) /\ cal'[p] # Nothing
    BY <1>1, <2>1, <2>4, WriteIs, WrittenIsThere DEF Merged
  <2>7. Shown = ICSFields /\ ICSFields \subseteq Fields
    BY <1>1, <2>1 DEF OnItsWay, DavSteps, Serving, Shown, Of, ICSShown, ICSFields, Fields
  <2>8. \A f \in Shown : cal'[p][f] = (IF f \in names THEN r ELSE cal[p][f])
    BY <1>6, <2>6, <2>7 DEF ICS, Overlay
  <2>9. ideal[id] # Nothing /\ \A f \in Shown : cal[p][f] = ideal[id][f]
    BY <1>3, <2>1 DEF Updating, Same
  <2> QED BY <1>2, <2>4, <2>5, <2>6, <2>8, <2>9 DEF Updating, Settles, Halfway, Same, There, Place, Serving
<1>14. CASE Remove(r)
  BY <1>14 DEF Remove, HInv, OnPath, DavPath, DavSteps, Serving
<1>15. CASE Reread(r)
  <2>1. req[r].at = "reread" /\ Answer(r, "ok") /\ UNCHANGED <<cal, version>>
    BY <1>4, <1>15 DEF Reread, Untouched
  <2>2. /\ cal[p] # Nothing /\ ideal[id] # Nothing
        /\ \A f \in Shown : cal[p][f] = (IF f \in names THEN r ELSE ideal[id][f])
    BY <1>3, <2>1 DEF Updating, Same, There
  <2> QED BY <1>7, <2>1, <2>2
<1>16. CASE DavFails(r)
  BY <1>4, <1>16 DEF DavFails
<1>17. CASE WriteRefused(r)
  BY <1>1, <1>17, RefusedIs
<1> QED BY <1>8, <1>9, <1>10, <1>11, <1>12, <1>13, <1>14, <1>15, <1>16, <1>17 DEF Step

LEMMA DeleteSettles ==
  ASSUME HInv, NEW r \in Requests, Step(r), req[r].op = "delete",
         NEW id, id = req[r].id, id \in Known \ unsure, id \notin unsure', Halfway(r, id)
  PROVE  Settles(r, id)'
<1> DEFINE p == Place(id)
<1>1. /\ EInv /\ Shape /\ OnItsWay(r) /\ IsReq(req[r]) /\ Goes(r) /\ id \in Ids /\ p \in Places
      /\ IdOf(r) = id /\ ideal = [i \in Ids |-> ideal[i]]
  BY StepGoes, KnownAreIds, PlaceOfIs DEF HInv, EInv, Shape, IdOf
<1>2. /\ req'[r].op = "delete" /\ provider' = provider /\ Shown' = Shown
      /\ req[r].at \notin {"read", "put", "reread"}
  BY <1>1, SameFields DEF Goes, Moved, HInv, OnPath, DavPath, DavSteps, Serving
<1>3. Deleting(r, id)
  BY DEF Halfway
<1>4. ~Answer(r, "failed")
  BY <1>1, AnswerTells DEF HInv
\* The event is gone, as it should be.
<1>5. ASSUME Answer(r, "ok"), cal'[p] = Nothing
      PROVE  Settles(r, id)'
  <2>1. ideal'[id] = Nothing /\ req'[r].at = "ok"
    BY <1>1, <1>5, AnswerIs, AnswerTells DEF Intended, Ended
  <2> QED BY <1>5, <2>1 DEF Settles, Held, There, Place, Serving
<1>6. CASE Called(r)
  <2>1. Write(p, Nothing) /\ Answer(r, "ok")
    BY <1>1, <1>6 DEF Called, Effect
  <2> QED BY <1>1, <1>5, <2>1, WriteIs
<1>7. CASE CallUnanswered(r)
  <2>1. req[r].at = "call" /\ req'[r].at = "call" /\ UNCHANGED <<ideal, unsure>>
    BY <1>1, <1>4, <1>7, AgainGoesOn DEF CallUnanswered
  <2>2. CASE Untouched
    BY <1>2, <1>3, <2>1, <2>2 DEF Untouched, Deleting, Settles, Halfway, Held, Same, There, Place, Serving
  <2>3. CASE Effect(r)
    <3>1. cal'[p] = Nothing
      BY <1>1, <2>3, WriteIs DEF Effect
    <3> QED BY <1>2, <2>1, <3>1 DEF Deleting, Settles, Halfway, There, Place, Serving
  <2> QED BY <1>7, <2>2, <2>3 DEF CallUnanswered
<1>8. CASE CalledMissing(r)
  <2>1. req[r].at = "call" /\ req'[r].at = "call" /\ UNCHANGED <<ideal, unsure, cal, version>>
    BY <1>1, <1>4, <1>8, AgainGoesOn DEF CalledMissing, Untouched
  <2> QED BY <1>2, <1>3, <2>1 DEF Deleting, Settles, Halfway, Held, Same, There, Place, Serving
<1>9. CASE Find(r)
  <2>1. req[r].at = "find" /\ UNCHANGED <<cal, version>> /\ Held(id)
    BY <1>3, <1>9 DEF Find, Untouched, Deleting
  <2>2. CASE ~There(p)
    BY <1>1, <1>5, <1>9, <2>1, <2>2 DEF Find, There
  <2>3. CASE There(p)
    <3>1. req'[r].at = "remove" /\ req'[r].etag = version[p] /\ UNCHANGED ideal
      BY <1>1, <1>9, <2>3, FindIs
    <3> QED BY <1>2, <2>1, <2>3, <3>1 DEF Deleting, Settles, Halfway, Held, Same, There, Place, Serving
  <2> QED BY <2>2, <2>3
<1>10. CASE Remove(r)
  <2>1. There(p) /\ req[r].etag = version[p] /\ version[p] # 0
    BY <1>1, <1>3, <1>10 DEF Remove, Deleting, HInv
  <2>2. Write(p, Nothing) /\ Answer(r, "ok")
    BY <1>1, <1>10, <2>1 DEF Remove, Fresh
  <2> QED BY <1>1, <1>5, <2>2, WriteIs
<1>11. CASE Read(r) \/ Put(r) \/ Reread(r)
  BY <1>2, <1>11 DEF Read, Put, Reread
<1>12. CASE DavFails(r)
  BY <1>4, <1>12 DEF DavFails
<1>13. CASE WriteRefused(r)
  BY <1>1, <1>13, RefusedIs
<1> QED BY <1>6, <1>7, <1>8, <1>9, <1>10, <1>11, <1>12, <1>13 DEF Step

\* The event of a create is known to clients only when the create has ended well.
LEMMA KnownHasEnded ==
  ASSUME EInv, NEW r \in Requests, NEW n, <<r, n>> \in Known
  PROVE  req[r].op = "create" /\ req[r].at = "ok"
<1>1. <<r, n>> \notin OldIds
  BY EventConstants DEF OldIds
<1>2. PICK q \in Requests : req[q].op = "create" /\ req[q].at = "ok" /\ req[q].id = <<r, n>>
  BY <1>1 DEF Known
<1>3. IdOf(q) = <<r, n>>
  BY <1>2 DEF EInv, OnItsWay
<1>4. q = r
  BY <1>2, <1>3 DEF IdOf
<1> QED BY <1>2, <1>4

LEMMA CreateSettles ==
  ASSUME HInv, NEW r \in Requests, Step(r), req[r].op = "create",
         NEW id, id = IdOf(r), id \in Known' \ unsure'
  PROVE  req'[r].at = "ok" /\ Held(id)'
<1> DEFINE p == Place(id)
<1>1. /\ EInv /\ Shape /\ OnItsWay(r) /\ IsReq(req[r]) /\ Goes(r) /\ Touches(id) /\ id \in Ids
      /\ p \in Places /\ ideal = [i \in Ids |-> ideal[i]] /\ CreateHolds(r)
      /\ provider' = provider
  BY StepTouches, PlaceOfIs DEF HInv, EInv, Shape, Goes
<1>2. req'[r].at = "ok"
  <2>1. id \notin Known
    BY <1>1, KnownHasEnded DEF Goes, Serving, IdOf
  <2>2. \A q \in Requests : q # r => req'[q] = req[q]
    BY <1>1 DEF Goes, Moved
  <2> QED BY <2>1, <2>2 DEF Known
<1>3. id \notin unsure /\ ~Answer(r, "failed")
  BY <1>1, AnswerTells DEF Touches
<1>4. ASSUME Answer(r, "ok")
      PROVE  ideal'[id] = NewEvent(r, req[r].names)
  BY <1>1, <1>3, <1>4, AnswerTells DEF Intended
<1>5. ASSUME cal'[p] = NewEvent(r, req[r].names), Answer(r, "ok") PROVE Held(id)'
  <2>1. ideal'[id] = cal'[p] /\ cal'[p] # Nothing
    BY <1>4, <1>5, WrittenIsThere
  <2> QED BY <2>1 DEF Held, Same, There, Place
<1>6. CASE Called(r)
  <2>1. Write(p, NewEvent(r, req[r].names)) /\ Answer(r, "ok")
    BY <1>6 DEF Called, Effect
  <2> QED BY <1>1, <1>2, <1>5, <2>1, WriteIs
<1>7. CASE Reread(r)
  <2>1. req[r].at = "reread" /\ Answer(r, "ok") /\ cal' = cal
    BY <1>3, <1>7 DEF Reread, Untouched
  <2>2. IdOf(r) = <<r, 1>>
    BY <1>1, <2>1 DEF OnItsWay, DavSteps, Serving, IdOf
  <2>3. cal[p] = NewEvent(r, req[r].names)
    BY <1>1, <1>3, <2>1, <2>2 DEF CreateHolds
  <2> QED BY <1>2, <1>5, <2>1, <2>3
<1>8. CASE CallUnanswered(r) \/ CalledMissing(r)
  <2>1. req'[r].at = req[r].at /\ req[r].at = "call"
    BY <1>1, <1>3, <1>8, AgainGoesOn DEF CallUnanswered, CalledMissing, Missing
  <2> QED BY <1>2, <2>1
<1>9. CASE Read(r) \/ Find(r) \/ Remove(r)
  BY <1>1, <1>9 DEF Read, Find, Remove, OnItsWay
<1>10. CASE Put(r)
  BY <1>1, <1>2, <1>10, PutIs
<1>11. CASE DavFails(r)
  BY <1>3, <1>11 DEF DavFails
<1>12. CASE WriteRefused(r)
  BY <1>1, <1>12, RefusedIs
<1> QED BY <1>6, <1>7, <1>8, <1>9, <1>10, <1>11, <1>12 DEF Step

LEMMA ReadsChangeNothing ==
  ASSUME HInv, NEW r \in Requests, Step(r), req[r].op = "read"
  PROVE  UNCHANGED <<cal, version, ideal, unsure>>
<1>1. EInv /\ Shape /\ OnPath(r) /\ IsReq(req[r]) /\ ideal = [i \in Ids |-> ideal[i]] /\ IdOf(r) \in Ids
  BY StepTouches DEF HInv, EInv, Shape
<1>2. req[r].at \notin {"read", "find", "put", "remove"}
  BY <1>1 DEF OnPath, DavPath, DavSteps, Serving
<1>3. UNCHANGED <<cal, version>>
  BY <1>2 DEF Step, Called, CallUnanswered, CalledMissing, Read, Find, Put, Remove, WriteRefused,
              Reread, DavFails, Effect, Untouched
<1>4. ASSUME NEW outcome \in Ended, Answer(r, outcome) PROVE ideal' = ideal /\ unsure' = unsure
  <2>1. [ideal EXCEPT ![IdOf(r)] = ideal[IdOf(r)]] = ideal
    BY <1>1
  <2> QED BY <1>4, <2>1 DEF Answer, Intended
<1>5. ~WriteRefused(r)
  BY <1>2 DEF WriteRefused
<1> QED BY <1>3, <1>4, <1>5, StepTells DEF Ended

-----------------------------------------------------------------------------
(* The path of a request *)

LEMMA PathStays ==
  ASSUME HInv, NEW r \in Requests, Step(r), NEW o \in Requests
  PROVE  OnPath(o)'
<1>1. EInv /\ Shape /\ Goes(r) /\ OnItsWay(r) /\ OnPath(r) /\ OnPath(o) /\ IsReq(req[r])
  BY StepGoes DEF HInv, EInv, Shape
<1>2. CASE o # r
  <2>1. req'[o] = req[o]
    BY <1>1, <1>2 DEF Goes, Moved
  <2> QED BY <1>1, <2>1 DEF OnPath
<1>3. CASE o = r
  <2> SUFFICES OnPath(r)'
    BY <1>3
  <2>1. req'[r].op = req[r].op /\ req[r].op \in Ops
    BY <1>1 DEF Goes, Moved, IsReq
  <2>2. ASSUME req'[r].at \in Ended \cup {"call"} PROVE OnPath(r)'
    BY <2>2 DEF OnPath, Ended, DavSteps, Serving
  <2>3. ASSUME NEW outcome \in Ended, Answer(r, outcome) PROVE OnPath(r)'
    BY <1>1, <2>2, <2>3, AnswerIs
  <2>4. CASE CallUnanswered(r) \/ CalledMissing(r)
    <3>1. req[r].at = "call" /\ (Again(r) \/ Answer(r, "failed"))
      BY <2>4 DEF CallUnanswered, CalledMissing
    <3>2. CASE Answer(r, "failed")
      BY <2>3, <3>2 DEF Ended
    <3>3. CASE Again(r) /\ ~Answer(r, "failed")
      BY <1>1, <2>2, <3>1, <3>3, AgainGoesOn
    <3> QED BY <3>1, <3>2, <3>3
  <2>5. CASE Called(r) \/ Remove(r) \/ Reread(r) \/ DavFails(r)
    <3>1. Answer(r, "ok") \/ Answer(r, "failed")
      BY <2>5 DEF Called, Remove, Reread, DavFails
    <3> QED BY <2>3, <3>1 DEF Ended
  <2>6. CASE Read(r)
    <3>1. CASE Answer(r, "failed")
      BY <2>3, <3>1 DEF Ended
    <3>2. CASE ~Answer(r, "failed")
      <4>1. PICK p \in Holding(req[r].id) : req' = [req EXCEPT ![r].at = "find", ![r].read = cal[p]]
        BY <2>6, <3>2 DEF Read
      <4>2. req'[r].at = "find" /\ req'[r].read # Nothing
        BY <1>1, <4>1, ReadIs DEF Holding, There
      <4>3. req[r].op = "update"
        BY <1>1, <2>1, <2>6 DEF Read, OnPath, DavPath, DavSteps, Serving, Ops
      <4> QED BY <2>1, <4>2, <4>3 DEF OnPath, DavPath
    <3> QED BY <3>1, <3>2
  <2>7. CASE Find(r)
    <3>1. CASE Answer(r, "ok")
      BY <2>3, <3>1 DEF Ended
    <3>2. CASE ~Answer(r, "ok")
      <4>1. req[r].at = "find" /\ (req[r].op = "update" \/ req[r].op = "delete")
        BY <1>1, <2>1, <2>7 DEF Find, OnPath, DavPath, DavSteps, Serving, Ops
      <4>2. req[r].op = "delete" => There(Place(req[r].id))
        BY <2>7, <3>2 DEF Find
      <4>3. req'[r].at = (IF req[r].op = "delete" THEN "remove" ELSE "put") /\ req'[r].read = req[r].read
        BY <1>1, <2>7, <4>2, FindIs
      <4> QED BY <1>1, <2>1, <4>1, <4>3 DEF OnPath, DavPath
    <3> QED BY <3>1, <3>2
  <2>8. CASE Put(r)
    <3>1. req'[r].at = "reread"
      BY <1>1, <2>8, PutIs
    <3>2. req[r].at = "put" /\ (req[r].op = "create" \/ req[r].op = "update")
      BY <1>1, <2>1, <2>8 DEF Put, OnPath, DavPath, DavSteps, Serving, Ops
    <3> QED BY <2>1, <3>1, <3>2 DEF OnPath, DavPath
  <2>9. CASE WriteRefused(r)
    <3>1. req'[r].at = (IF req[r].at = "put" THEN "reread" ELSE "ok")
      BY <1>1, <2>9, RefusedIs
    <3>2. req[r].at = "put" => req[r].op = "create" \/ req[r].op = "update"
      BY <1>1, <2>1 DEF OnPath, DavPath, DavSteps, Serving, Ops
    <3>3. CASE req[r].at = "put"
      BY <2>1, <3>1, <3>2, <3>3 DEF OnPath, DavPath
    <3> QED BY <2>2, <3>1, <3>3 DEF Ended
  <2> QED BY <2>4, <2>5, <2>6, <2>7, <2>8, <2>9 DEF Step
<1> QED BY <1>2, <1>3

LEMMA CreateKeepsHold ==
  ASSUME HInv, NEW r \in Requests, Step(r), NEW o \in Requests
  PROVE  CreateHolds(o)'
<1> SUFFICES ASSUME req'[o].op = "create", req'[o].at \in {"put", "reread"} PROVE CreateHolds(o)'
  BY DEF CreateHolds
<1> DEFINE id == <<o, 1>>
           p == Place(id)
<1>1. /\ EInv /\ Shape /\ Goes(r) /\ OnItsWay(o) /\ CreateHolds(o) /\ IsReq(req[r])
      /\ Touches(IdOf(r)) /\ IdOf(r) \in Ids
  BY StepTouches DEF HInv, EInv, Shape
<1>2. id \in Ids /\ p \in Places /\ id \notin OldIds
  BY EventConstants, PlaceOfIs DEF Ids, OldIds
<1>3. CASE o # r
  <2>1. req'[o] = req[o]
    BY <1>1, <1>3 DEF Goes, Moved
  <2>2. IdOf(r) # id
    <3>1. CASE req[r].op = "create"
      BY <1>3, <3>1 DEF IdOf
    <3>2. CASE req[r].op # "create"
      <4>1. IdOf(r) \in Known
        BY <1>1, <3>2 DEF IdOf, EInv, NamesKnown, Goes, Serving
      <4>2. id \notin Known
        BY <1>1, <2>1, KnownHasEnded
      <4> QED BY <4>1, <4>2
    <3> QED BY <3>1, <3>2
  <2>3. cal'[p] = cal[p] /\ (id \in unsure => id \in unsure')
    BY <1>1, <1>2, <2>2, PlaceOfIs DEF Touches
  <2>4. PICK names : names = req[o].names
    OBVIOUS
  <2>5. NewEvent(o, names)' = NewEvent(o, names)
    BY <1>1, NewEventIsTheSame DEF Goes
  <2> QED BY <1>1, <2>1, <2>3, <2>4, <2>5 DEF CreateHolds, There, Place
<1>4. CASE o = r /\ ~WriteRefused(r)
  <2>1. req[r].op = "create" /\ req'[r].names = req[r].names
    BY <1>1, <1>4 DEF Goes, Moved
  <2>2. ASSUME NEW outcome \in Ended, Answer(r, outcome) PROVE FALSE
    BY <1>1, <1>4, <2>2, AnswerIs DEF Ended
  <2>3. ~CallUnanswered(r) /\ ~CalledMissing(r)
    <3> SUFFICES ASSUME CallUnanswered(r) \/ CalledMissing(r) PROVE FALSE
      OBVIOUS
    <3>1. req[r].at = "call" /\ Again(r) /\ ~Answer(r, "failed")
      BY <2>2 DEF CallUnanswered, CalledMissing, Ended
    <3> QED BY <1>1, <1>4, <3>1, AgainGoesOn
  <2>4. ~Called(r) /\ ~Remove(r) /\ ~Reread(r) /\ ~DavFails(r)
    BY <2>2 DEF Called, Remove, Reread, DavFails, Ended
  <2>5. ~Read(r) /\ ~Find(r)
    BY <1>1, <1>4, <2>1 DEF OnItsWay, Read, Find
  <2>6. Put(r)
    BY <1>4, <2>3, <2>4, <2>5 DEF Step
  <2>7. req[r].at = "put" /\ provider = "caldav" /\ req[r].etag = 0 /\ IdOf(r) = id /\ ~There(p)
    BY <1>1, <1>4, <2>1, <2>6 DEF Put, OnItsWay, DavSteps, Serving, IdOf, CreateHolds
  <2>8. Fresh(r) /\ ~Exists(id)
    <3>1. \A q \in Places : q[1] = id => q = p
      BY <1>2, PlaceOfIs
    <3> QED BY <2>7, <3>1 DEF Fresh, Exists
  <2>9. Write(p, NewEvent(r, req[r].names))
    BY <2>1, <2>6, <2>7, <2>8 DEF Put, Merged
  <2>10. cal'[p] = NewEvent(r, req[r].names)
    BY <1>1, <1>2, <2>9, WriteIs
  <2>11. req'[r].at = "reread" /\ req'[r].id = id
    BY <1>1, <2>6, <2>7, PutIs
  <2>12. PICK names : names = req[r].names
    OBVIOUS
  <2>13. NewEvent(r, names)' = NewEvent(r, names)
    BY <1>1, NewEventIsTheSame DEF Goes
  <2> QED BY <1>4, <2>1, <2>10, <2>11, <2>12, <2>13 DEF CreateHolds, Place
<1>5. CASE o = r /\ WriteRefused(r)
  <2>1. req[r].op = "create" /\ req[r].at = "put"
    BY <1>1, <1>5 DEF Goes, Moved, WriteRefused, OnItsWay
  <2>2. IdOf(r) = id
    BY <1>1, <1>5, <2>1 DEF OnItsWay, DavSteps, Serving, IdOf
  <2>3. id \in unsure' /\ req'[r].at = "reread" /\ req'[r].id = id
    BY <1>1, <1>5, <2>1, <2>2, RefusedIs
  <2> QED BY <1>5, <2>3 DEF CreateHolds
<1> QED BY <1>3, <1>4, <1>5

-----------------------------------------------------------------------------
(* The invariant holds *)

LEMMA StepHInv ==
  ASSUME HInv, NEW r \in Requests, Step(r)
  PROVE  HInv'
<1>1. /\ Touches(IdOf(r)) /\ Goes(r) /\ EInv /\ EInv' /\ Shape /\ IdOf(r) \in Ids
  BY StepTouches, StepEInv DEF HInv, EInv
<1>2. provider' \in Providers
  BY <1>1 DEF Goes, HInv
<1>3. \A p \in Places : version'[p] >= 1 /\ (p[2] = "foreign" /\ There(p)' => p[1] \in unsure')
  <2>1. \A p \in Places : p[2] = "foreign" => cal'[p] = cal[p]
    BY <1>1, PlaceOfIs DEF Touches
  <2> QED BY <1>1, <2>1 DEF Touches, There, HInv
<1>4. PICK own : own = IdOf(r)
  OBVIOUS
<1>5. ASSUME own \in Known' \ unsure' PROVE HeldOrHalfway(own)'
  <2>1. own \notin unsure /\ own \in Ids /\ req[r].op \in Ops
    BY <1>1, <1>4, <1>5 DEF Touches, Shape, IsReq
  <2>2. \A q \in Requests : q # r => req'[q] = req[q]
    BY <1>1 DEF Goes, Moved
  <2>3. req'[r].op = req[r].op /\ req[r].at \in Serving
    BY <1>1 DEF Goes, Moved
  <2>4. CASE req[r].op = "create"
    <3>1. req'[r].at = "ok" /\ Held(own)'
      BY <1>4, <1>5, <2>4, CreateSettles
    <3>2. own \notin Known
      BY <1>1, <1>4, <2>3, <2>4, KnownHasEnded DEF IdOf, Serving
    <3>3. ~\E q \in Requests : q \in Writers(own)'
      <4> SUFFICES ASSUME NEW q \in Requests, q \in Writers(own)' PROVE FALSE
        OBVIOUS
      <4>1. q # r
        BY <2>3, <2>4 DEF Writers
      <4>2. req[q].id = own /\ req[q].op # "create" /\ req[q].at # "unsent"
        BY <2>2, <4>1 DEF Writers, Serving
      <4> QED BY <1>1, <3>2, <4>2 DEF EInv, NamesKnown
    <3>4. Writers(own)' = {}
      BY <3>3 DEF Writers
    <3> QED BY <3>1, <3>4 DEF HeldOrHalfway
  <2>5. CASE req[r].op = "read"
    <3>1. UNCHANGED <<cal, version, ideal, unsure>> /\ provider' = provider
      BY <1>1, <2>5, ReadsChangeNothing DEF Goes
    <3>2. own \in Known \ unsure /\ HeldOrHalfway(own)
      <4>1. own \in Known
        BY <1>1, <1>4, <2>3, <2>5 DEF EInv, NamesKnown, IdOf, Serving
      <4> QED BY <2>1, <4>1 DEF HInv
    <3>3. Writers(own)' = Writers(own) /\ r \notin Writers(own)
      BY <2>2, <2>3, <2>5 DEF Writers
    <3>4. Held(own) => Held(own)'
      BY <2>1, <3>1, HeldStays
    <3>5. ASSUME NEW q \in Writers(own) PROVE Halfway(q, own)'
      <4>1. q \in Requests /\ Halfway(q, own) /\ req'[q] = req[q]
        BY <2>2, <3>2, <3>3 DEF HeldOrHalfway, Writers
      <4> QED BY <2>1, <3>1, <4>1, HalfwayStays
    <3> QED BY <3>2, <3>3, <3>4, <3>5 DEF HeldOrHalfway
  <2>6. CASE req[r].op \in {"update", "delete"}
    <3>1. own = req[r].id
      BY <1>4, <2>6 DEF IdOf
    <3>2. own \in Known \ unsure
      BY <1>1, <2>1, <2>3, <2>6, <3>1 DEF EInv, NamesKnown, Serving
    <3>3. HeldOrHalfway(own) /\ r \in Writers(own)
      BY <2>3, <2>6, <3>1, <3>2 DEF HInv, Writers
    <3>4. Halfway(r, own) /\ \A q \in Writers(own) : q = r
      BY <3>3 DEF HeldOrHalfway
    <3>5. Settles(r, own)'
      BY <1>5, <2>6, <3>1, <3>2, <3>4, UpdateSettles, DeleteSettles
    <3>6. \A q \in Requests : q \in Writers(own)' => q = r /\ req'[r].at \in Serving
      BY <2>2, <3>4 DEF Writers
    <3>7. req'[r].at \in Serving => r \in Writers(own)'
      BY <1>1, <1>4, <2>3, <2>6, <3>1 DEF Writers, Goes
    <3>8. \A q \in Writers(own)' : q = r /\ req'[r].at \in Serving
      BY <3>6 DEF Writers
    <3> QED BY <3>5, <3>7, <3>8 DEF HeldOrHalfway, Settles
  <2> QED BY <2>1, <2>4, <2>5, <2>6 DEF Ops
<1>6. ASSUME NEW id \in Known' \ unsure' PROVE HeldOrHalfway(id)'
  BY <1>4, <1>5, <1>6, OthersKeep
<1>7. (\A id \in Known \ unsure : HeldOrHalfway(id))'
  BY <1>6
<1>8. (\A o \in Requests : OnPath(o) /\ CreateHolds(o))'
  BY PathStays, CreateKeepsHold
<1> QED BY <1>1, <1>2, <1>3, <1>7, <1>8 DEF HInv, Touches

LEMMA SendHInv ==
  ASSUME HInv, NEW r \in Requests, NEW op \in Ops, NEW id, NEW names, Send(r, op, id, names)
  PROVE  HInv'
<1>1. EInv /\ Shape /\ EInv' /\ req[r].at = "unsent" /\ req[r].op = "read"
  BY SendEInv DEF HInv, EInv, OnItsWay, Send
<1>2. /\ UNCHANGED <<provider, cal, version, ideal>> /\ unsure \subseteq unsure'
      /\ op \in {"update", "delete"} /\ InFlight(id) # {} => id \in unsure'
  BY DEF Send, Untouched
<1>3. /\ \A o \in Requests : o # r => req'[o] = req[o]
      /\ req'[r].op = op /\ req'[r].id = id /\ req'[r].at = FirstStep(op)
      /\ FirstStep(op) \in Serving /\ (FirstStep(op) = "call" <=> provider # "caldav")
  BY <1>1, SendIs
<1>4. provider \in {"google", "microsoft", "caldav"}
  BY EventConstants DEF HInv
<1>5. Known' = Known
  <2>1. \A o \in Requests : req'[o].op = "create" /\ req'[o].at = "ok" => o # r
    BY <1>3 DEF Serving
  <2>2. \A o \in Requests : req[o].op = "create" /\ req[o].at = "ok" => o # r
    BY <1>1
  <2> QED BY <1>3, <2>1, <2>2 DEF Known
<1>6. /\ \A p \in Places : version'[p] >= 1 /\ (p[2] = "foreign" /\ There(p)' => p[1] \in unsure')
      /\ provider' \in Providers /\ ideal' = [i \in Ids |-> ideal'[i]]
  BY <1>2 DEF HInv, There
<1>7. ASSUME NEW i \in Known' \ unsure' PROVE HeldOrHalfway(i)'
  <2>1. i \in Known \ unsure /\ i \in Ids /\ HeldOrHalfway(i)
    BY <1>1, <1>2, <1>5, KnownAreIds DEF HInv
  <2>2. r \notin Writers(i)
    BY <1>1 DEF Writers, Serving
  <2>3. Held(i) => Held(i)'
    BY <1>2, <2>1, HeldStays
  <2>4. CASE i = id /\ op \in {"update", "delete"}
    <3>1. InFlight(id) = {}
      BY <1>2, <1>7, <2>4
    <3>2. Writers(id) = {} /\ \A o \in Requests : ~(req[o].id = id /\ req[o].at \in Serving)
      BY <3>1 DEF InFlight, Writers
    <3>3. Held(id) /\ Held(id)'
      BY <2>1, <2>3, <2>4, <3>2 DEF HeldOrHalfway
    <3>4. \A o \in Writers(id)' : o = r
      BY <1>3, <3>2 DEF Writers
    <3>5. r \in Writers(id)'
      BY <1>3, <2>4 DEF Writers
    <3>6. op = "update" => req'[r].at \in {"call", "read"}
      BY <1>3 DEF FirstStep
    <3>7. op = "delete" => req'[r].at \in {"call", "find"}
      BY <1>3 DEF FirstStep
    <3>8. Halfway(r, id)'
      BY <1>3, <3>3, <3>6, <3>7 DEF Halfway, Updating, Deleting, Held, Same
    <3> QED BY <2>4, <3>4, <3>5, <3>8 DEF HeldOrHalfway
  <2>5. CASE ~(i = id /\ op \in {"update", "delete"})
    <3>1. Writers(i)' = Writers(i)
      BY <1>3, <2>2, <2>5 DEF Writers
    <3>2. ASSUME NEW q \in Writers(i) PROVE Halfway(q, i)'
      <4>1. q \in Requests /\ Halfway(q, i) /\ req'[q] = req[q]
        BY <1>3, <2>1, <2>2 DEF HeldOrHalfway, Writers
      <4> QED BY <1>2, <2>1, <4>1, HalfwayStays
    <3> QED BY <2>1, <2>3, <3>1, <3>2 DEF HeldOrHalfway
  <2> QED BY <2>4, <2>5
<1>8. ASSUME NEW o \in Requests PROVE OnPath(o)' /\ CreateHolds(o)'
  <2>1. OnPath(o) /\ CreateHolds(o)
    BY DEF HInv
  <2>2. CASE o # r
    <3>1. req'[o] = req[o]
      BY <1>3, <2>2
    <3>2. PICK fields : fields = req[o].names
      OBVIOUS
    <3>3. NewEvent(o, fields)' = NewEvent(o, fields)
      BY <1>2, NewEventIsTheSame
    <3> QED BY <1>2, <2>1, <3>1, <3>2, <3>3 DEF OnPath, CreateHolds, There, Place
  <2>3. CASE o = r
    <3>1. OnPath(r)'
      BY <1>3 DEF FirstStep, OnPath, DavPath, DavSteps, Serving, Ops
    <3>2. ~There(Place(<<r, 1>>)) /\ Place(<<r, 1>>)' = Place(<<r, 1>>)
      <4>1. 1 \in 1 .. MaxAttempts /\ ~Made(r, 1)
        BY <1>1, EventConstants DEF Made
      <4> QED BY <1>1, <4>1 DEF EInv, MadeByCreate, Place
    <3>3. CreateHolds(r)'
      BY <1>2, <1>3, <3>2 DEF CreateHolds, There, FirstStep
    <3> QED BY <2>3, <3>1, <3>3
  <2> QED BY <2>2, <2>3
<1>9. (\A i \in Known \ unsure : HeldOrHalfway(i))' /\ (\A o \in Requests : OnPath(o) /\ CreateHolds(o))'
  BY <1>7, <1>8
<1> QED BY <1>1, <1>6, <1>9 DEF HInv

\* An editor changes an event where it is, or ends it, and what it should be with it.
LEMMA EditedIsHeld ==
  ASSUME HInv, NEW p \in Places, DeleteElsewhere(p) \/ \E names \in Bodies : EditElsewhere(p, names)
  PROVE  /\ UNCHANGED <<provider, req>> /\ There(p) /\ p[1] \in Ids
         /\ (\E fields : Write(p, fields)) /\ edits' = edits + 1 /\ lost' = lost
         /\ ideal' = [i \in Ids |-> ideal'[i]] /\ \A i \in Ids \ {p[1]} : ideal'[i] = ideal[i]
         /\ unsure \subseteq unsure' /\ (InFlight(p[1]) # {} => p[1] \in unsure')
         /\ p = Place(p[1]) /\ Held(p[1]) => Held(p[1])'
<1>1. /\ UNCHANGED <<provider, req>> /\ There(p) /\ p[1] \in Ids /\ Shape
      /\ (\E fields : Write(p, fields)) /\ edits' = edits + 1 /\ lost' = lost
      /\ unsure \subseteq unsure' /\ (InFlight(p[1]) # {} => p[1] \in unsure')
  BY PlaceOfIs DEF DeleteElsewhere, EditElsewhere, EditedBetween, HInv, EInv
<1>2. CASE DeleteElsewhere(p)
  <2>1. ideal' = [ideal EXCEPT ![p[1]] = Nothing] /\ ideal = [i \in Ids |-> ideal[i]]
    BY <1>2 DEF DeleteElsewhere, HInv
  <2>2. /\ ideal' = [i \in Ids |-> ideal'[i]] /\ \A i \in Ids \ {p[1]} : ideal'[i] = ideal[i]
        /\ ideal'[p[1]] = Nothing
    BY <1>1, <2>1
  <2>3. cal'[p] = Nothing
    BY <1>1, <1>2, WriteIs DEF DeleteElsewhere
  <2>4. p = Place(p[1]) => Held(p[1])'
    BY <2>2, <2>3 DEF Held, There, Place
  <2> QED BY <1>1, <2>2, <2>4
<1>3. CASE \E names \in Bodies : EditElsewhere(p, names)
  <2>1. PICK names \in Bodies : EditElsewhere(p, names)
    BY <1>3
  <2>2. cal'[p] = Overlay(cal[p], names, "other")
    BY <1>1, <2>1, WriteIs DEF EditElsewhere
  <2>3. /\ ideal' = (IF ideal[p[1]] = Nothing THEN ideal
                     ELSE [ideal EXCEPT ![p[1]] = Overlay(ideal[p[1]], names, "other")])
        /\ ideal = [i \in Ids |-> ideal[i]]
    BY <1>1, <2>1 DEF EditElsewhere, HInv
  <2>4. /\ ideal' = [i \in Ids |-> ideal'[i]] /\ \A i \in Ids \ {p[1]} : ideal'[i] = ideal[i]
        /\ ideal[p[1]] # Nothing => ideal'[p[1]] = Overlay(ideal[p[1]], names, "other")
    BY <1>1, <2>3
  <2>5. ASSUME p = Place(p[1]), Held(p[1]) PROVE Held(p[1])'
    <3>1. ideal[p[1]] # Nothing /\ \A f \in Shown : cal[p][f] = ideal[p[1]][f]
      BY <1>1, <2>5 DEF Held, Same
    <3>2. \A f \in Fields : cal'[p][f] = (IF f \in names THEN "other" ELSE cal[p][f])
      BY <2>2 DEF Overlay
    <3>3. \A f \in Fields : ideal'[p[1]][f] = (IF f \in names THEN "other" ELSE ideal[p[1]][f])
      BY <2>4, <3>1 DEF Overlay
    <3>4. \A f \in Shown : cal'[p][f] = ideal'[p[1]][f]
      BY <3>1, <3>2, <3>3, ShownAreFields
    <3>5. cal'[p] # Nothing /\ ideal'[p[1]] # Nothing /\ Shown' = Shown
      BY <1>1, <2>2, <2>4, <3>1, WrittenIsThere, SameFields
    <3> QED BY <2>5, <3>4, <3>5 DEF Held, Same, There, Place
  <2> QED BY <1>1, <2>4, <2>5
<1> QED BY <1>2, <1>3

LEMMA ElsewhereHInv ==
  ASSUME HInv, NEW p \in Places, DeleteElsewhere(p) \/ \E names \in Bodies : EditElsewhere(p, names)
  PROVE  HInv'
<1> DEFINE id == p[1]
<1>1. PICK fields :
        /\ UNCHANGED <<provider, req>> /\ There(p) /\ id \in Ids
        /\ Write(p, fields) /\ edits' = edits + 1 /\ lost' = lost
        /\ ideal' = [i \in Ids |-> ideal'[i]] /\ \A i \in Ids \ {id} : ideal'[i] = ideal[i]
        /\ unsure \subseteq unsure' /\ (InFlight(id) # {} => id \in unsure')
        /\ p = Place(id) /\ Held(id) => Held(id)'
  BY EditedIsHeld
<1>2. EInv /\ Shape /\ EInv'
  BY <1>1, ElsewhereEInv DEF HInv, EInv
<1>3. \A q \in Places \ {p} : cal'[q] = cal[q] /\ version'[q] = version[q]
  BY <1>1, <1>2, WriteIs
<1>4. \A q \in Places : version'[q] >= 1
  <2>1. version' = [version EXCEPT ![p] = @ + 1] /\ version \in [Places -> Nat]
    BY <1>1, <1>2 DEF Write, Shape
  <2>2. \A q \in Places : version[q] \in Nat /\ version[q] >= 1
    BY <2>1 DEF HInv
  <2> QED BY <2>1, <2>2
<1>5. \A q \in Places : q[2] = "foreign" /\ There(q)' => q[1] \in unsure'
  <2>1. \A q \in Places : q[2] = "foreign" /\ There(q) => q[1] \in unsure
    BY DEF HInv
  <2>2. \A q \in Places : There(q)' => There(q)
    BY <1>1, <1>3 DEF There
  <2> QED BY <1>1, <2>1, <2>2
<1>6. Known' = Known /\ \A i : Writers(i)' = Writers(i)
  BY <1>1 DEF Known, Writers
<1>7. ASSUME NEW i \in Known' \ unsure' PROVE HeldOrHalfway(i)'
  <2>1. i \in Known \ unsure /\ i \in Ids /\ HeldOrHalfway(i)
    BY <1>1, <1>2, <1>6, KnownAreIds DEF HInv
  <2>2. CASE i = id
    <3>1. p = Place(id)
      BY <1>1, <2>1, <2>2, PlaceOfIs DEF HInv
    <3>2. Writers(i) = {}
      BY <1>1, <1>7, <2>2 DEF Writers, InFlight
    <3>3. Held(i)'
      BY <1>1, <2>1, <2>2, <3>1, <3>2 DEF HeldOrHalfway
    <3> QED BY <1>6, <3>2, <3>3 DEF HeldOrHalfway
  <2>3. CASE i # id
    <3>1. Place(i) \in Places \ {p}
      BY <2>1, <2>3, PlaceOfIs
    <3>2. /\ cal'[Place(i)] = cal[Place(i)] /\ version'[Place(i)] = version[Place(i)]
          /\ ideal'[i] = ideal[i] /\ provider' = provider /\ req' = req
      BY <1>1, <1>3, <2>1, <2>3, <3>1
    <3>3. Held(i) => Held(i)'
      BY <2>1, <3>2, HeldStays
    <3>4. ASSUME NEW q \in Writers(i) PROVE Halfway(q, i)'
      <4>1. q \in Requests /\ Halfway(q, i) /\ req'[q] = req[q]
        BY <2>1, <3>2 DEF HeldOrHalfway, Writers
      <4> QED BY <2>1, <3>2, <4>1, HalfwayStays
    <3> QED BY <1>6, <2>1, <3>3, <3>4 DEF HeldOrHalfway
  <2> QED BY <2>2, <2>3
<1>8. ASSUME NEW o \in Requests PROVE OnPath(o)' /\ CreateHolds(o)'
  <2>1. OnPath(o) /\ CreateHolds(o) /\ OnPath(o)'
    BY <1>1 DEF HInv, OnPath
  <2>2. Place(<<o, 1>>) \in Places
    <3>1. 1 \in 1 .. MaxAttempts
      BY EventConstants
    <3> QED BY <3>1, PlaceOfIs DEF Ids
  <2>3. req[o].op = "create" /\ req[o].at = "put" => ~There(Place(<<o, 1>>))'
    BY <1>1, <1>3, <2>1, <2>2 DEF CreateHolds, There, Place
  <2>4. ASSUME req[o].op = "create", req[o].at = "reread"
        PROVE  req[o].id \in unsure' \/ cal'[Place(req[o].id)] = NewEvent(o, req[o].names)
    <3>1. req[o].id = <<o, 1>> /\ (req[o].id \in unsure \/ cal[Place(req[o].id)] = NewEvent(o, req[o].names))
      BY <2>1, <2>4 DEF CreateHolds
    <3>2. CASE Place(<<o, 1>>) = p
      <4>1. o \in InFlight(id)
        BY <2>4, <3>1, <3>2, PlaceOfIs DEF InFlight, Serving
      <4> QED BY <1>1, <3>1, <3>2, <4>1, PlaceOfIs
    <3>3. CASE Place(<<o, 1>>) # p
      BY <1>1, <1>3, <2>2, <3>1, <3>3
    <3> QED BY <3>2, <3>3
  <2>5. PICK names : names = req[o].names
    OBVIOUS
  <2>6. NewEvent(o, names)' = NewEvent(o, names)
    BY <1>1, NewEventIsTheSame
  <2>7. CreateHolds(o)'
    BY <1>1, <2>1, <2>3, <2>4, <2>5, <2>6 DEF CreateHolds, Place
  <2> QED BY <2>1, <2>7
<1>9. (\A i \in Known \ unsure : HeldOrHalfway(i))' /\ (\A o \in Requests : OnPath(o) /\ CreateHolds(o))'
  BY <1>7, <1>8
<1> QED BY <1>1, <1>2, <1>4, <1>5, <1>9 DEF HInv

LEMMA HInvInit == Init => HInv
<1> SUFFICES ASSUME Init PROVE HInv
  OBVIOUS
<1>1. EInv /\ provider \in Providers /\ ideal = [id \in Ids |-> ideal[id]]
  BY EInvInit DEF Init
<1>2. \A r \in Requests : req[r].at = "unsent" /\ req[r].op = "read"
  BY DEF Init, NoRequest
<1>3. PICK away \in SUBSET Old :
        /\ cal = [p \in Places |-> IF \E o \in Old : p = <<<<o, 1>>, IF o \in away THEN "foreign" ELSE "own">>
                                   THEN All("old") ELSE Nothing]
        /\ unsure = away \X {1}
  BY DEF Init
<1>4. \A p \in Places : version[p] >= 1 /\ (p[2] = "foreign" /\ There(p) => p[1] \in unsure)
  <2>1. \A p \in Places : version[p] = 1
    BY DEF Init
  <2>2. ASSUME NEW p \in Places, p[2] = "foreign", There(p) PROVE p[1] \in unsure
    <3>1. PICK o \in Old : p = <<<<o, 1>>, IF o \in away THEN "foreign" ELSE "own">>
      BY <1>3, <2>2 DEF There
    <3>2. o \in away /\ p[1] = <<o, 1>>
      BY <2>2, <3>1
    <3> QED BY <1>3, <3>2
  <2> QED BY <2>1, <2>2
<1>5. ASSUME NEW id \in Known \ unsure PROVE HeldOrHalfway(id)
  <2>1. PICK o \in Old : id = <<o, 1>>
    BY <1>2 DEF Known, OldIds
  <2>2. o \notin away
    BY <1>3, <1>5, <2>1
  <2>3. Place(id) = <<<<o, 1>>, IF o \in away THEN "foreign" ELSE "own">>
    BY <2>1, <2>2 DEF Place
  <2>4. id \in Ids /\ id \in OldIds /\ Place(id) \in Places
    BY <2>1, PlaceOfIs DEF Ids, OldIds
  <2>5. cal[Place(id)] = All("old") /\ ideal[id] = All("old")
    BY <1>3, <2>3, <2>4 DEF Init
  <2>6. Held(id)
    BY <2>5 DEF Held, Same, There
  <2>7. Writers(id) = {}
    BY <1>2 DEF Writers, Serving
  <2> QED BY <2>6, <2>7 DEF HeldOrHalfway
<1>6. \A r \in Requests : OnPath(r) /\ CreateHolds(r)
  BY <1>2 DEF OnPath, CreateHolds, DavSteps, Serving
<1> QED BY <1>1, <1>4, <1>5, <1>6 DEF HInv

LEMMA HInvNext == HInv /\ [Next]_vars => HInv'
<1>1. ASSUME HInv, UNCHANGED vars PROVE HInv'
  <2>1. UNCHANGED <<provider, cal, version, req, edits, faults, ideal, unsure, lost>>
    BY <1>1 DEF vars, history
  <2>2. EInv'
    BY <1>1, EInvNext DEF HInv
  <2>3. Known' = Known /\ \A id : Writers(id)' = Writers(id)
    BY <2>1 DEF Known, Writers
  <2>4. ASSUME NEW id \in Known \ unsure PROVE HeldOrHalfway(id)'
    <3>1. id \in Ids /\ HeldOrHalfway(id)
      BY <1>1, KnownAreIds DEF HInv
    <3>2. Held(id) => Held(id)'
      BY <2>1, <3>1, HeldStays
    <3>3. ASSUME NEW q \in Writers(id) PROVE Halfway(q, id)'
      <4>1. q \in Requests /\ Halfway(q, id) /\ req'[q] = req[q]
        BY <2>1, <3>1 DEF HeldOrHalfway, Writers
      <4> QED BY <2>1, <3>1, <4>1, HalfwayStays
    <3> QED BY <2>3, <3>1, <3>2, <3>3 DEF HeldOrHalfway
  <2>5. ASSUME NEW o \in Requests PROVE OnPath(o)' /\ CreateHolds(o)'
    <3>1. PICK names : names = req[o].names
      OBVIOUS
    <3>2. NewEvent(o, names)' = NewEvent(o, names)
      BY <2>1, NewEventIsTheSame
    <3> QED BY <1>1, <2>1, <3>1, <3>2 DEF HInv, OnPath, CreateHolds, There, Place
  <2>6. (\A id \in Known \ unsure : HeldOrHalfway(id))' /\ (\A o \in Requests : OnPath(o) /\ CreateHolds(o))'
    BY <2>1, <2>3, <2>4, <2>5
  <2>7. /\ \A p \in Places : version'[p] >= 1 /\ (p[2] = "foreign" /\ There(p)' => p[1] \in unsure')
        /\ provider' \in Providers /\ ideal' = [id \in Ids |-> ideal'[id]]
    BY <1>1, <2>1 DEF HInv, There
  <2> QED BY <2>2, <2>6, <2>7 DEF HInv
<1>2. ASSUME HInv, Next PROVE HInv'
  <2>1. \/ \E r \in Requests : Step(r)
        \/ \E r \in Requests, op \in Ops : \E id, names : Send(r, op, id, names)
        \/ \E p \in Places : DeleteElsewhere(p) \/ \E names \in Bodies : EditElsewhere(p, names)
    BY <1>2 DEF Next
  <2> QED BY <1>2, <2>1, StepHInv, SendHInv, ElsewhereHInv
<1> QED BY <1>1, <1>2

LEMMA HInvAlways == Spec => []HInv
BY HInvInit, HInvNext, PTL DEF Spec

\* What clients were told, and what other programs did, is what the API shows of every event
\* whose state the answers determine: whatever is under way elsewhere, and at every provider.
THEOREM ShownAsTold == Spec => []HeldAsTold
<1>1. ASSUME HInv, NEW id \in Known \ unsure, InFlight(id) = {}
      PROVE  /\ Exists(id) <=> ideal[id] # Nothing
             /\ Exists(id) => \A f \in Shown : cal[Place(id)][f] = ideal[id][f]
  <2>1. id \in Ids /\ HeldOrHalfway(id)
    BY <1>1, KnownAreIds DEF HInv
  <2>2. Writers(id) = {}
    BY <1>1 DEF Writers, InFlight
  <2>3. Held(id) /\ (Exists(id) <=> There(Place(id)))
    BY <1>1, <2>1, <2>2, WhereItIs DEF HeldOrHalfway
  <2> QED BY <2>3 DEF Held, Same
<1>2. HInv => HeldAsTold
  BY <1>1 DEF HeldAsTold
<1> QED BY <1>2, HInvAlways, PTL

-----------------------------------------------------------------------------
(* Types *)

Contents == [Fields -> Values]
Progress == [op : Ops, id : Ids \cup {NoId}, names : SUBSET Fields,
             at : Serving \cup Ended \cup {"unsent"}, attempt : 1 .. MaxAttempts,
             read : Contents \cup {Nothing}, etag : Nat]

LEMMA ContentsAre ==
  /\ \A fields \in Contents, v \in Values : \A names : Overlay(fields, names, v) \in Contents
  /\ \A r \in Requests : \A names : NewEvent(r, names) \in Contents
  /\ \A fields \in Contents : ICS(fields) \in Contents
  /\ All("old") \in Contents
<1>1. \A fields \in Contents, v \in Values : \A names : Overlay(fields, names, v) \in Contents
  BY DEF Contents, Overlay
<1>2. "none" \in Values /\ "old" \in Values /\ Requests \subseteq Values
  BY DEF Values
<1>3. All("none") \in Contents /\ All("old") \in Contents
  BY <1>2 DEF All, Contents
<1> QED BY <1>1, <1>2, <1>3 DEF NewEvent, ICS

\* A request writes whole events: an update has read one, or found one there.
LEMMA StepWritesContents ==
  ASSUME HInv, TypeOK, NEW r \in Requests, Step(r)
  PROVE  Untouched \/ \E fields \in Contents \cup {Nothing} : Write(Place(IdOf(r)), fields)
<1> DEFINE p == Place(IdOf(r))
<1>1. /\ EInv /\ OnItsWay(r) /\ OnPath(r) /\ IsReq(req[r]) /\ p \in Places
      /\ cal[p] \in Contents \cup {Nothing} /\ req[r].read \in Contents \cup {Nothing} /\ r \in Values
  BY StepTouches, PlaceOfIs DEF HInv, EInv, Shape, TypeOK, Contents, Values
<1>2. ASSUME req[r].at = "call", ~Missing(r), Effect(r)
      PROVE  Untouched \/ \E fields \in Contents \cup {Nothing} : Write(p, fields)
  <2>1. req[r].op \in Ops
    BY <1>1 DEF IsReq
  <2>2. CASE req[r].op = "create"
    BY <1>2, <2>2, ContentsAre DEF Effect
  <2>3. CASE req[r].op = "update"
    BY <1>1, <1>2, <2>3, ContentsAre DEF Effect, Missing, There
  <2>4. CASE req[r].op = "delete"
    BY <1>2, <2>4 DEF Effect
  <2>5. CASE req[r].op = "read"
    BY <1>2, <2>5 DEF Effect
  <2> QED BY <2>1, <2>2, <2>3, <2>4, <2>5 DEF Ops
<1>3. req[r].at = "put" => Merged(r) \in Contents
  <2> SUFFICES ASSUME req[r].at = "put" PROVE Merged(r) \in Contents
    OBVIOUS
  <2>1. req[r].op = "create" \/ (req[r].op = "update" /\ req[r].read # Nothing)
    BY <1>1 DEF OnPath, DavPath, DavSteps, Serving, IsReq, Ops
  <2> QED BY <1>1, <2>1, ContentsAre DEF Merged
<1>4. CASE Called(r) \/ CallUnanswered(r)
  BY <1>2, <1>4 DEF Called, CallUnanswered
<1>5. CASE CalledMissing(r) \/ Read(r) \/ Find(r) \/ Reread(r) \/ WriteRefused(r)
  BY <1>5 DEF CalledMissing, Read, Find, Reread, WriteRefused
<1>6. CASE Put(r) \/ DavFails(r)
  BY <1>3, <1>6 DEF Put, DavFails
<1>7. CASE Remove(r)
  <2>1. IdOf(r) = req[r].id
    BY <1>1, <1>7 DEF Remove, OnItsWay, IdOf
  <2> QED BY <1>7, <2>1 DEF Remove
<1> QED BY <1>4, <1>5, <1>6, <1>7 DEF Step

\* An update that is answered well has an event to be about: it finds one, which clients know.
LEMMA IntendsContents ==
  ASSUME HInv, TypeOK, NEW r \in Requests, Step(r), Answer(r, "ok"), IdOf(r) \notin unsure
  PROVE  Intended(r, IdOf(r)) \in Contents \cup {Nothing}
<1>1. /\ EInv /\ OnItsWay(r) /\ OnPath(r) /\ IsReq(req[r]) /\ IdOf(r) \in Ids /\ Goes(r)
      /\ ideal[IdOf(r)] \in Contents \cup {Nothing} /\ r \in Values
  BY StepTouches DEF HInv, EInv, Shape, TypeOK, Contents, Values
<1>2. CASE req[r].op = "update"
  <2>1. IdOf(r) = req[r].id /\ req[r].id \in Known \ unsure /\ req[r].at \in Serving
    BY <1>1, <1>2 DEF IdOf, EInv, NamesKnown, Goes, Serving
  <2>2. Updating(r, req[r].id)
    BY <1>2, <2>1 DEF HInv, HeldOrHalfway, Writers, Halfway
  <2>3. There(Place(req[r].id))
    <3>1. req'[r].at = "ok"
      BY <1>1, AnswerIs DEF EInv, Ended
    <3>2. CASE Called(r)
      BY <1>2, <2>1, <3>2 DEF Called, Missing
    <3>3. CASE CallUnanswered(r) \/ CalledMissing(r)
      <4>1. req[r].at = "call" /\ (Again(r) \/ Answer(r, "failed"))
        BY <3>3 DEF CallUnanswered, CalledMissing
      <4>2. CASE Again(r)
        BY <1>1, <3>1, <4>1, <4>2, AgainIs DEF EInv
      <4>3. CASE Answer(r, "failed")
        BY <1>1, <3>1, <4>3, AnswerIs DEF EInv, Ended
      <4> QED BY <4>1, <4>2, <4>3
    <3>4. CASE Read(r) \/ Find(r) \/ Put(r) \/ Reread(r)
      <4>1. CASE Reread(r)
        BY <2>2, <4>1 DEF Reread, Updating
      <4>2. CASE Put(r)
        BY <1>1, <3>1, <4>2, PutIs DEF EInv
      <4>3. CASE Find(r)
        BY <2>2, <4>3 DEF Find, Updating
      <4>4. CASE Read(r)
        BY <1>1, <2>1, <3>1, <4>4, WhereItIs, ReadIs, AnswerIs DEF Read, EInv, Ended
      <4> QED BY <3>4, <4>1, <4>2, <4>3, <4>4
    <3>5. CASE Remove(r)
      BY <1>1, <1>2, <3>5 DEF Remove, OnPath, DavPath, DavSteps, Serving
    <3>6. CASE DavFails(r)
      BY <1>1, <3>1, <3>6, AnswerIs DEF DavFails, EInv, Ended
    <3>7. CASE WriteRefused(r)
      BY <1>1, <2>1, <3>7, RefusedIs DEF EInv, Answer
    <3> QED BY <3>2, <3>3, <3>4, <3>5, <3>6, <3>7 DEF Step
  <2>4. ideal[IdOf(r)] \in Contents
    BY <1>1, <2>1, <2>2, <2>3 DEF Updating
  <2> QED BY <1>1, <1>2, <2>4, ContentsAre DEF Intended
<1>3. CASE req[r].op # "update"
  BY <1>1, <1>3, ContentsAre DEF Intended, IsReq, Ops
<1> QED BY <1>2, <1>3

\* The ways in which steps change a request's record.
LEMMA ProgressStays ==
  ASSUME req \in [Requests -> Progress], NEW r \in Requests
  PROVE  /\ \A step \in Serving \cup Ended : \A id \in Ids :
              [req EXCEPT ![r].at = step, ![r].id = id] \in [Requests -> Progress]
         /\ \A n \in 1 .. MaxAttempts : [req EXCEPT ![r].attempt = n] \in [Requests -> Progress]
         /\ \A step \in Serving : \A fields \in Contents \cup {Nothing} :
              [req EXCEPT ![r].at = step, ![r].read = fields] \in [Requests -> Progress]
         /\ \A step \in Serving : \A e \in Nat :
              [req EXCEPT ![r] = [req[r] EXCEPT !.etag = e, !.at = step]] \in [Requests -> Progress]
<1>1. req[r] \in Progress
  OBVIOUS
<1>2. \A q \in Progress : [req EXCEPT ![r] = q] \in [Requests -> Progress]
  OBVIOUS
<1>3. ASSUME NEW step \in Serving \cup Ended, NEW id \in Ids
      PROVE  [req EXCEPT ![r].at = step, ![r].id = id] \in [Requests -> Progress]
  <2>1. [req[r] EXCEPT !.at = step, !.id = id] \in Progress
    BY <1>1 DEF Progress
  <2>2. [req EXCEPT ![r].at = step, ![r].id = id] = [req EXCEPT ![r] = [req[r] EXCEPT !.at = step, !.id = id]]
    OBVIOUS
  <2> QED BY <1>2, <2>1, <2>2
<1>4. ASSUME NEW n \in 1 .. MaxAttempts
      PROVE  [req EXCEPT ![r].attempt = n] \in [Requests -> Progress]
  <2>1. [req[r] EXCEPT !.attempt = n] \in Progress
    BY <1>1 DEF Progress
  <2> QED BY <1>2, <2>1
<1>5. ASSUME NEW step \in Serving, NEW fields \in Contents \cup {Nothing}
      PROVE  [req EXCEPT ![r].at = step, ![r].read = fields] \in [Requests -> Progress]
  <2>1. [req[r] EXCEPT !.at = step, !.read = fields] \in Progress
    BY <1>1 DEF Progress
  <2>2. [req EXCEPT ![r].at = step, ![r].read = fields]
          = [req EXCEPT ![r] = [req[r] EXCEPT !.at = step, !.read = fields]]
    OBVIOUS
  <2> QED BY <1>2, <2>1, <2>2
<1>6. ASSUME NEW step \in Serving, NEW e \in Nat
      PROVE  [req EXCEPT ![r] = [req[r] EXCEPT !.etag = e, !.at = step]] \in [Requests -> Progress]
  <2>1. [req[r] EXCEPT !.etag = e, !.at = step] \in Progress
    BY <1>1 DEF Progress
  <2> QED BY <1>2, <2>1
<1> QED BY <1>3, <1>4, <1>5, <1>6

\* A request's record keeps its type: each step sets its parts to values of theirs.
LEMMA StepProgress ==
  ASSUME HInv, TypeOK, NEW r \in Requests, Step(r)
  PROVE  req' \in [Requests -> Progress]
<1>1. /\ req \in [Requests -> Progress] /\ IdOf(r) \in Ids  /\ MaxAttempts \in Nat
      /\ cal \in [Places -> Contents \cup {Nothing}] /\ version \in [Places -> Nat]
  BY StepTouches, EventConstants DEF TypeOK, Progress, Contents
<1>2. ASSUME NEW outcome \in Ended, Answer(r, outcome) PROVE req' \in [Requests -> Progress]
  <2>1. req' = [req EXCEPT ![r].at = outcome, ![r].id = IdOf(r)]
    BY <1>2 DEF Answer
  <2> QED BY <1>1, <2>1, ProgressStays
<1>3. ASSUME Again(r) PROVE req' \in [Requests -> Progress]
  <2>1. CASE req[r].attempt < MaxAttempts /\ req' = [req EXCEPT ![r].attempt = @ + 1]
    <3>1. req[r].attempt + 1 \in 1 .. MaxAttempts
      BY <1>1, <2>1 DEF Progress
    <3>2. req' = [req EXCEPT ![r].attempt = req[r].attempt + 1]
      BY <2>1
    <3> QED BY <1>1, <3>1, <3>2, ProgressStays
  <2> QED BY <1>2, <1>3, <2>1 DEF Again, Ended
<1>4. CASE Called(r) \/ Remove(r) \/ Reread(r) \/ DavFails(r)
  <2>1. Answer(r, "ok") \/ Answer(r, "failed")
    BY <1>4 DEF Called, Remove, Reread, DavFails
  <2> QED BY <1>2, <2>1 DEF Ended
<1>5. CASE CallUnanswered(r) \/ CalledMissing(r)
  <2>1. Again(r) \/ Answer(r, "failed")
    BY <1>5 DEF CallUnanswered, CalledMissing
  <2> QED BY <1>2, <1>3, <2>1 DEF Ended
<1>6. CASE Read(r)
  <2>1. CASE Answer(r, "failed")
    BY <1>2, <2>1 DEF Ended
  <2>2. CASE ~Answer(r, "failed")
    <3>1. PICK p \in Holding(req[r].id) : req' = [req EXCEPT ![r].at = "find", ![r].read = cal[p]]
      BY <1>6, <2>2 DEF Read
    <3>2. cal[p] \in Contents \cup {Nothing}
      BY <1>1, <3>1 DEF Holding
    <3>3. "find" \in Serving
      BY DEF Serving
    <3> QED BY <1>1, <3>1, <3>2, <3>3, ProgressStays
  <2> QED BY <2>1, <2>2
<1>7. CASE Find(r)
  <2>1. CASE Answer(r, "ok")
    BY <1>2, <2>1 DEF Ended
  <2>2. CASE ~Answer(r, "ok")
    <3>1. req[r].op # "create" /\ req[r].at # "unsent"
      BY <1>7 DEF Find, HInv, EInv, OnItsWay
    <3>2. Place(req[r].id) \in Places
      BY <1>1, <3>1, PlaceOfIs DEF IdOf
    <3>3. PICK e, step :
            /\ req' = [req EXCEPT ![r].etag = e, ![r].at = step]
            /\ e = (IF There(Place(req[r].id)) THEN version[Place(req[r].id)] ELSE 0)
            /\ step = (IF req[r].op = "delete" THEN "remove" ELSE "put")
      BY <1>7, <2>2 DEF Find
    <3>4. e \in Nat /\ step \in Serving
      BY <1>1, <3>2, <3>3 DEF Serving
    <3>5. req' = [req EXCEPT ![r] = [req[r] EXCEPT !.etag = e, !.at = step]]
      BY <1>1, <3>3
    <3> QED BY <1>1, <3>4, <3>5, ProgressStays
  <2> QED BY <2>1, <2>2
<1>8. CASE Put(r)
  <2>1. req' = [req EXCEPT ![r].at = "reread", ![r].id = IdOf(r)]
    BY <1>8 DEF Put
  <2>2. "reread" \in Serving
    BY DEF Serving
  <2> QED BY <1>1, <2>1, <2>2, ProgressStays
<1>9. CASE WriteRefused(r)
  <2>1. PICK step \in Serving \cup Ended : step = (IF req[r].at = "put" THEN "reread" ELSE "ok")
    BY DEF Serving, Ended
  <2>2. req' = [req EXCEPT ![r].at = step, ![r].id = IdOf(r)]
    BY <1>1, <1>9, <2>1 DEF WriteRefused
  <2> QED BY <1>1, <2>1, <2>2, ProgressStays
<1> QED BY <1>4, <1>5, <1>6, <1>7, <1>8, <1>9 DEF Step

LEMMA FaultsCounted ==
  ASSUME TypeOK, NEW r \in Requests, Step(r)
  PROVE  faults' \in 0 .. MaxFaults
<1>1. faults \in 0 .. MaxFaults /\ MaxFaults \in Nat
  BY EventConstants DEF TypeOK
<1>2. faults' = faults \/ (faults < MaxFaults /\ faults' = faults + 1)
  BY DEF Step, Called, CallUnanswered, CalledMissing, Read, Find, Put, Remove, WriteRefused, Reread,
         DavFails
<1> QED BY <1>1, <1>2

LEMMA StepTypeOK ==
  ASSUME HInv, TypeOK, NEW r \in Requests, Step(r)
  PROVE  TypeOK'
<1>1. /\ Touches(IdOf(r)) /\ Goes(r) /\ IdOf(r) \in Ids /\ EInv /\ Shape /\ Place(IdOf(r)) \in Places
      /\ cal \in [Places -> Contents \cup {Nothing}] /\ ideal \in [Ids -> Contents \cup {Nothing}]
  BY StepTouches, PlaceOfIs DEF HInv, EInv, TypeOK, Contents
<1>2. cal' \in [Places -> Contents \cup {Nothing}] /\ version' \in [Places -> Nat]
  <2>1. CASE Untouched
    BY <1>1, <2>1 DEF Untouched, Shape
  <2>2. CASE \E fields \in Contents \cup {Nothing} : Write(Place(IdOf(r)), fields)
    <3>1. PICK fields \in Contents \cup {Nothing} : Write(Place(IdOf(r)), fields)
      BY <2>2
    <3>2. version' \in [Places -> Nat]
      BY <1>1, <3>1, WriteIs
    <3> QED BY <1>1, <3>1, <3>2 DEF Write
  <2> QED BY <2>1, <2>2, StepWritesContents
<1>3. ideal' \in [Ids -> Contents \cup {Nothing}]
  <2>1. CASE ideal' = ideal
    BY <1>1, <2>1
  <2>2. CASE Answer(r, "ok") /\ IdOf(r) \notin unsure
    <3>1. Intended(r, IdOf(r)) \in Contents \cup {Nothing}
      BY <2>2, IntendsContents
    <3>2. ideal' = [ideal EXCEPT ![IdOf(r)] = Intended(r, IdOf(r))]
      BY <2>2 DEF Answer
    <3> QED BY <1>1, <3>1, <3>2
  <2>3. CASE WriteRefused(r)
    BY <2>1, <2>3 DEF WriteRefused
  <2> QED BY <2>1, <2>2, <2>3, StepTells DEF Answer
<1>4. unsure' \subseteq Ids /\ provider' \in Providers /\ edits' \in 0 .. MaxEdits /\ lost' \in [Requests -> Nat]
  BY <1>1 DEF Touches, Goes, TypeOK
<1> QED BY <1>2, <1>3, <1>4, StepProgress, FaultsCounted DEF TypeOK, Progress, Contents

LEMMA SendTypeOK ==
  ASSUME HInv, TypeOK, NEW r \in Requests, NEW op \in Ops, NEW id \in Known \cup {NoId},
         NEW names \in Bodies \cup {{}}, Send(r, op, id, names)
  PROVE  TypeOK'
<1>1. Known \subseteq Ids /\ Shape
  BY KnownAreIds DEF HInv, EInv
<1>2. req' \in [Requests -> Progress]
  <2>1. FirstStep(op) \in Serving
    BY <1>1, SendIs
  <2>2. NoRequest \in Progress
    <3>1. 1 \in 1 .. MaxAttempts
      BY EventConstants
    <3> QED BY <3>1 DEF NoRequest, Progress, Ops, Serving
  <2>3. names \in SUBSET Fields /\ id \in Ids \cup {NoId}
    BY <1>1, EventConstants
  <2>4. [NoRequest EXCEPT !.op = op, !.id = id, !.names = names, !.at = FirstStep(op)] \in Progress
    BY <2>1, <2>2, <2>3 DEF Progress
  <2>5. req \in [Requests -> Progress]
    BY DEF TypeOK, Progress, Contents
  <2> QED BY <2>4, <2>5 DEF Send
<1>3. unsure' \subseteq Ids
  <2>1. op \in {"update", "delete"} => id \in Known
    BY DEF Send
  <2> QED BY <1>1, <2>1 DEF Send, TypeOK
<1> QED BY <1>2, <1>3 DEF Send, Untouched, TypeOK, Progress, Contents

LEMMA ElsewhereTypeOK ==
  ASSUME HInv, TypeOK, NEW p \in Places, DeleteElsewhere(p) \/ \E names \in Bodies : EditElsewhere(p, names)
  PROVE  TypeOK'
<1> DEFINE id == p[1]
<1>1. /\ Shape /\ id \in Ids /\ There(p) /\ MaxEdits \in Nat
      /\ cal \in [Places -> Contents \cup {Nothing}] /\ ideal \in [Ids -> Contents \cup {Nothing}]
      /\ "other" \in Values
  BY PlaceOfIs, EventConstants DEF HInv, EInv, TypeOK, Contents, Values, DeleteElsewhere, EditElsewhere
<1>2. edits' \in 0 .. MaxEdits /\ UNCHANGED <<provider, req, faults, lost>> /\ unsure' \subseteq Ids
  <2>1. edits < MaxEdits /\ edits' = edits + 1 /\ unsure' = EditedBetween(id)
    BY DEF DeleteElsewhere, EditElsewhere
  <2>2. UNCHANGED <<provider, req, faults, lost>>
    BY DEF DeleteElsewhere, EditElsewhere
  <2> QED BY <1>1, <2>1, <2>2 DEF TypeOK, EditedBetween
<1>3. \E fields \in Contents \cup {Nothing} : Write(p, fields)
  <2>1. cal[p] \in Contents
    BY <1>1 DEF There
  <2>2. \A names : Overlay(cal[p], names, "other") \in Contents
    BY <1>1, <2>1, ContentsAre
  <2> QED BY <2>2 DEF DeleteElsewhere, EditElsewhere
<1>4. cal' \in [Places -> Contents \cup {Nothing}] /\ version' \in [Places -> Nat]
  <2>1. PICK fields \in Contents \cup {Nothing} : Write(p, fields)
    BY <1>3
  <2>2. version' \in [Places -> Nat]
    BY <1>1, <2>1, WriteIs
  <2> QED BY <1>1, <2>1, <2>2 DEF Write
<1>5. ideal' \in [Ids -> Contents \cup {Nothing}]
  <2>1. ideal' = ideal \/ \E fields \in Contents \cup {Nothing} : ideal' = [ideal EXCEPT ![id] = fields]
    <3>1. CASE DeleteElsewhere(p)
      BY <3>1 DEF DeleteElsewhere
    <3>2. CASE \E names \in Bodies : EditElsewhere(p, names)
      <4>1. PICK names \in Bodies : EditElsewhere(p, names)
        BY <3>2
      <4>2. ideal[id] # Nothing => Overlay(ideal[id], names, "other") \in Contents
        BY <1>1, ContentsAre
      <4>3. ideal' = ideal \/ (ideal[id] # Nothing /\ ideal' = [ideal EXCEPT ![id] = Overlay(ideal[id], names, "other")])
        BY <4>1 DEF EditElsewhere
      <4> QED BY <4>2, <4>3
    <3> QED BY <3>1, <3>2
  <2> QED BY <1>1, <2>1
<1> QED BY <1>2, <1>4, <1>5 DEF TypeOK, Contents

LEMMA InitTypeOK == Init => TypeOK
<1> SUFFICES ASSUME Init PROVE TypeOK
  OBVIOUS
<1>1. \A p \in Places : cal[p] \in Contents \cup {Nothing}
  <2>1. \A p \in Places : cal[p] = All("old") \/ cal[p] = Nothing
    BY DEF Init
  <2> QED BY <2>1, ContentsAre
<1>2. cal \in [Places -> Contents \cup {Nothing}] /\ version \in [Places -> Nat]
  <2>1. cal = [p \in Places |-> cal[p]]
    BY EInvInit DEF EInv, Shape
  <2> QED BY <1>1, <2>1 DEF Init
<1>3. req \in [Requests -> Progress]
  <2>1. 1 \in 1 .. MaxAttempts
    BY EventConstants
  <2>2. NoRequest \in Progress
    BY <2>1 DEF NoRequest, Progress, Ops, Serving
  <2> QED BY <2>2 DEF Init
<1>4. ideal \in [Ids -> Contents \cup {Nothing}] /\ lost \in [Requests -> Nat]
  BY ContentsAre DEF Init
<1>5. unsure \subseteq Ids /\ edits \in 0 .. MaxEdits /\ faults \in 0 .. MaxFaults /\ provider \in Providers
  BY EventConstants DEF Init, Ids, OldIds
<1> QED BY <1>2, <1>3, <1>4, <1>5 DEF TypeOK, Progress, Contents

\* Types: what is written is a whole event, which takes that an update never merges with
\* an event it has not read and is never told of one that is not there.
THEOREM TypeCorrect == Spec => []TypeOK
<1>1. HInv /\ TypeOK /\ [Next]_vars => TypeOK'
  <2>1. ASSUME HInv, TypeOK, Next PROVE TypeOK'
    BY <2>1, StepTypeOK, SendTypeOK, ElsewhereTypeOK DEF Next
  <2>2. ASSUME TypeOK, UNCHANGED vars PROVE TypeOK'
    BY <2>2 DEF vars, history, TypeOK
  <2> QED BY <2>1, <2>2
<1> QED BY <1>1, InitTypeOK, HInvAlways, PTL DEF Spec

==============================================================================
