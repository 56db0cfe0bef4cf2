-------------------------------- MODULE Events --------------------------------
(***************************************************************************)
(* The event routes of one account: create, read, update and delete, from  *)
(* routes/events.ts through services/events.ts to the calls of the three   *)
(* providers' events.ts, among other requests and editors of the calendar. *)
(*                                                                         *)
(* Google and Microsoft take each operation as one call under withRetry.   *)
(* CalDAV reads, merges and writes back whole objects, in several requests *)
(* without a retry, and finds the object to write by its URL.              *)
(*                                                                         *)
(* A field's value is the request that wrote it.  Each of Fields stands    *)
(* for the fields of an event that the providers' modules treat alike:     *)
(* "title" for the description and the times, "privacy" for visibility     *)
(* and transparency, the others for themselves.                            *)
(***************************************************************************)
EXTENDS Integers, FiniteSets

CONSTANTS
  Requests,     \* requests of clients
  Old,          \* events there from the start
  Bodies,       \* sets of fields that clients send and other programs change
  Providers,    \* providers the account may be of
  MaxAttempts,  \* attempts of withRetry (the source: 3)
  MaxEdits,     \* bound: changes by other programs
  MaxFaults     \* bound: calls not answered, answered 429 or 5xx, or refused by CalDAV

Fields == {"title", "place", "guests", "rule", "privacy"}

ASSUME EventConstants ==
  /\ Providers \subseteq {"google", "microsoft", "caldav"}
  /\ Bodies \subseteq SUBSET Fields /\ {} \notin Bodies
  /\ Requests \cap Old = {}
  /\ MaxAttempts \in Nat \ {0} /\ MaxEdits \in Nat /\ MaxFaults \in Nat

VARIABLES
  provider,
  cal,       \* [Places -> fields of the object there, or Nothing]
  version,   \* [Places -> times the object there was written: its etag]
  req,       \* [Requests -> progress of a request]
  edits, faults,
  \* history
  ideal,     \* [Ids -> fields the event should show, or Nothing]
  unsure,    \* events whose state the answers do not determine
  lost       \* [Requests -> calls of the request that got no answer]

history == <<ideal, unsure, lost>>
vars == <<provider, cal, version, req, edits, faults, history>>

-----------------------------------------------------------------------------
Values == Requests \cup {"old", "other", "none"}
Ops    == {"create", "read", "update", "delete"}

\* An event is named by what made it.  On a CalDAV server its object lies under a
\* URL that contains its UID ("own"), as all that Caldera creates do, or not.
OldIds == Old \X {1}
Ids    == (Requests \X (1 .. MaxAttempts)) \cup OldIds
Places == (Ids \X {"own"}) \cup (OldIds \X {"foreign"})
Place(id) == <<id, "own">>
NoId   == <<>>

Nothing == [f \in {} |-> "none"]
All(v)  == [f \in Fields |-> v]
There(p) == cal[p] # Nothing
Exists(id) == \E p \in Places : p[1] = id /\ There(p)

\* The fields that the providers' calls send, that an object made by makeICS
\* holds, and that the API shows of what the provider holds.
GoogleInsert == Fields
GooglePatch  == {"title", "place", "privacy"}
GraphPost    == Fields \ {"privacy"}
GraphPatch   == {"title"}
ICSFields    == {"title", "place", "rule"}
GoogleShown  == Fields
GraphShown   == Fields
ICSShown     == {"title", "place", "rule"}

Of(google, microsoft, caldav) ==
  CASE provider = "google" -> google
    [] provider = "microsoft" -> microsoft
    [] provider = "caldav" -> caldav

Created == Of(GoogleInsert, GraphPost, ICSFields)
Patched == Of(GooglePatch, GraphPatch, ICSFields)
Shown   == Of(GoogleShown, GraphShown, ICSShown)

Overlay(old, names, v) == [f \in Fields |-> IF f \in names THEN v ELSE old[f]]
NewEvent(r, names)     == Overlay(All("none"), names \cap Created, r)
\* makeICS: an object of these fields and nothing else.
ICS(fields) == Overlay(fields, Fields \ ICSFields, "none")

\* A request: its operation, event and fields; the step it is at and the attempt;
\* on CalDAV the event it read and the etag of the object it found.
NoRequest == [op |-> "read", id |-> NoId, names |-> {}, at |-> "unsent",
              attempt |-> 1, read |-> Nothing, etag |-> 0]
Serving == {"call", "read", "find", "put", "remove", "reread"}
InFlight(id) == {r \in Requests : req[r].id = id /\ req[r].at \in Serving}
Ended == {"ok", "failed"}

Goto(r, step) == req' = [req EXCEPT ![r].at = step]
Write(p, fields) ==
  /\ cal' = [cal EXCEPT ![p] = fields]
  /\ version' = [version EXCEPT ![p] = @ + 1]
Untouched == UNCHANGED <<cal, version>>

\* The event a request is about.  Google and Microsoft give each accepted create
\* an event of its own; CalDAV's UID is chosen by createEvent.
IdOf(r) ==
  IF req[r].op # "create" THEN req[r].id
  ELSE IF provider = "caldav" THEN <<r, 1>> ELSE <<r, req[r].attempt>>

\* What the event should be once request r has answered well.
Intended(r, id) ==
  LET q == req[r] IN
  CASE q.op = "create" -> NewEvent(r, q.names)
    [] q.op = "update" -> Overlay(ideal[id], q.names \cap Patched, r)
    [] q.op = "delete" -> Nothing
    [] q.op = "read"   -> ideal[id]

\* A request ends with an answer; without a good one its event is left unsure.
Answer(r, outcome) ==
  LET id == IdOf(r) IN
  /\ req' = [req EXCEPT ![r].at = outcome, ![r].id = id]
  /\ ideal' = IF outcome = "ok" /\ id \notin unsure THEN [ideal EXCEPT ![id] = Intended(r, id)] ELSE ideal
  /\ unsure' = IF outcome = "failed" /\ req[r].op # "read" THEN unsure \cup {id} ELSE unsure

Init ==
  /\ provider \in Providers
  /\ \E away \in SUBSET Old :
       /\ provider # "caldav" => away = {}
       /\ cal = [p \in Places |->
            IF \E o \in Old : p = <<<<o, 1>>, IF o \in away THEN "foreign" ELSE "own">>
            THEN All("old") ELSE Nothing]
       /\ unsure = away \X {1}
  /\ version = [p \in Places |-> 1]
  /\ req = [r \in Requests |-> NoRequest]
  /\ edits = 0 /\ faults = 0
  /\ ideal = [id \in Ids |-> IF id \in OldIds THEN All("old") ELSE Nothing]
  /\ lost = [r \in Requests |-> 0]

-----------------------------------------------------------------------------
Known == OldIds \cup {req[r].id : r \in {q \in Requests : req[q].op = "create" /\ req[q].at = "ok"}}

FirstStep(op) ==
  IF provider # "caldav" THEN "call"
  ELSE CASE op = "create" -> "put"
         [] op = "read"   -> "reread"
         [] op = "update" -> "read"
         [] op = "delete" -> "find"

\* The service finds the account and its provider and the operation starts.
Send(r, op, id, names) ==
  /\ req[r].at = "unsent"
  /\ id \in IF op = "create" THEN {NoId} ELSE Known
  /\ names \in IF op \in {"create", "update"} THEN Bodies ELSE {{}}
  /\ req' = [req EXCEPT ![r] = [NoRequest EXCEPT !.op = op, !.id = id, !.names = names,
                                                 !.at = FirstStep(op)]]
  /\ unsure' = IF op \in {"update", "delete"} /\ InFlight(id) # {} THEN unsure \cup {id} ELSE unsure
  /\ Untouched /\ UNCHANGED <<provider, edits, faults, ideal, lost>>

-----------------------------------------------------------------------------
(* Google and Microsoft: one call under withRetry *)

\* Altered form (mutation tests): an update replaces the event.
EffectReplaces(r) ==
  LET q == req[r]  p == Place(IdOf(r)) IN
  CASE q.op \in {"create", "update"} -> Write(p, NewEvent(r, q.names))
    [] q.op = "delete" -> Write(p, Nothing)
    [] q.op = "read"   -> Untouched

\* The provider does what it is asked to.
Effect(r) ==
  LET q == req[r]  p == Place(IdOf(r)) IN
  CASE q.op = "create" -> Write(p, NewEvent(r, q.names))
    [] q.op = "update" -> Write(p, Overlay(cal[p], q.names \cap Patched, r))
    [] q.op = "delete" -> Write(p, Nothing)
    [] q.op = "read"   -> Untouched

\* The event is missing: 404 or 410.
Missing(r) == req[r].op # "create" /\ ~There(Place(IdOf(r)))

\* Altered form: attempts are not counted.
AgainUncounted(r) == UNCHANGED <<req, ideal, unsure>>

\* Altered form: the last attempt is followed by one more.
AgainOnceMore(r) ==
  \/ /\ req[r].attempt <= MaxAttempts
     /\ req' = [req EXCEPT ![r].attempt = @ + 1]
     /\ UNCHANGED <<ideal, unsure>>
  \/ /\ req[r].attempt > MaxAttempts
     /\ Answer(r, "failed")

\* withRetry after an error it takes for passing: another attempt, or the end.
Again(r) ==
  \/ /\ req[r].attempt < MaxAttempts
     /\ req' = [req EXCEPT ![r].attempt = @ + 1]
     /\ UNCHANGED <<ideal, unsure>>
  \/ /\ req[r].attempt = MaxAttempts
     /\ Answer(r, "failed")

\* Altered form: an answer without a body is taken for an error.
CalledUnread(r) ==
  /\ req[r].at = "call" /\ ~Missing(r)
  /\ Effect(r)
  /\ Again(r)
  /\ UNCHANGED <<provider, edits, faults, lost>>

Called(r) ==
  /\ req[r].at = "call" /\ ~Missing(r)
  /\ Effect(r)
  /\ Answer(r, "ok")
  /\ UNCHANGED <<provider, edits, faults, lost>>

\* The answer is lost after the provider acted, or the provider did not act.
CallUnanswered(r) ==
  /\ req[r].at = "call" /\ faults < MaxFaults
  /\ faults' = faults + 1
  /\ \/ ~Missing(r) /\ Effect(r)
     \/ Untouched
  /\ lost' = [lost EXCEPT ![r] = @ + 1]
  /\ Again(r)
  /\ UNCHANGED <<provider, edits>>

\* Microsoft's error for a missing event is thrown at once.  Google's carries no
\* statusCode and is retried like a broken connection.
CalledMissing(r) ==
  /\ req[r].at = "call" /\ Missing(r)
  /\ IF provider = "google" THEN Again(r) ELSE Answer(r, "failed")
  /\ Untouched /\ UNCHANGED <<provider, edits, faults, lost>>

-----------------------------------------------------------------------------
(* CalDAV *)

\* getEvent: the first object of the calendar with the event's UID, in the order
\* of the listing, which is arbitrary.
Holding(id) == {p \in Places : p[1] = id /\ There(p)}

\* updateEvent reads the event it is to merge with; without it the update fails.
Read(r) ==
  /\ req[r].at = "read"
  /\ \/ \E p \in Holding(req[r].id) :
          req' = [req EXCEPT ![r].at = "find", ![r].read = cal[p]]
        /\ UNCHANGED <<ideal, unsure>>
     \/ Holding(req[r].id) = {} /\ Answer(r, "failed")
  /\ Untouched /\ UNCHANGED <<provider, edits, faults, lost>>

\* The calendar's objects are fetched again, and the one whose URL contains the
\* UID is taken with its etag.  deleteEvent is done when there is none.
Find(r) ==
  LET p == Place(req[r].id)
      etag == IF There(p) THEN version[p] ELSE 0
  IN  /\ req[r].at = "find"
      /\ IF req[r].op = "delete" /\ ~There(p)
         THEN Answer(r, "ok")
         ELSE /\ req' = [req EXCEPT ![r].etag = etag,
                                    ![r].at = IF req[r].op = "delete" THEN "remove" ELSE "put"]
              /\ UNCHANGED <<ideal, unsure>>
      /\ Untouched /\ UNCHANGED <<provider, edits, faults, lost>>

\* Altered form: only what the client sent is written.
MergedNamedOnly(r) == NewEvent(r, req[r].names)

\* What is written: a whole object made of the fields given and the fields read.
Merged(r) ==
  IF req[r].op = "create" THEN NewEvent(r, req[r].names)
  ELSE ICS(Overlay(req[r].read, req[r].names \cap Patched, r))

\* The precondition of the write: the etag found, or that nothing is there.
Fresh(r) ==
  LET p == Place(IdOf(r)) IN
  IF req[r].etag = 0 THEN ~There(p) ELSE There(p) /\ version[p] = req[r].etag

\* Altered form: the object is written without its etag.
PutAlways(r) ==
  /\ req[r].at = "put"
  /\ Write(Place(IdOf(r)), Merged(r))
  /\ req' = [req EXCEPT ![r].at = "reread", ![r].id = IdOf(r)]
  /\ UNCHANGED <<provider, edits, faults, ideal, unsure, lost>>

\* PUT.  A precondition that fails changes nothing and is not noticed: the
\* response is not looked at.  So does a server that holds the UID under another
\* URL and refuses a second one.  Other refusals are WriteRefused.
Put(r) ==
  LET p == Place(IdOf(r)) IN
  /\ req[r].at = "put"
  /\ \/ Fresh(r) /\ Write(p, Merged(r))
     \/ ~Fresh(r) /\ Untouched
     \/ ~There(p) /\ Exists(IdOf(r)) /\ Untouched
  /\ req' = [req EXCEPT ![r].at = "reread", ![r].id = IdOf(r)]
  /\ UNCHANGED <<provider, edits, faults, ideal, unsure, lost>>

\* DELETE with the etag found; its response is not looked at either.  Refusals
\* for another reason than the etag are WriteRefused.
Remove(r) ==
  LET p == Place(req[r].id) IN
  /\ req[r].at = "remove"
  /\ \/ Fresh(r) /\ Write(p, Nothing)
     \/ ~Fresh(r) /\ Untouched
  /\ Answer(r, "ok")
  /\ UNCHANGED <<provider, edits, faults, lost>>

\* The server answers PUT or DELETE with an error status (403, 429, 5xx), which tsdav
\* returns without throwing: nothing is written and the operation goes on as if it
\* were.  A delete and the update of an event that is there are then answered well.
WriteRefused(r) ==
  /\ req[r].at \in {"put", "remove"} /\ Fresh(r) /\ faults < MaxFaults
  /\ faults' = faults + 1
  /\ req' = [req EXCEPT ![r].at = IF @ = "put" THEN "reread" ELSE "ok", ![r].id = IdOf(r)]
  /\ unsure' = unsure \cup {IdOf(r)}
  /\ Untouched /\ UNCHANGED <<provider, edits, ideal, lost>>

\* getEvent, for a read or for the answer of a create or an update.
Reread(r) ==
  /\ req[r].at = "reread"
  /\ Answer(r, IF Holding(req[r].id) = {} THEN "failed" ELSE "ok")
  /\ Untouched /\ UNCHANGED <<provider, edits, faults, lost>>

\* The connection breaks, before or after the server acted; nothing is retried.
DavFails(r) ==
  LET p == Place(IdOf(r)) IN
  /\ req[r].at \in Serving \ {"call"} /\ faults < MaxFaults
  /\ faults' = faults + 1
  /\ \/ Untouched
     \/ req[r].at = "put" /\ Fresh(r) /\ Write(p, Merged(r))
     \/ req[r].at = "remove" /\ Fresh(r) /\ Write(p, Nothing)
  /\ lost' = [lost EXCEPT ![r] = @ + 1]
  /\ Answer(r, "failed")
  /\ UNCHANGED <<provider, edits>>

-----------------------------------------------------------------------------
(* Other programs *)

EditedBetween(id) == IF InFlight(id) # {} THEN unsure \cup {id} ELSE unsure

EditElsewhere(p, names) ==
  LET id == p[1] IN
  /\ There(p) /\ edits < MaxEdits
  /\ edits' = edits + 1
  /\ Write(p, Overlay(cal[p], names, "other"))
  /\ ideal' = IF ideal[id] = Nothing THEN ideal
              ELSE [ideal EXCEPT ![id] = Overlay(@, names, "other")]
  /\ unsure' = EditedBetween(id)
  /\ UNCHANGED <<provider, req, faults, lost>>

DeleteElsewhere(p) ==
  /\ There(p) /\ edits < MaxEdits
  /\ edits' = edits + 1
  /\ Write(p, Nothing)
  /\ ideal' = [ideal EXCEPT ![p[1]] = Nothing]
  /\ unsure' = EditedBetween(p[1])
  /\ UNCHANGED <<provider, req, faults, lost>>

Step(r) ==
  \/ Called(r) \/ CallUnanswered(r) \/ CalledMissing(r)
  \/ Read(r) \/ Find(r) \/ Put(r) \/ Remove(r) \/ WriteRefused(r) \/ Reread(r) \/ DavFails(r)

Next ==
  \/ \E r \in Requests : Step(r)
  \/ \E r \in Requests, op \in Ops, id \in Known \cup {NoId}, names \in Bodies \cup {{}} :
       Send(r, op, id, names)
  \/ \E p \in Places : DeleteElsewhere(p) \/ \E names \in Bodies : EditElsewhere(p, names)

Spec == Init /\ [][Next]_vars

\* A request that is being served goes on: its awaits return or throw.
FairSpec == Spec /\ \A r \in Requests : WF_vars(Step(r))

-----------------------------------------------------------------------------
(* Properties *)

TypeOK ==
  /\ provider \in Providers
  /\ cal \in [Places -> [Fields -> Values] \cup {Nothing}]
  /\ version \in [Places -> Nat]
  /\ req \in [Requests -> [op : Ops, id : Ids \cup {NoId}, names : SUBSET Fields,
                           at : Serving \cup Ended \cup {"unsent"}, attempt : 1 .. MaxAttempts,
                           read : [Fields -> Values] \cup {Nothing}, etag : Nat]]
  /\ edits \in 0 .. MaxEdits /\ faults \in 0 .. MaxFaults
  /\ ideal \in [Ids -> [Fields -> Values] \cup {Nothing}]
  /\ unsure \subseteq Ids
  /\ lost \in [Requests -> Nat]

\* What clients were told, and what other programs did, is what the API shows: an
\* event shows the last value given to each field that the provider's calls send, and
\* is gone if it was deleted.  Left out are events whose last answer was an error and
\* events written by two at once; and on CalDAV, where the answer may be untrue, events
\* of which the server refused a write (caldav/events.ts:80,126,149 take it for done)
\* and objects whose URL is not Caldera's, which an update copies and a delete does not
\* find.
HeldAsTold ==
  \A id \in Known \ unsure :
    InFlight(id) = {} =>
      /\ Exists(id) <=> ideal[id] # Nothing
      /\ Exists(id) => \A f \in Shown : cal[Place(id)][f] = ideal[id][f]

\* A create makes one event at most, and one more for each of its calls that was
\* not answered (lib/retry.ts:28-44 repeats what may have been done).
CreatesAccounted ==
  \A r \in Requests :
    Cardinality({id \in Ids : id[1] = r /\ version[Place(id)] > 1}) <= 1 + lost[r]

\* On Google and Microsoft, whatever else goes on, a field of an event that stays
\* changes only by another program or by a request that named it.
OnlyNamedFieldsChange ==
  [][\A p \in Places, f \in Fields :
       (/\ provider # "caldav" /\ edits' = edits
        /\ There(p) /\ cal'[p] # Nothing /\ cal'[p][f] # cal[p][f])
       => \E r \in InFlight(p[1]) : f \in req[r].names]_<<cal, edits>>

\* On CalDAV an object is never overwritten or removed by a request that found an
\* earlier version of it: what another wrote since then stays.
FoundIsWhatIsWritten ==
  [][\A p \in Places :
       (provider = "caldav" /\ edits' = edits /\ version'[p] # version[p] /\ There(p))
       => \E r \in InFlight(p[1]) : req[r].etag = version[p]]_<<version, edits>>

\* Every request is answered, also one whose event is gone.
RequestsEnd == \A r \in Requests : req[r].at \in Serving ~> req[r].at \in Ended
=============================================================================
