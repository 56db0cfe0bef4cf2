--------------------------------- MODULE Sync ---------------------------------
(***************************************************************************)
(* Incremental sync of one calendar: GET /v1/sync, the sync_state row of   *)
(* the calendar, and the listing code of the three providers over a        *)
(* calendar that changes while pages are fetched.                          *)
(*                                                                         *)
(* A cursor (Google sync token, Graph delta link, CalDAV etag map) stands  *)
(* for what it knows of each event: the version current when the listing   *)
(* that produced it began.  A listing from a cursor returns the events     *)
(* whose version differs; later pages are read later.  For CalDAV a        *)
(* version is an etag and an absent object has none.  Graph lists the      *)
(* account's default calendar whatever calendar the call names.            *)
(*                                                                         *)
(* Clients follow the documentation: they keep next_cursor, send it with   *)
(* the next call and apply the events they get to a copy kept by event id. *)
(* A call without a cursor is served from the token the row holds, be it   *)
(* another client's or that of a call whose reply was lost.                *)
(***************************************************************************)
EXTENDS Integers

CONSTANTS
  Events,         \* event ids of the calendar
  Clients,        \* API clients that sync it, each with a copy of its own
  Providers,      \* of the account: among "google", "microsoft" and "caldav"
  TombstonesKept, \* whether a full Google listing still shows deleted events
  MaxEdits,       \* bound: changes of the calendar
  MaxFails,       \* bound: calls that fail or whose reply is lost
  MaxExpiries     \* bound: times the provider forgets old cursors

ASSUME ConstantsAssumption ==
  /\ Providers \subseteq {"google", "microsoft", "caldav"}
  /\ TombstonesKept \in BOOLEAN
  /\ MaxEdits \in Nat /\ MaxFails \in Nat /\ MaxExpiries \in Nat

VARIABLES
  live,      \* the calendar account exists
  provider,  \* calendar_accounts.provider
  listed,    \* the calendar is one the provider's listing is of
  stored,    \* sync_state.sync_token, or NoCursor
  cal,       \* [Events -> version and presence at the provider]
  edits, oldest, fails, expiries,
  pc,        \* [Clients -> step of the call in progress]
  asked,     \* [Clients -> cursor parameter of the call]
  from,      \* [Clients -> resolved cursor the listing starts from]
  base,      \* [Clients -> cursor the listing will return]
  rest,      \* [Clients -> events of pages still to be fetched]
  reports,   \* [Clients -> [Events -> what the result says of the event]]
  cursor,    \* [Clients -> next_cursor kept by the client]
  copy,      \* [Clients -> [Events -> version in the client's copy, 0 for none]]
  start      \* history: [Clients -> edits before the listing behind the stored token
             \* the client's copy began with, or -1 if it began with a full listing]

remote == <<cal, edits, oldest, expiries>>
call     == <<pc, asked, from, base, rest, reports>>
client   == <<cursor, copy, start>>
account  == <<provider, listed>>
vars     == <<live, account, stored, remote, fails, call, client>>

-----------------------------------------------------------------------------
NoVersions == [e \in Events |-> 0]
NoCursor   == [at |-> -1, known |-> NoVersions]
Silent     == [e \in Events |-> [type |-> "none", ver |-> 0]]
Types      == {"none", "created", "updated", "deleted"}
Steps      == {"ready", "resolve", "context", "list", "pages", "insert", "update", "reply"}

\* The version of an event a listing compares: none of an event it cannot list,
\* nor of a CalDAV object that is gone.
Version(e) ==
  IF listed /\ (provider = "caldav" => cal[e].alive) THEN cal[e].ver ELSE 0

\* The version a client should hold.
Current(e) == IF cal[e].alive THEN cal[e].ver ELSE 0

Versions == [e \in Events |-> Version(e)]

\* What a listing that starts now has to return.
Delta(c) ==
  {e \in Events :
    /\ Version(e) # from[c].known[e]
    /\ from[c] = NoCursor => cal[e].alive \/ (provider = "google" /\ TombstonesKept)}

\* Altered form (mutation tests): the status of a deleted event stands where its type belongs.
ReportOfStatus(c, e) ==
  IF cal[e].alive THEN [type |-> "updated", ver |-> cal[e].ver]
  ELSE [type |-> "cancelled", ver |-> 0]

\* Google and Microsoft call everything of an incremental listing updated.
ReportOf(c, e) ==
  LET new == IF provider = "caldav" THEN from[c].known[e] = 0 ELSE from[c] = NoCursor
  IN  IF ~cal[e].alive THEN [type |-> "deleted", ver |-> 0]
      ELSE [type |-> IF new THEN "created" ELSE "updated", ver |-> cal[e].ver]

Reported(c, es) ==
  [e \in Events |-> IF e \in es THEN ReportOf(c, e) ELSE reports[c][e]]

Goto(c, step) == pc' = [pc EXCEPT ![c] = step]

Init ==
  /\ live = TRUE
  /\ provider \in Providers
  /\ listed \in BOOLEAN /\ (provider # "microsoft" => listed)
  /\ stored = NoCursor
  /\ cal = [e \in Events |-> [ver |-> 0, alive |-> FALSE]]
  /\ edits = 0 /\ oldest = 0 /\ fails = 0 /\ expiries = 0
  /\ pc = [c \in Clients |-> "ready"]
  /\ asked = [c \in Clients |-> NoCursor]
  /\ from = [c \in Clients |-> NoCursor]
  /\ base = [c \in Clients |-> NoCursor]
  /\ rest = [c \in Clients |-> {}]
  /\ reports = [c \in Clients |-> Silent]
  /\ cursor = [c \in Clients |-> NoCursor]
  /\ copy = [c \in Clients |-> NoVersions]
  /\ start = [c \in Clients |-> -1]

-----------------------------------------------------------------------------
(* The calendar at the provider, and the account *)

Edit(e) ==
  /\ edits < MaxEdits
  /\ edits' = edits + 1
  /\ \E alive \in {TRUE, cal[e].ver = 0} :
       cal' = [cal EXCEPT ![e] = [ver |-> edits + 1, alive |-> alive]]
  /\ UNCHANGED <<live, account, stored, oldest, fails, expiries, call, client>>

\* Cursors issued before now are answered with 410 from now on.
ForgetOldCursors ==
  /\ provider # "caldav" /\ expiries < MaxExpiries /\ oldest < edits
  /\ oldest' = edits /\ expiries' = expiries + 1
  /\ UNCHANGED <<live, account, stored, cal, edits, fails, call, client>>

\* deleteAccount; sync_state goes with the account.
DeleteAccount ==
  /\ live
  /\ live' = FALSE /\ stored' = NoCursor
  /\ UNCHANGED <<account, remote, fails, call, client>>

-----------------------------------------------------------------------------
(* One call: services/sync.ts and the incrementalSync of the provider *)

Request(c) ==
  /\ pc[c] = "ready" /\ live
  /\ asked' = [asked EXCEPT ![c] = cursor[c]]
  /\ from' = [from EXCEPT ![c] = cursor[c]]
  /\ Goto(c, IF cursor[c] = NoCursor THEN "resolve" ELSE "context")
  /\ UNCHANGED <<live, account, stored, remote, fails, base, rest, reports, client>>

\* Without a cursor parameter the stored token takes its place.
ResolveCursor(c) ==
  /\ pc[c] = "resolve"
  /\ from' = [from EXCEPT ![c] = stored]
  /\ Goto(c, "context")
  /\ UNCHANGED <<live, account, stored, remote, fails, asked, base, rest, reports, client>>

\* buildProviderContext reads the account again, for its credentials.
LoadContext(c) ==
  /\ pc[c] = "context" /\ live
  /\ Goto(c, "list")
  /\ UNCHANGED <<live, account, stored, remote, fails, asked, from, base, rest, reports, client>>

Gone(c) == from[c] # NoCursor /\ from[c].at < oldest

\* The first page; a CalDAV listing has one.
ListFirstPage(c) ==
  /\ pc[c] = "list" /\ ~Gone(c)
  /\ base' = [base EXCEPT ![c] = [at |-> edits, known |-> Versions]]
  /\ \E page \in SUBSET Delta(c) :
       /\ provider = "caldav" => page = Delta(c)
       /\ reports' = [reports EXCEPT ![c] = Reported(c, page)]
       /\ rest' = [rest EXCEPT ![c] = Delta(c) \ page]
       /\ Goto(c, IF page = Delta(c) THEN "insert" ELSE "pages")
  /\ UNCHANGED <<live, account, stored, remote, fails, asked, from, client>>

\* Altered form: the accumulator is reset with every page.
ListRestOnly(c) ==
  /\ pc[c] = "pages" /\ ~Gone(c)
  /\ reports' = [reports EXCEPT ![c] = [e \in Events |->
       IF e \in rest[c] THEN ReportOf(c, e) ELSE [type |-> "none", ver |-> 0]]]
  /\ rest' = [rest EXCEPT ![c] = {}]
  /\ Goto(c, "insert")
  /\ UNCHANGED <<live, account, stored, remote, fails, asked, from, base, client>>

ListRest(c) ==
  /\ pc[c] = "pages" /\ ~Gone(c)
  /\ reports' = [reports EXCEPT ![c] = Reported(c, rest[c])]
  /\ rest' = [rest EXCEPT ![c] = {}]
  /\ Goto(c, "insert")
  /\ UNCHANGED <<live, account, stored, remote, fails, asked, from, base, client>>

\* The call is over and the client has an error or nothing: its cursor stays.
Forget(c) ==
  /\ Goto(c, "ready")
  /\ reports' = [reports EXCEPT ![c] = Silent]
  /\ rest' = [rest EXCEPT ![c] = {}]
  /\ base' = [base EXCEPT ![c] = NoCursor]
  /\ from' = [from EXCEPT ![c] = NoCursor]
  /\ asked' = [asked EXCEPT ![c] = NoCursor]

\* Altered form: the 410 of Google is passed on.
GoneThrows(c) ==
  /\ pc[c] \in {"list", "pages"} /\ Gone(c)
  /\ Forget(c)
  /\ UNCHANGED <<live, account, stored, remote, fails, client>>

\* HTTP 410: google/sync.ts starts over without a cursor and drops what it had;
\* graphFetch throws and the call fails.
TokenGone(c) ==
  /\ pc[c] \in {"list", "pages"} /\ Gone(c)
  /\ IF provider = "google"
     THEN /\ from' = [from EXCEPT ![c] = NoCursor]
          /\ reports' = [reports EXCEPT ![c] = Silent]
          /\ rest' = [rest EXCEPT ![c] = {}]
          /\ Goto(c, "list")
          /\ UNCHANGED <<asked, base>>
     ELSE Forget(c)
  /\ UNCHANGED <<live, account, stored, remote, fails, client>>

\* INSERT ... ON CONFLICT DO NOTHING.
SaveInsert(c) ==
  /\ pc[c] = "insert" /\ live
  /\ stored' = IF stored = NoCursor THEN base[c] ELSE stored
  /\ Goto(c, "update")
  /\ UNCHANGED <<live, account, remote, fails, asked, from, base, rest, reports, client>>

\* The account was deleted meanwhile: no context, or the foreign key fails.
AccountGone(c) ==
  /\ pc[c] \in {"context", "insert"} /\ ~live
  /\ Forget(c)
  /\ UNCHANGED <<live, account, stored, remote, fails, client>>

SaveUpdate(c) ==
  /\ pc[c] = "update"
  /\ stored' = IF live THEN base[c] ELSE stored
  /\ Goto(c, "reply")
  /\ UNCHANGED <<live, account, remote, fails, asked, from, base, rest, reports, client>>

\* An error of the provider or the database, or a crash of the API process; once
\* the row is written, also a reply that never arrives.
CallFails(c) ==
  /\ pc[c] # "ready" /\ fails < MaxFails
  /\ fails' = fails + 1
  /\ Forget(c)
  /\ UNCHANGED <<live, account, stored, remote, client>>

\* A deleted CalDAV event is reported under its URL; the copy knows it by its UID.
Applied(c, e) ==
  CASE reports[c][e].type = "none" -> copy[c][e]
    [] reports[c][e].type = "deleted" -> IF provider = "caldav" THEN copy[c][e] ELSE 0
    [] OTHER -> reports[c][e].ver

\* What the copy began with, once the call is answered.
Start(c) ==
  IF from[c] = NoCursor THEN -1 ELSE IF asked[c] = NoCursor THEN from[c].at ELSE start[c]

Reply(c) ==
  /\ pc[c] = "reply"
  /\ start' = [start EXCEPT ![c] = Start(c)]
  /\ copy' = [copy EXCEPT ![c] = [e \in Events |-> Applied(c, e)]]
  /\ cursor' = [cursor EXCEPT ![c] = base[c]]
  /\ Forget(c)
  /\ UNCHANGED <<live, account, stored, remote, fails>>

-----------------------------------------------------------------------------
CallStep(c) ==
  \/ Request(c) \/ ResolveCursor(c) \/ LoadContext(c)
  \/ ListFirstPage(c) \/ ListRest(c) \/ TokenGone(c)
  \/ SaveInsert(c) \/ SaveUpdate(c) \/ Reply(c) \/ AccountGone(c)

Next ==
  \/ \E e \in Events : Edit(e)
  \/ ForgetOldCursors \/ DeleteAccount
  \/ \E c \in Clients : CallStep(c) \/ CallFails(c)

Spec == Init /\ [][Next]_vars

\* Clients call again and again, and the awaits of a call return; failures and
\* changes of the calendar come to an end (their bounds).
FairSpec == Spec /\ \A c \in Clients : WF_vars(CallStep(c))

-----------------------------------------------------------------------------
(* Properties *)

Cursors == [at : Int, known : [Events -> Nat]]

TypeOK ==
  /\ live \in BOOLEAN
  /\ provider \in Providers /\ listed \in BOOLEAN
  /\ stored \in Cursors
  /\ cal \in [Events -> [ver : Nat, alive : BOOLEAN]]
  /\ edits \in Nat /\ oldest \in Nat /\ fails \in Nat /\ expiries \in Nat
  /\ pc \in [Clients -> Steps]
  /\ asked \in [Clients -> Cursors] /\ from \in [Clients -> Cursors]
  /\ base \in [Clients -> Cursors] /\ cursor \in [Clients -> Cursors]
  /\ rest \in [Clients -> SUBSET Events]
  /\ reports \in [Clients -> [Events -> [type : Types, ver : Nat]]]
  /\ copy \in [Clients -> [Events -> Nat]] /\ start \in [Clients -> Int]

\* What a client of the calendar is entitled to: the changes of a calendar the
\* listing is of, made after the listing its copy began with.  (A first call served
\* from a stored token never brings what changed before; a full listing after a 410
\* does.)
Owed(c, e) == listed /\ cal[e].ver > start[c]

\* Whatever a client's copy lacks of what it is owed, the cursor it holds lacks too,
\* so the next call will report it: no change is lost between pages, with calls that
\* fail or whose reply is lost, to the token another client's call stored, or by a
\* full resync after a 410.  Deleted CalDAV objects are left out: they are reported
\* under an id that no client has seen.
NothingMissed ==
  \A c \in Clients, e \in Events :
    (Owed(c, e) /\ copy[c][e] # Current(e) /\ (provider = "caldav" => cal[e].alive))
      => cursor[c].known[e] # Version(e)

\* A client of a Google calendar that goes on calling ends up with the calendar, but
\* for what changed before the stored token its copy began with, through calls that
\* fail, replies that are lost and sync tokens that Google has forgotten.
ClientCatchesUp ==
  \A c \in Clients, e \in Events :
    (provider = "google" /\ copy[c][e] # Current(e))
      ~> (copy[c][e] = Current(e) \/ cal[e].ver <= start[c] \/ ~live)
=============================================================================
