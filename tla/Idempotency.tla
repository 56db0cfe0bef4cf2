----------------------------- MODULE Idempotency -----------------------------
(***************************************************************************)
(* Mutations sent with an Idempotency-Key header: the preHandler and       *)
(* onSend hooks of idempotencyPlugin.ts around the handler of a route, the *)
(* error handler, and the idempotency_keys rows they leave.                *)
(*                                                                         *)
(* A client chooses one key per operation and sends the operation again    *)
(* with the same key whenever it likes: after an answer, after a request   *)
(* that got none, and while an earlier request with the key is still being *)
(* served (a client that timed out, or two that share the key).  An answer *)
(* names the request whose handler produced it, which tells two executions *)
(* of one operation apart.                                                 *)
(***************************************************************************)
EXTENDS Integers, FiniteSets

CONSTANTS
  Keys,         \* idempotency keys, one per operation
  Requests,     \* HTTP requests
  NoBody,       \* keys of operations whose route answers without a body
  MaxCrashes,   \* bound: requests cut off by a crash of the API process
  MaxDbErrors   \* bound: onSend hooks whose insert throws

ASSUME ConstantsAssumption ==
  /\ NoBody \subseteq Keys
  /\ MaxCrashes \in Nat /\ MaxDbErrors \in Nat

VARIABLES
  stored,      \* [Keys -> recorded answer, or NoAnswer]
  expired,     \* keys whose row is past its expires_at
  pc,          \* [Requests -> hook or handler the request is at]
  key,         \* [Requests -> its key]
  reply,       \* [Requests -> answer about to be sent]
  \* history
  effects,     \* [Keys -> times the handler changed something]
  unrecorded,  \* [Keys -> executions whose answer no row holds]
  told,        \* [Keys -> answers clients have received]
  overlaps,    \* [Keys -> requests sent while another with the key was being served]
  crashes, dbErrors

served  == <<pc, key, reply>>
faults  == <<crashes, dbErrors>>
vars    == <<stored, expired, served, effects, unrecorded, told, overlaps, faults>>

-----------------------------------------------------------------------------
NoAnswer == [kind |-> "none", by |-> {}]
AnswerOf(kind, r) == [kind |-> kind, by |-> {r}]
AnswerSet == {NoAnswer} \cup {AnswerOf(kind, r) : kind \in {"ok", "error"}, r \in Requests}
Steps    == {"unsent", "lookup", "handler", "save", "send", "done"}
UnderWay == {"lookup", "handler", "save", "send"}

\* The requests with key k that have arrived and are not over.
Served(k) == {r \in Requests : key[r] = k /\ pc[r] \in UnderWay}

Goto(r, step) == pc' = [pc EXCEPT ![r] = step]

Init ==
  /\ stored = [k \in Keys |-> NoAnswer]
  /\ expired = {}
  /\ pc = [r \in Requests |-> "unsent"]
  /\ key \in [Requests -> Keys]
  /\ reply = [r \in Requests |-> NoAnswer]
  /\ effects = [k \in Keys |-> 0]
  /\ unrecorded = [k \in Keys |-> 0]
  /\ told = [k \in Keys |-> {}]
  /\ overlaps = [k \in Keys |-> 0]
  /\ crashes = 0 /\ dbErrors = 0

-----------------------------------------------------------------------------
Send(r) ==
  /\ pc[r] = "unsent"
  /\ Goto(r, "lookup")
  /\ overlaps' = IF Served(key[r]) = {} THEN overlaps ELSE [overlaps EXCEPT ![key[r]] = @ + 1]
  /\ UNCHANGED <<stored, expired, key, reply, effects, unrecorded, told, faults>>

\* 24 hours pass.  Nothing deletes the row and the select does not look at
\* expires_at.
Expire(k) ==
  /\ stored[k] # NoAnswer /\ k \notin expired
  /\ expired' = expired \cup {k}
  /\ UNCHANGED <<stored, served, effects, unrecorded, told, overlaps, faults>>

\* Altered form (mutation tests): only successes are replayed.
LookupOkOnly(r) ==
  /\ pc[r] = "lookup"
  /\ Goto(r, IF stored[key[r]].kind = "ok" THEN "send" ELSE "handler")
  /\ reply' = [reply EXCEPT ![r] = IF stored[key[r]].kind = "ok" THEN stored[key[r]] ELSE NoAnswer]
  /\ UNCHANGED <<stored, expired, key, effects, unrecorded, told, overlaps, faults>>

\* preHandler: a recorded answer is sent again, by a reply that skips the insert
\* of onSend (the request has no idempotencyKey).
Lookup(r) ==
  /\ pc[r] = "lookup"
  /\ Goto(r, IF stored[key[r]] = NoAnswer THEN "handler" ELSE "send")
  /\ reply' = [reply EXCEPT ![r] = stored[key[r]]]
  /\ UNCHANGED <<stored, expired, key, effects, unrecorded, told, overlaps, faults>>

\* Altered form: nothing answers for a handler that throws.
HandleUnanswered(r) ==
  /\ pc[r] = "handler"
  /\ \/ /\ effects' = [effects EXCEPT ![key[r]] = @ + 1]
        /\ reply' = [reply EXCEPT ![r] = AnswerOf("ok", r)]
     \/ /\ effects' = effects
        /\ reply' = [reply EXCEPT ![r] = AnswerOf("none", r)]
  /\ Goto(r, "save")
  /\ UNCHANGED <<stored, expired, key, unrecorded, told, overlaps, faults>>

\* The handler changes something and answers, or throws before or after it did
\* (a provider that acts and does not answer in time).  Without a body the first
\* onSend throws in createHash().update and the error handler's answer goes
\* through onSend in its place.
Handle(r) ==
  LET k == key[r] IN
  /\ pc[r] = "handler"
  /\ \/ /\ effects' = [effects EXCEPT ![k] = @ + 1]
        /\ reply' = [reply EXCEPT ![r] = AnswerOf(IF k \in NoBody THEN "error" ELSE "ok", r)]
     \/ /\ effects' \in {effects, [effects EXCEPT ![k] = @ + 1]}
        /\ reply' = [reply EXCEPT ![r] = AnswerOf("error", r)]
  /\ Goto(r, "save")
  /\ UNCHANGED <<stored, expired, key, unrecorded, told, overlaps, faults>>

\* Altered form: errors are sent without being recorded.
SaveOkOnly(r) ==
  LET k == key[r] IN
  /\ pc[r] = "save"
  /\ stored' = IF stored[k] = NoAnswer /\ reply[r].kind = "ok"
               THEN [stored EXCEPT ![k] = reply[r]] ELSE stored
  /\ Goto(r, "send")
  /\ UNCHANGED <<expired, key, reply, effects, unrecorded, told, overlaps, faults>>

\* onSend: INSERT ... ON CONFLICT DO NOTHING, then the answer of this request.
Save(r) ==
  LET k == key[r] IN
  /\ pc[r] = "save"
  /\ stored' = IF stored[k] = NoAnswer THEN [stored EXCEPT ![k] = reply[r]] ELSE stored
  /\ Goto(r, "send")
  /\ UNCHANGED <<expired, key, reply, effects, unrecorded, told, overlaps, faults>>

\* The insert throws: the error handler answers 500 in place of the handler's
\* answer, through onSend again, which records the 500 or throws once more.
SaveFails(r) ==
  LET k == key[r]
      failure == AnswerOf("error", r)
  IN  /\ pc[r] = "save" /\ dbErrors < MaxDbErrors
      /\ dbErrors' = dbErrors + 1
      /\ reply' = [reply EXCEPT ![r] = failure]
      /\ \/ /\ stored' = IF stored[k] = NoAnswer THEN [stored EXCEPT ![k] = failure] ELSE stored
            /\ UNCHANGED unrecorded
         \/ /\ unrecorded' = [unrecorded EXCEPT ![k] = @ + 1]
            /\ UNCHANGED stored
      /\ Goto(r, "send")
      /\ UNCHANGED <<expired, key, effects, told, overlaps, crashes>>

Answer(r) ==
  /\ pc[r] = "send"
  /\ told' = [told EXCEPT ![key[r]] = @ \cup {reply[r]}]
  /\ Goto(r, "done")
  /\ UNCHANGED <<stored, expired, key, reply, effects, unrecorded, overlaps, faults>>

\* The connection breaks before the client has read the answer.
AnswerLost(r) ==
  /\ pc[r] = "send"
  /\ Goto(r, "done")
  /\ UNCHANGED <<stored, expired, key, reply, effects, unrecorded, told, overlaps, faults>>

\* The API process dies while it serves the request.
Crash(r) ==
  /\ pc[r] \in UnderWay /\ crashes < MaxCrashes
  /\ crashes' = crashes + 1
  /\ unrecorded' = IF pc[r] = "save" THEN [unrecorded EXCEPT ![key[r]] = @ + 1] ELSE unrecorded
  /\ Goto(r, "done")
  /\ UNCHANGED <<stored, expired, key, reply, effects, told, overlaps, dbErrors>>

Next ==
  \/ \E k \in Keys : Expire(k)
  \/ \E r \in Requests :
       \/ Send(r) \/ Lookup(r) \/ Handle(r) \/ Save(r) \/ Answer(r)
       \/ SaveFails(r) \/ AnswerLost(r) \/ Crash(r)

Spec == Init /\ [][Next]_vars

-----------------------------------------------------------------------------
(* Properties *)

TypeOK ==
  /\ stored \in [Keys -> AnswerSet]
  /\ expired \subseteq Keys
  /\ pc \in [Requests -> Steps]
  /\ key \in [Requests -> Keys]
  /\ reply \in [Requests -> AnswerSet]
  /\ effects \in [Keys -> Nat] /\ unrecorded \in [Keys -> Nat]
  /\ told \in [Keys -> SUBSET AnswerSet]
  /\ overlaps \in [Keys -> Nat]
  /\ crashes \in Nat /\ dbErrors \in Nat

\* Within the 24 hours that CHANGELOG.md:27 gives a key its operation is executed
\* once, plus once for each execution whose answer a crash or a failing insert kept
\* from being recorded, plus once for each request sent while another with the key
\* was being served: the hooks hold no lock, but an overlap costs no more than its
\* own execution, however many requests follow it.
ExecutionsAccounted ==
  \A k \in Keys \ expired : effects[k] <= 1 + unrecorded[k] + overlaps[k]

\* Up to the same losses and overlaps a key has one outcome, however often clients
\* ask for it.
AnswersAgree ==
  \A k \in Keys \ expired : Cardinality(told[k]) <= 1 + unrecorded[k] + overlaps[k]
=============================================================================
