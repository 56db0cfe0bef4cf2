# A TLA+ model of Caldera

Caldera is a REST API in front of Google Calendar, Microsoft Outlook and CalDAV
servers. This directory models the parts of it that keep state and run
concurrently, checks them with TLC on small instances and proves theorems about
them with TLAPS. Paths are relative to the repository; `src/...` is its source
directory.

## The system

Two kinds of process share one Postgres database and talk to providers and to
the customers' endpoints:

* the **API process** (`src/server.ts`, `src/app.ts`): Fastify routes; every
  request is a sequence of awaited statements and provider calls, and requests
  interleave at each await;
* the **worker process** (`src/workers/index.ts`): four pg-boss queues
  (`token-refresh`, `watch-renew`, `caldav-poll`, `webhook-dispatch`), each with
  one job per schedule tick whose handler awaits a whole pass. Passes of one
  queue overlap when two worker processes run, or when a pass outlives the
  expiry of its job (pg-boss' default is 15 minutes; a dispatcher pass may wait
  10 s per delivery, and the token requests have no timeout).

No transaction spans two statements and nothing locks a row, so every pair of
awaits is a place where another process can act.

### Inventory

| Component | State | Operations | Hard behaviour | What makes it correct | Modelled in |
|---|---|---|---|---|---|
| Outbound delivery: `services/outboundWebhooks.ts`, `workers/outboundWebhookDispatcher.ts` | `outbound_webhooks`, `webhook_deliveries`; snapshot of a pass | create, delete (cascade), enqueue (fan-out), retry; pass: select, find hook, POST, mark, schedule retry | overlapping passes, deletion and retry during a POST, errors after a 2xx, crash after a POST | POSTs are accounted for; statuses are true; what is owed is sent | `OutboundWebhooks`, `DeliveryContract` |
| Token refresh: `workers/tokenRefresh.ts`, `providers/*/oauth.ts` | `calendar_accounts`; batch of a pass; the server's grants | connect, delete; pass: select, refresh, save, count a failure | stale counters, lost rotated tokens, batch limit | an account is given up exactly after five failures in a row; the stored token is good | `TokenRefresh` |
| Incremental sync: `services/sync.ts`, `providers/*/sync.ts` | `sync_state`; cursor and copy of a client; the changing calendar | resolve cursor, list pages, 410, persist, reply | changes between pages, lost replies, forgotten tokens | no change after the listing a copy began with is lost to a client | `Sync` |
| Idempotency: `plugins/idempotencyPlugin.ts` | `idempotency_keys` | lookup, handler, record, answer | overlapping requests, crash before the insert, error answers | one execution and one answer per key, up to losses and overlaps | `Idempotency` |
| Watches: `services/watches.ts`, `workers/watchRenew.ts`, `providers/google/watch.ts`, `providers/microsoft/subscription.ts` | `watches`; channels at the provider | subscribe, unsubscribe, renew | crash between provider and database, lost answers under retry, expiry, overlapping passes | stored watches are open; nothing but faults leaves a channel behind | `Watches` |
| Inbound notifications: `routes/providerWebhook.ts` | `provider_webhook_events` | verify, deduplicate, acknowledge | redelivery to several handlers, errors taken for duplicates | every change is acted upon, Google's once (Microsoft's again with each redelivery) | `ProviderWebhooks`, on `Watches` |
| Events: `routes/events.ts`, `services/events.ts`, `providers/*/events.ts`, `caldav/ics.ts` | none of their own; the calendar at the provider | create, read, update, delete | retries of what was done, concurrent editors, CalDAV's read-merge-write | what was answered is what is shown, as far as answers can be trusted; no object is overwritten in a version nobody found | `Events` |
| Identity: `services/auth.ts`, `plugins/authPlugin.ts` | `applications`, `api_keys`, `end_users` | verify key, resolve end user | concurrent first requests | every request has a row, of its application | `Identity` |
| OAuth broker: `routes/auth/*`, `services/accounts.ts` | `calendar_accounts`; signed state | url, callback, apple connect, delete | repeated callbacks, any code with any state, the user row between url and callback | one account per code, of the user that the state names | `Identity` |
| Recurrence: `providers/microsoft/rrule.ts` | the series at Graph | two conversions | data lost in the round trip | a rule comes back as written; a copied series stays the same | `Recurrence` |
| Retry helper: `lib/retry.ts` | none | loop with back-off | repeats what already happened | bounded attempts | in the calls of `Watches` and `Events` |
| CalDAV poll: `workers/calDavPoll.ts` | reads `sync_state` | compare ctags | format of the stored token | a change is noticed | - |
| Rate limiting: `plugins/rateLimit.ts` (not registered in `app.ts`) | `rate_limit_buckets` | one upsert | window arithmetic | at most `max` per window | - |
| Calendars, free/busy, availability | none (the `calendars` rows inserted by `listCalendars` are read nowhere) | one provider call each | - | field mapping | - |
| Crypto, configuration, logging | none | - | - | - | - |

Components interact through the database only: the API writes rows the workers
select, `deleteAccount` and `deleteWebhook` cascade into rows the workers hold
in memory, and token refresh changes the credentials every provider call reads.
`enqueueDelivery`, the entry of outbound delivery, has no caller in the
repository; the model takes its calls as inputs.

## The modules

Each component has a module with one action per statement, request or
condition that another process can come between; an `MC...` module that declares
model values; one `.cfg` per run; and a `...Proofs` module for its theorems (those of
`Watches` are in `ProviderWebhooksProofs`, which is about the two together).
Bounds appear as `Max...` constants and only in guards of environment and fault
actions (and of `RetryDelivery`), never in the steps of the program.
Definitions introduced as "altered form" are the program's definitions with a
plausible bug; they are used to confirm that each property can fail.

### OutboundWebhooks, DeliveryContract

`hooks` and `rows` are the two tables, cut to the columns that decide anything:
state and `failCount` of a webhook; `status`, `attempts` and "`next_attempt_at`
has passed" of a delivery. A delivery is the pair of its webhook and the
`enqueueDelivery` call that inserted it. `pub` and `fan` are the loop of
`enqueueDelivery` (`SelectHooks`, `InsertDelivery`, `AbortEnqueue`); a worker's
`snap`, `seen` and `cur` are the array, the snapshot columns and the loop
variable of `dispatchPendingWebhooks`; `pc` names the await it is at. The
program order is kept: `FindHook` re-reads the webhook but not the delivery,
`Post` is the `fetch` with a 2xx answer, another answer, or an error after which
the endpoint may or may not have acted, `MarkDelivered` and `ResetFailCount` are
the two updates of the success branch, `ScheduleRetry`, `MarkDead` and
`MarkHookFailed` are `scheduleRetry`. A throw inside the `try`
(`DbErrorInTry`) leads to `scheduleRetry` even after a 2xx; a throw outside it
(`DbErrorOutsideTry`) and a `Crash` end the pass. Updates by id do nothing when
the row is gone. `taken`, `answer`, `posts`, `interrupted`, `retries` and
`targets` are history that the properties read and no guard uses, except the
bound on `retries`.

`DeliveryContract` is what a caller of `enqueueDelivery` may rely on: a delivery
handed over is owed until it is settled once; delivered means accepted; it is
offered again only when asked for; it goes with its webhook; and nothing stays
owed for ever. `ImplementsContract` maps status `pending` to owed, `delivered`
to delivered, `failed` and `dead` to failed, and deleted webhooks to gone. The
mapping of `failed` to a settled state is the code's: nothing selects such a row
again.

| Run | Bounds | Shows |
|---|---|---|
| `OutboundWebhooks_serial` | 2 webhooks, 1 event, 1 pass, 1 retry per delivery, 1 crash | `FanOutComplete`, `StatusTellsAnswer`, `ImplementsContract` (safety and liveness) |
| `OutboundWebhooks_overlap` | 1 delivery, 2 passes, `MaxAttempts = 1`, 1 retry, 1 crash, 1 failing statement | `TypeOK`, `PostsAccounted`, `DeliveredWasTaken`, `OwedIsPosted` |
| `OutboundWebhooks_schedule` | 1 delivery, 1 pass, no faults | violates `RetrySchedule` |

Passes meet only at a delivery they share, so one delivery and two passes cover
their interleavings; the fan-out and the cascade need two webhooks. The source
has `MAX_ATTEMPTS = 8`; the `dead` branch is unreachable with any limit above 1
(`NoSecondAttempt`, proved for every value), so the overlap run sets 1 to exercise it
and the others use 8.

Two losses are the code's and in no property: `FanOutComplete` is about calls of
`enqueueDelivery` that return (one that is cut off leaves the remaining webhooks without
the event, and nothing resumes it), and `OwedIsPosted` about retries asked for while the
row's POST is not in flight (the outcome of that POST overwrites any other).

### TokenRefresh

`rows` holds `status`, `refresh_fail_count`, whether the access token expires
within the window, and the refresh token as the generation the server issued it
in. `valid` and `issued` are the authorization server (external): it honours a
token, may rotate it, or refuses. `StartPass` is the select with its limit,
`NextInBatch` the loop, `Granted`, `Refused` and `AnswerLost` the token request
(Google's result carries a new refresh token, Microsoft's drops it),
`SaveTokens` the update, `RecordFailure` the catch block, which counts on from
the value in the batch (`seen`). `DbErrorInTry` is an update that throws after a
refresh: it is counted as a failure and the tokens are lost.

| Run | Bounds | Shows |
|---|---|---|
| `TokenRefresh_serial` | 1 Google and 1 Microsoft account, 1 pass, rotating tokens, limit of 2 failures, 1 fault of each kind | `TypeOK`, `GivenUpInTime`, `RefreshFailedIsEarned`, `StoredTokenIsGood`, `RefreshFailedIsFinal`, `ExpiringIsResolved` |
| `TokenRefresh_stale` | 1 account, 2 passes, limit of 5, no faults | violates `RefreshFailedIsEarned` |

`failures` is the model's own count of consecutive failures, independent of the
column, and the two sides of the document's promise are stated with it: an account is
given up after that many failures in a row (`RefreshFailedIsEarned`), and one that failed
so often is given up (`GivenUpInTime`, unless a crash or a failing statement kept a failure
from its row). Both need passes that do not overlap: the counter is advanced from the
value in the batch, so overlapping passes count too much after a success in between
(`TokenRefresh_stale`) and too little when they fail together. `StoredTokenIsGood` is about
Google accounts that met no fault: a rotated token whose update is lost is lost for good.
`ExpiringIsResolved` counts deletion and `refresh_failed` as resolved; with batches
smaller than the number of accounts it needs both accounts in the batch, which is why the
serial run's batch holds them all (the select has no order, and nothing in the code would
keep one account from being passed over).

### Sync

A cursor stands for what it knows of each event: the version current when the
listing that produced it began. That is a sync token, a delta link and an etag
map alike. `Request`, `ResolveCursor` and `LoadContext` are the selects of
`services/sync.ts`; `ListFirstPage` and `ListRest` the page loop, between which
the calendar changes (`Edit`); `TokenGone` the 410, where Google starts over and
Microsoft's call fails; `SaveInsert` and `SaveUpdate` the two statements; `Reply`
the answer and what a client does with it by `docs/concepts/sync.md`. A listing
of three or more pages is not distinguished from two: pages only matter by what
changes before and after them.

| Run | Bounds | Shows |
|---|---|---|
| `Sync_changes` | each provider, 2 events, 3 edits, 1 client, 2 calls that fail or go unanswered, 1 time tokens are forgotten | `TypeOK`, `NothingMissed`, `ClientCatchesUp` (Google) |

A call without a cursor is served from the stored token, which may be that of the client's
own call whose reply was lost or of another client's; the copy then begins in the middle,
and what changed before it never arrives. `start` keeps where the listing behind that
token stood, `Owed` says what the client may expect from there on, and both properties are
about that: within it nothing is missed, whatever fails. A full resync after a 410 brings
the rest and sets `start` back. The run has one client, whose unanswered calls leave stored
tokens; two clients are beyond TLC here, and the theorem has any number. It is assumed that
a full Google listing still shows deleted events (`TombstonesKept`), since `showDeleted` is
all the code can ask for.

`microsoft/sync.ts` ignores the calendar's id and lists `/me/events/delta`, the account's
default calendar. `listed` says whether the calendar of the call is one that the listing is
of; if it is not, none of its changes is ever reported, and none is `Owed` (the events of
the default calendar that come instead are not represented). CalDAV objects that are listed
without an etag or without data, which `caldav/sync.ts` skips, are not modelled.
`ClientCatchesUp` is about Google: a Microsoft client whose delta link was forgotten is
stuck, one without a cursor too, since the stored link fails its calls as well; and CalDAV
deletions arrive under another id than the events.

### Idempotency

A request passes `Lookup` (preHandler), `Handle` (the route, or the error
handler if it throws), `Save` (onSend) and `Answer`. An answer names the request
whose handler produced it. `SaveFails` and an answer without a body follow
Fastify: a throw in onSend makes the error handler answer 500 through onSend once
more. `overlaps` counts the requests sent while another with the key was being
served, and `unrecorded` the executions whose answer no row holds.

| Run | Bounds | Shows |
|---|---|---|
| `Idempotency_shared` | 2 keys, one of an operation without body, 4 requests that may overlap, 2 crashes, 1 failing insert | `TypeOK`, `ExecutionsAccounted`, `AnswersAgree` |

The hooks hold no lock, so an overlap may cost an execution and a second outcome; what the
properties say is that nothing else does, but for answers that went unrecorded, and that
the cost is not paid again by the requests that follow. They are stated for keys within
their 24 hours: the code goes on replaying afterwards (see the disagreements). Keys do not
interact; four requests give one execution that goes unrecorded, one that is recorded and
two replays or overlaps.

### Watches, ProviderWebhooks

`rows` is the `watches` table, `channel` what the provider (external) has open and
until when, both by call of `subscribeWatch`: a channel is the pair of a call and
the attempt of `withRetry` that opened it, since Google's id is chosen before the
retries and every accepted POST to Microsoft is another subscription. `sub`,
`unsub` and `pass` are the awaits of `subscribeWatch`, `unsubscribeWatch` and
`renewExpiringWatches`. `ChannelCreated`, `CreateUnanswered` and `ChannelIdTaken`
are the outcomes of a create; `InsertRow` and `InsertFails` the insert, whose
foreign key fails once the account is gone; `ChannelStopped`, `StopUnanswered`,
`DeleteRow` and `DeleteFails` the way back; `StartPass`, `NextWatch`, `Patched`,
`PatchUnanswered`, `UpdateRow`, `UpdateFails` and `EndPass` the pass, which reads
its rows once and updates them by id. `CrashCall` and `CrashWorker` end a call or a
pass where it is. `DeleteAccount` cascades.

Time passes in half days, so a look-ahead of 24 hours is 2 and Microsoft's three
days are 6. `Tick` says what the schedule leaves room for: no call and no pass
lasts half a day, and of the 144 passes scheduled in one at least one meets no
fault. `faults` bounds the faults, and it is also what `OrphansAccounted` counts
the channels against that nobody knows of.

`ProviderWebhooks` extends `Watches`: the two handlers look channels up in `rows`
while the services above insert and delete them. `sent` and `settled` are the
provider's side (what it has sent, and what was answered so that it does not repeat
it); `events` the unique index; `hand` the await of a handler and the notifications
its request carries, one for Google, several for Microsoft. `InsertEvent` is the
insert whose failure is taken for "seen before": Google's handler stops there,
Microsoft's goes on. `InsertEventFails` is any other failure of it; `Interrupted` a
crash, an error answer or a lost answer, after which the provider delivers again.
`enqueued` counts the log line that is all the code does with a notification it
accepts.

| Run | Bounds | Shows |
|---|---|---|
| `ProviderWebhooks_channels` | 1 watch, 2 attempts, 2 passes, 7 half days, 2 handlers, 2 notifications, 1 fault of any kind, each provider | `NoteTypeOK`, `OrphansAccounted`, `StoredWatchIsLive`, `ActedUponOnce`, `SettledIsActedUpon` |

Seven half days are the life of a Microsoft subscription and one more, so that a
watch has to be renewed to be there at the end. Watches do not touch each other's
channels or rows (the invariant `Mine` of the proofs), so one is enough, and
`StoredWatchIsLive` is proved for any number. `SettledIsActedUpon` leaves out
notifications sent before their watch was stored and, for Google, those whose
handler was cut off between the insert and the log line: their redelivery finds the
key and is dropped. `StoredWatchIsLive` leaves out watches that someone asked to
stop: Microsoft's DELETE of a subscription that is gone throws before the row is
deleted, and such a row is never removed. It is about Microsoft, since Google's
client has no `renewWatch`. `ActedUponOnce` is about Google: Microsoft's handler goes on
after a key it has seen, so each redelivery of a Microsoft notification is acted upon again,
where `CHANGELOG.md:26` speaks of deduplication for both.

### Events

`cal` and `version` are the calendar at the provider (external): the fields of the
object at each place, and how often it was written, which is what an etag tells
apart. On a CalDAV server an event has a place whose URL contains its UID, where
Caldera looks for it, and may lie at another. `req` is the await a request is at.
`Called`, `CallUnanswered` and `CalledMissing` are the outcomes of the single call
that Google and Microsoft need, under `withRetry`, with the fields each call
carries (`GooglePatch`, `GraphPatch`, ...); `Read`, `Find`, `Put`, `Remove` and
`Reread` the requests of the CalDAV operations, which merge what was read in one
request into the object found in the next, under its etag; `WriteRefused` a PUT or DELETE
that the server answers with an error, which tsdav returns without throwing and
`caldav/events.ts` does not look at; `DavFails` a broken connection. A listing the server
refuses is taken to throw, as tsdav does there. `EditElsewhere` and `DeleteElsewhere` are other programs. A field's
value is who wrote it, so a lost, stale or foreign value shows.

| Run | Bounds | Shows |
|---|---|---|
| `Events_requests` | each provider, 2 requests, 1 event from the start, 3 attempts, 1 foreign edit, 3 faults | `TypeOK`, `HeldAsTold`, `CreatesAccounted`, `OnlyNamedFieldsChange`, `FoundIsWhatIsWritten`, `RequestsEnd` |

Two requests are what it takes for a read and a write to be overtaken; three faults
exhaust the attempts of one call. `HeldAsTold` compares with `ideal`, which history
alone maintains from the answers, and leaves out events that two wrote at once, whose last
answer was an error, or of which a CalDAV server refused a write: the update or delete is
then answered well although nothing was written. `FoundIsWhatIsWritten` compares with the
second read of `updateEvent`: an edit that another program makes between its two reads is
overwritten under the fresh etag, and leaves `HeldAsTold` by `unsure`. The fields Microsoft's PATCH and Google's PATCH do
not carry (guests, rules) are accepted by the API and dropped; `ideal` follows the
code in this, as no document promises otherwise.

### Identity

`endUsers`, `accounts` and `keys` are the tables; a row carries the request that
made it as its primary key. `Ask` is a request of one of the four kinds, `Arrive` the hook
with its key check; `SelectUser`, `InsertUser` and `Reselect` are the three statements of
`resolveEndUser`: the insert does nothing where the application has that user already (the
unique index on application and external id), and both selects have no order and no
condition on the user, so they take any row of the application. `SignState`, `Consent`,
`VerifyState`, `ExchangeCode`, `ExchangeLost`, `FindNamed`, `Login` and `StoreAccount` are the
OAuth broker and the provider's codes (external), which it redeems once; `CheckOwner` and
`DeleteAccount` the deletion. `Interrupted` is an error or a crash at any await.

A URL can be agreed to any number of times while its state is good, and a callback brings
some state and some code: `callback.ts:20-38` takes them as two parameters and checks each
for itself. So an account belongs to the user that its state names (`AccountsOfNamed`); that
this is the user who agreed holds when code and state come from one consent, which the code
cannot tell and no document promises (`docs/concepts/auth.md:34` has the state signed and
expiring, as it is).

| Run | Bounds | Shows |
|---|---|---|
| `Identity_connect` | 3 requests of any kind, 2 applications with 2 users each, 2 codes, a state good for the tick it was made in | `TypeOK`, `RowOfApplication`, `AccountsOfNamed`, `OneAccountPerConsent`, `DeletedByOwner` |
| `Identity_named` | 2 requests of one application, for two users | violates `OwnRecord` |

Three requests are one for the authorization URL and two callbacks, with one code or two,
or two URLs and a callback, or three first requests. The same properties are proved for any number. `FindNamed` answers 400
when the user named in the state has no row: the row found is then another's, which
is what `Identity_named` is about. A state token's life and the clock matter only
by whether a callback comes in time, hence one tick.

### Recurrence

`Write`, `MadeInOutlook`, `Read` and `Copy` go through `rruleToGraph` and
`graphToRrule` as `createEvent` and `mapEvent` use them: a client writes a series,
reads it and makes it anew from what it has read; others make theirs in Outlook. Rules are parsed records; splitting
and joining the text is left out, and what Graph accepts is external.

| Run | Bounds | Shows |
|---|---|---|
| `Recurrence_roundtrip` | some 39,000 rules over 2 day names and an unknown one, 4 ordinals, 3 days of the month, 2 months, 4 ends; 2 copies; every small Outlook series | `TypeOK`, `WrittenIsShown`, `CopyKeeps` |

Two days are enough to tell first from further; "5" stands for ordinals out of the
map; two copies show that a series changes at its first copy or never.

### Deadlock

The runs switch deadlock checking off: in every instance the finite supply of
events, accounts, edits or requests runs out and the system stops, as the program
idles when there is nothing to do.

## Fairness

Only the `FairSpec`s assume any, and only for what the code itself keeps going:
weak fairness of a pass (pg-boss schedules each queue every minute, and each
await of a pass returns: fetches to endpoints within 10 s, statements and token
requests as long as the peer answers or the connection breaks), of clocks
(`DelayElapses`), of a client's calls in `Sync` (clients that keep polling), and in
`Events` of the steps of a request that is being served (each awaited call returns
or throws). Requests of users, faults, edits and deletions are never assumed to
happen, nor that a server grants a refresh.

## What is proved

For every value of the constants that meets the module's named assumption, hence
for any number of webhooks, events, accounts, keys, watches, requests, faults and
overlapping passes:

| Theorem | Statement | Argument |
|---|---|---|
| `OutboundWebhooksProofs!TypeCorrect` | `Spec => []TypeOK` | inductive as it stands |
| `PostsAreAccounted` | `Spec => []PostsAccounted` | a delivery in a snapshot is still owed a POST by its pass; the strengthening bounds POSTs per pass by what it was entitled to when it selected the row |
| `NoSecondAttempt` | `Spec => []StopsAfterFirst` (no run has it: it is the disagreement that `RetrySchedule` shows, for every behaviour) | pending rows have `attempts = 0`, hence so have snapshots, hence every outcome writes 1 |
| `StatusIsTruthful` | one pass, no failing statements: `Spec => []StatusTellsAnswer` | the await a pass is at tells the last answer; settled rows are out of every snapshot |
| `DeliveredIsTaken` | `Spec => []DeliveredWasTaken` | a pass about to write `delivered` has a delivery its endpoint accepted, and nothing else writes it (`RowEffects`) |
| `FanOutsAreComplete` | `Spec => []FanOutComplete` | what a call selected is stored, still in its loop, or deleted, and neither the first nor the last is undone by anything but `DeleteWebhook` |
| `ContractIsKept` | one pass, no failing statements: `Spec => Contract!Spec` | below |
| `TokenRefreshProofs!TypeCorrect` | `Spec => []TypeOK` | inductive |
| `GivenUpTimely` | one pass: `Spec => []GivenUpInTime` | until a fault, the column is the model's own count wherever no pass is about to write it, and an active row's is below the limit |
| `RefreshFailedEarned` | one pass: `Spec => []RefreshFailedIsEarned` | the count in the batch is the count in the row, and the model's own count is ahead by one in the catch block |
| `RefreshFailedFinal` | one pass: `Spec => RefreshFailedIsFinal` | an account in the hands of the only pass is active |
| `StoredTokensAreGood` | one pass: `Spec => []StoredTokenIsGood` | until a fault, the token on its way to the row is honoured, or else the one in the row |
| `SyncProofs!TypeCorrect` | `Spec => []TypeOK` | inductive |
| `NothingIsMissed` | `TombstonesKept`: `Spec => []NothingMissed` | below |
| `IdempotencyProofs!TypeCorrect` | `Spec => []TypeOK` | inductive |
| `ExecutionsAreAccounted` | `Spec => []ExecutionsAccounted` | the handler is reached only by requests that found no row; of those under way with a key all but one came while another was served, and until a row exists every execution went unrecorded or is about to be recorded |
| `AnswersDoAgree` | `Spec => []AnswersAgree` | an answer on its way or told is the row's, or that of an execution nobody recorded or of an overlap |
| `IdentityProofs!TypeCorrect` | `Spec => []TypeOK` | inductive once a row's fields and a request's step are tied to each other |
| `RowsAreThere` | `Spec => []RowOfApplication` | a request holds only rows that `SelectUser` or `Reselect` returned, and rows of end users are never deleted |
| `OneAccount` | `Spec => []OneAccountPerConsent` | a code is redeemed once, so at most one callback is past the exchange with it; an account names its code |
| `AccountsAreOfNamed` | `Spec => []AccountsOfNamed` | a state that is brought was signed and stays what it is, and the row that `FindNamed` found is of the user it names and is never deleted |
| `OwnersDelete` | `Spec => DeletedByOwner` | a request at the deletion has checked the account's owner, and neither changes afterwards |
| `ProviderWebhooksProofs!WatchTypeCorrect` | `Spec => []WatchTypeOK` | inductive |
| `StoredWatchesStayOpen` | `RenewsInTime`: `Spec => []StoredWatchIsLive` | below |
| `FewOrphans` | `Spec => []OrphansAccounted` | below |
| `NoteTypeCorrect` | `NoteSpec => []NoteTypeOK` | inductive, on the invariants of `Watches` |
| `FewOrphansNotified` | `NoteSpec => []OrphansAccounted` | a step of a notification is none of `Watches`, or a fault (`NoteIsWatch`) |
| `GoogleOnce` | `NoteSpec => []ActedUponOnce` | a Google handler past its insert holds a notification that is in the index and not yet counted; an insert of one in the index fails, so no second handler gets there |
| `SettledWasActedUpon` | `NoteSpec => []SettledIsActedUpon` | below |
| `EventsProofs!CreatesAreAccounted` | `Spec => []CreatesAccounted` | an event that is there or once was is one its create has come to make (`MadeByCreate`), since nobody else puts an event where there is none but in one a client was told of; a create takes another attempt only for a call without an answer |
| `NamedFieldsChange` | `Spec => OnlyNamedFieldsChange` | a create finds nothing in the place of its next event (`MadeByCreate`), and an update lays its fields over what is there |
| `NothingOverwritten` | `Spec => FoundIsWhatIsWritten` | a create finds no object and has no etag, so it never writes over one; whoever has an etag writes only under it |
| `ShownAsTold` | `Spec => []HeldAsTold` | below |
| `TypeCorrect` | `Spec => []TypeOK` | on the invariant of `ShownAsTold`: what an update writes is a whole event only because it has read one, and an answer names an event that is there |
| `RecurrenceProofs!TypeCorrect` | `Spec => []TypeOK` | the series is what Graph makes of the rule last written, and that has the form of a recurrence for every rule |
| `WrittenComesBack` | `Spec => []WrittenIsShown` | below |
| `CopiesKeep` | `Spec => CopyKeeps` | below |

`StoredWatchesStayOpen` says that a Microsoft watch that nobody asked to stop has an
open channel for as long as its row exists, if the look-ahead is at least a day
(`Horizon >= 2`) and a renewal gains at least the look-ahead. Its invariant needs six
parts besides the types: rows, calls and passes deal with channels of their own call
(`Mine`); a pass holds its rows with the channel they have (`Batches`); a row says no
more than the provider grants, and what a call inserts or a pass writes was granted in
this half day (`Granted`, `Extended`); a pass without a fault so far has every row near
its end still before it (`Ahead`); and once such a pass is through, no row is near its
end (`AllRenewed`), which is what `Tick` needs to move on.

`FewOrphans` bounds the channels that are open without a row, of any number of calls, by
the faults. The count needs more than the orphans: a stop that goes unanswered is counted
when it happens, while the row that still names the channel is deleted a step later. So
the invariant counts the channels that are `Loose`, orphans and those whose row is about
to be dropped, and says that they are finitely many. Each step adds at most one, and only
if it counts a fault; what makes that so is that a stop deals with the channel of its row
(`StopsItsRow`) and that a call holds no channel but the one it is about to insert
(`HoldsNone`).

`SettledWasActedUpon` follows a notification from the request that carries it to the
answer: what a request has taken and not acted upon it still carries (`InRequest`), so when
it answers, everything in it that is `Due` was acted upon. The exception is a Google
notification whose key is found: it relies on the handler that stored the key, which has
logged it, is about to, or was cut off (`KeyIsDone`). That takes a key to mean one
notification (`Numbered`) and rows that only go once the call behind them is over
(`StoredSince`), so that what was not due stays so.

`ShownAsTold` is about events whose state the answers determine. Such an event has at most
one update or delete under way; without one it holds what clients were told, and with one
it is `Halfway`: what was read in one request of the operation and found in the next is
still there, unchanged, and the fields that are written are the request's own
(`HeldOrHalfway`). Retries make this necessary: an update without an answer may have been
done, and the calendar then differs from what was told in just the fields it names until
the next attempt. An event that two write at once, that another program touches meanwhile, of which the server refuses a write or whose
operation ends in an error leaves the claim (`unsure`), and the proof has to show that each
such step leaves it there. A create on CalDAV brings an empty place to the claim
(`CreateHolds`).

`WrittenComesBack` and `CopiesKeep` are about two functions, taken apart by the form of the
rule or pattern (`PatternCases`, `StoredParts`). What Graph holds is in a normal form
(`Held`) that it would accept and keep as it is (`HeldIsKept`); the rule shown for a held
pattern is converted to that pattern, or to the narrowed one, and to no other
(`PatternComesBack`); and a series that createEvent made is never narrowed, since it has at
most one day where one is shown (`MadeIsWhole`). For a supported rule the names of days and
ordinals come back because both maps are one to one (`DaysAndNames`,
`IndexesAndOrdinals`). The rules have any number of days and any interval, which is where
the theorem goes beyond the run.

`ContractIsKept` is the refinement without its fairness. A step of the code is looked
at through the delivery it may change: an insert is `Submit`, a retry of a settled row
is `Ask`, an accepted POST is `Accept`, the update after it is `Settle`, deleting a
webhook is `Remove`, and all else leaves the contract's state alone. That needs
`AnswerInv` of `StatusIsTruthful` (the row of a delivery in hand is still pending, or
gone), `TakenInv` of `DeliveredIsTaken`, and `Traced`: a row a pass no longer finds
went with its webhook, an insert finds no row, and a deleted webhook has none.

`NothingIsMissed` assumes what the run assumes, full listings that still show deleted
events (`TombstonesKept`). Its invariant says of a cursor and a copy, from the edit on that
the copy began with, that they are `Sound`: if the cursor has an event's present version,
so has the copy. The pair a client holds is sound, and so is, for each event already
listed, the pair that the call in progress would leave it with (`Knows`). An edit makes a
version nobody knows (`Bounded`), and an event a listing is silent about has not changed
since the cursor it started from (`Standing`): the client's own, none, or the stored one,
with which the copy begins anew (`Start`). So clients that overwrite each other's stored
token do not disturb each other (`OthersStand`).

The assumptions are the modules' `ASSUME`s (bounds are natural numbers, limits are
positive, names of different kinds differ, requests name fields an event has, an end of
a rule is a date or a count), which TLC evaluates for each run, and the hypotheses a
theorem states. `ActedUponOnce` and `StoredWatchIsLive` use nothing about
the number of channels, passes or handlers.

Model-checked only:

* liveness (`OwedIsPosted`, `ExpiringIsResolved`, `ClientCatchesUp`, `RequestsEnd`, the
  contract's fairness), which is out of the prover's reach, as is `ENABLED`;
* the fairness in `ImplementsContract` (its safety part is `ContractIsKept`).

Every invariant and every action property of a run that passes is the subject of a
theorem; what the three refuted runs check does not hold there.

## Where code and documents disagree

Three of these are runs TLC refutes; `PROJECT.json` quotes the lines.

* A failed delivery is never attempted again (`OutboundWebhooks_schedule`).
* Overlapping passes give an account up after fewer than five failures in a row
  (`TokenRefresh_stale`).
* A request is served for the end user that its header names only if that is the first
  of its application (`Identity_named`).

The others were met on the way and have no run of their own:

* Deliveries: `enqueueDelivery` has no caller, so the `account.refresh_failed` webhook of
  `docs/concepts/auth.md:50` is never sent, and neither is any other.
* Sync: a call without a cursor is served from the token stored last, whoever that was
  for, where `docs/concepts/sync.md:5` has the first call list everything. A client whose
  first reply was lost, or that is the second of its calendar, therefore misses what
  changed before that token, for good. Microsoft's listing is of the default calendar,
  whatever calendar is asked for (`microsoft/sync.ts:13,19`), where
  `docs/concepts/sync.md:34` has `/me/calendars/{id}/events/delta`. CalDAV deletions are
  reported under the object's URL where the events they delete have other ids
  (`docs/concepts/sync.md:47`); `caldav/sync.ts:31` records the etag of an object it then
  skips for want of data, so that object is never reported.
* Idempotency: overlapping requests with one key are both executed, and an answer is
  replayed for ever, where `CHANGELOG.md:27` gives a key 24 hours: `expires_at` is written
  and never compared.
* Inbound notifications: `CHANGELOG.md:26` lists deduplication by provider, channel and
  message id. Microsoft's handler goes on after a duplicate (`providerWebhook.ts:88-92`), so
  its redeliveries are acted upon again; with message ids that repeat for each update of one
  event, that is also what keeps the later updates from being dropped.
* Watches: Google's are never renewed, since its client has no `renewWatch`, where
  `docs/providers/google.md:44` says that they are; `watch.expired`
  (`docs/concepts/webhooks.md:54`) is never sent.
* Recurrence: `docs/providers/microsoft.md:35-42` lists what the conversion covers. A
  yearly rule loses the ordinal of its `BYDAY`; several days of a monthly one become day
  1 of the month, one without an ordinal is refused by Graph, and an ordinal with a plus
  sign is read as the first; a weekly rule without `BYDAY` is sent with an empty list of
  days (`rrule.ts:58-60`), which Graph refuses; the time of `UNTIL` becomes midnight. `WrittenIsShown` and
  `CopyKeeps` are about the rules outside these cases, which the module names.
* CalDAV poll: `workers/calDavPoll.ts` parses as JSON the token that `caldav/sync.ts`
  stores in base64url, so every poll of a synchronised calendar throws.

## Assumptions about code outside the models

* Provider clients can be constructed and calls get through. `buildProviderContext`
  decrypts the stored credential and each client decrypts `ctx.accessToken` once more
  (`google/client.ts:7`, `caldav/client.ts:6`, `microsoft/graphFetch.ts:12`); taken
  literally, a call would throw before it leaves.
* A statement that throws has had no effect (the connection does not break
  between commit and acknowledgement).
* The columns no definition mentions (response codes, timestamps kept for
  display, names) influence nothing that is modelled.
* Requests of `Identity` that lack the headers are answered at once and change nothing.
  The hook does not exempt the OAuth callback's path, and the routes are registered
  without the `/v1` that the redirect URI has; the models take a callback that reaches
  its handler, with a key, as given.

## Not modelled

* Rate limiting: the plugin is not registered in `app.ts`; one upsert per request.
* CalDAV poll: as it stands it throws before it does anything (above).
* Event times: the conversion between time zones (CalDAV writes a UTC time's digits under
  a `TZID`), the expansion of occurrences, paging and filters of list and search.
* CalDAV lookups by substring: two UIDs of which one contains the other are taken for
  each other by `url.includes`; the models' ids do not contain each other.
* Recurrence: splitting and joining the rule's text. `updateEvent` never sends a
  recurrence, so only creation is modelled; Graph's acceptance and defaults are external.
* Calendars, free/busy and availability: one provider call each and a mapping of fields,
  without state.
* Cryptography, configuration, logging, start-up.

## What is left

In order of weight:

1. `Sync` where full listings leave deletions out (`TombstonesKept` false), once it is
   known what Google keeps and for how long.
2. `CalDavPoll` over the rows that `Sync` writes, and `RateLimit`, when they are in use.
