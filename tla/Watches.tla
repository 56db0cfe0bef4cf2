------------------------------- MODULE Watches -------------------------------
(***************************************************************************)
(* Push channels of one calendar account: subscribeWatch and               *)
(* unsubscribeWatch (services/watches.ts), the pass of watchRenew.ts, the  *)
(* calls of google/watch.ts and microsoft/subscription.ts under withRetry, *)
(* and the watches rows against the channels the provider has open.        *)
(*                                                                         *)
(* No route calls the two services, so their calls are inputs.  The        *)
(* two selects before a provider call are one step with the start of the   *)
(* call: nothing has been changed yet, and a row missing from either       *)
(* ends the call.  Time passes in half days; Tick says what the schedule   *)
(* of the renewal pass leaves room for in one.                             *)
(***************************************************************************)
EXTENDS Integers, FiniteSets

CONSTANTS
  Calls,        \* calls of subscribeWatch, each the id of the row it may insert
  Workers,      \* renewal passes that may overlap
  Providers,    \* providers the account may be of
  Life,         \* [Providers -> half days a channel lives]
  Horizon,      \* half days ahead that a pass renews (the source: 24 h, 2)
  MaxAttempts,  \* attempts of withRetry (the source: 3)
  MaxTime,      \* bound: half days
  MaxFaults     \* bound: unanswered or busy provider calls, failing statements, crashes

ASSUME WatchConstants ==
  /\ Providers \subseteq {"google", "microsoft", "apple"}
  /\ Life \in [Providers -> Nat \ {0}]
  /\ Horizon \in Nat /\ MaxAttempts \in Nat \ {0}
  /\ MaxTime \in Nat /\ MaxFaults \in Nat

Channels == Calls \X (1 .. MaxAttempts)   \* the channel opened by an attempt of a call
NoChannel == <<>>

VARIABLES
  provider,   \* provider of the account
  account,    \* whether the account's row exists
  now,        \* half days passed
  channel,    \* [Channels -> time the provider closes it; 0: never opened, or stopped]
  rows,       \* [Calls -> row of the watches table, or NoRow]
  sub,        \* [Calls -> progress of subscribeWatch]
  unsub,      \* [Calls -> progress of an unsubscribeWatch of the call's row]
  pass,       \* [Workers -> progress of renewExpiringWatches]
  renewed,    \* whether a pass without a fault has ended in this half day
  stopped,    \* history: calls whose channel an unsubscribeWatch has asked to close
  faults      \* history: faults so far

watchVars == <<provider, account, now, channel, rows, sub, unsub, pass, renewed, stopped, faults>>

-----------------------------------------------------------------------------
Time == 0 .. MaxTime
NoRow == [channel |-> NoChannel, expiresAt |-> 0]
RowOf(ch, at) == [channel |-> ch, expiresAt |-> at]
HasRow(c) == rows[c] # NoRow
Open(ch) == channel[ch] > now

\* A provider call under withRetry: the await it is at and the attempt.
At(step, attempt, ch) == [at |-> step, attempt |-> attempt, channel |-> ch]
Rest == At("rest", 1, NoChannel)
Over == At("over", 1, NoChannel)

\* A pass: the ids still to be visited, the one in hand, and whether all went well.
PassAt(step, batch, c, attempt, clean) ==
  [at |-> step, batch |-> batch, cur |-> c, attempt |-> attempt, clean |-> clean]
NoPass(w) == pass[w].at = "rest"

Fault == faults < MaxFaults /\ faults' = faults + 1

\* withRetry after an error worth another attempt: the next one, or the error is
\* thrown and the call ends in state end.
Again(step, call, end) ==
  IF call.attempt < MaxAttempts THEN At(step, call.attempt + 1, call.channel) ELSE end

Init ==
  /\ provider \in Providers
  /\ account = TRUE
  /\ now = 0
  /\ channel = [ch \in Channels |-> 0]
  /\ rows = [c \in Calls |-> NoRow]
  /\ sub = [c \in Calls |-> Rest]
  /\ unsub = [c \in Calls |-> Rest]
  /\ pass = [w \in Workers |-> PassAt("rest", {}, {}, 1, TRUE)]
  /\ renewed = FALSE
  /\ stopped = {}
  /\ faults = 0

-----------------------------------------------------------------------------
(* subscribeWatch *)

\* The account is selected and its provider looked up; CalDAV has no push (400).
Subscribe(c) ==
  /\ sub[c] = Rest
  /\ sub' = [sub EXCEPT ![c] = IF account /\ provider # "apple" THEN At("create", 1, NoChannel) ELSE Over]
  /\ UNCHANGED <<provider, account, now, channel, rows, unsub, pass, renewed, stopped, faults>>

\* The channel an attempt opens.  Google's id is chosen once, before withRetry;
\* each accepted POST to Microsoft is a subscription of its own.
ChannelOf(c) == IF provider = "google" THEN <<c, 1>> ELSE <<c, sub[c].attempt>>

\* The channel is opened for the provider's life of a channel, and the call
\* answers with its id and that time.
ChannelCreated(c) ==
  LET ch == ChannelOf(c) IN
  /\ sub[c].at = "create" /\ channel[ch] = 0
  /\ channel' = [channel EXCEPT ![ch] = now + Life[provider]]
  /\ sub' = [sub EXCEPT ![c] = At("insert", 1, ch)]
  /\ UNCHANGED <<provider, account, now, rows, unsub, pass, renewed, stopped, faults>>

\* The provider opens the channel but the answer is lost, or answers 429 or 5xx
\* without acting: withRetry tries again.
CreateUnanswered(c) ==
  LET ch == ChannelOf(c) IN
  /\ sub[c].at = "create" /\ Fault
  /\ \/ channel[ch] = 0 /\ channel' = [channel EXCEPT ![ch] = now + Life[provider]]
     \/ UNCHANGED channel
  /\ sub' = [sub EXCEPT ![c] = Again("create", sub[c], Over)]
  /\ UNCHANGED <<provider, account, now, rows, unsub, pass, renewed, stopped>>

\* A later attempt meets the channel an unanswered one has opened under the same
\* id.  Google's errors carry no statusCode, so this one is retried too.
ChannelIdTaken(c) ==
  /\ sub[c].at = "create" /\ channel[ChannelOf(c)] > 0
  /\ sub' = [sub EXCEPT ![c] = Again("create", sub[c], Over)]
  /\ UNCHANGED <<provider, account, now, channel, rows, unsub, pass, renewed, stopped, faults>>

\* INSERT INTO watches; its foreign key fails when the account has been deleted.
InsertRow(c) ==
  LET ch == sub[c].channel IN
  /\ sub[c].at = "insert"
  /\ rows' = IF account THEN [rows EXCEPT ![c] = RowOf(ch, channel[ch])] ELSE rows
  /\ sub' = [sub EXCEPT ![c] = Over]
  /\ UNCHANGED <<provider, account, now, channel, unsub, pass, renewed, stopped, faults>>

InsertFails(c) ==
  /\ sub[c].at = "insert" /\ Fault
  /\ sub' = [sub EXCEPT ![c] = Over]
  /\ UNCHANGED <<provider, account, now, channel, rows, unsub, pass, renewed, stopped>>

-----------------------------------------------------------------------------
(* unsubscribeWatch *)

\* The row and its account are selected; without a row there is nothing to do.
Unsubscribe(c) ==
  /\ unsub[c] = Rest /\ HasRow(c) /\ account
  /\ unsub' = [unsub EXCEPT ![c] = At("stop", 1, rows[c].channel)]
  /\ UNCHANGED <<provider, account, now, channel, rows, sub, pass, renewed, stopped, faults>>

\* Altered form (mutation tests): the row is dropped and the channel left to run out.
ChannelLeftOpen(c) ==
  LET ch == unsub[c].channel IN
  /\ unsub[c].at = "stop"
  /\ stopped' = stopped \cup {c}
  /\ unsub' = [unsub EXCEPT ![c] = At("delete", 1, ch)]
  /\ UNCHANGED <<provider, account, now, channel, rows, sub, pass, renewed, faults>>

\* The provider closes the channel.  Google is asked once, whatever it says; a
\* Microsoft subscription that is gone answers 404, which is thrown at once.
ChannelStopped(c) ==
  LET ch == unsub[c].channel IN
  /\ unsub[c].at = "stop"
  /\ channel' = [channel EXCEPT ![ch] = IF Open(ch) THEN 0 ELSE @]
  /\ stopped' = stopped \cup {c}
  /\ unsub' = [unsub EXCEPT ![c] =
                 IF provider = "google" \/ Open(ch) THEN At("delete", 1, ch) ELSE Rest]
  /\ UNCHANGED <<provider, account, now, rows, sub, pass, renewed, faults>>

\* The answer is lost, or the provider is busy: Google's error is swallowed,
\* Microsoft is asked again.
StopUnanswered(c) ==
  LET ch == unsub[c].channel IN
  /\ unsub[c].at = "stop" /\ Fault
  /\ channel' \in {channel, [channel EXCEPT ![ch] = IF Open(ch) THEN 0 ELSE @]}
  /\ stopped' = stopped \cup {c}
  /\ unsub' = [unsub EXCEPT ![c] =
                 IF provider = "google" THEN At("delete", 1, ch) ELSE Again("stop", unsub[c], Rest)]
  /\ UNCHANGED <<provider, account, now, rows, sub, pass, renewed>>

DeleteRow(c) ==
  /\ unsub[c].at = "delete"
  /\ rows' = [rows EXCEPT ![c] = NoRow]
  /\ unsub' = [unsub EXCEPT ![c] = Rest]
  /\ UNCHANGED <<provider, account, now, channel, sub, pass, renewed, stopped, faults>>

DeleteFails(c) ==
  /\ unsub[c].at = "delete" /\ Fault
  /\ unsub' = [unsub EXCEPT ![c] = Rest]
  /\ UNCHANGED <<provider, account, now, channel, rows, sub, pass, renewed, stopped>>

\* The account goes and takes its rows with it; nothing closes the channels.
DeleteAccount ==
  /\ account
  /\ account' = FALSE
  /\ rows' = [c \in Calls |-> NoRow]
  /\ UNCHANGED <<provider, now, channel, sub, unsub, pass, renewed, stopped, faults>>

-----------------------------------------------------------------------------
(* renewExpiringWatches *)

\* Altered form: rows that have expired are selected, not those about to.
ExpiredRows == {c \in Calls : HasRow(c) /\ rows[c].expiresAt < now}

\* WHERE expires_at < now + 24 h: the past has no lower bound.
Expiring == {c \in Calls : HasRow(c) /\ rows[c].expiresAt < now + Horizon}

\* The select.  Without rows the pass is over.
StartPass(w) ==
  /\ NoPass(w)
  /\ \/ /\ Expiring # {}
        /\ pass' = [pass EXCEPT ![w] =
                      PassAt("next", {<<c, rows[c].channel>> : c \in Expiring}, {}, 1, TRUE)]
        /\ UNCHANGED renewed
     \/ /\ Expiring = {}
        /\ renewed' = TRUE
        /\ UNCHANGED pass
  /\ UNCHANGED <<provider, account, now, channel, rows, sub, unsub, stopped, faults>>

\* The loop ends a watch in hand, whatever became of it.
Onward(p, clean) == PassAt("next", p.batch, {}, 1, p.clean /\ clean)

\* The next watch of the batch, in the order of the result, which is arbitrary.
\* Its account and end user are selected: without them it is skipped, and so is a
\* watch of a provider that has no renewWatch, which Google has not.
NextWatch(w) ==
  /\ pass[w].at = "next"
  /\ \E e \in pass[w].batch :
       LET rest == pass[w].batch \ {e} IN
       pass' = [pass EXCEPT ![w] =
                  IF account /\ provider = "microsoft"
                  THEN PassAt("patch", rest, {e}, 1, @.clean)
                  ELSE PassAt("next", rest, {}, 1, @.clean)]
  /\ UNCHANGED <<provider, account, now, channel, rows, sub, unsub, renewed, stopped, faults>>

\* The row and the channel of the watch in hand, as they were selected.
InHand(w) == CHOOSE e \in pass[w].cur : TRUE

\* PATCH: the subscription lives for three more days from now; one that is gone
\* answers 404, which ends this watch's turn.
Patched(w) ==
  LET ch == InHand(w)[2] IN
  /\ pass[w].at = "patch"
  /\ \/ /\ Open(ch)
        /\ channel' = [channel EXCEPT ![ch] = now + Life[provider]]
        /\ pass' = [pass EXCEPT ![w] = [@ EXCEPT !.at = "update"]]
     \/ /\ ~Open(ch)
        /\ pass' = [pass EXCEPT ![w] = Onward(@, TRUE)]
        /\ UNCHANGED channel
  /\ UNCHANGED <<provider, account, now, rows, sub, unsub, renewed, stopped, faults>>

PatchUnanswered(w) ==
  LET ch == InHand(w)[2] IN
  /\ pass[w].at = "patch" /\ Fault
  /\ channel' \in {channel, [channel EXCEPT ![ch] = IF Open(ch) THEN now + Life[provider] ELSE @]}
  /\ pass' = [pass EXCEPT ![w] =
                IF @.attempt < MaxAttempts
                THEN PassAt("patch", @.batch, @.cur, @.attempt + 1, @.clean)
                ELSE Onward(@, FALSE)]
  /\ UNCHANGED <<provider, account, now, rows, sub, unsub, renewed, stopped>>

\* UPDATE by id: nothing happens when the row is gone.
UpdateRow(w) ==
  LET c == InHand(w)[1] IN
  /\ pass[w].at = "update"
  /\ rows' = IF HasRow(c) THEN [rows EXCEPT ![c] = RowOf(InHand(w)[2], now + Life[provider])] ELSE rows
  /\ pass' = [pass EXCEPT ![w] = Onward(@, TRUE)]
  /\ UNCHANGED <<provider, account, now, channel, sub, unsub, renewed, stopped, faults>>

UpdateFails(w) ==
  /\ pass[w].at = "update" /\ Fault
  /\ pass' = [pass EXCEPT ![w] = Onward(@, FALSE)]
  /\ UNCHANGED <<provider, account, now, channel, rows, sub, unsub, renewed, stopped>>

EndPass(w) ==
  /\ pass[w].at = "next" /\ pass[w].batch = {}
  /\ pass' = [pass EXCEPT ![w] = PassAt("rest", {}, {}, 1, TRUE)]
  /\ renewed' = (renewed \/ pass[w].clean)
  /\ UNCHANGED <<provider, account, now, channel, rows, sub, unsub, stopped, faults>>

-----------------------------------------------------------------------------
\* The API process dies, or just this call in it: it ends where it is.
CrashCall(c) ==
  /\ Fault
  /\ \/ sub[c] \notin {Rest, Over} /\ sub' = [sub EXCEPT ![c] = Over] /\ UNCHANGED unsub
     \/ unsub[c] # Rest /\ unsub' = [unsub EXCEPT ![c] = Rest] /\ UNCHANGED sub
  /\ UNCHANGED <<provider, account, now, channel, rows, pass, renewed, stopped>>

CrashWorker(w) ==
  /\ ~NoPass(w) /\ Fault
  /\ pass' = [pass EXCEPT ![w] = PassAt("rest", {}, {}, 1, TRUE)]
  /\ UNCHANGED <<provider, account, now, channel, rows, sub, unsub, renewed, stopped>>

\* No call and no pass lasts half a day, and of the 144 passes scheduled in one,
\* at least one meets no fault.
Tick ==
  /\ now < MaxTime /\ renewed
  /\ \A c \in Calls : sub[c] \in {Rest, Over} /\ unsub[c] = Rest
  /\ \A w \in Workers : NoPass(w)
  /\ now' = now + 1
  /\ renewed' = FALSE
  /\ UNCHANGED <<provider, account, channel, rows, sub, unsub, pass, stopped, faults>>

PassStep(w) ==
  \/ StartPass(w) \/ NextWatch(w) \/ Patched(w) \/ UpdateRow(w) \/ EndPass(w)
  \/ PatchUnanswered(w) \/ UpdateFails(w) \/ CrashWorker(w)

CallStep(c) ==
  \/ Subscribe(c) \/ ChannelCreated(c) \/ CreateUnanswered(c) \/ ChannelIdTaken(c)
  \/ InsertRow(c) \/ InsertFails(c)
  \/ Unsubscribe(c) \/ ChannelStopped(c) \/ StopUnanswered(c) \/ DeleteRow(c) \/ DeleteFails(c)
  \/ CrashCall(c)

Next ==
  \/ \E c \in Calls : CallStep(c)
  \/ \E w \in Workers : PassStep(w)
  \/ DeleteAccount \/ Tick

Spec == Init /\ [][Next]_watchVars

-----------------------------------------------------------------------------
(* Properties *)

Calling == [at : {"rest", "create", "insert", "stop", "delete", "over"},
            attempt : 1 .. MaxAttempts, channel : Channels \cup {NoChannel}]

\* Every variable has its type, channels and attempts within their bounds.
WatchTypeOK ==
  /\ provider \in Providers /\ account \in BOOLEAN
  /\ now \in Time
  /\ channel \in [Channels -> Nat]
  /\ rows \in [Calls -> [channel : Channels \cup {NoChannel}, expiresAt : Nat]]
  /\ sub \in [Calls -> Calling] /\ unsub \in [Calls -> Calling]
  /\ pass \in [Workers -> [at : {"rest", "next", "patch", "update"},
                           batch : SUBSET (Calls \X Channels), cur : SUBSET (Calls \X Channels),
                           attempt : 1 .. MaxAttempts, clean : BOOLEAN]]
  /\ renewed \in BOOLEAN /\ stopped \subseteq Calls
  /\ faults \in 0 .. MaxFaults

\* As long as the account exists, every channel open at the provider has a row,
\* or a call that is about to store it or has just dropped it, except one for each
\* fault: what a crash, a failing insert or a lost answer leaves behind is never
\* more than it must be, and no retry of a renewal or of a stop adds to it.
Orphans ==
  {ch \in Channels :
     /\ Open(ch)
     /\ \A c \in Calls : rows[c].channel # ch /\ sub[c].channel # ch}
OrphansAccounted == account => Cardinality(Orphans) <= faults

\* A Microsoft watch that is stored and was not asked to stop is open at the
\* provider, however the passes overlap with each other and with new calls: the
\* renewal comes before the expiry (docs/providers/microsoft.md:46).
StoredWatchIsLive ==
  provider = "microsoft" =>
    \A c \in Calls : HasRow(c) /\ c \notin stopped => Open(rows[c].channel)
=============================================================================
