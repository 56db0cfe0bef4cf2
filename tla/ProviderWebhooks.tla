--------------------------- MODULE ProviderWebhooks ---------------------------
(***************************************************************************)
(* Notifications of the provider (routes/providerWebhook.ts) on the        *)
(* channels of Watches: sending and redelivery by the provider, the two    *)
(* handlers, and the provider_webhook_events rows that tell a redelivery.  *)
(*                                                                         *)
(* A handler looks the channel up in the watches rows, which the services  *)
(* of Watches insert after the channel is open and delete after it is      *)
(* closed.  What the code does with a notification it accepts is to log    *)
(* "sync enqueued"; that is the effect counted here.  Genuine notifications *)
(* carry the channel's secret, so a mismatch (403, continue) is not met.   *)
(***************************************************************************)
EXTENDS Watches

CONSTANTS
  Handlers,   \* requests to the two routes, served concurrently
  Changes,    \* what a Microsoft message id tells apart: change type and resource
  MaxNotes,   \* bound: notifications sent
  NoteTimes   \* bound: half days in which notifications are sent

ASSUME NoteConstants == MaxNotes \in Nat /\ NoteTimes \subseteq Nat

VARIABLES
  sent,        \* notifications the provider has sent
  settled,     \* notifications it will not deliver again: answered below 500
  events,      \* keys of provider_webhook_events
  hand,        \* [Handlers -> progress of a request]
  enqueued,    \* [Notes -> times it was logged as enqueued]
  \* history
  early,       \* notifications sent before the row of their channel was stored
  cutOff       \* Google notifications whose handler failed or crashed past its insert

noteVars == <<sent, settled, events, hand, enqueued, early, cutOff>>
vars == <<watchVars, noteVars>>

-----------------------------------------------------------------------------
\* A notification: its channel, message number, and what changed.  "sync" is the
\* message with which Google opens a channel.
Notes == [channel : Channels, number : 1 .. MaxNotes, change : Changes \cup {"sync"}]

\* A request: the await it is at, the notifications not yet visited, the one in
\* hand, and all it carries.
Serving(step, todo, n, batch) == [at |-> step, todo |-> todo, cur |-> n, batch |-> batch]
Idle == Serving("idle", {}, {}, {})
Note(h) == CHOOSE n \in hand[h].cur : TRUE

\* Altered form (mutation tests): the channel is no part of the key.
EventKeyShort(n) ==
  IF provider = "google" THEN <<{n.number}, {}>> ELSE <<{}, {n.change}>>

\* The unique index: provider, channel and message id, which is Google's message
\* number and, for Microsoft, what changed.
EventKey(n) ==
  IF provider = "google" THEN <<n.channel, {n.number}, {}>> ELSE <<n.channel, {}, {n.change}>>

WatchOf(n) == {c \in Calls : HasRow(c) /\ rows[c].channel = n.channel}

NoteInit ==
  /\ Init
  /\ sent = {} /\ settled = {} /\ events = {}
  /\ hand = [h \in Handlers |-> Idle]
  /\ enqueued = [n \in Notes |-> 0]
  /\ early = {} /\ cutOff = {}

-----------------------------------------------------------------------------
(* The provider *)

\* The next notification of an open channel.  Google's first is "sync".
Notify(ch, change) ==
  LET number == Cardinality({n \in sent : n.channel = ch}) + 1
      note == [channel |-> ch, number |-> number, change |-> change]
  IN  /\ Open(ch) /\ Cardinality(sent) < MaxNotes /\ now \in NoteTimes
      /\ (change = "sync") = (provider = "google" /\ number = 1)
      /\ sent' = sent \cup {note}
      /\ early' = IF WatchOf(note) = {} THEN early \cup {note} ELSE early
      /\ UNCHANGED <<watchVars, settled, events, hand, enqueued, cutOff>>

\* A delivery, first or repeated: one notification of Google, some of Microsoft.
\* A "sync" is acknowledged without more.
Deliver(h, batch) ==
  /\ hand[h] = Idle
  /\ batch # {} /\ batch \subseteq sent \ settled
  /\ provider = "google" => Cardinality(batch) = 1
  /\ hand' = [hand EXCEPT ![h] =
                Serving("next", {n \in batch : n.change # "sync"}, {}, batch)]
  /\ UNCHANGED <<watchVars, sent, settled, events, enqueued, early, cutOff>>

-----------------------------------------------------------------------------
(* The handlers *)

\* The next notification of the request.
Goto(h, step) == hand' = [hand EXCEPT ![h] = [@ EXCEPT !.at = step]]
Take(h) ==
  /\ hand[h].at = "next"
  /\ \E n \in hand[h].todo :
       hand' = [hand EXCEPT ![h] = Serving("find", @.todo \ {n}, {n}, @.batch)]
  /\ UNCHANGED <<watchVars, sent, settled, events, enqueued, early, cutOff>>

\* The select on the channel id.  Without a watch Google is answered 404 and the
\* loop over Microsoft's goes on.
FindWatch(h) ==
  /\ hand[h].at = "find"
  /\ Goto(h, IF WatchOf(Note(h)) = {} THEN "next" ELSE "insert")
  /\ UNCHANGED <<watchVars, sent, settled, events, enqueued, early, cutOff>>

\* Altered form: a key already there is no reason to stop.
InsertAgain(h) ==
  /\ hand[h].at = "insert"
  /\ events' = events \cup {EventKey(Note(h))}
  /\ Goto(h, "log")
  /\ UNCHANGED <<watchVars, sent, settled, enqueued, early, cutOff>>

\* Altered form: Microsoft's handler stops at a known key too.
InsertOrStop(h) ==
  LET key == EventKey(Note(h)) IN
  /\ hand[h].at = "insert"
  /\ events' = events \cup {key}
  /\ Goto(h, IF key \in events THEN "next" ELSE "log")
  /\ UNCHANGED <<watchVars, sent, settled, enqueued, early, cutOff>>

\* The insert.  A key that is there makes Google's handler answer 200 at once;
\* Microsoft's goes on all the same.
InsertEvent(h) ==
  LET key == EventKey(Note(h)) IN
  /\ hand[h].at = "insert"
  /\ events' = events \cup {key}
  /\ Goto(h, IF key \in events /\ provider = "google" THEN "next" ELSE "log")
  /\ UNCHANGED <<watchVars, sent, settled, enqueued, early, cutOff>>

\* Any other error of the insert is taken for a key that is there.
InsertEventFails(h) ==
  /\ hand[h].at = "insert" /\ Fault
  /\ cutOff' = IF provider = "google" THEN cutOff \cup {Note(h)} ELSE cutOff
  /\ Goto(h, IF provider = "google" THEN "next" ELSE "log")
  /\ UNCHANGED <<provider, account, now, channel, rows, sub, unsub, pass, renewed, stopped,
                 sent, settled, events, enqueued, early>>

\* "webhook received, sync enqueued"
LogEnqueued(h) ==
  /\ hand[h].at = "log"
  /\ enqueued' = [enqueued EXCEPT ![Note(h)] = @ + 1]
  /\ Goto(h, "next")
  /\ UNCHANGED <<watchVars, sent, settled, events, early, cutOff>>

\* 200, 404 or 202: none of them is delivered again.
Answer(h) ==
  /\ hand[h].at = "next" /\ hand[h].todo = {}
  /\ settled' = settled \cup hand[h].batch
  /\ hand' = [hand EXCEPT ![h] = Idle]
  /\ UNCHANGED <<watchVars, sent, events, enqueued, early, cutOff>>

\* A crash, a select that throws (500) or an answer that is lost: the provider
\* delivers the request again.
Interrupted(h) ==
  /\ hand[h] # Idle /\ Fault
  /\ cutOff' = IF provider = "google" /\ hand[h].at = "log" THEN cutOff \cup hand[h].cur ELSE cutOff
  /\ hand' = [hand EXCEPT ![h] = Idle]
  /\ UNCHANGED <<provider, account, now, channel, rows, sub, unsub, pass, renewed, stopped,
                 sent, settled, events, enqueued, early>>

\* Deliveries and redeliveries are over within half a day.
TimePasses ==
  /\ Tick /\ sent = settled /\ \A h \in Handlers : hand[h] = Idle
  /\ UNCHANGED noteVars

WatchStep ==
  /\ DeleteAccount \/ (\E c \in Calls : CallStep(c)) \/ (\E w \in Workers : PassStep(w))
  /\ UNCHANGED noteVars

NoteStep(h) ==
  \/ \E batch \in SUBSET sent : Deliver(h, batch)
  \/ Take(h) \/ FindWatch(h) \/ InsertEvent(h) \/ InsertEventFails(h)
  \/ LogEnqueued(h) \/ Answer(h) \/ Interrupted(h)

NoteNext ==
  \/ WatchStep \/ TimePasses
  \/ \E ch \in Channels, change \in Changes \cup {"sync"} : Notify(ch, change)
  \/ \E h \in Handlers : NoteStep(h)

NoteSpec == NoteInit /\ [][NoteNext]_vars

-----------------------------------------------------------------------------
(* Properties *)

\* Every variable has its type, those of Watches included; a key names its channel.
NoteTypeOK ==
  /\ WatchTypeOK
  /\ sent \subseteq Notes /\ settled \subseteq Notes
  /\ events \subseteq Channels \X (SUBSET (1 .. MaxNotes)) \X (SUBSET (Changes \cup {"sync"}))
  /\ hand \in [Handlers -> [at : {"idle", "next", "find", "insert", "log"},
                            todo : SUBSET Notes, cur : SUBSET Notes, batch : SUBSET Notes]]
  /\ enqueued \in [Notes -> Nat]
  /\ early \subseteq Notes /\ cutOff \subseteq Notes

\* However often Google delivers a notification, and to however many handlers at
\* once, it is acted upon once.
ActedUponOnce == provider = "google" => \A n \in Notes : enqueued[n] <= 1

\* A notification the provider has been told not to repeat was acted upon, or is
\* about to be, if its watch was stored before it was sent and still is.  Google's
\* are lost when the handler is cut off between the insert and what follows: the
\* redelivery finds the key.  Microsoft's never are.
SettledIsActedUpon ==
  \A n \in settled \ (early \cup cutOff) :
    (n.change # "sync" /\ WatchOf(n) # {}) =>
      enqueued[n] > 0 \/ \E h \in Handlers : hand[h].at = "log" /\ n \in hand[h].cur
=============================================================================
