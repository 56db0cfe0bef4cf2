------------------------ MODULE ProviderWebhooksProofs ------------------------
(***************************************************************************)
(* Theorems about Watches and about ProviderWebhooks on top of it, for any *)
(* number of calls, passes, channels, handlers, deliveries and faults and  *)
(* any stretch of time.                                                    *)
(*                                                                         *)
(* Watches: its types, that a stored Microsoft watch which nobody asked to *)
(* stop is open at the provider, and that the channels nobody will close   *)
(* are no more than the faults.  ProviderWebhooks: the same beneath the    *)
(* notifications, its types, that a notification of Google is acted upon   *)
(* once, and that one the provider will not repeat was acted upon, unless  *)
(* it came before its row or its batch was cut off.                        *)
(***************************************************************************)
EXTENDS ProviderWebhooks, FiniteSetTheorems, TLAPS

-----------------------------------------------------------------------------
(* Type correctness of Watches *)

Entries  == Calls \X Channels
Passing  == [at : {"rest", "next", "patch", "update"}, batch : SUBSET Entries,
             cur : SUBSET Entries, attempt : 1 .. MaxAttempts, clean : BOOLEAN]
Anywhere == Channels \cup {NoChannel}
Rows     == [channel : Anywhere, expiresAt : Nat]

\* What WatchTypeOK leaves open and the steps rely on: a stored row has a channel, and
\* so has a call about to insert one or to stop, and a pass holds one watch at a time.
RowHasChannel == \A c \in Calls : HasRow(c) => rows[c].channel \in Channels
CallHasChannel ==
  \A c \in Calls : /\ sub[c].at = "insert" => sub[c].channel \in Channels
                   /\ unsub[c].at \in {"stop", "delete"} => unsub[c].channel \in Channels
                   /\ sub[c].at \in {"rest", "create", "insert", "over"}
                   /\ unsub[c].at \in {"rest", "stop", "delete"}
PassHasOne ==
  \A w \in Workers : pass[w].at \in {"patch", "update"} =>
    \E c \in Calls, ch \in Channels : pass[w].cur = {<<c, ch>>}

LEMMA AtField ==
  \A step, n, ch : At(step, n, ch).at = step /\ At(step, n, ch).attempt = n /\ At(step, n, ch).channel = ch
  BY DEF At

LEMMA AtType ==
  \A step \in {"rest", "create", "insert", "stop", "delete", "over"}, n \in 1 .. MaxAttempts, ch \in Anywhere :
    At(step, n, ch) \in Calling
  BY DEF At, Calling, Anywhere

LEMMA RestType == Rest \in Calling /\ Over \in Calling /\ Rest.at = "rest" /\ Over.at = "over"
  BY AtType, AtField, WatchConstants DEF Rest, Over, Anywhere

LEMMA RowType ==
  ASSUME NEW ch \in Channels, NEW t \in Nat
  PROVE  RowOf(ch, t) \in Rows /\ RowOf(ch, t).channel = ch /\ RowOf(ch, t).expiresAt = t
  BY DEF RowOf, Rows, Anywhere

LEMMA NoRowType == NoRow \in Rows
  BY DEF NoRow, Rows, Anywhere

LEMMA PassField ==
  \A step, b, cu, n, cl :
    /\ PassAt(step, b, cu, n, cl).at = step /\ PassAt(step, b, cu, n, cl).batch = b
    /\ PassAt(step, b, cu, n, cl).cur = cu /\ PassAt(step, b, cu, n, cl).attempt = n
    /\ PassAt(step, b, cu, n, cl).clean = cl
  BY DEF PassAt

LEMMA PassType ==
  ASSUME NEW step \in {"rest", "next", "patch", "update"}, NEW b \in SUBSET Entries,
         NEW cu \in SUBSET Entries, NEW n \in 1 .. MaxAttempts, NEW cl \in BOOLEAN
  PROVE  PassAt(step, b, cu, n, cl) \in Passing
  BY DEF PassAt, Passing

\* The same as WatchTypeOK, in the names above.
Typed ==
  /\ provider \in Providers /\ account \in BOOLEAN /\ now \in Time
  /\ channel \in [Channels -> Nat] /\ rows \in [Calls -> Rows]
  /\ sub \in [Calls -> Calling] /\ unsub \in [Calls -> Calling]
  /\ pass \in [Workers -> Passing]
  /\ renewed \in BOOLEAN /\ stopped \subseteq Calls /\ faults \in 0 .. MaxFaults

LEMMA InHandIs ==
  ASSUME PassHasOne, NEW w \in Workers, pass[w].at \in {"patch", "update"}
  PROVE  /\ InHand(w) \in Entries
         /\ pass[w].cur = {InHand(w)}
<1>1. PICK c \in Calls, ch \in Channels : pass[w].cur = {<<c, ch>>}
  BY DEF PassHasOne
<1>2. InHand(w) = <<c, ch>>
  BY <1>1 DEF InHand
<1> QED BY <1>1, <1>2 DEF Entries

LEMMA TypedIsType == Typed <=> WatchTypeOK
  BY DEF Typed, WatchTypeOK, Passing, Entries, Rows, Anywhere

LEMMA TypedInit == Init => Typed /\ RowHasChannel /\ CallHasChannel /\ PassHasOne
<1> SUFFICES ASSUME Init PROVE Typed /\ RowHasChannel /\ CallHasChannel /\ PassHasOne
  OBVIOUS
<1>1. Typed
  <2>1. PassAt("rest", {}, {}, 1, TRUE) \in Passing
    BY WatchConstants DEF PassAt, Passing
  <2>2. 0 \in Time /\ 0 \in 0 .. MaxFaults
    BY WatchConstants DEF Time
  <2> QED BY <2>1, <2>2, RestType, NoRowType DEF Init, Typed
<1>2. RowHasChannel /\ CallHasChannel
  BY RestType DEF Init, RowHasChannel, HasRow, CallHasChannel
<1>3. PassHasOne
  <2>1. \A w \in Workers : pass[w].at = "rest"
    BY DEF Init, PassAt
  <2> QED BY <2>1 DEF PassHasOne
<1> QED BY <1>1, <1>2, <1>3

TInv == Typed /\ RowHasChannel /\ CallHasChannel /\ PassHasOne

LEMMA TypedNext == TInv /\ [Next]_watchVars => Typed'
<1> SUFFICES ASSUME TInv, [Next]_watchVars PROVE Typed'
  OBVIOUS
<1>a. \A c \in Calls : /\ sub[c] \in Calling /\ sub[c].attempt \in 1 .. MaxAttempts /\ sub[c].channel \in Anywhere
                       /\ unsub[c] \in Calling /\ unsub[c].attempt \in 1 .. MaxAttempts /\ unsub[c].channel \in Anywhere
  BY DEF TInv, Typed, Calling, Anywhere
<1>b. \A c \in Calls : /\ Again("create", sub[c], Over) \in Calling
                       /\ Again("stop", unsub[c], Rest) \in Calling
  BY <1>a, AtType, RestType, WatchConstants DEF Again
<1>c. \A w \in Workers : /\ pass[w].batch \in SUBSET Entries /\ pass[w].cur \in SUBSET Entries
                         /\ pass[w].attempt \in 1 .. MaxAttempts /\ pass[w].clean \in BOOLEAN
  BY DEF TInv, Typed, Passing
<1>d. now \in Nat /\ Life[provider] \in Nat /\ now + Life[provider] \in Nat
  BY WatchConstants DEF TInv, Typed, Time
<1>e. NoChannel \in Anywhere /\ {} \in SUBSET Entries /\ 1 \in 1 .. MaxAttempts /\ \A c \in Calls : ChannelOf(c) \in Channels
  BY <1>a, WatchConstants DEF Anywhere, ChannelOf, Channels
<1>f. Channels \subseteq Anywhere
  BY DEF Anywhere
<1>g. ASSUME NEW w \in Workers, pass[w].at \in {"patch", "update"} PROVE InHand(w) \in Entries
  BY <1>g, InHandIs DEF TInv
<1>h. \A w \in Workers : Onward(pass[w], TRUE) \in Passing /\ Onward(pass[w], FALSE) \in Passing
  BY <1>c, <1>e DEF Onward, PassAt, Passing
<1>i. Fault => faults' \in 0 .. MaxFaults
  BY WatchConstants DEF TInv, Typed, Fault
<1>1. ASSUME NEW c \in Calls, Subscribe(c) PROVE Typed'
  BY <1>1, <1>e, AtType, RestType DEF Subscribe, TInv, Typed
<1>2. ASSUME NEW c \in Calls, ChannelCreated(c) PROVE Typed'
  BY <1>2, <1>d, <1>e, <1>f, AtType DEF ChannelCreated, TInv, Typed
<1>3. ASSUME NEW c \in Calls, CreateUnanswered(c) PROVE Typed'
  <2>1. channel' \in [Channels -> Nat]
    BY <1>3, <1>d, <1>e DEF CreateUnanswered, TInv, Typed
  <2>2. sub' \in [Calls -> Calling]
    BY <1>3, <1>b DEF CreateUnanswered, TInv, Typed
  <2> QED BY <1>3, <2>1, <2>2, <1>i DEF CreateUnanswered, TInv, Typed
<1>4. ASSUME NEW c \in Calls, ChannelIdTaken(c) PROVE Typed'
  BY <1>4, <1>b DEF ChannelIdTaken, TInv, Typed
<1>5. ASSUME NEW c \in Calls, InsertRow(c) PROVE Typed'
  BY <1>5, RestType, RowType DEF InsertRow, CallHasChannel, TInv, Typed
<1>6. ASSUME NEW c \in Calls, InsertFails(c) PROVE Typed'
  BY <1>6, <1>i, RestType DEF InsertFails, TInv, Typed
<1>7. ASSUME NEW c \in Calls, Unsubscribe(c) PROVE Typed'
  BY <1>7, <1>e, <1>f, AtType DEF Unsubscribe, RowHasChannel, TInv, Typed
<1>8. ASSUME NEW c \in Calls, ChannelStopped(c) PROVE Typed'
  BY <1>8, <1>e, <1>f, AtType, RestType DEF ChannelStopped, CallHasChannel, TInv, Typed
<1>9. ASSUME NEW c \in Calls, StopUnanswered(c) PROVE Typed'
  <2>0. unsub[c].channel \in Channels
    BY <1>9 DEF StopUnanswered, TInv, CallHasChannel
  <2>1. channel' \in [Channels -> Nat]
    BY <1>9, <2>0, <1>d DEF StopUnanswered, TInv, Typed
  <2>2. At("delete", 1, unsub[c].channel) \in Calling
    BY <2>0, <1>e, <1>f, AtType
  <2>3. unsub' \in [Calls -> Calling]
    BY <1>9, <2>2, <1>b DEF StopUnanswered, TInv, Typed
  <2> QED BY <1>9, <2>1, <2>3, <1>i DEF StopUnanswered, TInv, Typed
<1>10. ASSUME NEW c \in Calls, DeleteRow(c) PROVE Typed'
  BY <1>10, NoRowType, RestType DEF DeleteRow, TInv, Typed
<1>11. ASSUME NEW c \in Calls, DeleteFails(c) PROVE Typed'
  BY <1>11, <1>i, RestType DEF DeleteFails, TInv, Typed
<1>12. ASSUME NEW c \in Calls, CrashCall(c) PROVE Typed'
  <2>1. sub' \in [Calls -> Calling] /\ unsub' \in [Calls -> Calling]
    BY <1>12, RestType DEF CrashCall, TInv, Typed
  <2> QED BY <1>12, <2>1, <1>i DEF CrashCall, TInv, Typed
<1>13. ASSUME NEW w \in Workers, StartPass(w) PROVE Typed'
  <2>1. {<<d, rows[d].channel>> : d \in Expiring} \in SUBSET Entries
    BY DEF TInv, RowHasChannel, Expiring, Entries
  <2>2. PassAt("next", {<<d, rows[d].channel>> : d \in Expiring}, {}, 1, TRUE) \in Passing
    BY <2>1, <1>e, PassType
  <2> QED BY <1>13, <2>2 DEF StartPass, TInv, Typed
<1>14. ASSUME NEW w \in Workers, NextWatch(w) PROVE Typed'
  <2>1. PICK e \in pass[w].batch :
          pass' = [pass EXCEPT ![w] = IF account /\ provider = "microsoft"
                                      THEN PassAt("patch", pass[w].batch \ {e}, {e}, 1, @.clean)
                                      ELSE PassAt("next", pass[w].batch \ {e}, {}, 1, @.clean)]
    BY <1>14 DEF NextWatch
  <2>2. /\ PassAt("patch", pass[w].batch \ {e}, {e}, 1, pass[w].clean) \in Passing
        /\ PassAt("next", pass[w].batch \ {e}, {}, 1, pass[w].clean) \in Passing
    BY <1>c, <1>e, PassType
  <2> QED BY <1>14, <2>1, <2>2 DEF NextWatch, TInv, Typed
<1>15. ASSUME NEW w \in Workers, Patched(w) PROVE Typed'
  <2>1. [pass[w] EXCEPT !.at = "update"] \in Passing
    BY DEF TInv, Typed, Passing
  <2>2. InHand(w)[2] \in Channels
    BY <1>15, <1>g DEF Patched, Entries
  <2> QED BY <1>15, <2>1, <2>2, <1>d, <1>h DEF Patched, TInv, Typed
<1>16. ASSUME NEW w \in Workers, PatchUnanswered(w) PROVE Typed'
  <2>1. pass[w].attempt < MaxAttempts =>
          PassAt("patch", pass[w].batch, pass[w].cur, pass[w].attempt + 1, pass[w].clean) \in Passing
    BY <1>c, PassType, WatchConstants
  <2>2. InHand(w)[2] \in Channels
    BY <1>16, <1>g DEF PatchUnanswered, Entries
  <2> QED BY <1>16, <2>1, <2>2, <1>d, <1>h, <1>i DEF PatchUnanswered, TInv, Typed
<1>17. ASSUME NEW w \in Workers, UpdateRow(w) PROVE Typed'
  <2>1. RowOf(InHand(w)[2], now + Life[provider]) \in Rows
    BY <1>17, <1>d, <1>g, RowType DEF UpdateRow, Entries
  <2> QED BY <1>17, <2>1, <1>h DEF UpdateRow, TInv, Typed
<1>18. ASSUME NEW w \in Workers, UpdateFails(w) PROVE Typed'
  <2>1. pass' \in [Workers -> Passing]
    BY <1>18, <1>h DEF UpdateFails, TInv, Typed
  <2> QED BY <1>18, <2>1, <1>i DEF UpdateFails, TInv, Typed
<1>19. ASSUME NEW w \in Workers, EndPass(w) PROVE Typed'
  BY <1>19, <1>e, PassType DEF EndPass, TInv, Typed
<1>20. ASSUME NEW w \in Workers, CrashWorker(w) PROVE Typed'
  BY <1>20, <1>e, <1>i, PassType DEF CrashWorker, TInv, Typed
<1>21. CASE DeleteAccount
  BY <1>21, NoRowType DEF DeleteAccount, TInv, Typed
<1>22. CASE Tick
  <2>1. now' \in Time
    BY <1>22, WatchConstants DEF Tick, TInv, Typed, Time
  <2> QED BY <1>22, <2>1 DEF Tick, TInv, Typed
<1>23. CASE UNCHANGED watchVars
  BY <1>23 DEF watchVars, TInv, Typed
<1> QED
  BY <1>1, <1>2, <1>3, <1>4, <1>5, <1>6, <1>7, <1>8, <1>9, <1>10, <1>11, <1>12, <1>13, <1>14,
     <1>15, <1>16, <1>17, <1>18, <1>19, <1>20, <1>21, <1>22, <1>23
    DEF Next, CallStep, PassStep

LEMMA RowsNext == TInv /\ [Next]_watchVars => RowHasChannel'
<1> SUFFICES ASSUME TInv, [Next]_watchVars PROVE RowHasChannel'
  OBVIOUS
<1>1. ASSUME NEW c \in Calls, Subscribe(c) PROVE RowHasChannel'
  BY <1>1 DEF Subscribe, RowHasChannel, HasRow, TInv, Typed
<1>2. ASSUME NEW c \in Calls, ChannelCreated(c) PROVE RowHasChannel'
  BY <1>2 DEF ChannelCreated, RowHasChannel, HasRow, TInv, Typed
<1>3. ASSUME NEW c \in Calls, CreateUnanswered(c) PROVE RowHasChannel'
  BY <1>3 DEF CreateUnanswered, RowHasChannel, HasRow, TInv, Typed
<1>4. ASSUME NEW c \in Calls, ChannelIdTaken(c) PROVE RowHasChannel'
  BY <1>4 DEF ChannelIdTaken, RowHasChannel, HasRow, TInv, Typed
<1>5. ASSUME NEW c \in Calls, InsertRow(c) PROVE RowHasChannel'
  <2>1. sub[c].channel \in Channels
    BY <1>5 DEF InsertRow, TInv, CallHasChannel
  <2>2. RowOf(sub[c].channel, channel[sub[c].channel]).channel = sub[c].channel
    BY DEF RowOf
  <2> QED BY <1>5, <2>1, <2>2 DEF InsertRow, RowHasChannel, HasRow, TInv, Typed
<1>6. ASSUME NEW c \in Calls, InsertFails(c) PROVE RowHasChannel'
  BY <1>6 DEF InsertFails, RowHasChannel, HasRow, TInv, Typed
<1>7. ASSUME NEW c \in Calls, Unsubscribe(c) PROVE RowHasChannel'
  BY <1>7 DEF Unsubscribe, RowHasChannel, HasRow, TInv, Typed
<1>8. ASSUME NEW c \in Calls, ChannelStopped(c) PROVE RowHasChannel'
  BY <1>8 DEF ChannelStopped, RowHasChannel, HasRow, TInv, Typed
<1>9. ASSUME NEW c \in Calls, StopUnanswered(c) PROVE RowHasChannel'
  BY <1>9 DEF StopUnanswered, RowHasChannel, HasRow, TInv, Typed
<1>10. ASSUME NEW c \in Calls, DeleteRow(c) PROVE RowHasChannel'
  BY <1>10 DEF DeleteRow, RowHasChannel, HasRow, TInv, Typed
<1>11. ASSUME NEW c \in Calls, DeleteFails(c) PROVE RowHasChannel'
  BY <1>11 DEF DeleteFails, RowHasChannel, HasRow, TInv, Typed
<1>12. ASSUME NEW c \in Calls, CrashCall(c) PROVE RowHasChannel'
  BY <1>12 DEF CrashCall, RowHasChannel, HasRow, TInv, Typed
<1>13. ASSUME NEW w \in Workers, StartPass(w) PROVE RowHasChannel'
  BY <1>13 DEF StartPass, RowHasChannel, HasRow, TInv, Typed
<1>14. ASSUME NEW w \in Workers, NextWatch(w) PROVE RowHasChannel'
  BY <1>14 DEF NextWatch, RowHasChannel, HasRow, TInv, Typed
<1>15. ASSUME NEW w \in Workers, Patched(w) PROVE RowHasChannel'
  BY <1>15 DEF Patched, RowHasChannel, HasRow, TInv, Typed
<1>16. ASSUME NEW w \in Workers, PatchUnanswered(w) PROVE RowHasChannel'
  BY <1>16 DEF PatchUnanswered, RowHasChannel, HasRow, TInv, Typed
<1>17. ASSUME NEW w \in Workers, UpdateRow(w) PROVE RowHasChannel'
  <2>1. InHand(w)[2] \in Channels
    BY <1>17, InHandIs DEF UpdateRow, TInv, Entries
  <2>2. RowOf(InHand(w)[2], now + Life[provider]).channel = InHand(w)[2]
    BY DEF RowOf
  <2> QED BY <1>17, <2>1, <2>2 DEF UpdateRow, RowHasChannel, HasRow, TInv, Typed
<1>18. ASSUME NEW w \in Workers, UpdateFails(w) PROVE RowHasChannel'
  BY <1>18 DEF UpdateFails, RowHasChannel, HasRow, TInv, Typed
<1>19. ASSUME NEW w \in Workers, EndPass(w) PROVE RowHasChannel'
  BY <1>19 DEF EndPass, RowHasChannel, HasRow, TInv, Typed
<1>20. ASSUME NEW w \in Workers, CrashWorker(w) PROVE RowHasChannel'
  BY <1>20 DEF CrashWorker, RowHasChannel, HasRow, TInv, Typed
<1>21. CASE DeleteAccount
  BY <1>21 DEF DeleteAccount, RowHasChannel, HasRow, TInv, Typed
<1>22. CASE Tick
  BY <1>22 DEF Tick, RowHasChannel, HasRow, TInv, Typed
<1>23. CASE UNCHANGED watchVars
  BY <1>23 DEF watchVars, RowHasChannel, HasRow, TInv, Typed
<1> QED
  BY <1>1, <1>2, <1>3, <1>4, <1>5, <1>6, <1>7, <1>8, <1>9, <1>10, <1>11, <1>12, <1>13, <1>14,
     <1>15, <1>16, <1>17, <1>18, <1>19, <1>20, <1>21, <1>22, <1>23
    DEF Next, CallStep, PassStep

LEMMA CallsNext == TInv /\ [Next]_watchVars => CallHasChannel'
<1> SUFFICES ASSUME TInv, [Next]_watchVars PROVE CallHasChannel'
  OBVIOUS
<1>1. ASSUME NEW c \in Calls, Subscribe(c) PROVE CallHasChannel'
  BY <1>1, AtField, RestType DEF Subscribe, CallHasChannel, TInv, Typed
<1>2. ASSUME NEW c \in Calls, ChannelCreated(c) PROVE CallHasChannel'
  <2>1. ChannelOf(c) \in Channels
    BY WatchConstants DEF TInv, Typed, Calling, ChannelOf, Channels
  <2> QED BY <1>2, <2>1, AtField DEF ChannelCreated, CallHasChannel, TInv, Typed
<1>3. ASSUME NEW c \in Calls, CreateUnanswered(c) PROVE CallHasChannel'
  <2>1. Again("create", sub[c], Over).at \in {"create", "over"}
    BY AtField, RestType DEF Again
  <2> QED BY <1>3, <2>1 DEF CreateUnanswered, CallHasChannel, TInv, Typed
<1>4. ASSUME NEW c \in Calls, ChannelIdTaken(c) PROVE CallHasChannel'
  <2>1. Again("create", sub[c], Over).at \in {"create", "over"}
    BY AtField, RestType DEF Again
  <2> QED BY <1>4, <2>1 DEF ChannelIdTaken, CallHasChannel, TInv, Typed
<1>5. ASSUME NEW c \in Calls, InsertRow(c) PROVE CallHasChannel'
  BY <1>5, AtField, RestType DEF InsertRow, CallHasChannel, TInv, Typed
<1>6. ASSUME NEW c \in Calls, InsertFails(c) PROVE CallHasChannel'
  BY <1>6, AtField, RestType DEF InsertFails, CallHasChannel, TInv, Typed
<1>7. ASSUME NEW c \in Calls, Unsubscribe(c) PROVE CallHasChannel'
  BY <1>7, AtField, RestType DEF Unsubscribe, CallHasChannel, RowHasChannel, TInv, Typed
<1>8. ASSUME NEW c \in Calls, ChannelStopped(c) PROVE CallHasChannel'
  BY <1>8, AtField, RestType DEF ChannelStopped, CallHasChannel, TInv, Typed
<1>9. ASSUME NEW c \in Calls, StopUnanswered(c) PROVE CallHasChannel'
  <2>1. /\ Again("stop", unsub[c], Rest).at \in {"stop", "rest"}
        /\ Again("stop", unsub[c], Rest).at = "stop" => Again("stop", unsub[c], Rest).channel = unsub[c].channel
    BY AtField, RestType DEF Again
  <2> QED BY <1>9, <2>1, AtField DEF StopUnanswered, CallHasChannel, TInv, Typed
<1>10. ASSUME NEW c \in Calls, DeleteRow(c) PROVE CallHasChannel'
  BY <1>10, AtField, RestType DEF DeleteRow, CallHasChannel, TInv, Typed
<1>11. ASSUME NEW c \in Calls, DeleteFails(c) PROVE CallHasChannel'
  BY <1>11, AtField, RestType DEF DeleteFails, CallHasChannel, TInv, Typed
<1>12. ASSUME NEW c \in Calls, CrashCall(c) PROVE CallHasChannel'
  BY <1>12, AtField, RestType DEF CrashCall, CallHasChannel, TInv, Typed
<1>13. ASSUME NEW w \in Workers, StartPass(w) PROVE CallHasChannel'
  BY <1>13 DEF StartPass, CallHasChannel, TInv
<1>14. ASSUME NEW w \in Workers, NextWatch(w) PROVE CallHasChannel'
  BY <1>14 DEF NextWatch, CallHasChannel, TInv
<1>15. ASSUME NEW w \in Workers, Patched(w) PROVE CallHasChannel'
  BY <1>15 DEF Patched, CallHasChannel, TInv
<1>16. ASSUME NEW w \in Workers, PatchUnanswered(w) PROVE CallHasChannel'
  BY <1>16 DEF PatchUnanswered, CallHasChannel, TInv
<1>17. ASSUME NEW w \in Workers, UpdateRow(w) PROVE CallHasChannel'
  BY <1>17 DEF UpdateRow, CallHasChannel, TInv
<1>18. ASSUME NEW w \in Workers, UpdateFails(w) PROVE CallHasChannel'
  BY <1>18 DEF UpdateFails, CallHasChannel, TInv
<1>19. ASSUME NEW w \in Workers, EndPass(w) PROVE CallHasChannel'
  BY <1>19 DEF EndPass, CallHasChannel, TInv
<1>20. ASSUME NEW w \in Workers, CrashWorker(w) PROVE CallHasChannel'
  BY <1>20 DEF CrashWorker, CallHasChannel, TInv
<1>21. CASE DeleteAccount
  BY <1>21 DEF DeleteAccount, CallHasChannel, TInv
<1>22. CASE Tick
  BY <1>22 DEF Tick, CallHasChannel, TInv
<1>23. CASE UNCHANGED watchVars
  BY <1>23 DEF watchVars, CallHasChannel, TInv
<1> QED
  BY <1>1, <1>2, <1>3, <1>4, <1>5, <1>6, <1>7, <1>8, <1>9, <1>10, <1>11, <1>12, <1>13, <1>14,
     <1>15, <1>16, <1>17, <1>18, <1>19, <1>20, <1>21, <1>22, <1>23
    DEF Next, CallStep, PassStep

LEMMA PassesNext == TInv /\ [Next]_watchVars => PassHasOne'
<1> SUFFICES ASSUME TInv, [Next]_watchVars PROVE PassHasOne'
  OBVIOUS
<1>1. ASSUME NEW c \in Calls, Subscribe(c) PROVE PassHasOne'
  BY <1>1 DEF Subscribe, PassHasOne, TInv
<1>2. ASSUME NEW c \in Calls, ChannelCreated(c) PROVE PassHasOne'
  BY <1>2 DEF ChannelCreated, PassHasOne, TInv
<1>3. ASSUME NEW c \in Calls, CreateUnanswered(c) PROVE PassHasOne'
  BY <1>3 DEF CreateUnanswered, PassHasOne, TInv
<1>4. ASSUME NEW c \in Calls, ChannelIdTaken(c) PROVE PassHasOne'
  BY <1>4 DEF ChannelIdTaken, PassHasOne, TInv
<1>5. ASSUME NEW c \in Calls, InsertRow(c) PROVE PassHasOne'
  BY <1>5 DEF InsertRow, PassHasOne, TInv
<1>6. ASSUME NEW c \in Calls, InsertFails(c) PROVE PassHasOne'
  BY <1>6 DEF InsertFails, PassHasOne, TInv
<1>7. ASSUME NEW c \in Calls, Unsubscribe(c) PROVE PassHasOne'
  BY <1>7 DEF Unsubscribe, PassHasOne, TInv
<1>8. ASSUME NEW c \in Calls, ChannelStopped(c) PROVE PassHasOne'
  BY <1>8 DEF ChannelStopped, PassHasOne, TInv
<1>9. ASSUME NEW c \in Calls, StopUnanswered(c) PROVE PassHasOne'
  BY <1>9 DEF StopUnanswered, PassHasOne, TInv
<1>10. ASSUME NEW c \in Calls, DeleteRow(c) PROVE PassHasOne'
  BY <1>10 DEF DeleteRow, PassHasOne, TInv
<1>11. ASSUME NEW c \in Calls, DeleteFails(c) PROVE PassHasOne'
  BY <1>11 DEF DeleteFails, PassHasOne, TInv
<1>12. ASSUME NEW c \in Calls, CrashCall(c) PROVE PassHasOne'
  BY <1>12 DEF CrashCall, PassHasOne, TInv
<1>13. ASSUME NEW w \in Workers, StartPass(w) PROVE PassHasOne'
  <2>1. CASE pass' = [pass EXCEPT ![w] = PassAt("next", {<<d, rows[d].channel>> : d \in Expiring}, {}, 1, TRUE)]
    <3> DEFINE p == PassAt("next", {<<d, rows[d].channel>> : d \in Expiring}, {}, 1, TRUE)
    <3>0. p.at = "next"
      BY DEF PassAt
    <3> HIDE DEF p
    <3>1. pass'[w].at = "next" /\ \A v \in Workers \ {w} : pass'[v] = pass[v]
      <4>1. pass' = [pass EXCEPT ![w] = p]
        BY <2>1 DEF p
      <4> QED BY <3>0, <4>1 DEF TInv, Typed
    <3> QED BY <3>1 DEF PassHasOne, TInv
  <2>2. CASE UNCHANGED pass
    BY <2>2 DEF PassHasOne, TInv
  <2> QED BY <1>13, <2>1, <2>2 DEF StartPass
<1>14. ASSUME NEW w \in Workers, NextWatch(w) PROVE PassHasOne'
  <2>1. PICK e \in pass[w].batch :
          pass' = [pass EXCEPT ![w] = IF account /\ provider = "microsoft"
                                      THEN PassAt("patch", pass[w].batch \ {e}, {e}, 1, @.clean)
                                      ELSE PassAt("next", pass[w].batch \ {e}, {}, 1, @.clean)]
    BY <1>14 DEF NextWatch
  <2>2. \E c \in Calls, ch \in Channels : {e} = {<<c, ch>>}
    <3>1. e \in Calls \X Channels
      BY DEF TInv, Typed, Passing, Entries
    <3>2. PICK c \in Calls, ch \in Channels : e = <<c, ch>>
      BY <3>1
    <3> QED BY <3>2
  <2>3. pass'[w].at = "next" \/ pass'[w].cur = {e}
    BY <2>1, PassField DEF TInv, Typed
  <2>4. \A v \in Workers \ {w} : pass'[v] = pass[v]
    BY <2>1 DEF TInv, Typed
  <2> QED BY <2>2, <2>3, <2>4 DEF PassHasOne, TInv
<1>15. ASSUME NEW w \in Workers, Patched(w) PROVE PassHasOne'
  BY <1>15 DEF Patched, PassHasOne, PassAt, Onward, TInv, Typed, Passing
<1>16. ASSUME NEW w \in Workers, PatchUnanswered(w) PROVE PassHasOne'
  BY <1>16 DEF PatchUnanswered, PassHasOne, PassAt, Onward, TInv, Typed, Passing
<1>17. ASSUME NEW w \in Workers, UpdateRow(w) PROVE PassHasOne'
  BY <1>17 DEF UpdateRow, PassHasOne, PassAt, Onward, TInv, Typed, Passing
<1>18. ASSUME NEW w \in Workers, UpdateFails(w) PROVE PassHasOne'
  BY <1>18 DEF UpdateFails, PassHasOne, PassAt, Onward, TInv, Typed, Passing
<1>19. ASSUME NEW w \in Workers, EndPass(w) PROVE PassHasOne'
  BY <1>19 DEF EndPass, PassHasOne, PassAt, Onward, TInv, Typed, Passing
<1>20. ASSUME NEW w \in Workers, CrashWorker(w) PROVE PassHasOne'
  BY <1>20 DEF CrashWorker, PassHasOne, PassAt, Onward, TInv, Typed, Passing
<1>21. CASE DeleteAccount
  BY <1>21 DEF DeleteAccount, PassHasOne, TInv
<1>22. CASE Tick
  BY <1>22 DEF Tick, PassHasOne, TInv
<1>23. CASE UNCHANGED watchVars
  BY <1>23 DEF watchVars, PassHasOne, TInv
<1> QED
  BY <1>1, <1>2, <1>3, <1>4, <1>5, <1>6, <1>7, <1>8, <1>9, <1>10, <1>11, <1>12, <1>13, <1>14,
     <1>15, <1>16, <1>17, <1>18, <1>19, <1>20, <1>21, <1>22, <1>23
    DEF Next, CallStep, PassStep

LEMMA TInvNext == TInv /\ [Next]_watchVars => TInv'
BY TypedNext, RowsNext, CallsNext, PassesNext DEF TInv

\* WatchTypeOK holds of Watches whatever the constants (services/watches.ts,
\* workers/watchRenew.ts).
THEOREM WatchTypeCorrect == Spec => []WatchTypeOK
<1>1. Init => TInv
  BY TypedInit DEF TInv
<1>2. TInv => WatchTypeOK
  BY TypedIsType DEF TInv
<1> QED BY <1>1, <1>2, TInvNext, PTL DEF Spec

-----------------------------------------------------------------------------
(* Stored watches stay open at Microsoft *)

\* What the schedule needs: a pass looks at least two half days ahead, and a renewed
\* channel lives as long (the source: 24 hours and three days).
RenewsInTime == Horizon >= 2 /\ Life["microsoft"] >= Horizon

Kept(c) == HasRow(c) /\ c \notin stopped

\* Rows, calls and passes deal with channels of their own call only, in this order.
Mine ==
  \A c \in Calls :
    /\ HasRow(c) => account /\ rows[c].channel[1] = c /\ sub[c].at = "over"
    /\ sub[c].at = "insert" => sub[c].channel[1] = c
    /\ unsub[c].at # "rest" => unsub[c].channel[1] = c /\ sub[c].at = "over"
    /\ c \in stopped => sub[c].at = "over"

\* What a pass has still to do is as the rows have it.
BatchOf(w) ==
  /\ pass[w].at = "next" => pass[w].cur = {}
  /\ \A c \in Calls, ch \in Channels :
       <<c, ch>> \in pass[w].batch \cup pass[w].cur =>
         /\ ch[1] = c /\ sub[c].at = "over"
         /\ HasRow(c) => ch = rows[c].channel
Batches == \A w \in Workers : BatchOf(w)

\* A row says no more than the provider grants, and a call inserts what it was granted now.
Granted ==
  \A c \in Calls :
    /\ Kept(c) => /\ rows[c].expiresAt > now /\ rows[c].expiresAt <= now + Life[provider]
                  /\ channel[rows[c].channel] >= rows[c].expiresAt
    /\ sub[c].at = "insert" => channel[sub[c].channel] = now + Life[provider]

\* A patched watch lives its full time, unless it is being stopped.
ExtendedOf(w) ==
  \A c \in Calls, ch \in Channels :
    pass[w].at = "update" /\ <<c, ch>> \in pass[w].cur =>
      c \in stopped \/ channel[ch] = now + Life[provider]
Extended == \A w \in Workers : ExtendedOf(w)

\* A pass that has met no fault has every row near its expiry still before it.
AheadOf(w) ==
  \A c \in Calls :
    pass[w].at # "rest" /\ pass[w].clean /\ Kept(c) =>
      rows[c].expiresAt >= now + Horizon \/ <<c, rows[c].channel>> \in pass[w].batch \cup pass[w].cur
Ahead == \A w \in Workers : AheadOf(w)

\* After such a pass no row is near its expiry until time passes.
AllRenewed == renewed => \A c \in Calls : Kept(c) => rows[c].expiresAt >= now + Horizon

\* Rows, calls and passes agree on the channels, whoever the provider is.
MInv == TInv /\ Mine /\ Batches

LInv == MInv /\ provider = "microsoft" /\ RenewsInTime /\ Granted /\ Extended /\ Ahead /\ AllRenewed

LEMMA Numbers ==
  ASSUME LInv
  PROVE  /\ now \in Nat /\ Life[provider] \in Nat /\ Horizon \in Nat
         /\ Life[provider] >= Horizon /\ Horizon >= 2
         /\ \A c \in Calls : rows[c].expiresAt \in Nat
         /\ \A ch \in Channels : channel[ch] \in Nat
<1>1. Typed /\ provider = "microsoft" /\ RenewsInTime
  BY DEF LInv, MInv, TInv
<1>2. now \in Nat /\ Life[provider] \in Nat
  BY <1>1, WatchConstants DEF Typed, Time
<1>3. \A c \in Calls : rows[c].expiresAt \in Nat
  BY <1>1 DEF Typed, Rows
<1> QED BY <1>1, <1>2, <1>3, WatchConstants DEF Typed, RenewsInTime


(* What the steps of a pass and of a call do, in the terms of the invariant *)

PassIs(w, step, batch, cur, clean) ==
  /\ pass'[w].at = step /\ pass'[w].batch = batch /\ pass'[w].cur = cur /\ pass'[w].clean = clean
  /\ \A v \in Workers \ {w} : pass'[v] = pass[v]

LEMMA PassSet ==
  ASSUME pass \in [Workers -> Passing], NEW w \in Workers, NEW step, NEW b, NEW cu, NEW n, NEW cl,
         pass' = [pass EXCEPT ![w] = PassAt(step, b, cu, n, cl)]
  PROVE  PassIs(w, step, b, cu, cl)
<1> DEFINE p == PassAt(step, b, cu, n, cl)
<1>1. p.at = step /\ p.batch = b /\ p.cur = cu /\ p.clean = cl
  BY DEF PassAt
<1> HIDE DEF p
<1>2. pass' = [pass EXCEPT ![w] = p]
  BY DEF p
<1> QED BY <1>1, <1>2 DEF PassIs

\* The loop goes on to the next watch.
GoesOn(w, clean) == PassIs(w, "next", pass[w].batch, {}, IF clean THEN pass[w].clean ELSE FALSE)
LEMMA OnwardIs ==
  ASSUME pass \in [Workers -> Passing], NEW w \in Workers, NEW clean \in BOOLEAN,
         pass' = [pass EXCEPT ![w] = Onward(pass[w], clean)]
  PROVE  GoesOn(w, clean)
<1>1. PassIs(w, "next", pass[w].batch, {}, pass[w].clean /\ clean)
  BY PassSet DEF Onward
<1>2. pass[w].clean \in BOOLEAN
  BY DEF Passing
<1>3. (pass[w].clean /\ clean) = (IF clean THEN pass[w].clean ELSE FALSE)
  BY <1>2
<1> QED BY <1>1, <1>3 DEF GoesOn

LEMMA StartPassIs ==
  ASSUME TInv, NEW w \in Workers, StartPass(w)
  PROVE  /\ UNCHANGED <<provider, account, now, channel, rows, sub, unsub, stopped>>
         /\ \/ /\ PassIs(w, "next", {<<c, rows[c].channel>> : c \in Expiring}, {}, TRUE)
               /\ UNCHANGED renewed
            \/ Expiring = {} /\ UNCHANGED pass
<1>1. CASE pass' = [pass EXCEPT ![w] = PassAt("next", {<<c, rows[c].channel>> : c \in Expiring}, {}, 1, TRUE)]
           /\ UNCHANGED renewed
  <2>1. PassIs(w, "next", {<<c, rows[c].channel>> : c \in Expiring}, {}, TRUE)
    BY <1>1, PassSet DEF TInv, Typed
  <2> QED BY <1>1, <2>1 DEF StartPass
<1>2. CASE Expiring = {} /\ UNCHANGED pass
  BY <1>2 DEF StartPass
<1> QED BY <1>1, <1>2 DEF StartPass

LEMMA NextWatchIs ==
  ASSUME TInv, NEW w \in Workers, NextWatch(w)
  PROVE  /\ UNCHANGED <<provider, account, now, channel, rows, sub, unsub, renewed, stopped>>
         /\ pass[w].at = "next"
         /\ \E c \in Calls, ch \in Channels :
              /\ <<c, ch>> \in pass[w].batch
              /\ \/ PassIs(w, "patch", pass[w].batch \ {<<c, ch>>}, {<<c, ch>>}, pass[w].clean)
                 \/ /\ ~(account /\ provider = "microsoft")
                    /\ PassIs(w, "next", pass[w].batch \ {<<c, ch>>}, {}, pass[w].clean)
<1>1. PICK e \in pass[w].batch :
        pass' = [pass EXCEPT ![w] = IF account /\ provider = "microsoft"
                                    THEN PassAt("patch", pass[w].batch \ {e}, {e}, 1, pass[w].clean)
                                    ELSE PassAt("next", pass[w].batch \ {e}, {}, 1, pass[w].clean)]
  BY DEF NextWatch
<1>2. \/ PassIs(w, "patch", pass[w].batch \ {e}, {e}, pass[w].clean)
      \/ ~(account /\ provider = "microsoft") /\ PassIs(w, "next", pass[w].batch \ {e}, {}, pass[w].clean)
  BY <1>1, PassSet DEF TInv, Typed
<1>3. e \in Calls \X Channels
  BY DEF TInv, Typed, Passing, Entries
<1>4. PICK c \in Calls, ch \in Channels : e = <<c, ch>>
  BY <1>3
<1> QED BY <1>2, <1>4 DEF NextWatch

\* The watch in hand.
LEMMA HandIs ==
  ASSUME TInv, NEW w \in Workers, pass[w].at \in {"patch", "update"}
  PROVE  \E c \in Calls, ch \in Channels : pass[w].cur = {<<c, ch>>} /\ InHand(w)[1] = c /\ InHand(w)[2] = ch
<1>1. PICK c \in Calls, ch \in Channels : pass[w].cur = {<<c, ch>>}
  BY DEF TInv, PassHasOne
<1>2. InHand(w) = <<c, ch>>
  BY <1>1 DEF InHand
<1> QED BY <1>1, <1>2

LEMMA PatchedIs ==
  ASSUME TInv, NEW w \in Workers, Patched(w)
  PROVE  /\ UNCHANGED <<provider, account, now, rows, sub, unsub, renewed, stopped>>
         /\ \E c \in Calls, ch \in Channels :
              /\ pass[w].cur = {<<c, ch>>} /\ pass[w].at = "patch"
              /\ \/ /\ Open(ch) /\ channel' = [channel EXCEPT ![ch] = now + Life[provider]]
                    /\ PassIs(w, "update", pass[w].batch, pass[w].cur, pass[w].clean)
                 \/ ~Open(ch) /\ UNCHANGED channel /\ GoesOn(w, TRUE)
<1>1. PICK c \in Calls, ch \in Channels : pass[w].cur = {<<c, ch>>} /\ InHand(w)[2] = ch
  BY HandIs DEF Patched
<1>2. CASE Open(ch)
  <2>1. pass' = [pass EXCEPT ![w] = [pass[w] EXCEPT !.at = "update"]]
        /\ channel' = [channel EXCEPT ![ch] = now + Life[provider]]
    BY <1>1, <1>2 DEF Patched
  <2>2. pass[w] \in Passing
    BY DEF TInv, Typed
  <2>3. [pass[w] EXCEPT !.at = "update"] = PassAt("update", pass[w].batch, pass[w].cur, pass[w].attempt, pass[w].clean)
    BY <2>2 DEF PassAt, Passing
  <2>4. PassIs(w, "update", pass[w].batch, pass[w].cur, pass[w].clean)
    BY <2>1, <2>3, PassSet DEF TInv, Typed
  <2> QED BY <1>1, <1>2, <2>1, <2>4 DEF Patched
<1>3. CASE ~Open(ch)
  <2>1. pass' = [pass EXCEPT ![w] = Onward(pass[w], TRUE)] /\ UNCHANGED channel
    BY <1>1, <1>3 DEF Patched
  <2>2. GoesOn(w, TRUE)
    BY <2>1, OnwardIs DEF TInv, Typed
  <2> QED BY <1>1, <1>3, <2>1, <2>2 DEF Patched
<1> QED BY <1>2, <1>3

LEMMA PatchUnansweredIs ==
  ASSUME TInv, NEW w \in Workers, PatchUnanswered(w)
  PROVE  /\ UNCHANGED <<provider, account, now, rows, sub, unsub, renewed, stopped>>
         /\ \E c \in Calls, ch \in Channels :
              /\ pass[w].cur = {<<c, ch>>} /\ pass[w].at = "patch"
              /\ UNCHANGED channel \/ channel' = [channel EXCEPT ![ch] = now + Life[provider]]
              /\ \/ PassIs(w, "patch", pass[w].batch, pass[w].cur, pass[w].clean)
                 \/ GoesOn(w, FALSE)
<1>1. PICK c \in Calls, ch \in Channels : pass[w].cur = {<<c, ch>>} /\ InHand(w)[2] = ch
  BY HandIs DEF PatchUnanswered
<1>2. UNCHANGED channel \/ channel' = [channel EXCEPT ![ch] = now + Life[provider]]
  <2>1. channel \in [Channels -> Nat]
    BY DEF TInv, Typed
  <2> QED BY <1>1, <2>1 DEF PatchUnanswered
<1>3. pass' = [pass EXCEPT ![w] = IF pass[w].attempt < MaxAttempts
                                  THEN PassAt("patch", pass[w].batch, pass[w].cur, pass[w].attempt + 1, pass[w].clean)
                                  ELSE Onward(pass[w], FALSE)]
  BY DEF PatchUnanswered
<1>4. PassIs(w, "patch", pass[w].batch, pass[w].cur, pass[w].clean) \/ GoesOn(w, FALSE)
  BY <1>3, PassSet, OnwardIs DEF TInv, Typed
<1> QED BY <1>1, <1>2, <1>4 DEF PatchUnanswered

LEMMA UpdateRowIs ==
  ASSUME TInv, NEW w \in Workers, UpdateRow(w)
  PROVE  /\ UNCHANGED <<provider, account, now, channel, sub, unsub, renewed, stopped>>
         /\ GoesOn(w, TRUE)
         /\ \E c \in Calls, ch \in Channels :
              /\ pass[w].cur = {<<c, ch>>} /\ pass[w].at = "update"
              /\ \A d \in Calls \ {c} : rows'[d] = rows[d]
              /\ \/ ~HasRow(c) /\ rows'[c] = rows[c]
                 \/ HasRow(c) /\ rows'[c].channel = ch /\ rows'[c].expiresAt = now + Life[provider]
<1>1. PICK c \in Calls, ch \in Channels : pass[w].cur = {<<c, ch>>} /\ InHand(w)[1] = c /\ InHand(w)[2] = ch
  BY HandIs DEF UpdateRow
<1>2. GoesOn(w, TRUE)
  BY OnwardIs DEF UpdateRow, TInv, Typed
<1>3. rows' = IF HasRow(c) THEN [rows EXCEPT ![c] = RowOf(ch, now + Life[provider])] ELSE rows
  BY <1>1 DEF UpdateRow
<1>4. rows'[c] = (IF HasRow(c) THEN RowOf(ch, now + Life[provider]) ELSE rows[c]) /\ \A d \in Calls \ {c} : rows'[d] = rows[d]
  BY <1>3 DEF TInv, Typed
<1>5. RowOf(ch, now + Life[provider]).channel = ch /\ RowOf(ch, now + Life[provider]).expiresAt = now + Life[provider]
  BY DEF RowOf
<1>6. UNCHANGED <<provider, account, now, channel, sub, unsub, renewed, stopped>> /\ pass[w].at = "update"
  BY DEF UpdateRow
<1>7. \/ ~HasRow(c) /\ rows'[c] = rows[c]
      \/ HasRow(c) /\ rows'[c].channel = ch /\ rows'[c].expiresAt = now + Life[provider]
  BY <1>4, <1>5
<1> QED BY <1>1, <1>2, <1>4, <1>6, <1>7

LEMMA UpdateFailsIs ==
  ASSUME TInv, NEW w \in Workers, UpdateFails(w)
  PROVE  /\ UNCHANGED <<provider, account, now, channel, rows, sub, unsub, renewed, stopped>>
         /\ GoesOn(w, FALSE)
BY OnwardIs DEF UpdateFails, TInv, Typed

LEMMA RestsIs ==
  ASSUME TInv, NEW w \in Workers, EndPass(w) \/ CrashWorker(w)
  PROVE  /\ UNCHANGED <<provider, account, now, channel, rows, sub, unsub, stopped>>
         /\ PassIs(w, "rest", {}, {}, TRUE)
BY PassSet DEF EndPass, CrashWorker, TInv, Typed

LEMMA InsertRowIs ==
  ASSUME TInv, NEW c \in Calls, InsertRow(c)
  PROVE  /\ UNCHANGED <<provider, account, now, channel, unsub, pass, renewed, stopped>>
         /\ sub[c].at = "insert" /\ sub[c].channel \in Channels /\ sub'[c].at = "over"
         /\ \A d \in Calls \ {c} : sub'[d] = sub[d] /\ rows'[d] = rows[d]
         /\ \/ rows'[c] = rows[c]
            \/ account /\ rows'[c].channel = sub[c].channel /\ rows'[c].expiresAt = channel[sub[c].channel]
<1> DEFINE r == RowOf(sub[c].channel, channel[sub[c].channel])
<1>1. r.channel = sub[c].channel /\ r.expiresAt = channel[sub[c].channel]
  BY DEF RowOf
<1> HIDE DEF r
<1>2. rows' = IF account THEN [rows EXCEPT ![c] = r] ELSE rows
  BY DEF InsertRow, r
<1>3. sub' = [sub EXCEPT ![c] = Over] /\ Over.at = "over" /\ sub[c].channel \in Channels
  BY RestType DEF InsertRow, TInv, CallHasChannel
<1> QED BY <1>1, <1>2, <1>3 DEF InsertRow, TInv, Typed

\* The calls that only open a channel, which is none of a row's.
LEMMA CreatesIs ==
  ASSUME MInv, NEW c \in Calls, ChannelCreated(c) \/ CreateUnanswered(c) \/ ChannelIdTaken(c)
  PROVE  /\ UNCHANGED <<provider, account, now, rows, unsub, pass, renewed, stopped>>
         /\ sub[c].at = "create"
         /\ sub'[c].at \in {"create", "insert", "over"}
         /\ sub'[c].at = "insert" => sub'[c].channel \in Channels /\ channel'[sub'[c].channel] = now + Life[provider]
         /\ \A d \in Calls \ {c} : sub'[d] = sub[d]
         /\ \A ch \in Channels : ch[1] # c => channel'[ch] = channel[ch]
<1> DEFINE ch == ChannelOf(c)
<1>1. ch \in Channels /\ ch[1] = c
  BY WatchConstants DEF MInv, TInv, Typed, Calling, ChannelOf, Channels
<1>2. Again("create", sub[c], Over).at \in {"create", "over"} /\ At("insert", 1, ch).at = "insert" /\ At("insert", 1, ch).channel = ch
  BY AtField, RestType DEF Again
<1>3. CASE ChannelCreated(c)
  <2> HIDE DEF ch
  <2>1. channel' = [channel EXCEPT ![ch] = now + Life[provider]] /\ sub' = [sub EXCEPT ![c] = At("insert", 1, ch)]
    BY <1>3 DEF ChannelCreated, ch
  <2>2. channel'[ch] = now + Life[provider] /\ \A d \in Channels : d[1] # c => channel'[d] = channel[d]
    BY <1>1, <2>1 DEF MInv, TInv, Typed
  <2>3. sub'[c] = At("insert", 1, ch) /\ \A d \in Calls \ {c} : sub'[d] = sub[d]
    BY <2>1 DEF MInv, TInv, Typed
  <2> QED BY <1>1, <1>2, <1>3, <2>2, <2>3 DEF ChannelCreated
<1>4. CASE CreateUnanswered(c)
  <2> HIDE DEF ch
  <2>1. (UNCHANGED channel \/ channel' = [channel EXCEPT ![ch] = now + Life[provider]])
        /\ sub' = [sub EXCEPT ![c] = Again("create", sub[c], Over)]
    BY <1>4 DEF CreateUnanswered, ch
  <2>2. \A d \in Channels : d[1] # c => channel'[d] = channel[d]
    BY <1>1, <2>1 DEF MInv, TInv, Typed
  <2>3. sub'[c] = Again("create", sub[c], Over) /\ \A d \in Calls \ {c} : sub'[d] = sub[d]
    BY <2>1 DEF MInv, TInv, Typed
  <2> QED BY <1>2, <1>4, <2>2, <2>3 DEF CreateUnanswered
<1>5. CASE ChannelIdTaken(c)
  <2>1. sub' = [sub EXCEPT ![c] = Again("create", sub[c], Over)] /\ UNCHANGED channel
    BY <1>5 DEF ChannelIdTaken
  <2>2. sub'[c] = Again("create", sub[c], Over) /\ \A d \in Calls \ {c} : sub'[d] = sub[d]
    BY <2>1 DEF MInv, TInv, Typed
  <2> QED BY <1>2, <1>5, <2>1, <2>2 DEF ChannelIdTaken
<1> QED BY <1>3, <1>4, <1>5

\* Asking the provider to close a channel disturbs no other row's.
LEMMA StopsIs ==
  ASSUME MInv, NEW c \in Calls, ChannelStopped(c) \/ StopUnanswered(c)
  PROVE  /\ UNCHANGED <<provider, account, now, rows, sub, pass, renewed>>
         /\ stopped' = stopped \cup {c} /\ sub[c].at = "over"
         /\ \A ch \in Channels : ch[1] # c => channel'[ch] = channel[ch]
<1> DEFINE ch == unsub[c].channel
<1>1. unsub[c].at = "stop"
  BY DEF ChannelStopped, StopUnanswered
<1>2. ch \in Channels /\ ch[1] = c /\ sub[c].at = "over"
  BY <1>1 DEF MInv, TInv, CallHasChannel, Mine
<1> HIDE DEF ch
<1>3. UNCHANGED channel \/ channel' = [channel EXCEPT ![ch] = IF Open(ch) THEN 0 ELSE channel[ch]]
  BY DEF ChannelStopped, StopUnanswered, ch
<1>4. \A d \in Channels : d[1] # c => channel'[d] = channel[d]
  BY <1>2, <1>3 DEF MInv, TInv, Typed
<1> QED BY <1>2, <1>4 DEF ChannelStopped, StopUnanswered

LEMMA MineNext == MInv /\ [Next]_watchVars => Mine'
<1> SUFFICES ASSUME MInv, [Next]_watchVars PROVE Mine'
  OBVIOUS
<1>t. TInv
  BY DEF MInv
<1>1. ASSUME NEW c \in Calls, Subscribe(c) PROVE Mine'
  BY <1>1, AtField, RestType DEF Subscribe, Mine, HasRow, MInv, TInv, Typed
<1>2. ASSUME NEW c \in Calls, ChannelCreated(c) PROVE Mine'
  BY <1>2, AtField, RestType DEF ChannelCreated, ChannelOf, Mine, HasRow, MInv, TInv, Typed
<1>3. ASSUME NEW c \in Calls, CreateUnanswered(c) PROVE Mine'
  <2>1. Again("create", sub[c], Over).at \in {"create", "over"}
    BY AtField, RestType DEF Again
  <2> QED BY <1>3, <2>1 DEF CreateUnanswered, Mine, HasRow, MInv, TInv, Typed
<1>4. ASSUME NEW c \in Calls, ChannelIdTaken(c) PROVE Mine'
  <2>1. Again("create", sub[c], Over).at \in {"create", "over"}
    BY AtField, RestType DEF Again
  <2> QED BY <1>4, <2>1 DEF ChannelIdTaken, Mine, HasRow, MInv, TInv, Typed
<1>5. ASSUME NEW c \in Calls, InsertRow(c) PROVE Mine'
  BY <1>5, <1>t, InsertRowIs DEF Mine, HasRow, MInv
<1>6. ASSUME NEW c \in Calls, InsertFails(c) PROVE Mine'
  BY <1>6, AtField, RestType DEF InsertFails, Mine, HasRow, MInv, TInv, Typed
<1>7. ASSUME NEW c \in Calls, Unsubscribe(c) PROVE Mine'
  BY <1>7, AtField, RestType DEF Unsubscribe, Mine, HasRow, MInv, TInv, Typed
<1>8. ASSUME NEW c \in Calls, ChannelStopped(c) PROVE Mine'
  BY <1>8, AtField, RestType DEF ChannelStopped, Mine, HasRow, MInv, TInv, Typed
<1>9. ASSUME NEW c \in Calls, StopUnanswered(c) PROVE Mine'
  <2>1. /\ Again("stop", unsub[c], Rest).at \in {"stop", "rest"}
        /\ Again("stop", unsub[c], Rest).at = "stop" => Again("stop", unsub[c], Rest).channel = unsub[c].channel
    BY AtField, RestType DEF Again
  <2> QED BY <1>9, <2>1, AtField DEF StopUnanswered, Mine, HasRow, MInv, TInv, Typed
<1>10. ASSUME NEW c \in Calls, DeleteRow(c) PROVE Mine'
  BY <1>10, AtField, RestType DEF DeleteRow, Mine, HasRow, MInv, TInv, Typed
<1>11. ASSUME NEW c \in Calls, DeleteFails(c) PROVE Mine'
  BY <1>11, AtField, RestType DEF DeleteFails, Mine, HasRow, MInv, TInv, Typed
<1>12. ASSUME NEW c \in Calls, CrashCall(c) PROVE Mine'
  BY <1>12, AtField, RestType DEF CrashCall, Mine, HasRow, MInv, TInv, Typed
<1>13. ASSUME NEW w \in Workers, StartPass(w) PROVE Mine'
  BY <1>13 DEF StartPass, Mine, HasRow, MInv
<1>14. ASSUME NEW w \in Workers, NextWatch(w) PROVE Mine'
  BY <1>14 DEF NextWatch, Mine, HasRow, MInv
<1>15. ASSUME NEW w \in Workers, Patched(w) PROVE Mine'
  BY <1>15 DEF Patched, Mine, HasRow, MInv
<1>16. ASSUME NEW w \in Workers, PatchUnanswered(w) PROVE Mine'
  BY <1>16 DEF PatchUnanswered, Mine, HasRow, MInv
<1>17. ASSUME NEW w \in Workers, UpdateRow(w) PROVE Mine'
  <2>1. PICK c \in Calls, ch \in Channels :
          /\ pass[w].cur = {<<c, ch>>}
          /\ \A d \in Calls \ {c} : rows'[d] = rows[d]
          /\ rows'[c] = rows[c] \/ (HasRow(c) /\ rows'[c].channel = ch)
          /\ UNCHANGED <<account, sub, unsub, stopped>>
    BY <1>17, <1>t, UpdateRowIs
  <2>2. ch[1] = c
    <3>1. <<c, ch>> \in pass[w].batch \cup pass[w].cur
      BY <2>1
    <3>2. BatchOf(w)
      BY DEF MInv, Batches
    <3> QED BY <3>1, <3>2 DEF BatchOf
  <2> QED BY <2>1, <2>2 DEF Mine, HasRow, MInv
<1>18. ASSUME NEW w \in Workers, UpdateFails(w) PROVE Mine'
  BY <1>18 DEF UpdateFails, Mine, HasRow, MInv
<1>19. ASSUME NEW w \in Workers, EndPass(w) PROVE Mine'
  BY <1>19 DEF EndPass, Mine, HasRow, MInv
<1>20. ASSUME NEW w \in Workers, CrashWorker(w) PROVE Mine'
  BY <1>20 DEF CrashWorker, Mine, HasRow, MInv
<1>21. CASE DeleteAccount
  BY <1>21 DEF DeleteAccount, Mine, HasRow, MInv
<1>22. CASE Tick
  BY <1>22 DEF Tick, Mine, HasRow, MInv
<1>23. CASE UNCHANGED watchVars
  BY <1>23 DEF watchVars, Mine, HasRow, MInv
<1> QED
  BY <1>1, <1>2, <1>3, <1>4, <1>5, <1>6, <1>7, <1>8, <1>9, <1>10, <1>11, <1>12, <1>13, <1>14,
     <1>15, <1>16, <1>17, <1>18, <1>19, <1>20, <1>21, <1>22, <1>23
    DEF Next, CallStep, PassStep

LEMMA BatchesNext == MInv /\ [Next]_watchVars => Batches'
<1> SUFFICES ASSUME MInv, [Next]_watchVars PROVE Batches'
  OBVIOUS
<1>t. TInv
  BY DEF MInv
<1>1. ASSUME NEW c \in Calls, Subscribe(c) PROVE Batches'
  BY <1>1, RestType DEF Subscribe, Batches, BatchOf, HasRow, MInv, TInv, Typed
<1>2. ASSUME NEW c \in Calls, ChannelCreated(c) PROVE Batches'
  BY <1>2, <1>t, CreatesIs DEF Batches, BatchOf, HasRow, MInv
<1>3. ASSUME NEW c \in Calls, CreateUnanswered(c) PROVE Batches'
  BY <1>3, <1>t, CreatesIs DEF Batches, BatchOf, HasRow, MInv
<1>4. ASSUME NEW c \in Calls, ChannelIdTaken(c) PROVE Batches'
  BY <1>4, <1>t, CreatesIs DEF Batches, BatchOf, HasRow, MInv
<1>5. ASSUME NEW c \in Calls, InsertRow(c) PROVE Batches'
  BY <1>5, <1>t, InsertRowIs DEF Batches, BatchOf, HasRow, MInv
<1>6. ASSUME NEW c \in Calls, InsertFails(c) PROVE Batches'
  BY <1>6, RestType DEF InsertFails, Batches, BatchOf, HasRow, MInv, TInv, Typed
<1>7. ASSUME NEW c \in Calls, Unsubscribe(c) PROVE Batches'
  BY <1>7, RestType DEF Unsubscribe, Batches, BatchOf, HasRow, MInv, TInv, Typed
<1>8. ASSUME NEW c \in Calls, ChannelStopped(c) PROVE Batches'
  <2>1. UNCHANGED <<pass, sub, rows>>
    BY <1>8, <1>t, StopsIs
  <2> QED BY <2>1 DEF Batches, BatchOf, HasRow, MInv
<1>9. ASSUME NEW c \in Calls, StopUnanswered(c) PROVE Batches'
  <2>1. UNCHANGED <<pass, sub, rows>>
    BY <1>9, <1>t, StopsIs
  <2> QED BY <2>1 DEF Batches, BatchOf, HasRow, MInv
<1>10. ASSUME NEW c \in Calls, DeleteRow(c) PROVE Batches'
  BY <1>10, RestType DEF DeleteRow, Batches, BatchOf, HasRow, MInv, TInv, Typed
<1>11. ASSUME NEW c \in Calls, DeleteFails(c) PROVE Batches'
  BY <1>11, RestType DEF DeleteFails, Batches, BatchOf, HasRow, MInv, TInv, Typed
<1>12. ASSUME NEW c \in Calls, CrashCall(c) PROVE Batches'
  BY <1>12, RestType DEF CrashCall, Batches, BatchOf, HasRow, MInv, TInv, Typed
<1>13. ASSUME NEW w \in Workers, StartPass(w) PROVE Batches'
  <2>1. CASE Expiring = {} /\ UNCHANGED pass
    BY <1>13, <1>t, <2>1, StartPassIs DEF Batches, BatchOf, HasRow, MInv
  <2>2. CASE PassIs(w, "next", {<<c, rows[c].channel>> : c \in Expiring}, {}, TRUE)
    <3>1. \A c \in Calls, ch \in Channels : <<c, ch>> \in pass'[w].batch \cup pass'[w].cur => HasRow(c) /\ ch = rows[c].channel
      BY <2>2 DEF PassIs, Expiring
    <3>2. UNCHANGED <<rows, sub>>
      BY <1>13, <1>t, StartPassIs
    <3>3. BatchOf(w)'
      BY <2>2, <3>1, <3>2 DEF PassIs, BatchOf, Mine, HasRow, MInv
    <3>4. \A v \in Workers \ {w} : BatchOf(v)'
      BY <2>2, <3>2 DEF PassIs, Batches, BatchOf, HasRow, MInv
    <3> QED BY <3>3, <3>4 DEF Batches
  <2> QED BY <1>13, <1>t, <2>1, <2>2, StartPassIs
<1>14. ASSUME NEW w \in Workers, NextWatch(w) PROVE Batches'
  <2>1. PICK c \in Calls, ch \in Channels :
          /\ <<c, ch>> \in pass[w].batch /\ pass[w].at = "next"
          /\ \/ PassIs(w, "patch", pass[w].batch \ {<<c, ch>>}, {<<c, ch>>}, pass[w].clean)
             \/ /\ ~(account /\ provider = "microsoft")
                /\ PassIs(w, "next", pass[w].batch \ {<<c, ch>>}, {}, pass[w].clean)
          /\ UNCHANGED <<provider, account, now, channel, rows, sub, stopped>>
    BY <1>14, <1>t, NextWatchIs
  <2>8. ASSUME NEW v \in Workers \ {w} PROVE BatchOf(v)'
    BY <2>1 DEF PassIs, BatchOf, Batches, HasRow, MInv
  <2>9. BatchOf(w)'
    BY <2>1 DEF PassIs, BatchOf, Batches, HasRow, MInv
  <2> QED BY <2>8, <2>9 DEF Batches
<1>15. ASSUME NEW w \in Workers, Patched(w) PROVE Batches'
  <2>1. PICK c \in Calls, ch \in Channels :
          /\ pass[w].cur = {<<c, ch>>} /\ pass[w].at = "patch"
          /\ \/ /\ Open(ch) /\ channel' = [channel EXCEPT ![ch] = now + Life[provider]]
                /\ PassIs(w, "update", pass[w].batch, pass[w].cur, pass[w].clean)
             \/ ~Open(ch) /\ UNCHANGED channel /\ PassIs(w, "next", pass[w].batch, {}, pass[w].clean)
          /\ UNCHANGED <<provider, now, rows, sub, stopped>>
    BY <1>15, <1>t, PatchedIs DEF GoesOn
  <2>8. ASSUME NEW v \in Workers \ {w} PROVE BatchOf(v)'
    BY <2>1 DEF PassIs, BatchOf, Batches, HasRow, MInv
  <2>9. BatchOf(w)'
    BY <2>1 DEF PassIs, BatchOf, Batches, HasRow, MInv
  <2> QED BY <2>8, <2>9 DEF Batches
<1>16. ASSUME NEW w \in Workers, PatchUnanswered(w) PROVE Batches'
  <2>1. PICK c \in Calls, ch \in Channels :
          /\ pass[w].cur = {<<c, ch>>} /\ pass[w].at = "patch"
          /\ UNCHANGED channel \/ channel' = [channel EXCEPT ![ch] = now + Life[provider]]
          /\ \/ PassIs(w, "patch", pass[w].batch, pass[w].cur, pass[w].clean)
             \/ PassIs(w, "next", pass[w].batch, {}, FALSE)
          /\ UNCHANGED <<provider, now, rows, sub, stopped>>
    BY <1>16, <1>t, PatchUnansweredIs DEF GoesOn
  <2>8. ASSUME NEW v \in Workers \ {w} PROVE BatchOf(v)'
    BY <2>1 DEF PassIs, BatchOf, Batches, HasRow, MInv
  <2>9. BatchOf(w)'
    BY <2>1 DEF PassIs, BatchOf, Batches, HasRow, MInv
  <2> QED BY <2>8, <2>9 DEF Batches
<1>17. ASSUME NEW w \in Workers, UpdateRow(w) PROVE Batches'
  <2>1. PICK c \in Calls, ch \in Channels :
          /\ pass[w].cur = {<<c, ch>>} /\ pass[w].at = "update"
          /\ \A d \in Calls \ {c} : rows'[d] = rows[d]
          /\ \/ ~HasRow(c) /\ rows'[c] = rows[c]
             \/ HasRow(c) /\ rows'[c].channel = ch /\ rows'[c].expiresAt = now + Life[provider]
          /\ PassIs(w, "next", pass[w].batch, {}, pass[w].clean)
          /\ UNCHANGED <<provider, now, channel, sub, stopped>>
    BY <1>17, <1>t, UpdateRowIs DEF GoesOn
  <2>2. ASSUME NEW v \in Workers, NEW d \in Calls, NEW h \in Channels, <<d, h>> \in pass[v].batch \cup pass[v].cur
        PROVE  h[1] = d /\ sub[d].at = "over" /\ (HasRow(d)' => h = rows'[d].channel)
    <3>1. BatchOf(v) /\ BatchOf(w) /\ <<c, ch>> \in pass[w].batch \cup pass[w].cur
      BY <2>1 DEF Batches, MInv
    <3>2. h[1] = d /\ sub[d].at = "over" /\ (HasRow(d) => h = rows[d].channel)
      BY <2>2, <3>1 DEF BatchOf
    <3>3. CASE d # c
      BY <2>1, <3>2, <3>3 DEF HasRow
    <3>4. CASE d = c
      <4>1. HasRow(c) => h = ch
        BY <3>1, <3>2, <3>4 DEF BatchOf
      <4> QED BY <2>1, <3>2, <3>4, <4>1 DEF HasRow
    <3> QED BY <3>3, <3>4
  <2>8. ASSUME NEW v \in Workers \ {w} PROVE BatchOf(v)'
    BY <2>1, <2>2 DEF PassIs, BatchOf, Batches, HasRow, MInv
  <2>9. BatchOf(w)'
    BY <2>1, <2>2 DEF PassIs, BatchOf, Batches, HasRow, MInv
  <2> QED BY <2>8, <2>9 DEF Batches
<1>18. ASSUME NEW w \in Workers, UpdateFails(w) PROVE Batches'
  <2>1. /\ PassIs(w, "next", pass[w].batch, {}, FALSE)
        /\ UNCHANGED <<provider, now, channel, rows, sub, stopped>>
    BY <1>18, <1>t, UpdateFailsIs DEF GoesOn
  <2>8. ASSUME NEW v \in Workers \ {w} PROVE BatchOf(v)'
    BY <2>1 DEF PassIs, BatchOf, Batches, HasRow, MInv
  <2>9. BatchOf(w)'
    BY <2>1 DEF PassIs, BatchOf, Batches, HasRow, MInv
  <2> QED BY <2>8, <2>9 DEF Batches
<1>19. ASSUME NEW w \in Workers, EndPass(w) PROVE Batches'
  <2>1. /\ PassIs(w, "rest", {}, {}, TRUE)
        /\ UNCHANGED <<provider, now, channel, rows, sub, stopped>>
    BY <1>19, <1>t, RestsIs
  <2>8. ASSUME NEW v \in Workers \ {w} PROVE BatchOf(v)'
    BY <2>1 DEF PassIs, BatchOf, Batches, HasRow, MInv
  <2>9. BatchOf(w)'
    BY <2>1 DEF PassIs, BatchOf, Batches, HasRow, MInv
  <2> QED BY <2>8, <2>9 DEF Batches
<1>20. ASSUME NEW w \in Workers, CrashWorker(w) PROVE Batches'
  <2>1. /\ PassIs(w, "rest", {}, {}, TRUE)
        /\ UNCHANGED <<provider, now, channel, rows, sub, stopped>>
    BY <1>20, <1>t, RestsIs
  <2>8. ASSUME NEW v \in Workers \ {w} PROVE BatchOf(v)'
    BY <2>1 DEF PassIs, BatchOf, Batches, HasRow, MInv
  <2>9. BatchOf(w)'
    BY <2>1 DEF PassIs, BatchOf, Batches, HasRow, MInv
  <2> QED BY <2>8, <2>9 DEF Batches
<1>21. CASE DeleteAccount
  BY <1>21, RestType DEF DeleteAccount, Batches, BatchOf, HasRow, MInv, TInv, Typed
<1>22. CASE Tick
  BY <1>22 DEF Tick, Batches, BatchOf, HasRow, MInv
<1>23. CASE UNCHANGED watchVars
  BY <1>23 DEF watchVars, Batches, BatchOf, HasRow, MInv
<1> QED
  BY <1>1, <1>2, <1>3, <1>4, <1>5, <1>6, <1>7, <1>8, <1>9, <1>10, <1>11, <1>12, <1>13, <1>14,
     <1>15, <1>16, <1>17, <1>18, <1>19, <1>20, <1>21, <1>22, <1>23
    DEF Next, CallStep, PassStep

LEMMA MInvNext == MInv /\ [Next]_watchVars => MInv'
BY TInvNext, MineNext, BatchesNext DEF MInv

LEMMA MInvInit == Init => MInv
<1> SUFFICES ASSUME Init PROVE MInv
  OBVIOUS
<1>1. TInv
  BY TypedInit DEF TInv
<1>2. \A c \in Calls : ~HasRow(c) /\ sub[c].at = "rest" /\ unsub[c].at = "rest" /\ c \notin stopped
  BY RestType DEF Init, HasRow
<1>3. \A w \in Workers : pass[w].at = "rest" /\ pass[w].batch = {} /\ pass[w].cur = {}
  BY DEF Init, PassAt
<1> QED BY <1>1, <1>2, <1>3 DEF MInv, Mine, Batches, BatchOf

LEMMA GrantedNext == LInv /\ [Next]_watchVars => Granted'
<1> SUFFICES ASSUME LInv, [Next]_watchVars PROVE Granted'
  OBVIOUS
<1>t. TInv /\ MInv
  BY DEF LInv, MInv
<1>1. ASSUME NEW c \in Calls, Subscribe(c) PROVE Granted'
  BY <1>1, AtField, RestType DEF Subscribe, Granted, Kept, HasRow, LInv, MInv, TInv, Typed
<1>2. ASSUME NEW c \in Calls, ChannelCreated(c) PROVE Granted'
  BY <1>2, <1>t, CreatesIs DEF Granted, Kept, HasRow, Mine, TInv, RowHasChannel,
                               CallHasChannel, LInv, MInv
<1>3. ASSUME NEW c \in Calls, CreateUnanswered(c) PROVE Granted'
  BY <1>3, <1>t, CreatesIs DEF Granted, Kept, HasRow, Mine, TInv, RowHasChannel,
                               CallHasChannel, LInv, MInv
<1>4. ASSUME NEW c \in Calls, ChannelIdTaken(c) PROVE Granted'
  BY <1>4, <1>t, CreatesIs DEF Granted, Kept, HasRow, Mine, TInv, RowHasChannel,
                               CallHasChannel, LInv, MInv
<1>5. ASSUME NEW c \in Calls, InsertRow(c) PROVE Granted'
  <2>1. channel[sub[c].channel] = now + Life[provider]
    BY <1>5, <1>t, InsertRowIs DEF Granted, LInv, MInv
  <2>2. ASSUME NEW d \in Calls, Kept(d)'
        PROVE  \/ Kept(d) /\ rows'[d] = rows[d]
               \/ d = c /\ rows'[d].channel = sub[c].channel /\ rows'[d].expiresAt = channel[sub[c].channel]
    <3>1. stopped' = stopped /\ (rows'[d] = rows[d] \/ (d = c /\ rows'[d].channel = sub[c].channel
            /\ rows'[d].expiresAt = channel[sub[c].channel]))
      BY <1>5, <1>t, InsertRowIs
    <3> QED BY <2>2, <3>1 DEF Kept, HasRow
  <2>3. UNCHANGED <<provider, now, channel, stopped>> /\ sub'[c].at = "over" /\ \A d \in Calls \ {c} : sub'[d] = sub[d] /\ rows'[d] = rows[d]
    BY <1>5, <1>t, InsertRowIs
  <2> QED BY <1>5, <1>t, <2>1, <2>2, <2>3, Numbers, InsertRowIs DEF Granted, LInv, MInv
<1>6. ASSUME NEW c \in Calls, InsertFails(c) PROVE Granted'
  BY <1>6, RestType DEF InsertFails, Granted, Kept, HasRow, LInv, MInv, TInv, Typed
<1>7. ASSUME NEW c \in Calls, Unsubscribe(c) PROVE Granted'
  <2>1. UNCHANGED <<provider, now, channel, rows, sub, stopped>>
    BY <1>7 DEF Unsubscribe
  <2> QED BY <2>1 DEF Granted, Kept, HasRow, LInv, MInv
<1>8. ASSUME NEW c \in Calls, ChannelStopped(c) PROVE Granted'
  BY <1>8, <1>t, StopsIs DEF Granted, Kept, HasRow, Mine, TInv, RowHasChannel, CallHasChannel,
                             LInv, MInv
<1>9. ASSUME NEW c \in Calls, StopUnanswered(c) PROVE Granted'
  BY <1>9, <1>t, StopsIs DEF Granted, Kept, HasRow, Mine, TInv, RowHasChannel, CallHasChannel,
                             LInv, MInv
<1>10. ASSUME NEW c \in Calls, DeleteRow(c) PROVE Granted'
  BY <1>10, RestType DEF DeleteRow, Granted, Kept, HasRow, LInv, MInv, TInv, Typed
<1>11. ASSUME NEW c \in Calls, DeleteFails(c) PROVE Granted'
  BY <1>11, RestType DEF DeleteFails, Granted, Kept, HasRow, LInv, MInv, TInv, Typed
<1>12. ASSUME NEW c \in Calls, CrashCall(c) PROVE Granted'
  BY <1>12, RestType DEF CrashCall, Granted, Kept, HasRow, LInv, MInv, TInv, Typed
<1>13. ASSUME NEW w \in Workers, StartPass(w) PROVE Granted'
  <2>1. UNCHANGED <<provider, now, channel, rows, sub, stopped>>
    BY <1>13, <1>t, StartPassIs
  <2> QED BY <2>1 DEF Granted, Kept, HasRow, LInv, MInv
<1>14. ASSUME NEW w \in Workers, NextWatch(w) PROVE Granted'
  <2>1. UNCHANGED <<provider, now, channel, rows, sub, stopped>>
    BY <1>14, <1>t, NextWatchIs
  <2> QED BY <2>1 DEF Granted, Kept, HasRow, LInv, MInv
<1>15. ASSUME NEW w \in Workers, Patched(w) PROVE Granted'
  <2>1. PICK ch \in Channels :
          /\ UNCHANGED channel \/ channel' = [channel EXCEPT ![ch] = now + Life[provider]]
          /\ UNCHANGED <<provider, now, rows, sub, stopped>>
    BY <1>15, <1>t, PatchedIs
  <2>2. \A d \in Channels : channel'[d] = channel[d] \/ channel'[d] = now + Life[provider]
    BY <2>1 DEF LInv, MInv, TInv, Typed
  <2>3. ASSUME NEW d \in Calls, Kept(d)
        PROVE  rows[d].channel \in Channels /\ channel'[rows[d].channel] >= rows[d].expiresAt
    BY <2>2, <2>3, Numbers DEF Kept, Granted, LInv, MInv, TInv, RowHasChannel
  <2>4. ASSUME NEW d \in Calls, sub[d].at = "insert" PROVE channel'[sub[d].channel] = now + Life[provider]
    BY <2>2, <2>4 DEF Granted, LInv, MInv, TInv, CallHasChannel
  <2> QED BY <2>1, <2>3, <2>4 DEF Granted, Kept, HasRow, LInv, MInv
<1>16. ASSUME NEW w \in Workers, PatchUnanswered(w) PROVE Granted'
  <2>1. PICK ch \in Channels :
          /\ UNCHANGED channel \/ channel' = [channel EXCEPT ![ch] = now + Life[provider]]
          /\ UNCHANGED <<provider, now, rows, sub, stopped>>
    BY <1>16, <1>t, PatchUnansweredIs
  <2>2. \A d \in Channels : channel'[d] = channel[d] \/ channel'[d] = now + Life[provider]
    BY <2>1 DEF LInv, MInv, TInv, Typed
  <2>3. ASSUME NEW d \in Calls, Kept(d)
        PROVE  rows[d].channel \in Channels /\ channel'[rows[d].channel] >= rows[d].expiresAt
    BY <2>2, <2>3, Numbers DEF Kept, Granted, LInv, MInv, TInv, RowHasChannel
  <2>4. ASSUME NEW d \in Calls, sub[d].at = "insert" PROVE channel'[sub[d].channel] = now + Life[provider]
    BY <2>2, <2>4 DEF Granted, LInv, MInv, TInv, CallHasChannel
  <2> QED BY <2>1, <2>3, <2>4 DEF Granted, Kept, HasRow, LInv, MInv
<1>17. ASSUME NEW w \in Workers, UpdateRow(w) PROVE Granted'
  <2>1. PICK c \in Calls, ch \in Channels :
          /\ pass[w].cur = {<<c, ch>>} /\ pass[w].at = "update"
          /\ \A d \in Calls \ {c} : rows'[d] = rows[d]
          /\ \/ ~HasRow(c) /\ rows'[c] = rows[c]
             \/ HasRow(c) /\ rows'[c].channel = ch /\ rows'[c].expiresAt = now + Life[provider]
          /\ UNCHANGED <<provider, now, channel, sub, stopped>>
    BY <1>17, <1>t, UpdateRowIs
  <2>2. c \in stopped \/ channel[ch] = now + Life[provider]
    BY <2>1 DEF Extended, ExtendedOf, LInv, MInv
  <2>3. ASSUME NEW d \in Calls, Kept(d)'
        PROVE  /\ rows'[d].expiresAt > now /\ rows'[d].expiresAt <= now + Life[provider]
               /\ channel[rows'[d].channel] >= rows'[d].expiresAt
    <3>1. CASE d # c
      BY <2>1, <2>3, <3>1 DEF Granted, Kept, HasRow, LInv, MInv
    <3>2. CASE d = c
      BY <2>1, <2>2, <2>3, <3>2, Numbers DEF Kept, HasRow
    <3> QED BY <3>1, <3>2
  <2> QED BY <2>1, <2>3 DEF Granted, LInv, MInv
<1>18. ASSUME NEW w \in Workers, UpdateFails(w) PROVE Granted'
  <2>1. UNCHANGED <<provider, now, channel, rows, sub, stopped>>
    BY <1>18, <1>t, UpdateFailsIs
  <2> QED BY <2>1 DEF Granted, Kept, HasRow, LInv, MInv
<1>19. ASSUME NEW w \in Workers, EndPass(w) PROVE Granted'
  <2>1. UNCHANGED <<provider, now, channel, rows, sub, stopped>>
    BY <1>19, <1>t, RestsIs
  <2> QED BY <2>1 DEF Granted, Kept, HasRow, LInv, MInv
<1>20. ASSUME NEW w \in Workers, CrashWorker(w) PROVE Granted'
  <2>1. UNCHANGED <<provider, now, channel, rows, sub, stopped>>
    BY <1>20, <1>t, RestsIs
  <2> QED BY <2>1 DEF Granted, Kept, HasRow, LInv, MInv
<1>21. CASE DeleteAccount
  BY <1>21 DEF DeleteAccount, Granted, Kept, HasRow, LInv, MInv
<1>22. CASE Tick
  <2>1. now' = now + 1 /\ renewed /\ UNCHANGED <<provider, channel, rows, sub, stopped>>
    BY <1>22 DEF Tick
  <2>2. \A c \in Calls : sub'[c].at # "insert"
    BY <1>22, RestType DEF Tick
  <2>3. ASSUME NEW c \in Calls, Kept(c)
        PROVE  /\ rows[c].expiresAt > now + 1 /\ rows[c].expiresAt <= (now + 1) + Life[provider]
               /\ channel[rows[c].channel] >= rows[c].expiresAt
    BY <2>1, <2>3, Numbers DEF AllRenewed, Granted, LInv, MInv
  <2> QED BY <2>1, <2>2, <2>3 DEF Granted, Kept, HasRow
<1>23. CASE UNCHANGED watchVars
  BY <1>23 DEF watchVars, Granted, Kept, HasRow, LInv, MInv
<1> QED
  BY <1>1, <1>2, <1>3, <1>4, <1>5, <1>6, <1>7, <1>8, <1>9, <1>10, <1>11, <1>12, <1>13, <1>14,
     <1>15, <1>16, <1>17, <1>18, <1>19, <1>20, <1>21, <1>22, <1>23
    DEF Next, CallStep, PassStep

LEMMA ExtendedNext == LInv /\ [Next]_watchVars => Extended'
<1> SUFFICES ASSUME LInv, [Next]_watchVars PROVE Extended'
  OBVIOUS
<1>t. TInv /\ MInv
  BY DEF LInv, MInv
<1>1. ASSUME NEW c \in Calls, Subscribe(c) PROVE Extended'
  <2>1. UNCHANGED <<provider, now, channel, pass, stopped>>
    BY <1>1 DEF Subscribe
  <2> QED BY <2>1 DEF Extended, ExtendedOf, LInv, MInv
<1>2. ASSUME NEW c \in Calls, ChannelCreated(c) PROVE Extended'
  <2>1. ASSUME NEW w \in Workers, NEW d \in Calls, NEW ch \in Channels, <<d, ch>> \in pass[w].cur PROVE channel'[ch] = channel[ch]
    BY <1>2, <1>t, <2>1, CreatesIs DEF Batches, BatchOf, LInv, MInv
  <2>2. UNCHANGED <<provider, now, pass, stopped>>
    BY <1>2, <1>t, CreatesIs
  <2> QED BY <2>1, <2>2 DEF Extended, ExtendedOf, LInv, MInv
<1>3. ASSUME NEW c \in Calls, CreateUnanswered(c) PROVE Extended'
  <2>1. ASSUME NEW w \in Workers, NEW d \in Calls, NEW ch \in Channels, <<d, ch>> \in pass[w].cur PROVE channel'[ch] = channel[ch]
    BY <1>3, <1>t, <2>1, CreatesIs DEF Batches, BatchOf, LInv, MInv
  <2>2. UNCHANGED <<provider, now, pass, stopped>>
    BY <1>3, <1>t, CreatesIs
  <2> QED BY <2>1, <2>2 DEF Extended, ExtendedOf, LInv, MInv
<1>4. ASSUME NEW c \in Calls, ChannelIdTaken(c) PROVE Extended'
  <2>1. ASSUME NEW w \in Workers, NEW d \in Calls, NEW ch \in Channels, <<d, ch>> \in pass[w].cur PROVE channel'[ch] = channel[ch]
    BY <1>4, <1>t, <2>1, CreatesIs DEF Batches, BatchOf, LInv, MInv
  <2>2. UNCHANGED <<provider, now, pass, stopped>>
    BY <1>4, <1>t, CreatesIs
  <2> QED BY <2>1, <2>2 DEF Extended, ExtendedOf, LInv, MInv
<1>5. ASSUME NEW c \in Calls, InsertRow(c) PROVE Extended'
  <2>1. UNCHANGED <<provider, now, channel, pass, stopped>>
    BY <1>5, <1>t, InsertRowIs
  <2> QED BY <2>1 DEF Extended, ExtendedOf, LInv, MInv
<1>6. ASSUME NEW c \in Calls, InsertFails(c) PROVE Extended'
  <2>1. UNCHANGED <<provider, now, channel, pass, stopped>>
    BY <1>6 DEF InsertFails
  <2> QED BY <2>1 DEF Extended, ExtendedOf, LInv, MInv
<1>7. ASSUME NEW c \in Calls, Unsubscribe(c) PROVE Extended'
  <2>1. UNCHANGED <<provider, now, channel, pass, stopped>>
    BY <1>7 DEF Unsubscribe
  <2> QED BY <2>1 DEF Extended, ExtendedOf, LInv, MInv
<1>8. ASSUME NEW c \in Calls, ChannelStopped(c) PROVE Extended'
  <2>1. ASSUME NEW w \in Workers, NEW d \in Calls, NEW ch \in Channels, <<d, ch>> \in pass[w].cur
        PROVE  channel'[ch] = channel[ch] \/ d \in stopped'
    BY <1>8, <1>t, <2>1, StopsIs DEF Batches, BatchOf, LInv, MInv
  <2>2. UNCHANGED <<provider, now, pass>> /\ stopped \subseteq stopped'
    BY <1>8, <1>t, StopsIs
  <2> QED BY <2>1, <2>2 DEF Extended, ExtendedOf, LInv, MInv
<1>9. ASSUME NEW c \in Calls, StopUnanswered(c) PROVE Extended'
  <2>1. ASSUME NEW w \in Workers, NEW d \in Calls, NEW ch \in Channels, <<d, ch>> \in pass[w].cur
        PROVE  channel'[ch] = channel[ch] \/ d \in stopped'
    BY <1>9, <1>t, <2>1, StopsIs DEF Batches, BatchOf, LInv, MInv
  <2>2. UNCHANGED <<provider, now, pass>> /\ stopped \subseteq stopped'
    BY <1>9, <1>t, StopsIs
  <2> QED BY <2>1, <2>2 DEF Extended, ExtendedOf, LInv, MInv
<1>10. ASSUME NEW c \in Calls, DeleteRow(c) PROVE Extended'
  <2>1. UNCHANGED <<provider, now, channel, pass, stopped>>
    BY <1>10 DEF DeleteRow
  <2> QED BY <2>1 DEF Extended, ExtendedOf, LInv, MInv
<1>11. ASSUME NEW c \in Calls, DeleteFails(c) PROVE Extended'
  <2>1. UNCHANGED <<provider, now, channel, pass, stopped>>
    BY <1>11 DEF DeleteFails
  <2> QED BY <2>1 DEF Extended, ExtendedOf, LInv, MInv
<1>12. ASSUME NEW c \in Calls, CrashCall(c) PROVE Extended'
  <2>1. UNCHANGED <<provider, now, channel, pass, stopped>>
    BY <1>12 DEF CrashCall
  <2> QED BY <2>1 DEF Extended, ExtendedOf, LInv, MInv
<1>13. ASSUME NEW w \in Workers, StartPass(w) PROVE Extended'
  <2>1. CASE Expiring = {} /\ UNCHANGED pass
    BY <1>13, <1>t, <2>1, StartPassIs DEF Extended, ExtendedOf, LInv, MInv
  <2>2. CASE PassIs(w, "next", {<<c, rows[c].channel>> : c \in Expiring}, {}, TRUE)
    <3>1. UNCHANGED <<provider, now, channel, stopped>>
      BY <1>13, <1>t, StartPassIs
    <3>2. pass'[w].at = "next" /\ \A v \in Workers \ {w} : pass'[v] = pass[v]
      BY <2>2 DEF PassIs
    <3> QED BY <3>1, <3>2 DEF Extended, ExtendedOf, LInv, MInv
  <2> QED BY <1>13, <1>t, <2>1, <2>2, StartPassIs
<1>14. ASSUME NEW w \in Workers, NextWatch(w) PROVE Extended'
  <2>1. PICK c \in Calls, ch \in Channels :
          /\ <<c, ch>> \in pass[w].batch /\ pass[w].at = "next"
          /\ \/ PassIs(w, "patch", pass[w].batch \ {<<c, ch>>}, {<<c, ch>>}, pass[w].clean)
             \/ /\ ~(account /\ provider = "microsoft")
                /\ PassIs(w, "next", pass[w].batch \ {<<c, ch>>}, {}, pass[w].clean)
          /\ UNCHANGED <<provider, account, now, channel, rows, sub, stopped>>
    BY <1>14, <1>t, NextWatchIs
  <2>8. ASSUME NEW v \in Workers \ {w} PROVE ExtendedOf(v)'
    BY <2>1 DEF PassIs, ExtendedOf, Extended, Batches, BatchOf, TInv, Typed, LInv, MInv
  <2>9. ExtendedOf(w)'
    BY <2>1 DEF PassIs, ExtendedOf, Extended, Batches, BatchOf, TInv, Typed, LInv, MInv
  <2> QED BY <2>8, <2>9 DEF Extended
<1>15. ASSUME NEW w \in Workers, Patched(w) PROVE Extended'
  <2>1. PICK c \in Calls, ch \in Channels :
          /\ pass[w].cur = {<<c, ch>>} /\ pass[w].at = "patch"
          /\ \/ /\ Open(ch) /\ channel' = [channel EXCEPT ![ch] = now + Life[provider]]
                /\ PassIs(w, "update", pass[w].batch, pass[w].cur, pass[w].clean)
             \/ ~Open(ch) /\ UNCHANGED channel /\ PassIs(w, "next", pass[w].batch, {}, pass[w].clean)
          /\ UNCHANGED <<provider, now, rows, sub, stopped>>
    BY <1>15, <1>t, PatchedIs DEF GoesOn
  <2>8. ASSUME NEW v \in Workers \ {w} PROVE ExtendedOf(v)'
    BY <2>1 DEF PassIs, ExtendedOf, Extended, Batches, BatchOf, TInv, Typed, LInv, MInv
  <2>9. ExtendedOf(w)'
    BY <2>1 DEF PassIs, ExtendedOf, Extended, Batches, BatchOf, TInv, Typed, LInv, MInv
  <2> QED BY <2>8, <2>9 DEF Extended
<1>16. ASSUME NEW w \in Workers, PatchUnanswered(w) PROVE Extended'
  <2>1. PICK c \in Calls, ch \in Channels :
          /\ pass[w].cur = {<<c, ch>>} /\ pass[w].at = "patch"
          /\ UNCHANGED channel \/ channel' = [channel EXCEPT ![ch] = now + Life[provider]]
          /\ \/ PassIs(w, "patch", pass[w].batch, pass[w].cur, pass[w].clean)
             \/ PassIs(w, "next", pass[w].batch, {}, FALSE)
          /\ UNCHANGED <<provider, now, rows, sub, stopped>>
    BY <1>16, <1>t, PatchUnansweredIs DEF GoesOn
  <2>8. ASSUME NEW v \in Workers \ {w} PROVE ExtendedOf(v)'
    BY <2>1 DEF PassIs, ExtendedOf, Extended, Batches, BatchOf, TInv, Typed, LInv, MInv
  <2>9. ExtendedOf(w)'
    BY <2>1 DEF PassIs, ExtendedOf, Extended, Batches, BatchOf, TInv, Typed, LInv, MInv
  <2> QED BY <2>8, <2>9 DEF Extended
<1>17. ASSUME NEW w \in Workers, UpdateRow(w) PROVE Extended'
  <2>1. PICK c \in Calls, ch \in Channels :
          /\ pass[w].cur = {<<c, ch>>} /\ pass[w].at = "update"
          /\ \A d \in Calls \ {c} : rows'[d] = rows[d]
          /\ \/ ~HasRow(c) /\ rows'[c] = rows[c]
             \/ HasRow(c) /\ rows'[c].channel = ch /\ rows'[c].expiresAt = now + Life[provider]
          /\ PassIs(w, "next", pass[w].batch, {}, pass[w].clean)
          /\ UNCHANGED <<provider, now, channel, sub, stopped>>
    BY <1>17, <1>t, UpdateRowIs DEF GoesOn
  <2>8. ASSUME NEW v \in Workers \ {w} PROVE ExtendedOf(v)'
    BY <2>1 DEF PassIs, ExtendedOf, Extended, Batches, BatchOf, TInv, Typed, LInv, MInv
  <2>9. ExtendedOf(w)'
    BY <2>1 DEF PassIs, ExtendedOf, Extended, Batches, BatchOf, TInv, Typed, LInv, MInv
  <2> QED BY <2>8, <2>9 DEF Extended
<1>18. ASSUME NEW w \in Workers, UpdateFails(w) PROVE Extended'
  <2>1. /\ PassIs(w, "next", pass[w].batch, {}, FALSE)
        /\ UNCHANGED <<provider, now, channel, rows, sub, stopped>>
    BY <1>18, <1>t, UpdateFailsIs DEF GoesOn
  <2>8. ASSUME NEW v \in Workers \ {w} PROVE ExtendedOf(v)'
    BY <2>1 DEF PassIs, ExtendedOf, Extended, Batches, BatchOf, TInv, Typed, LInv, MInv
  <2>9. ExtendedOf(w)'
    BY <2>1 DEF PassIs, ExtendedOf, Extended, Batches, BatchOf, TInv, Typed, LInv, MInv
  <2> QED BY <2>8, <2>9 DEF Extended
<1>19. ASSUME NEW w \in Workers, EndPass(w) PROVE Extended'
  <2>1. /\ PassIs(w, "rest", {}, {}, TRUE)
        /\ UNCHANGED <<provider, now, channel, rows, sub, stopped>>
    BY <1>19, <1>t, RestsIs
  <2>8. ASSUME NEW v \in Workers \ {w} PROVE ExtendedOf(v)'
    BY <2>1 DEF PassIs, ExtendedOf, Extended, Batches, BatchOf, TInv, Typed, LInv, MInv
  <2>9. ExtendedOf(w)'
    BY <2>1 DEF PassIs, ExtendedOf, Extended, Batches, BatchOf, TInv, Typed, LInv, MInv
  <2> QED BY <2>8, <2>9 DEF Extended
<1>20. ASSUME NEW w \in Workers, CrashWorker(w) PROVE Extended'
  <2>1. /\ PassIs(w, "rest", {}, {}, TRUE)
        /\ UNCHANGED <<provider, now, channel, rows, sub, stopped>>
    BY <1>20, <1>t, RestsIs
  <2>8. ASSUME NEW v \in Workers \ {w} PROVE ExtendedOf(v)'
    BY <2>1 DEF PassIs, ExtendedOf, Extended, Batches, BatchOf, TInv, Typed, LInv, MInv
  <2>9. ExtendedOf(w)'
    BY <2>1 DEF PassIs, ExtendedOf, Extended, Batches, BatchOf, TInv, Typed, LInv, MInv
  <2> QED BY <2>8, <2>9 DEF Extended
<1>21. CASE DeleteAccount
  <2>1. UNCHANGED <<provider, now, channel, pass, stopped>>
    BY <1>21 DEF DeleteAccount
  <2> QED BY <2>1 DEF Extended, ExtendedOf, LInv, MInv
<1>22. CASE Tick
  <2>1. UNCHANGED pass /\ \A w \in Workers : pass[w].at = "rest"
    BY <1>22 DEF Tick, NoPass
  <2> QED BY <2>1 DEF Extended, ExtendedOf
<1>23. CASE UNCHANGED watchVars
  BY <1>23 DEF watchVars, Extended, ExtendedOf, LInv, MInv
<1> QED
  BY <1>1, <1>2, <1>3, <1>4, <1>5, <1>6, <1>7, <1>8, <1>9, <1>10, <1>11, <1>12, <1>13, <1>14,
     <1>15, <1>16, <1>17, <1>18, <1>19, <1>20, <1>21, <1>22, <1>23
    DEF Next, CallStep, PassStep

LEMMA AheadNext == LInv /\ [Next]_watchVars => Ahead'
<1> SUFFICES ASSUME LInv, [Next]_watchVars PROVE Ahead'
  OBVIOUS
<1>t. TInv /\ MInv
  BY DEF LInv, MInv
<1>1. ASSUME NEW c \in Calls, Subscribe(c) PROVE Ahead'
  <2>1. UNCHANGED <<now, pass, rows, stopped>>
    BY <1>1 DEF Subscribe
  <2> QED BY <2>1 DEF Ahead, AheadOf, Kept, HasRow, LInv, MInv
<1>2. ASSUME NEW c \in Calls, ChannelCreated(c) PROVE Ahead'
  <2>1. UNCHANGED <<now, pass, rows, stopped>>
    BY <1>2, <1>t, CreatesIs
  <2> QED BY <2>1 DEF Ahead, AheadOf, Kept, HasRow, LInv, MInv
<1>3. ASSUME NEW c \in Calls, CreateUnanswered(c) PROVE Ahead'
  <2>1. UNCHANGED <<now, pass, rows, stopped>>
    BY <1>3, <1>t, CreatesIs
  <2> QED BY <2>1 DEF Ahead, AheadOf, Kept, HasRow, LInv, MInv
<1>4. ASSUME NEW c \in Calls, ChannelIdTaken(c) PROVE Ahead'
  <2>1. UNCHANGED <<now, pass, rows, stopped>>
    BY <1>4, <1>t, CreatesIs
  <2> QED BY <2>1 DEF Ahead, AheadOf, Kept, HasRow, LInv, MInv
<1>5. ASSUME NEW c \in Calls, InsertRow(c) PROVE Ahead'
  <2>1. ASSUME NEW d \in Calls, Kept(d)' PROVE rows'[d] = rows[d] \/ rows'[d].expiresAt >= now + Horizon
    BY <1>5, <1>t, Numbers, InsertRowIs DEF Granted, LInv, MInv
  <2>2. UNCHANGED <<now, pass, stopped>>
    BY <1>5, <1>t, InsertRowIs
  <2> QED BY <2>1, <2>2 DEF Ahead, AheadOf, Kept, HasRow, LInv, MInv
<1>6. ASSUME NEW c \in Calls, InsertFails(c) PROVE Ahead'
  <2>1. UNCHANGED <<now, pass, rows, stopped>>
    BY <1>6 DEF InsertFails
  <2> QED BY <2>1 DEF Ahead, AheadOf, Kept, HasRow, LInv, MInv
<1>7. ASSUME NEW c \in Calls, Unsubscribe(c) PROVE Ahead'
  <2>1. UNCHANGED <<now, pass, rows, stopped>>
    BY <1>7 DEF Unsubscribe
  <2> QED BY <2>1 DEF Ahead, AheadOf, Kept, HasRow, LInv, MInv
<1>8. ASSUME NEW c \in Calls, ChannelStopped(c) PROVE Ahead'
  <2>1. \A d \in Calls : Kept(d)' => Kept(d) /\ rows'[d] = rows[d]
    BY <1>8, <1>t, StopsIs DEF Kept, HasRow, LInv, MInv, TInv, Typed
  <2>2. UNCHANGED <<now, pass>>
    BY <1>8, <1>t, StopsIs
  <2> QED BY <2>1, <2>2 DEF Ahead, AheadOf, LInv, MInv
<1>9. ASSUME NEW c \in Calls, StopUnanswered(c) PROVE Ahead'
  <2>1. \A d \in Calls : Kept(d)' => Kept(d) /\ rows'[d] = rows[d]
    BY <1>9, <1>t, StopsIs DEF Kept, HasRow, LInv, MInv, TInv, Typed
  <2>2. UNCHANGED <<now, pass>>
    BY <1>9, <1>t, StopsIs
  <2> QED BY <2>1, <2>2 DEF Ahead, AheadOf, LInv, MInv
<1>10. ASSUME NEW c \in Calls, DeleteRow(c) PROVE Ahead'
  <2>1. \A d \in Calls : Kept(d)' => Kept(d) /\ rows'[d] = rows[d]
    BY <1>10 DEF DeleteRow, Kept, HasRow, LInv, MInv, TInv, Typed
  <2>2. UNCHANGED <<now, pass>>
    BY <1>10 DEF DeleteRow
  <2> QED BY <2>1, <2>2 DEF Ahead, AheadOf, LInv, MInv
<1>11. ASSUME NEW c \in Calls, DeleteFails(c) PROVE Ahead'
  <2>1. UNCHANGED <<now, pass, rows, stopped>>
    BY <1>11 DEF DeleteFails
  <2> QED BY <2>1 DEF Ahead, AheadOf, Kept, HasRow, LInv, MInv
<1>12. ASSUME NEW c \in Calls, CrashCall(c) PROVE Ahead'
  <2>1. UNCHANGED <<now, pass, rows, stopped>>
    BY <1>12 DEF CrashCall
  <2> QED BY <2>1 DEF Ahead, AheadOf, Kept, HasRow, LInv, MInv
<1>13. ASSUME NEW w \in Workers, StartPass(w) PROVE Ahead'
  <2>1. UNCHANGED <<now, rows, stopped>>
    BY <1>13, <1>t, StartPassIs
  <2>2. CASE Expiring = {} /\ UNCHANGED pass
    BY <2>1, <2>2 DEF Ahead, AheadOf, Kept, HasRow, LInv, MInv
  <2>3. CASE PassIs(w, "next", {<<c, rows[c].channel>> : c \in Expiring}, {}, TRUE)
    <3>1. ASSUME NEW c \in Calls, HasRow(c)
          PROVE  rows[c].expiresAt >= now + Horizon \/ <<c, rows[c].channel>> \in pass'[w].batch
      BY <2>3, <3>1, Numbers DEF PassIs, Expiring
    <3>2. AheadOf(w)'
      BY <2>1, <3>1 DEF AheadOf, Kept, HasRow
    <3>3. \A v \in Workers \ {w} : AheadOf(v)'
      BY <2>1, <2>3 DEF PassIs, Ahead, AheadOf, Kept, HasRow, LInv, MInv
    <3> QED BY <3>2, <3>3 DEF Ahead
  <2> QED BY <1>13, <1>t, <2>2, <2>3, StartPassIs
<1>14. ASSUME NEW w \in Workers, NextWatch(w) PROVE Ahead'
  <2>1. PICK c \in Calls, ch \in Channels :
          /\ <<c, ch>> \in pass[w].batch /\ pass[w].at = "next"
          /\ \/ PassIs(w, "patch", pass[w].batch \ {<<c, ch>>}, {<<c, ch>>}, pass[w].clean)
             \/ /\ ~(account /\ provider = "microsoft")
                /\ PassIs(w, "next", pass[w].batch \ {<<c, ch>>}, {}, pass[w].clean)
          /\ UNCHANGED <<provider, account, now, channel, rows, sub, stopped>>
    BY <1>14, <1>t, NextWatchIs
  <2>2. ASSUME NEW d \in Calls, Kept(d), <<d, rows[d].channel>> \in pass[w].batch \cup pass[w].cur
        PROVE  <<d, rows[d].channel>> \in pass'[w].batch \cup pass'[w].cur
    <3>1. account /\ provider = "microsoft"
      BY <2>2 DEF Kept, Mine, LInv, MInv
    <3>2. pass[w].cur = {}
      BY <2>1 DEF Batches, BatchOf, LInv, MInv
    <3>3. PassIs(w, "patch", pass[w].batch \ {<<c, ch>>}, {<<c, ch>>}, pass[w].clean)
      BY <2>1, <3>1
    <3> QED BY <2>2, <3>2, <3>3 DEF PassIs
  <2>3. pass'[w].clean = pass[w].clean /\ pass[w].at # "rest"
    BY <2>1 DEF PassIs
  <2>8. ASSUME NEW v \in Workers \ {w} PROVE AheadOf(v)'
    BY <2>1, <2>2, <2>3 DEF PassIs, AheadOf, Ahead, Kept, HasRow, LInv, MInv
  <2>9. AheadOf(w)'
    BY <2>1, <2>2, <2>3 DEF PassIs, AheadOf, Ahead, Kept, HasRow, LInv, MInv
  <2> QED BY <2>8, <2>9 DEF Ahead
<1>15. ASSUME NEW w \in Workers, Patched(w) PROVE Ahead'
  <2>1. PICK c \in Calls, ch \in Channels :
          /\ pass[w].cur = {<<c, ch>>} /\ pass[w].at = "patch"
          /\ \/ /\ Open(ch) /\ channel' = [channel EXCEPT ![ch] = now + Life[provider]]
                /\ PassIs(w, "update", pass[w].batch, pass[w].cur, pass[w].clean)
             \/ ~Open(ch) /\ UNCHANGED channel /\ PassIs(w, "next", pass[w].batch, {}, pass[w].clean)
          /\ UNCHANGED <<provider, now, rows, sub, stopped>>
    BY <1>15, <1>t, PatchedIs DEF GoesOn
  <2>2. ASSUME ~Open(ch), NEW d \in Calls, Kept(d) PROVE <<d, rows[d].channel>> \notin pass[w].cur
    BY <2>1, <2>2, Numbers DEF Granted, Kept, Open, LInv, MInv, TInv, RowHasChannel
  <2>8. ASSUME NEW v \in Workers \ {w} PROVE AheadOf(v)'
    BY <2>1, <2>2 DEF PassIs, AheadOf, Ahead, Kept, HasRow, LInv, MInv
  <2>9. AheadOf(w)'
    BY <2>1, <2>2 DEF PassIs, AheadOf, Ahead, Kept, HasRow, LInv, MInv
  <2> QED BY <2>8, <2>9 DEF Ahead
<1>16. ASSUME NEW w \in Workers, PatchUnanswered(w) PROVE Ahead'
  <2>1. PICK c \in Calls, ch \in Channels :
          /\ pass[w].cur = {<<c, ch>>} /\ pass[w].at = "patch"
          /\ UNCHANGED channel \/ channel' = [channel EXCEPT ![ch] = now + Life[provider]]
          /\ \/ PassIs(w, "patch", pass[w].batch, pass[w].cur, pass[w].clean)
             \/ PassIs(w, "next", pass[w].batch, {}, FALSE)
          /\ UNCHANGED <<provider, now, rows, sub, stopped>>
    BY <1>16, <1>t, PatchUnansweredIs DEF GoesOn
  <2>8. ASSUME NEW v \in Workers \ {w} PROVE AheadOf(v)'
    BY <2>1 DEF PassIs, AheadOf, Ahead, Kept, HasRow, LInv, MInv
  <2>9. AheadOf(w)'
    BY <2>1 DEF PassIs, AheadOf, Ahead, Kept, HasRow, LInv, MInv
  <2> QED BY <2>8, <2>9 DEF Ahead
<1>17. ASSUME NEW w \in Workers, UpdateRow(w) PROVE Ahead'
  <2>1. PICK c \in Calls, ch \in Channels :
          /\ pass[w].cur = {<<c, ch>>} /\ pass[w].at = "update"
          /\ \A d \in Calls \ {c} : rows'[d] = rows[d]
          /\ \/ ~HasRow(c) /\ rows'[c] = rows[c]
             \/ HasRow(c) /\ rows'[c].channel = ch /\ rows'[c].expiresAt = now + Life[provider]
          /\ PassIs(w, "next", pass[w].batch, {}, pass[w].clean)
          /\ UNCHANGED <<provider, now, channel, sub, stopped>>
    BY <1>17, <1>t, UpdateRowIs DEF GoesOn
  <2>2. \A d \in Calls : HasRow(d)' => HasRow(d)
    BY <2>1 DEF HasRow
  <2>3. ASSUME NEW d \in Calls, HasRow(d)
        PROVE  \/ rows'[d] = rows[d] /\ <<d, rows[d].channel>> \notin pass[w].cur
               \/ rows'[d].expiresAt >= now + Horizon
    <3>1. CASE d = c
      BY <2>1, <2>3, <3>1, Numbers
    <3>2. CASE d # c
      BY <2>1, <3>2
    <3> QED BY <3>1, <3>2
  <2>8. ASSUME NEW v \in Workers \ {w} PROVE AheadOf(v)'
    BY <2>1, <2>2, <2>3 DEF PassIs, AheadOf, Ahead, Kept, LInv, MInv
  <2>9. AheadOf(w)'
    BY <2>1, <2>2, <2>3 DEF PassIs, AheadOf, Ahead, Kept, LInv, MInv
  <2> QED BY <2>8, <2>9 DEF Ahead
<1>18. ASSUME NEW w \in Workers, UpdateFails(w) PROVE Ahead'
  <2>1. /\ PassIs(w, "next", pass[w].batch, {}, FALSE)
        /\ UNCHANGED <<provider, now, channel, rows, sub, stopped>>
    BY <1>18, <1>t, UpdateFailsIs DEF GoesOn
  <2>8. ASSUME NEW v \in Workers \ {w} PROVE AheadOf(v)'
    BY <2>1 DEF PassIs, AheadOf, Ahead, Kept, HasRow, LInv, MInv
  <2>9. AheadOf(w)'
    BY <2>1 DEF PassIs, AheadOf, Ahead, Kept, HasRow, LInv, MInv
  <2> QED BY <2>8, <2>9 DEF Ahead
<1>19. ASSUME NEW w \in Workers, EndPass(w) PROVE Ahead'
  <2>1. /\ PassIs(w, "rest", {}, {}, TRUE)
        /\ UNCHANGED <<provider, now, channel, rows, sub, stopped>>
    BY <1>19, <1>t, RestsIs
  <2>8. ASSUME NEW v \in Workers \ {w} PROVE AheadOf(v)'
    BY <2>1 DEF PassIs, AheadOf, Ahead, Kept, HasRow, LInv, MInv
  <2>9. AheadOf(w)'
    BY <2>1 DEF PassIs, AheadOf, Ahead, Kept, HasRow, LInv, MInv
  <2> QED BY <2>8, <2>9 DEF Ahead
<1>20. ASSUME NEW w \in Workers, CrashWorker(w) PROVE Ahead'
  <2>1. /\ PassIs(w, "rest", {}, {}, TRUE)
        /\ UNCHANGED <<provider, now, channel, rows, sub, stopped>>
    BY <1>20, <1>t, RestsIs
  <2>8. ASSUME NEW v \in Workers \ {w} PROVE AheadOf(v)'
    BY <2>1 DEF PassIs, AheadOf, Ahead, Kept, HasRow, LInv, MInv
  <2>9. AheadOf(w)'
    BY <2>1 DEF PassIs, AheadOf, Ahead, Kept, HasRow, LInv, MInv
  <2> QED BY <2>8, <2>9 DEF Ahead
<1>21. CASE DeleteAccount
  <2>1. \A d \in Calls : Kept(d)' => Kept(d) /\ rows'[d] = rows[d]
    BY <1>21 DEF DeleteAccount, Kept, HasRow, LInv, MInv, TInv, Typed
  <2>2. UNCHANGED <<now, pass>>
    BY <1>21 DEF DeleteAccount
  <2> QED BY <2>1, <2>2 DEF Ahead, AheadOf, LInv, MInv
<1>22. CASE Tick
  <2>1. UNCHANGED pass /\ \A w \in Workers : pass[w].at = "rest"
    BY <1>22 DEF Tick, NoPass
  <2> QED BY <2>1 DEF Ahead, AheadOf
<1>23. CASE UNCHANGED watchVars
  BY <1>23 DEF watchVars, Ahead, AheadOf, Kept, HasRow, LInv, MInv
<1> QED
  BY <1>1, <1>2, <1>3, <1>4, <1>5, <1>6, <1>7, <1>8, <1>9, <1>10, <1>11, <1>12, <1>13, <1>14,
     <1>15, <1>16, <1>17, <1>18, <1>19, <1>20, <1>21, <1>22, <1>23
    DEF Next, CallStep, PassStep

LEMMA RenewedNext == LInv /\ [Next]_watchVars => AllRenewed'
<1> SUFFICES ASSUME LInv, [Next]_watchVars PROVE AllRenewed'
  OBVIOUS
<1>t. TInv /\ MInv
  BY DEF LInv, MInv
<1>1. ASSUME NEW c \in Calls, Subscribe(c) PROVE AllRenewed'
  <2>1. UNCHANGED <<now, renewed, rows, stopped>>
    BY <1>1 DEF Subscribe
  <2> QED BY <2>1 DEF AllRenewed, Kept, HasRow, LInv, MInv
<1>2. ASSUME NEW c \in Calls, ChannelCreated(c) PROVE AllRenewed'
  <2>1. UNCHANGED <<now, renewed, rows, stopped>>
    BY <1>2, <1>t, CreatesIs
  <2> QED BY <2>1 DEF AllRenewed, Kept, HasRow, LInv, MInv
<1>3. ASSUME NEW c \in Calls, CreateUnanswered(c) PROVE AllRenewed'
  <2>1. UNCHANGED <<now, renewed, rows, stopped>>
    BY <1>3, <1>t, CreatesIs
  <2> QED BY <2>1 DEF AllRenewed, Kept, HasRow, LInv, MInv
<1>4. ASSUME NEW c \in Calls, ChannelIdTaken(c) PROVE AllRenewed'
  <2>1. UNCHANGED <<now, renewed, rows, stopped>>
    BY <1>4, <1>t, CreatesIs
  <2> QED BY <2>1 DEF AllRenewed, Kept, HasRow, LInv, MInv
<1>5. ASSUME NEW c \in Calls, InsertRow(c) PROVE AllRenewed'
  <2>1. ASSUME NEW d \in Calls, Kept(d)' PROVE rows'[d] = rows[d] \/ rows'[d].expiresAt >= now + Horizon
    BY <1>5, <1>t, Numbers, InsertRowIs DEF Granted, LInv, MInv
  <2>2. UNCHANGED <<now, renewed, stopped>>
    BY <1>5, <1>t, InsertRowIs
  <2> QED BY <2>1, <2>2 DEF AllRenewed, Kept, HasRow, LInv, MInv
<1>6. ASSUME NEW c \in Calls, InsertFails(c) PROVE AllRenewed'
  <2>1. UNCHANGED <<now, renewed, rows, stopped>>
    BY <1>6 DEF InsertFails
  <2> QED BY <2>1 DEF AllRenewed, Kept, HasRow, LInv, MInv
<1>7. ASSUME NEW c \in Calls, Unsubscribe(c) PROVE AllRenewed'
  <2>1. UNCHANGED <<now, renewed, rows, stopped>>
    BY <1>7 DEF Unsubscribe
  <2> QED BY <2>1 DEF AllRenewed, Kept, HasRow, LInv, MInv
<1>8. ASSUME NEW c \in Calls, ChannelStopped(c) PROVE AllRenewed'
  <2>1. \A d \in Calls : Kept(d)' => Kept(d) /\ rows'[d] = rows[d]
    BY <1>8, <1>t, StopsIs DEF Kept, HasRow, LInv, MInv, TInv, Typed
  <2>2. UNCHANGED <<now, renewed>>
    BY <1>8, <1>t, StopsIs
  <2> QED BY <2>1, <2>2 DEF AllRenewed, LInv, MInv
<1>9. ASSUME NEW c \in Calls, StopUnanswered(c) PROVE AllRenewed'
  <2>1. \A d \in Calls : Kept(d)' => Kept(d) /\ rows'[d] = rows[d]
    BY <1>9, <1>t, StopsIs DEF Kept, HasRow, LInv, MInv, TInv, Typed
  <2>2. UNCHANGED <<now, renewed>>
    BY <1>9, <1>t, StopsIs
  <2> QED BY <2>1, <2>2 DEF AllRenewed, LInv, MInv
<1>10. ASSUME NEW c \in Calls, DeleteRow(c) PROVE AllRenewed'
  <2>1. \A d \in Calls : Kept(d)' => Kept(d) /\ rows'[d] = rows[d]
    BY <1>10 DEF DeleteRow, Kept, HasRow, LInv, MInv, TInv, Typed
  <2>2. UNCHANGED <<now, renewed>>
    BY <1>10 DEF DeleteRow
  <2> QED BY <2>1, <2>2 DEF AllRenewed, LInv, MInv
<1>11. ASSUME NEW c \in Calls, DeleteFails(c) PROVE AllRenewed'
  <2>1. UNCHANGED <<now, renewed, rows, stopped>>
    BY <1>11 DEF DeleteFails
  <2> QED BY <2>1 DEF AllRenewed, Kept, HasRow, LInv, MInv
<1>12. ASSUME NEW c \in Calls, CrashCall(c) PROVE AllRenewed'
  <2>1. UNCHANGED <<now, renewed, rows, stopped>>
    BY <1>12 DEF CrashCall
  <2> QED BY <2>1 DEF AllRenewed, Kept, HasRow, LInv, MInv
<1>13. ASSUME NEW w \in Workers, StartPass(w) PROVE AllRenewed'
  <2>1. UNCHANGED <<now, rows, stopped>> /\ (Expiring = {} \/ UNCHANGED renewed)
    BY <1>13, <1>t, StartPassIs
  <2>2. Expiring = {} => \A c \in Calls : HasRow(c) => rows[c].expiresAt >= now + Horizon
    BY Numbers DEF Expiring
  <2> QED BY <2>1, <2>2 DEF AllRenewed, Kept, HasRow, LInv, MInv
<1>14. ASSUME NEW w \in Workers, NextWatch(w) PROVE AllRenewed'
  <2>1. UNCHANGED <<now, renewed, rows, stopped>>
    BY <1>14, <1>t, NextWatchIs
  <2> QED BY <2>1 DEF AllRenewed, Kept, HasRow, LInv, MInv
<1>15. ASSUME NEW w \in Workers, Patched(w) PROVE AllRenewed'
  <2>1. UNCHANGED <<now, renewed, rows, stopped>>
    BY <1>15, <1>t, PatchedIs
  <2> QED BY <2>1 DEF AllRenewed, Kept, HasRow, LInv, MInv
<1>16. ASSUME NEW w \in Workers, PatchUnanswered(w) PROVE AllRenewed'
  <2>1. UNCHANGED <<now, renewed, rows, stopped>>
    BY <1>16, <1>t, PatchUnansweredIs
  <2> QED BY <2>1 DEF AllRenewed, Kept, HasRow, LInv, MInv
<1>17. ASSUME NEW w \in Workers, UpdateRow(w) PROVE AllRenewed'
  <2>1. ASSUME NEW d \in Calls PROVE rows'[d] = rows[d] \/ rows'[d].expiresAt >= now + Horizon
    <3>1. rows'[d] = rows[d] \/ rows'[d].expiresAt = now + Life[provider]
      BY <1>17, <1>t, UpdateRowIs
    <3> QED BY <3>1, Numbers
  <2>2. UNCHANGED <<now, renewed, stopped>>
    BY <1>17, <1>t, UpdateRowIs
  <2> QED BY <2>1, <2>2 DEF AllRenewed, Kept, HasRow, LInv, MInv
<1>18. ASSUME NEW w \in Workers, UpdateFails(w) PROVE AllRenewed'
  <2>1. UNCHANGED <<now, renewed, rows, stopped>>
    BY <1>18, <1>t, UpdateFailsIs
  <2> QED BY <2>1 DEF AllRenewed, Kept, HasRow, LInv, MInv
<1>19. ASSUME NEW w \in Workers, EndPass(w) PROVE AllRenewed'
  <2>1. UNCHANGED <<now, rows, stopped>>
    BY <1>19, <1>t, RestsIs
  <2>2. renewed' => renewed \/ pass[w].clean
    BY <1>19 DEF EndPass
  <2>3. pass[w].at = "next" /\ pass[w].batch = {} /\ pass[w].cur = {}
    BY <1>19 DEF EndPass, Batches, BatchOf, LInv, MInv
  <2>4. pass[w].clean => \A c \in Calls : Kept(c) => rows[c].expiresAt >= now + Horizon
    BY <2>3 DEF Ahead, AheadOf, LInv, MInv
  <2> QED BY <2>1, <2>2, <2>4 DEF AllRenewed, Kept, HasRow, LInv, MInv
<1>20. ASSUME NEW w \in Workers, CrashWorker(w) PROVE AllRenewed'
  <2>1. UNCHANGED <<now, renewed, rows, stopped>>
    BY <1>20, <1>t, RestsIs DEF CrashWorker
  <2> QED BY <2>1 DEF AllRenewed, Kept, HasRow, LInv, MInv
<1>21. CASE DeleteAccount
  <2>1. \A d \in Calls : Kept(d)' => Kept(d) /\ rows'[d] = rows[d]
    BY <1>21 DEF DeleteAccount, Kept, HasRow, LInv, MInv, TInv, Typed
  <2>2. UNCHANGED <<now, renewed>>
    BY <1>21 DEF DeleteAccount
  <2> QED BY <2>1, <2>2 DEF AllRenewed, LInv, MInv
<1>22. CASE Tick
  BY <1>22 DEF Tick, AllRenewed
<1>23. CASE UNCHANGED watchVars
  BY <1>23 DEF watchVars, AllRenewed, Kept, HasRow, LInv, MInv
<1> QED
  BY <1>1, <1>2, <1>3, <1>4, <1>5, <1>6, <1>7, <1>8, <1>9, <1>10, <1>11, <1>12, <1>13, <1>14,
     <1>15, <1>16, <1>17, <1>18, <1>19, <1>20, <1>21, <1>22, <1>23
    DEF Next, CallStep, PassStep

LEMMA LInvNext == LInv /\ [Next]_watchVars => LInv'
<1> SUFFICES ASSUME LInv, [Next]_watchVars PROVE LInv'
  OBVIOUS
<1>1. TInv' /\ Mine' /\ Batches' /\ Granted' /\ Extended' /\ Ahead' /\ AllRenewed'
  BY TInvNext, MineNext, BatchesNext, GrantedNext, ExtendedNext, AheadNext, RenewedNext DEF LInv, MInv
<1>2. UNCHANGED provider
  BY DEF Next, CallStep, PassStep, Tick, watchVars, DeleteAccount, Subscribe, ChannelCreated,
         CreateUnanswered,
        ChannelIdTaken, InsertRow, InsertFails, Unsubscribe, ChannelStopped, StopUnanswered, DeleteRow,
        DeleteFails, CrashCall, StartPass, NextWatch, Patched, UpdateRow, EndPass, PatchUnanswered,
        UpdateFails, CrashWorker
<1> QED BY <1>1, <1>2 DEF LInv, MInv, RenewsInTime

LEMMA LInvInit == Init /\ provider = "microsoft" /\ RenewsInTime => LInv
<1> SUFFICES ASSUME Init, provider = "microsoft", RenewsInTime PROVE LInv
  OBVIOUS
<1>1. TInv
  BY TypedInit DEF TInv
<1>2. /\ \A c \in Calls : ~HasRow(c) /\ sub[c].at = "rest" /\ unsub[c].at = "rest"
      /\ stopped = {} /\ renewed = FALSE
  BY RestType DEF Init, HasRow
<1>3. \A w \in Workers : pass[w].at = "rest" /\ pass[w].batch = {} /\ pass[w].cur = {}
  BY DEF Init, PassAt
<1>4. Mine /\ Batches /\ Granted
  BY <1>2, <1>3 DEF Mine, Batches, BatchOf, Granted, Kept
<1>5. Extended /\ Ahead /\ AllRenewed
  BY <1>2, <1>3 DEF Extended, ExtendedOf, Ahead, AheadOf, AllRenewed, Kept
<1> QED BY <1>1, <1>4, <1>5 DEF LInv, MInv

LEMMA OtherProvider == provider # "microsoft" /\ [Next]_watchVars => (provider # "microsoft")'
BY DEF Next, CallStep, PassStep, Tick, watchVars, DeleteAccount, Subscribe, ChannelCreated,
       CreateUnanswered,
      ChannelIdTaken, InsertRow, InsertFails, Unsubscribe, ChannelStopped, StopUnanswered, DeleteRow,
      DeleteFails, CrashCall, StartPass, NextWatch, Patched, UpdateRow, EndPass, PatchUnanswered,
      UpdateFails, CrashWorker

\* StoredWatchIsLive, for any number of calls, overlapping passes and faults and any
\* stretch of time: renewing two half days ahead is enough (workers/watchRenew.ts).
THEOREM StoredWatchesStayOpen ==
  ASSUME RenewsInTime
  PROVE  Spec => []StoredWatchIsLive
<1> DEFINE Inv == LInv \/ provider # "microsoft"
<1>1. Init => Inv
  BY LInvInit
<1>2. Inv /\ [Next]_watchVars => Inv'
  BY LInvNext, OtherProvider
<1>3. Inv => StoredWatchIsLive
  <2> SUFFICES ASSUME LInv, NEW c \in Calls, HasRow(c), c \notin stopped PROVE Open(rows[c].channel)
    BY DEF StoredWatchIsLive, Inv
  <2>1. Kept(c) /\ rows[c].channel \in Channels
    BY DEF Kept, LInv, MInv, TInv, RowHasChannel
  <2>2. rows[c].expiresAt > now /\ channel[rows[c].channel] >= rows[c].expiresAt
    BY <2>1 DEF LInv, MInv, Granted
  <2> QED BY <2>1, <2>2, Numbers DEF Open
<1> QED BY <1>1, <1>2, <1>3, PTL DEF Spec

-----------------------------------------------------------------------------
(* The channels without a row are accounted for *)

\* A stop deals with the channel of the row, and a call holds none but one to insert.
StopsItsRow == \A c \in Calls : unsub[c].at # "rest" /\ HasRow(c) => unsub[c].channel = rows[c].channel
HoldsNone == \A c \in Calls : sub[c].at # "insert" => sub[c].channel = NoChannel

\* Every open channel without a row, or about to lose it.  A fault is counted when a
\* stop goes unanswered, the row only dropped in a later step.
Dropping(ch) == Open(ch) /\ \E c \in Calls : unsub[c].at = "delete" /\ unsub[c].channel = ch
Loose == {ch \in Channels : ch \in Orphans \/ Dropping(ch)}
LooseAccounted == account => IsFiniteSet(Loose) /\ Cardinality(Loose) <= faults

OInv == MInv /\ StopsItsRow /\ HoldsNone /\ LooseAccounted

LEMMA NoneIsNoChannel == NoChannel \notin Channels
BY DEF NoChannel, Channels

LEMMA StopsItsRowNext == MInv /\ StopsItsRow /\ [Next]_watchVars => StopsItsRow'
<1> SUFFICES ASSUME MInv, StopsItsRow, [Next]_watchVars PROVE StopsItsRow'
  OBVIOUS
<1>t. TInv
  BY DEF MInv
<1>a. ASSUME UNCHANGED rows, \A c \in Calls : unsub'[c].at # "rest" /\ HasRow(c) => unsub'[c].channel = rows[c].channel
      PROVE  StopsItsRow'
  BY <1>a DEF StopsItsRow, HasRow
<1>b. ASSUME UNCHANGED <<rows, unsub>> PROVE StopsItsRow'
  BY <1>b, <1>a DEF StopsItsRow
<1>c. unsub \in [Calls -> Calling]
  BY <1>t DEF TInv, Typed
<1>1. ASSUME NEW c \in Calls, InsertRow(c) PROVE StopsItsRow'
  <2>1. unsub[c].at = "rest" /\ UNCHANGED unsub /\ \A d \in Calls \ {c} : rows'[d] = rows[d]
    BY <1>1, <1>t, InsertRowIs DEF MInv, Mine
  <2> QED BY <2>1 DEF StopsItsRow, HasRow
<1>2. ASSUME NEW c \in Calls, Unsubscribe(c) PROVE StopsItsRow'
  BY <1>2, <1>a, <1>c, AtField DEF Unsubscribe, StopsItsRow
<1>3. ASSUME NEW c \in Calls, ChannelStopped(c) PROVE StopsItsRow'
  BY <1>3, <1>a, <1>c, AtField, RestType DEF ChannelStopped, StopsItsRow
<1>4. ASSUME NEW c \in Calls, StopUnanswered(c) PROVE StopsItsRow'
  <2>1. /\ Again("stop", unsub[c], Rest).at \in {"stop", "rest"}
        /\ Again("stop", unsub[c], Rest).at = "stop" => Again("stop", unsub[c], Rest).channel = unsub[c].channel
    BY AtField, RestType DEF Again
  <2>2. unsub[c].at = "stop" /\ UNCHANGED rows
    BY <1>4 DEF StopUnanswered
  <2>3. /\ \A d \in Calls \ {c} : unsub'[d] = unsub[d]
        /\ unsub'[c].at # "rest" => unsub'[c].channel = unsub[c].channel
    BY <1>4, <1>c, <2>1, AtField DEF StopUnanswered
  <2> QED BY <1>a, <2>2, <2>3 DEF StopsItsRow
<1>5. ASSUME NEW c \in Calls, DeleteRow(c) PROVE StopsItsRow'
  BY <1>5, <1>c, <1>t, RestType DEF DeleteRow, StopsItsRow, HasRow, TInv, Typed
<1>6. ASSUME NEW c \in Calls, DeleteFails(c) \/ CrashCall(c) PROVE StopsItsRow'
  BY <1>6, <1>a, <1>c, RestType DEF DeleteFails, CrashCall, StopsItsRow
<1>7. ASSUME NEW w \in Workers, UpdateRow(w) PROVE StopsItsRow'
  <2>1. PICK c \in Calls, ch \in Channels :
          /\ pass[w].cur = {<<c, ch>>}
          /\ \A d \in Calls \ {c} : rows'[d] = rows[d]
          /\ rows'[c] = rows[c] \/ (HasRow(c) /\ rows'[c].channel = ch)
          /\ UNCHANGED unsub
    BY <1>7, <1>t, UpdateRowIs
  <2>2. HasRow(c) => ch = rows[c].channel
    <3>1. <<c, ch>> \in pass[w].batch \cup pass[w].cur
      BY <2>1
    <3> QED BY <3>1 DEF MInv, Batches, BatchOf
  <2> QED BY <2>1, <2>2 DEF StopsItsRow, HasRow
<1>8. CASE DeleteAccount
  BY <1>8 DEF DeleteAccount, StopsItsRow, HasRow
<1>9. ASSUME NEW c \in Calls, Subscribe(c) \/ ChannelCreated(c) \/ CreateUnanswered(c) \/ ChannelIdTaken(c)
                              \/ InsertFails(c)
      PROVE  StopsItsRow'
  BY <1>9, <1>b DEF Subscribe, ChannelCreated, CreateUnanswered, ChannelIdTaken, InsertFails
<1>10. ASSUME NEW w \in Workers, StartPass(w) \/ NextWatch(w) \/ Patched(w) \/ EndPass(w)
                                 \/ PatchUnanswered(w) \/ UpdateFails(w) \/ CrashWorker(w)
       PROVE  StopsItsRow'
  BY <1>10, <1>b DEF StartPass, NextWatch, Patched, EndPass, PatchUnanswered, UpdateFails, CrashWorker
<1>11. CASE Tick \/ UNCHANGED watchVars
  BY <1>11, <1>b DEF Tick, watchVars
<1> QED BY <1>1, <1>2, <1>3, <1>4, <1>5, <1>6, <1>7, <1>8, <1>9, <1>10, <1>11 DEF Next, CallStep, PassStep

LEMMA HoldsNoneNext == MInv /\ HoldsNone /\ [Next]_watchVars => HoldsNone'
<1> SUFFICES ASSUME MInv, HoldsNone, [Next]_watchVars PROVE HoldsNone'
  OBVIOUS
<1>c. sub \in [Calls -> Calling]
  BY DEF MInv, TInv, Typed
<1>r. Rest.channel = NoChannel /\ Over.channel = NoChannel
  BY AtField DEF Rest, Over
<1>1. ASSUME NEW c \in Calls, NEW s, s.at # "insert" => s.channel = NoChannel, sub' = [sub EXCEPT ![c] = s]
      PROVE  HoldsNone'
  BY <1>1, <1>c DEF HoldsNone
<1>2. ASSUME NEW c \in Calls, Subscribe(c) PROVE HoldsNone'
  BY <1>2, <1>c, <1>r, AtField DEF Subscribe, HoldsNone
<1>3. ASSUME NEW c \in Calls, ChannelCreated(c) PROVE HoldsNone'
  BY <1>3, <1>c, AtField DEF ChannelCreated, HoldsNone
<1>4. ASSUME NEW c \in Calls, CreateUnanswered(c) \/ ChannelIdTaken(c) PROVE HoldsNone'
  <2>1. sub[c].channel = NoChannel
    BY <1>4 DEF HoldsNone, CreateUnanswered, ChannelIdTaken
  <2>2. Again("create", sub[c], Over).channel = NoChannel
    BY <2>1, <1>r, AtField DEF Again
  <2> QED BY <1>4, <1>1, <2>2 DEF CreateUnanswered, ChannelIdTaken
<1>5. ASSUME NEW c \in Calls, InsertRow(c) \/ InsertFails(c) \/ CrashCall(c) PROVE HoldsNone'
  BY <1>5, <1>1, <1>r DEF InsertRow, InsertFails, CrashCall, HoldsNone
<1>6. CASE UNCHANGED sub
  BY <1>6 DEF HoldsNone
<1>7. ASSUME NEW c \in Calls, Unsubscribe(c) \/ ChannelStopped(c) \/ StopUnanswered(c) \/ DeleteRow(c) \/ DeleteFails(c)
      PROVE  UNCHANGED sub
  BY <1>7 DEF Unsubscribe, ChannelStopped, StopUnanswered, DeleteRow, DeleteFails
<1>8. ASSUME NEW w \in Workers, PassStep(w) PROVE UNCHANGED sub
  BY <1>8 DEF PassStep, StartPass, NextWatch, Patched, UpdateRow, EndPass, PatchUnanswered, UpdateFails, CrashWorker
<1>9. CASE DeleteAccount \/ Tick \/ UNCHANGED watchVars
  BY <1>9, <1>6 DEF DeleteAccount, Tick, watchVars
<1> QED BY <1>2, <1>3, <1>4, <1>5, <1>6, <1>7, <1>8, <1>9 DEF Next, CallStep

\* The account is only ever deleted, and faults only ever counted up.
LEMMA OnlyDeleted == TInv /\ [Next]_watchVars => (account' => account) /\ faults' \in {faults, faults + 1}
<1> SUFFICES ASSUME TInv, [Next]_watchVars PROVE (account' => account) /\ faults' \in {faults, faults + 1}
  OBVIOUS
<1>1. account' = account \/ account' = FALSE
  BY DEF Next, CallStep, PassStep, Tick, watchVars, DeleteAccount, Subscribe, ChannelCreated,
         CreateUnanswered,
         ChannelIdTaken, InsertRow, InsertFails, Unsubscribe, ChannelStopped, StopUnanswered, DeleteRow,
         DeleteFails, CrashCall, StartPass, NextWatch, Patched, UpdateRow, EndPass, PatchUnanswered,
         UpdateFails, CrashWorker
<1>2. faults' = faults \/ faults' = faults + 1
  BY DEF Next, CallStep, PassStep, Tick, watchVars, DeleteAccount, Subscribe, ChannelCreated,
         CreateUnanswered, Fault,
         ChannelIdTaken, InsertRow, InsertFails, Unsubscribe, ChannelStopped, StopUnanswered, DeleteRow,
         DeleteFails, CrashCall, StartPass, NextWatch, Patched, UpdateRow, EndPass, PatchUnanswered,
         UpdateFails, CrashWorker
<1> QED BY <1>1, <1>2

\* No step adds a channel to those without a row, but for one and with a fault.
Adds(S) == Loose' \subseteq Loose \cup S
LooseStep == Adds({}) \/ (faults' = faults + 1 /\ \E ch \in Channels : Adds({ch}))

LEMMA LooseIs ==
  \A ch \in Channels :
    ch \in Loose <=> /\ Open(ch)
                     /\ \/ \A c \in Calls : rows[c].channel # ch /\ sub[c].channel # ch
                        \/ \E c \in Calls : unsub[c].at = "delete" /\ unsub[c].channel = ch
  BY DEF Loose, Orphans, Dropping

LEMMA LooseGrows == MInv /\ StopsItsRow /\ HoldsNone /\ [Next]_watchVars /\ account' => LooseStep
<1> SUFFICES ASSUME MInv, StopsItsRow, HoldsNone, [Next]_watchVars, account' PROVE LooseStep
  OBVIOUS
<1>t. TInv /\ Typed
  BY DEF MInv, TInv
<1>a. account
  BY <1>t, OnlyDeleted
<1>n. now \in Nat /\ Life[provider] \in Nat \ {0} /\ \A ch \in Channels : channel[ch] \in Nat
  BY <1>t, WatchConstants DEF Typed, Time
<1>r. Rest.at = "rest" /\ Over.channel = NoChannel /\ Rest.channel = NoChannel /\ NoRow.channel = NoChannel
  BY AtField DEF Rest, Over, NoRow
<1>b. ASSUME UNCHANGED <<rows, sub>>, \A ch \in Channels : Open(ch)' => Open(ch),
             \A ch \in Channels : Open(ch)' /\ Dropping(ch)' => Dropping(ch)
      PROVE  Adds({})
  <2>1. ASSUME NEW ch \in Channels, ch \in Loose' PROVE ch \in Loose
    <3>1. Open(ch)' /\ Open(ch)
      BY <1>b, <2>1 DEF Loose, Orphans, Dropping
    <3>2. CASE ch \in Orphans'
      BY <1>b, <3>1, <3>2 DEF Loose, Orphans
    <3>3. CASE Dropping(ch)'
      BY <1>b, <3>1, <3>3 DEF Loose
    <3> QED BY <2>1, <3>2, <3>3 DEF Loose
  <2> QED BY <2>1 DEF Adds, Loose
<1>c. ASSUME UNCHANGED <<rows, sub, unsub>>, \A ch \in Channels : Open(ch)' => Open(ch) PROVE LooseStep
  BY <1>b, <1>c DEF LooseStep, Dropping
<1>s. sub \in [Calls -> Calling] /\ unsub \in [Calls -> Calling] /\ rows \in [Calls -> Rows] /\ channel \in [Channels -> Nat]
  BY <1>t DEF Typed
<1>1. ASSUME NEW c \in Calls, Subscribe(c) PROVE LooseStep
  <2>1. UNCHANGED <<now, channel, rows, unsub>> /\ sub[c].channel = NoChannel
    BY <1>1, <1>r, AtField DEF Subscribe, Rest
  <2>2. \A d \in Calls \ {c} : sub'[d] = sub[d]
    BY <1>1, <1>s DEF Subscribe
  <2>3. Adds({})
    BY <2>1, <2>2, NoneIsNoChannel DEF Adds, Loose, Orphans, Dropping, Open
  <2> QED BY <2>3 DEF LooseStep
<1>2. ASSUME NEW c \in Calls, ChannelCreated(c) PROVE LooseStep
  <2> DEFINE ch == ChannelOf(c)
  <2>1. ch \in Channels /\ ch[1] = c
    BY <1>s, WatchConstants DEF Calling, ChannelOf, Channels
  <2>2. UNCHANGED <<now, rows, unsub>> /\ sub[c].at = "create"
    BY <1>2 DEF ChannelCreated
  <2>3. sub' = [sub EXCEPT ![c] = At("insert", 1, ch)] /\ channel' = [channel EXCEPT ![ch] = now + Life[provider]]
    BY <1>2 DEF ChannelCreated
  <2> HIDE DEF ch
  <2>4. sub'[c].channel = ch /\ \A d \in Calls \ {c} : sub'[d] = sub[d]
    BY <1>s, <2>3, AtField
  <2>5. \A d \in Channels \ {ch} : channel'[d] = channel[d]
    BY <1>s, <2>3
  <2>6. sub[c].channel = NoChannel
    BY <2>2 DEF HoldsNone
  <2>7. \A d \in Calls : ~(unsub[d].at = "delete" /\ unsub[d].channel = ch)
    BY <2>1, <2>2 DEF MInv, Mine
  <2>8. ASSUME NEW d \in Channels, d \in Loose' PROVE d \in Loose
    <3>1. d # ch
      BY <2>2, <2>4, <2>7, <2>8 DEF Loose, Orphans, Dropping
    <3> QED BY <2>2, <2>4, <2>5, <2>6, <2>8, <3>1, NoneIsNoChannel DEF Loose, Orphans, Dropping, Open
  <2> QED BY <2>8 DEF LooseStep, Adds, Loose
<1>3. ASSUME NEW c \in Calls, CreateUnanswered(c) PROVE LooseStep
  <2> DEFINE ch == ChannelOf(c)
  <2>1. ch \in Channels
    BY <1>s, WatchConstants DEF Calling, ChannelOf, Channels
  <2>2. UNCHANGED <<now, rows, unsub>> /\ sub[c].channel = NoChannel /\ faults' = faults + 1
    BY <1>3 DEF CreateUnanswered, Fault, HoldsNone
  <2>3. \A d \in Channels \ {ch} : channel'[d] = channel[d]
    BY <1>3, <1>s, <2>1 DEF CreateUnanswered
  <2> HIDE DEF ch
  <2>4. \A d \in Calls \ {c} : sub'[d] = sub[d]
    BY <1>3, <1>s DEF CreateUnanswered
  <2>5. Adds({ch})
    BY <2>2, <2>3, <2>4, NoneIsNoChannel DEF Adds, Loose, Orphans, Dropping, Open
  <2> QED BY <2>1, <2>2, <2>5 DEF LooseStep
<1>4. ASSUME NEW c \in Calls, ChannelIdTaken(c) PROVE LooseStep
  <2>1. UNCHANGED <<now, channel, rows, unsub>> /\ sub[c].channel = NoChannel
    BY <1>4 DEF ChannelIdTaken, HoldsNone
  <2>2. \A d \in Calls \ {c} : sub'[d] = sub[d]
    BY <1>4, <1>s DEF ChannelIdTaken
  <2>3. Adds({})
    BY <2>1, <2>2, NoneIsNoChannel DEF Adds, Loose, Orphans, Dropping, Open
  <2> QED BY <2>3 DEF LooseStep
<1>5. ASSUME NEW c \in Calls, InsertRow(c) PROVE LooseStep
  <2> DEFINE ch == sub[c].channel
             r == RowOf(ch, channel[ch])
  <2>1. sub[c].at = "insert" /\ UNCHANGED <<now, channel, unsub>>
    BY <1>5 DEF InsertRow
  <2>2. rows[c].channel = NoChannel
    BY <2>1, <1>r DEF MInv, Mine, HasRow
  <2>3. r.channel = ch
    BY DEF RowOf
  <2>4. rows' = [rows EXCEPT ![c] = r] /\ sub' = [sub EXCEPT ![c] = Over]
    BY <1>5, <1>a DEF InsertRow
  <2> HIDE DEF r
  <2>5. /\ rows'[c].channel = ch
        /\ \A d \in Calls \ {c} : rows'[d] = rows[d] /\ sub'[d] = sub[d]
    BY <1>s, <2>3, <2>4
  <2>6. Adds({})
    BY <2>1, <2>2, <2>5, NoneIsNoChannel DEF Adds, Loose, Orphans, Dropping, Open
  <2> QED BY <2>6 DEF LooseStep
<1>6. ASSUME NEW c \in Calls, InsertFails(c) PROVE LooseStep
  <2>1. sub[c].channel \in Channels /\ UNCHANGED <<now, channel, rows, unsub>> /\ faults' = faults + 1
    BY <1>6, <1>t DEF InsertFails, Fault, TInv, CallHasChannel
  <2>2. \A d \in Calls \ {c} : sub'[d] = sub[d]
    BY <1>6, <1>s DEF InsertFails
  <2>3. Adds({sub[c].channel})
    BY <2>1, <2>2 DEF Adds, Loose, Orphans, Dropping, Open
  <2> QED BY <2>1, <2>3 DEF LooseStep
<1>7. ASSUME NEW c \in Calls, Unsubscribe(c) PROVE LooseStep
  <2>1. UNCHANGED <<now, channel, rows, sub>>
    BY <1>7 DEF Unsubscribe
  <2>2. unsub'[c].at = "stop" /\ \A d \in Calls \ {c} : unsub'[d] = unsub[d]
    BY <1>7, <1>s, AtField DEF Unsubscribe
  <2>3. Adds({})
    BY <1>b, <2>1, <2>2 DEF Dropping, Open
  <2> QED BY <2>3 DEF LooseStep
<1>8. ASSUME NEW c \in Calls, ChannelStopped(c) PROVE LooseStep
  <2>0. PICK ch : ch = unsub[c].channel
    OBVIOUS
  <2>1. UNCHANGED <<now, rows, sub>> /\ ch \in Channels
    BY <1>8, <1>t, <2>0 DEF ChannelStopped, TInv, CallHasChannel
  <2>2. ~Open(ch)' /\ \A d \in Channels \ {ch} : channel'[d] = channel[d]
    BY <1>8, <1>s, <1>n, <2>0, <2>1 DEF ChannelStopped, Open
  <2>3. (unsub'[c].at = "delete" => unsub'[c].channel = ch) /\ \A d \in Calls \ {c} : unsub'[d] = unsub[d]
    BY <1>8, <1>s, <1>r, <2>0, AtField DEF ChannelStopped
  <2>4. \A d \in Channels : Open(d)' => Open(d)
    BY <2>1, <2>2 DEF Open
  <2>5. \A d \in Channels : Open(d)' /\ Dropping(d)' => Dropping(d)
    BY <2>2, <2>3, <2>4 DEF Dropping
  <2>6. Adds({})
    BY <1>b, <2>1, <2>4, <2>5
  <2> QED BY <2>6 DEF LooseStep
<1>9. ASSUME NEW c \in Calls, StopUnanswered(c) PROVE LooseStep
  <2> DEFINE ch == unsub[c].channel
  <2>1. UNCHANGED <<now, rows, sub>> /\ ch \in Channels /\ faults' = faults + 1
    BY <1>9, <1>t DEF StopUnanswered, Fault, TInv, CallHasChannel
  <2>2. \A d \in Channels : Open(d)' => Open(d)
    BY <1>9, <1>s, <1>n, <2>1 DEF StopUnanswered, Open
  <2>3. Again("stop", unsub[c], Rest).at # "delete"
    BY <1>r, AtField DEF Again
  <2>4. (unsub'[c].at = "delete" => unsub'[c].channel = ch) /\ \A d \in Calls \ {c} : unsub'[d] = unsub[d]
    BY <1>9, <1>s, <2>3, AtField DEF StopUnanswered
  <2> HIDE DEF ch
  <2>5. Adds({ch})
    BY <2>1, <2>2, <2>4 DEF Adds, Loose, Orphans, Dropping
  <2> QED BY <2>1, <2>5 DEF LooseStep
<1>10. ASSUME NEW c \in Calls, DeleteRow(c) PROVE LooseStep
  <2>1. UNCHANGED <<now, channel, sub>> /\ unsub[c].at = "delete"
    BY <1>10 DEF DeleteRow
  <2>2. unsub'[c].at = "rest" /\ \A d \in Calls \ {c} : rows'[d] = rows[d] /\ unsub'[d] = unsub[d]
    BY <1>10, <1>s, <1>r DEF DeleteRow
  <2>3. rows[c].channel \in {NoChannel, unsub[c].channel}
    BY <2>1, <1>r DEF StopsItsRow, HasRow
  <2>4. Adds({})
    BY <2>1, <2>2, <2>3, NoneIsNoChannel DEF Adds, Loose, Orphans, Dropping, Open
  <2> QED BY <2>4 DEF LooseStep
<1>11. ASSUME NEW c \in Calls, unsub' = [unsub EXCEPT ![c] = Rest], UNCHANGED <<now, channel, rows, sub>> PROVE LooseStep
  <2>1. unsub'[c].at = "rest" /\ \A d \in Calls \ {c} : unsub'[d] = unsub[d]
    BY <1>11, <1>s, <1>r
  <2>2. Adds({})
    BY <1>11, <1>b, <2>1 DEF Dropping, Open
  <2> QED BY <2>2 DEF LooseStep
<1>12. ASSUME NEW c \in Calls, CrashCall(c) PROVE LooseStep
  <2>1. CASE unsub' = [unsub EXCEPT ![c] = Rest] /\ UNCHANGED sub
    BY <1>11, <1>12, <2>1 DEF CrashCall
  <2>2. CASE sub' = [sub EXCEPT ![c] = Over] /\ UNCHANGED unsub
    <3>1. UNCHANGED <<now, channel, rows, unsub>> /\ faults' = faults + 1 /\ \A d \in Calls \ {c} : sub'[d] = sub[d]
      BY <1>12, <1>s, <2>2 DEF CrashCall, Fault
    <3>2. CASE sub[c].channel \in Channels
      <4>1. Adds({sub[c].channel})
        BY <3>1 DEF Adds, Loose, Orphans, Dropping, Open
      <4> QED BY <3>1, <3>2, <4>1 DEF LooseStep
    <3>3. CASE sub[c].channel \notin Channels
      <4>1. Adds({})
        BY <3>1, <3>3 DEF Adds, Loose, Orphans, Dropping, Open
      <4> QED BY <4>1 DEF LooseStep
    <3> QED BY <3>2, <3>3
  <2> QED BY <1>12, <2>1, <2>2 DEF CrashCall
<1>13. ASSUME NEW w \in Workers, Patched(w) \/ PatchUnanswered(w) PROVE LooseStep
  <2> DEFINE ch == InHand(w)[2]
  <2>1. UNCHANGED <<now, rows, sub, unsub>>
    BY <1>13 DEF Patched, PatchUnanswered
  <2>2. \/ UNCHANGED channel
        \/ Open(ch) /\ channel' = [channel EXCEPT ![ch] = now + Life[provider]]
    BY <1>13, <1>s DEF Patched, PatchUnanswered
  <2> HIDE DEF ch
  <2>3. \A d \in Channels : Open(d)' => Open(d)
    BY <1>s, <2>1, <2>2 DEF Open
  <2> QED BY <1>c, <2>1, <2>3
<1>14. ASSUME NEW w \in Workers, UpdateRow(w) PROVE LooseStep
  <2>1. PICK c \in Calls, ch \in Channels :
          /\ pass[w].cur = {<<c, ch>>}
          /\ \A d \in Calls \ {c} : rows'[d] = rows[d]
          /\ rows'[c] = rows[c] \/ (HasRow(c) /\ rows'[c].channel = ch)
          /\ UNCHANGED <<now, channel, sub, unsub>>
    BY <1>14, <1>t, UpdateRowIs
  <2>2. HasRow(c) => ch = rows[c].channel
    <3>1. <<c, ch>> \in pass[w].batch \cup pass[w].cur
      BY <2>1
    <3> QED BY <3>1 DEF MInv, Batches, BatchOf
  <2>3. \A d \in Calls : rows'[d].channel = rows[d].channel
    BY <2>1, <2>2
  <2>4. Adds({})
    BY <2>1, <2>3 DEF Adds, Loose, Orphans, Dropping, Open
  <2> QED BY <2>4 DEF LooseStep
<1>15. ASSUME NEW w \in Workers, StartPass(w) \/ NextWatch(w) \/ EndPass(w) \/ UpdateFails(w) \/ CrashWorker(w)
       PROVE  LooseStep
  BY <1>15, <1>c DEF StartPass, NextWatch, EndPass, UpdateFails, CrashWorker, Open
<1>16. CASE DeleteAccount
  BY <1>16 DEF DeleteAccount
<1>17. CASE Tick
  BY <1>17, <1>c, <1>n DEF Tick, Open
<1>18. CASE UNCHANGED watchVars
  BY <1>18, <1>c DEF watchVars, Open
<1>19. ASSUME NEW c \in Calls, DeleteFails(c) PROVE LooseStep
  BY <1>19, <1>11 DEF DeleteFails
<1> QED BY <1>1, <1>2, <1>3, <1>4, <1>5, <1>6, <1>7, <1>8, <1>9, <1>10, <1>12, <1>13, <1>14, <1>15, <1>16, <1>17,
           <1>18, <1>19 DEF Next, CallStep, PassStep

LEMMA OInvNext == OInv /\ [Next]_watchVars => OInv'
<1> SUFFICES ASSUME OInv, [Next]_watchVars PROVE OInv'
  OBVIOUS
<1>1. MInv' /\ StopsItsRow' /\ HoldsNone'
  BY MInvNext, StopsItsRowNext, HoldsNoneNext DEF OInv
<1>2. ASSUME account' PROVE IsFiniteSet(Loose') /\ Cardinality(Loose') <= faults'
  <2> DEFINE L == Loose
             M == Loose'
  <2>1. account /\ faults' \in {faults, faults + 1} /\ faults \in Nat
    BY <1>2, OnlyDeleted DEF OInv, MInv, TInv, Typed
  <2>2. IsFiniteSet(L) /\ Cardinality(L) <= faults
    BY <2>1 DEF OInv, LooseAccounted
  <2>3. LooseStep
    BY <1>2, LooseGrows DEF OInv
  <2>4. CASE M \subseteq L
    <3> HIDE DEF L, M
    <3>1. IsFiniteSet(M) /\ Cardinality(M) <= Cardinality(L) /\ Cardinality(L) \in Nat /\ Cardinality(M) \in Nat
      BY <2>2, <2>4, FS_Subset, FS_CardinalityType
    <3> QED BY <2>1, <2>2, <3>1 DEF M
  <2>5. ASSUME NEW ch, faults' = faults + 1, M \subseteq L \cup {ch} PROVE IsFiniteSet(Loose') /\ Cardinality(Loose') <= faults'
    <3> HIDE DEF L, M
    <3>1. IsFiniteSet(L \cup {ch}) /\ Cardinality(L \cup {ch}) <= Cardinality(L) + 1 /\ Cardinality(L) \in Nat
      BY <2>2, FS_AddElement, FS_CardinalityType
    <3>2. IsFiniteSet(M) /\ Cardinality(M) <= Cardinality(L \cup {ch}) /\ Cardinality(M) \in Nat
          /\ Cardinality(L \cup {ch}) \in Nat
      BY <2>5, <3>1, FS_Subset, FS_CardinalityType
    <3> QED BY <2>1, <2>2, <2>5, <3>1, <3>2 DEF M
  <2> QED BY <2>3, <2>4, <2>5 DEF LooseStep, Adds
<1> QED BY <1>1, <1>2 DEF OInv, LooseAccounted

LEMMA OInvInit == Init => OInv
<1> SUFFICES ASSUME Init PROVE OInv
  OBVIOUS
<1>1. Loose = {}
  <2>1. \A ch \in Channels : ~Open(ch)
    BY DEF Init, Open
  <2> QED BY <2>1 DEF Loose, Orphans, Dropping
<1>2. LooseAccounted
  BY <1>1, FS_EmptySet DEF LooseAccounted, Init
<1>3. StopsItsRow /\ HoldsNone
  BY AtField, RestType DEF Init, StopsItsRow, HoldsNone, Rest
<1> QED BY <1>2, <1>3, MInvInit DEF OInv

LEMMA AccountedFor == OInv => OrphansAccounted
<1> SUFFICES ASSUME OInv, account PROVE Cardinality(Orphans) <= faults
  BY DEF OrphansAccounted
<1>1. IsFiniteSet(Loose) /\ Cardinality(Loose) <= faults /\ faults \in Nat
  BY DEF OInv, LooseAccounted, MInv, TInv, Typed
<1>2. Orphans \subseteq Loose
  BY DEF Orphans, Loose
<1>3. Cardinality(Orphans) <= Cardinality(Loose) /\ Cardinality(Loose) \in Nat /\ Cardinality(Orphans) \in Nat
  BY <1>1, <1>2, FS_Subset, FS_CardinalityType
<1> QED BY <1>1, <1>3

\* OrphansAccounted, for any number of calls, retries, overlapping passes and faults: no
\* more channels run without a row than faults were met (services/watches.ts).
THEOREM FewOrphans == Spec => []OrphansAccounted
BY OInvInit, OInvNext, AccountedFor, PTL DEF Spec

-----------------------------------------------------------------------------
(* Notifications *)

\* A step that counts a fault and touches no other variable of Watches.
FaultOnly ==
  /\ Fault
  /\ UNCHANGED <<provider, account, now, channel, rows, sub, unsub, pass, renewed, stopped>>

LEMMA FaultOnlyNext == TInv /\ FaultOnly => TInv'
<1> SUFFICES ASSUME TInv, FaultOnly PROVE TInv'
  OBVIOUS
<1>1. faults' \in 0 .. MaxFaults
  BY WatchConstants DEF FaultOnly, Fault, TInv, Typed
<1>2. Typed'
  BY <1>1 DEF FaultOnly, TInv, Typed
<1>3. RowHasChannel' /\ CallHasChannel' /\ PassHasOne'
  BY DEF FaultOnly, TInv, RowHasChannel, HasRow, CallHasChannel, PassHasOne
<1> QED BY <1>2, <1>3 DEF TInv

\* What a step of ProviderWebhooks is to Watches.
LEMMA NoteIsWatch == [NoteNext]_vars => [Next]_watchVars \/ FaultOnly
<1> SUFFICES ASSUME [NoteNext]_vars PROVE [Next]_watchVars \/ FaultOnly
  OBVIOUS
<1>1. CASE WatchStep
  BY <1>1 DEF WatchStep, Next
<1>2. CASE TimePasses
  BY <1>2 DEF TimePasses, Next
<1>3. CASE \E ch \in Channels, change \in Changes \cup {"sync"} : Notify(ch, change)
  BY <1>3 DEF Notify
<1>4. ASSUME NEW h \in Handlers, NoteStep(h) PROVE [Next]_watchVars \/ FaultOnly
  <2>1. CASE InsertEventFails(h) \/ Interrupted(h)
    BY <2>1 DEF InsertEventFails, Interrupted, FaultOnly
  <2>2. CASE (\E batch \in SUBSET sent : Deliver(h, batch)) \/ Take(h) \/ FindWatch(h) \/ InsertEvent(h)
             \/ LogEnqueued(h) \/ Answer(h)
    BY <2>2 DEF Deliver, Take, FindWatch, InsertEvent, LogEnqueued, Answer
  <2> QED BY <1>4, <2>1, <2>2 DEF NoteStep
<1>5. CASE UNCHANGED vars
  BY <1>5 DEF vars
<1> QED BY <1>1, <1>2, <1>3, <1>4, <1>5 DEF NoteNext

Steps == {"idle", "next", "find", "insert", "log"}
Hands == [at : Steps, todo : SUBSET Notes, cur : SUBSET Notes, batch : SUBSET Notes]
Keys  == Channels \X (SUBSET (1 .. MaxNotes)) \X (SUBSET (Changes \cup {"sync"}))

\* The types of the variables of ProviderWebhooks; a request that has taken a
\* notification holds one.
NoteTyped ==
  /\ sent \subseteq Notes /\ IsFiniteSet(sent) /\ settled \subseteq Notes /\ events \subseteq Keys
  /\ hand \in [Handlers -> Hands]
  /\ enqueued \in [Notes -> Nat]
  /\ early \subseteq Notes /\ cutOff \subseteq Notes
HandHasOne ==
  \A h \in Handlers : hand[h].at \in {"find", "insert", "log"} => \E n \in Notes : hand[h].cur = {n}

\* Why Google's notifications are acted upon once: whoever is past the insert of a key
\* is alone with it, and the key is there from then on.
OneIsPast ==
  provider = "google" =>
    /\ \A h \in Handlers, n \in Notes :
         hand[h].at = "log" /\ hand[h].cur = {n} => EventKey(n) \in events /\ enqueued[n] = 0
    /\ \A g, h \in Handlers : hand[g].at = "log" /\ hand[h].at = "log" /\ g # h => hand[g].cur # hand[h].cur
    /\ \A n \in Notes : enqueued[n] = 0 \/ (enqueued[n] = 1 /\ EventKey(n) \in events)

NInv == TInv /\ NoteTyped /\ HandHasOne /\ OneIsPast

LEMMA ServingIs ==
  \A step, todo, n, batch :
    /\ Serving(step, todo, n, batch).at = step /\ Serving(step, todo, n, batch).cur = n
    /\ Serving(step, todo, n, batch).todo = todo /\ Serving(step, todo, n, batch).batch = batch
  BY DEF Serving

LEMMA ServingType ==
  ASSUME NEW step \in Steps, NEW todo \in SUBSET Notes, NEW n \in SUBSET Notes, NEW batch \in SUBSET Notes
  PROVE  Serving(step, todo, n, batch) \in Hands
  BY DEF Serving, Hands

LEMMA NoteIs ==
  ASSUME HandHasOne, NEW h \in Handlers, hand[h].at \in {"find", "insert", "log"}
  PROVE  Note(h) \in Notes /\ hand[h].cur = {Note(h)}
<1>1. PICK n \in Notes : hand[h].cur = {n}
  BY DEF HandHasOne
<1>2. Note(h) = n
  BY <1>1 DEF Note
<1> QED BY <1>1, <1>2

LEMMA KeyType ==
  ASSUME NEW n \in Notes
  PROVE  EventKey(n) \in Keys
<1>1. n.channel \in Channels /\ n.number \in 1 .. MaxNotes /\ n.change \in Changes \cup {"sync"}
  BY DEF Notes
<1> QED BY <1>1 DEF EventKey, Keys

\* Goto keeps what a request carries.
LEMMA GotoIs ==
  ASSUME NEW h \in Handlers, NEW step \in Steps, hand \in [Handlers -> Hands], Goto(h, step)
  PROVE  /\ hand' \in [Handlers -> Hands]
         /\ hand'[h].at = step /\ hand'[h].cur = hand[h].cur
         /\ \A g \in Handlers \ {h} : hand'[g] = hand[g]
<1>1. hand[h] \in Hands /\ [hand[h] EXCEPT !.at = step] \in Hands
  BY DEF Hands
<1> QED BY <1>1 DEF Goto, Hands

LEMMA NoteInitial == NoteInit => NInv
<1> SUFFICES ASSUME NoteInit PROVE NInv
  OBVIOUS
<1>1. TInv
  BY TypedInit DEF NoteInit, TInv
<1>2. Idle \in Hands /\ Idle.at = "idle"
  BY DEF Idle, Serving, Hands, Steps
<1>3. NoteTyped /\ HandHasOne /\ OneIsPast
  BY <1>2, FS_EmptySet DEF NoteInit, NoteTyped, HandHasOne, OneIsPast
<1> QED BY <1>1, <1>3 DEF NInv

\* A request other than h is where it was, and h is not past an insert.
LEMMA HandMoves ==
  ASSUME NInv, NEW h \in Handlers, NEW x \in Hands, x.at # "log",
         x.at \in {"find", "insert"} => \E n \in Notes : x.cur = {n},
         hand' = [hand EXCEPT ![h] = x],
         UNCHANGED <<provider, events, enqueued>>
  PROVE  HandHasOne' /\ OneIsPast' /\ hand' \in [Handlers -> Hands]
<1>1. /\ hand' \in [Handlers -> Hands] /\ hand'[h] = x
      /\ \A g \in Handlers \ {h} : hand'[g] = hand[g]
  BY DEF NInv, NoteTyped
<1>2. HandHasOne'
  BY <1>1 DEF NInv, HandHasOne
<1>3. \A n : EventKey(n)' = EventKey(n)
  BY DEF EventKey
<1>4. \A g \in Handlers : hand'[g].at = "log" => g # h /\ hand'[g] = hand[g]
  BY <1>1
<1>5. OneIsPast'
  BY <1>3, <1>4 DEF NInv, OneIsPast
<1> QED BY <1>1, <1>2, <1>5

LEMMA NotesNext == NInv /\ [NoteNext]_vars => NInv'
<1> SUFFICES ASSUME NInv, [NoteNext]_vars PROVE NInv'
  OBVIOUS
<1>a. TInv'
  BY NoteIsWatch, TInvNext, FaultOnlyNext DEF NInv
<1>b. ASSUME UNCHANGED noteVars, UNCHANGED provider PROVE NInv'
  <2>1. \A n : EventKey(n)' = EventKey(n)
    BY <1>b DEF EventKey
  <2> QED BY <1>a, <1>b, <2>1 DEF noteVars, NInv, NoteTyped, HandHasOne, OneIsPast
<1>c. ASSUME NEW h \in Handlers
      PROVE  hand[h] \in Hands /\ hand[h].todo \in SUBSET Notes /\ hand[h].cur \in SUBSET Notes
             /\ hand[h].batch \in SUBSET Notes /\ Idle \in Hands /\ Idle.at = "idle"
  BY DEF NInv, NoteTyped, Hands, Idle, Serving, Steps
<1>d. ASSUME NEW h \in Handlers, NEW x \in Hands, x.at # "log",
             x.at \in {"find", "insert"} => \E n \in Notes : x.cur = {n},
             hand' = [hand EXCEPT ![h] = x],
             UNCHANGED <<provider, sent, events, enqueued, early>>,
             settled' \subseteq Notes, cutOff' \subseteq Notes
      PROVE  NInv'
  BY <1>a, <1>d, HandMoves DEF NInv, NoteTyped
<1>1. CASE WatchStep
  <2>1. UNCHANGED provider
    BY <1>1 DEF WatchStep, DeleteAccount, CallStep, PassStep, Subscribe, ChannelCreated,
                CreateUnanswered,
          ChannelIdTaken, InsertRow, InsertFails, Unsubscribe, ChannelStopped, StopUnanswered, DeleteRow,
          DeleteFails, CrashCall, StartPass, NextWatch, Patched, UpdateRow, EndPass, PatchUnanswered,
          UpdateFails, CrashWorker
  <2> QED BY <1>1, <1>b, <2>1 DEF WatchStep
<1>2. CASE TimePasses
  BY <1>2, <1>b DEF TimePasses, Tick
<1>3. ASSUME NEW ch \in Channels, NEW change \in Changes \cup {"sync"}, Notify(ch, change) PROVE NInv'
  <2>1. PICK note : /\ sent' = sent \cup {note} /\ early' \subseteq early \cup {note} /\ note \in Notes
    <3> DEFINE note == [channel |-> ch, number |-> Cardinality({n \in sent : n.channel = ch}) + 1, change |-> change]
    <3>1. note \in Notes
      <4>1. Cardinality({n \in sent : n.channel = ch}) + 1 \in 1 .. MaxNotes
        <5>1. IsFiniteSet(sent) /\ Cardinality(sent) < MaxNotes
          BY <1>3 DEF NInv, NoteTyped, Notify
        <5>2. Cardinality(sent) \in Nat
          BY <5>1, FS_CardinalityType
        <5>3. Cardinality({n \in sent : n.channel = ch}) \in Nat
              /\ Cardinality({n \in sent : n.channel = ch}) <= Cardinality(sent)
          <6>1. {n \in sent : n.channel = ch} \subseteq sent
            OBVIOUS
          <6> QED BY <5>1, <6>1, FS_Subset, FS_CardinalityType
        <5> QED BY <5>1, <5>2, <5>3, NoteConstants
      <4> QED BY <4>1 DEF Notes
    <3>2. sent' = sent \cup {note} /\ early' \subseteq early \cup {note}
      BY <1>3 DEF Notify
    <3> QED BY <3>1, <3>2
  <2>2. \A n : EventKey(n)' = EventKey(n)
    BY <1>3 DEF EventKey, Notify, watchVars
  <2>3. IsFiniteSet(sent')
    BY <2>1, FS_AddElement DEF NInv, NoteTyped
  <2> QED BY <1>a, <1>3, <2>1, <2>2, <2>3 DEF Notify, watchVars, NInv, NoteTyped, HandHasOne,
                                              OneIsPast
<1>4. ASSUME NEW h \in Handlers, NEW batch \in SUBSET sent, Deliver(h, batch) PROVE NInv'
  <2>1. batch \in SUBSET Notes
    BY DEF NInv, NoteTyped
  <2> DEFINE x == Serving("next", {n \in batch : n.change # "sync"}, {}, batch)
  <2>2. x \in Hands /\ x.at = "next"
    BY <2>1, ServingType, ServingIs DEF Steps
  <2> HIDE DEF x
  <2> QED BY <1>4, <2>2, <1>d DEF Deliver, x, watchVars, NInv, NoteTyped
<1>5. ASSUME NEW h \in Handlers, Take(h) PROVE NInv'
  <2>1. PICK n \in hand[h].todo : hand' = [hand EXCEPT ![h] = Serving("find", hand[h].todo \ {n}, {n}, hand[h].batch)]
    BY <1>5 DEF Take
  <2> DEFINE x == Serving("find", hand[h].todo \ {n}, {n}, hand[h].batch)
  <2>2. x \in Hands /\ x.at = "find" /\ x.cur = {n} /\ n \in Notes
    BY <1>c, ServingType, ServingIs DEF Steps
  <2>3. UNCHANGED <<provider, sent, events, enqueued, early, settled, cutOff>>
    BY <1>5 DEF Take, watchVars
  <2>4. hand' = [hand EXCEPT ![h] = x]
    BY <2>1
  <2> HIDE DEF x
  <2> QED BY <2>2, <2>3, <2>4, <1>d DEF NInv, NoteTyped
<1>6. ASSUME NEW h \in Handlers, FindWatch(h) PROVE NInv'
  <2>1. ASSUME NEW step \in {"next", "insert"}, Goto(h, step) PROVE NInv'
    <3> DEFINE x == [hand[h] EXCEPT !.at = step]
    <3>1. x \in Hands /\ x.at = step /\ x.cur = hand[h].cur
      BY <1>c DEF Hands, Steps
    <3>2. \E n \in Notes : x.cur = {n}
      BY <1>6, <3>1, NoteIs DEF FindWatch, NInv
    <3>3. hand' = [hand EXCEPT ![h] = x]
      BY <2>1 DEF Goto
    <3>4. UNCHANGED <<provider, sent, events, enqueued, early, settled, cutOff>>
      BY <1>6 DEF FindWatch, watchVars
    <3> HIDE DEF x
    <3> QED BY <3>1, <3>2, <3>3, <3>4, <1>d DEF NInv, NoteTyped
  <2> QED BY <1>6, <2>1 DEF FindWatch
<1>7. ASSUME NEW h \in Handlers, InsertEvent(h) PROVE NInv'
  <2>1. Note(h) \in Notes /\ hand[h].cur = {Note(h)} /\ EventKey(Note(h)) \in Keys
    BY <1>7, NoteIs, KeyType DEF InsertEvent, NInv
  <2>2. events' = events \cup {EventKey(Note(h))} /\ UNCHANGED <<provider, sent, settled, enqueued, early, cutOff>>
    BY <1>7 DEF InsertEvent, watchVars
  <2>3. PICK step \in {"next", "log"} :
          Goto(h, step) /\ (provider = "google" /\ step = "log" => EventKey(Note(h)) \notin events)
    BY <1>7 DEF InsertEvent
  <2>4. /\ hand' \in [Handlers -> Hands]
        /\ hand'[h].at = step /\ hand'[h].cur = {Note(h)}
        /\ \A g \in Handlers \ {h} : hand'[g] = hand[g]
    BY <2>1, <2>3, GotoIs DEF NInv, NoteTyped, Steps
  <2>5. NoteTyped' /\ HandHasOne'
    BY <2>1, <2>2, <2>4 DEF NInv, NoteTyped, HandHasOne
  <2>6. \A n : EventKey(n)' = EventKey(n)
    BY <2>2 DEF EventKey
  <2>7. ASSUME provider = "google"
        PROVE  /\ \A g \in Handlers, n \in Notes :
                    hand'[g].at = "log" /\ hand'[g].cur = {n} => EventKey(n) \in events' /\ enqueued[n] = 0
               /\ \A g, i \in Handlers : hand'[g].at = "log" /\ hand'[i].at = "log" /\ g # i => hand'[g].cur # hand'[i].cur
               /\ \A n \in Notes : enqueued[n] = 0 \/ (enqueued[n] = 1 /\ EventKey(n) \in events')
    <3>1. \A n \in Notes : enqueued[n] = 0 \/ (enqueued[n] = 1 /\ EventKey(n) \in events)
      BY <2>7 DEF NInv, OneIsPast
    <3>2. ASSUME NEW g \in Handlers, NEW n \in Notes, hand'[g].at = "log", hand'[g].cur = {n}
          PROVE  EventKey(n) \in events' /\ enqueued[n] = 0
      <4>1. CASE g = h
        <5>1. n = Note(h)
          BY <2>4, <3>2, <4>1
        <5>2. EventKey(n) \notin events /\ EventKey(n) \in events'
          BY <2>2, <2>3, <2>4, <2>7, <3>2, <4>1, <5>1
        <5> QED BY <3>1, <5>2
      <4>2. CASE g # h
        <5>1. hand'[g] = hand[g]
          BY <2>4, <4>2
        <5> QED BY <2>2, <2>7, <3>2, <5>1 DEF NInv, OneIsPast
      <4> QED BY <4>1, <4>2
    <3>3. ASSUME NEW g \in Handlers \ {h}, hand[g].at = "log", hand'[h].at = "log" PROVE hand[g].cur # hand'[h].cur
      <4>1. SUFFICES ASSUME hand[g].cur = {Note(h)} PROVE FALSE
        BY <2>4
      <4>2. EventKey(Note(h)) \in events
        BY <2>1, <2>7, <3>3, <4>1 DEF NInv, OneIsPast
      <4> QED BY <2>3, <2>4, <2>7, <3>3, <4>2
    <3>4. ASSUME NEW g \in Handlers, NEW i \in Handlers, hand'[g].at = "log", hand'[i].at = "log", g # i
          PROVE  hand'[g].cur # hand'[i].cur
      <4>1. CASE g = h
        BY <2>4, <3>3, <3>4, <4>1
      <4>2. CASE i = h
        BY <2>4, <3>3, <3>4, <4>2
      <4>3. CASE g # h /\ i # h
        BY <2>4, <2>7, <3>4, <4>3 DEF NInv, OneIsPast
      <4> QED BY <4>1, <4>2, <4>3
    <3>5. \A n \in Notes : enqueued[n] = 0 \/ (enqueued[n] = 1 /\ EventKey(n) \in events')
      BY <2>2, <3>1
    <3> QED BY <3>2, <3>4, <3>5
  <2>8. OneIsPast'
    BY <2>2, <2>6, <2>7 DEF OneIsPast
  <2> QED BY <1>a, <2>5, <2>8 DEF NInv
<1>8. ASSUME NEW h \in Handlers, InsertEventFails(h) PROVE NInv'
  <2>1. Note(h) \in Notes /\ hand[h].cur = {Note(h)}
    BY <1>8, NoteIs DEF InsertEventFails, NInv
  <2>2. cutOff' \subseteq Notes /\ UNCHANGED <<provider, sent, settled, events, enqueued, early>>
    BY <1>8, <2>1 DEF InsertEventFails, NInv, NoteTyped
  <2>3. CASE provider = "google"
    <3> DEFINE x == [hand[h] EXCEPT !.at = "next"]
    <3>1. x \in Hands /\ x.at = "next"
      BY <1>c DEF Hands, Steps
    <3>2. hand' = [hand EXCEPT ![h] = x]
      BY <1>8, <2>3 DEF InsertEventFails, Goto
    <3> HIDE DEF x
    <3> QED BY <2>2, <3>1, <3>2, <1>d DEF NInv, NoteTyped
  <2>4. CASE provider # "google"
    <3>1. Goto(h, "log")
      BY <1>8, <2>4 DEF InsertEventFails
    <3>2. /\ hand' \in [Handlers -> Hands]
          /\ hand'[h].at = "log" /\ hand'[h].cur = {Note(h)}
          /\ \A g \in Handlers \ {h} : hand'[g] = hand[g]
      BY <2>1, <3>1, GotoIs DEF NInv, NoteTyped, Steps
    <3>3. HandHasOne'
      BY <2>1, <3>2 DEF NInv, HandHasOne
    <3>4. OneIsPast'
      BY <2>2, <2>4 DEF OneIsPast
    <3> QED BY <1>a, <2>2, <3>2, <3>3, <3>4 DEF NInv, NoteTyped
  <2> QED BY <2>3, <2>4
<1>9. ASSUME NEW h \in Handlers, LogEnqueued(h) PROVE NInv'
  <2>1. Note(h) \in Notes /\ hand[h].cur = {Note(h)}
    BY <1>9, NoteIs DEF LogEnqueued, NInv
  <2>2. enqueued' = [enqueued EXCEPT ![Note(h)] = @ + 1] /\ UNCHANGED <<provider, sent, settled, events, early, cutOff>>
    BY <1>9 DEF LogEnqueued, watchVars
  <2>3. /\ hand' \in [Handlers -> Hands]
        /\ hand'[h].at = "next"
        /\ \A g \in Handlers \ {h} : hand'[g] = hand[g]
    BY <1>9, GotoIs DEF LogEnqueued, NInv, NoteTyped, Steps
  <2>4. NoteTyped' /\ HandHasOne'
    BY <2>1, <2>2, <2>3 DEF NInv, NoteTyped, HandHasOne
  <2>5. \A n : EventKey(n)' = EventKey(n)
    BY <2>2 DEF EventKey
  <2>6. \A n \in Notes : enqueued'[n] = IF n = Note(h) THEN enqueued[n] + 1 ELSE enqueued[n]
    BY <2>1, <2>2 DEF NInv, NoteTyped
  <2>7. ASSUME provider = "google"
        PROVE  /\ \A g \in Handlers, n \in Notes :
                    hand'[g].at = "log" /\ hand'[g].cur = {n} => EventKey(n) \in events /\ enqueued'[n] = 0
               /\ \A g, i \in Handlers : hand'[g].at = "log" /\ hand'[i].at = "log" /\ g # i => hand'[g].cur # hand'[i].cur
               /\ \A n \in Notes : enqueued'[n] = 0 \/ (enqueued'[n] = 1 /\ EventKey(n) \in events)
    <3>1. hand[h].at = "log" /\ enqueued[Note(h)] = 0 /\ EventKey(Note(h)) \in events
      BY <1>9, <2>1, <2>7 DEF LogEnqueued, NInv, OneIsPast
    <3>2. ASSUME NEW g \in Handlers, NEW n \in Notes, hand'[g].at = "log", hand'[g].cur = {n}
          PROVE  EventKey(n) \in events /\ enqueued'[n] = 0
      <4>1. g # h /\ hand'[g] = hand[g]
        BY <2>3, <3>2
      <4>2. EventKey(n) \in events /\ enqueued[n] = 0 /\ hand[g].cur # hand[h].cur
        BY <2>7, <3>1, <3>2, <4>1 DEF NInv, OneIsPast
      <4> QED BY <2>1, <2>6, <3>2, <4>1, <4>2
    <3>3. ASSUME NEW g \in Handlers, NEW i \in Handlers, hand'[g].at = "log", hand'[i].at = "log", g # i
          PROVE  hand'[g].cur # hand'[i].cur
      <4>1. hand'[g] = hand[g] /\ hand'[i] = hand[i]
        BY <2>3, <3>3
      <4> QED BY <2>7, <3>3, <4>1 DEF NInv, OneIsPast
    <3>4. \A n \in Notes : enqueued'[n] = 0 \/ (enqueued'[n] = 1 /\ EventKey(n) \in events)
      BY <2>6, <2>7, <3>1 DEF NInv, OneIsPast
    <3> QED BY <3>2, <3>3, <3>4
  <2>8. OneIsPast'
    BY <2>2, <2>5, <2>7 DEF OneIsPast
  <2> QED BY <1>a, <2>4, <2>8 DEF NInv
<1>10. ASSUME NEW h \in Handlers, Answer(h) PROVE NInv'
  BY <1>10, <1>c, <1>d DEF Answer, watchVars, NInv, NoteTyped
<1>11. ASSUME NEW h \in Handlers, Interrupted(h) PROVE NInv'
  BY <1>11, <1>c, <1>d DEF Interrupted, NInv, NoteTyped
<1>12. CASE UNCHANGED vars
  BY <1>12, <1>b DEF vars, watchVars
<1> QED
  BY <1>1, <1>2, <1>3, <1>4, <1>5, <1>6, <1>7, <1>8, <1>9, <1>10, <1>11, <1>12
    DEF NoteNext, NoteStep

LEMMA Notified == NoteSpec => []NInv
BY NoteInitial, NotesNext, PTL DEF NoteSpec

\* NoteTypeOK for any number of channels, handlers and faults.
THEOREM NoteTypeCorrect == NoteSpec => []NoteTypeOK
<1>1. NInv => NoteTypeOK
  BY TypedIsType DEF NInv, TInv, NoteTyped, NoteTypeOK, Hands, Steps, Keys
<1> QED BY <1>1, Notified, PTL

\* ActedUponOnce: however many deliveries of a Google notification overlap in however
\* many handlers, it is acted upon once (routes/providerWebhook.ts).
THEOREM GoogleOnce == NoteSpec => []ActedUponOnce
<1>1. NInv => ActedUponOnce
  <2> SUFFICES ASSUME NInv, provider = "google", NEW n \in Notes PROVE enqueued[n] <= 1
    BY DEF ActedUponOnce
  <2>1. enqueued[n] = 0 \/ enqueued[n] = 1
    BY DEF NInv, OneIsPast
  <2> QED BY <2>1
<1> QED BY <1>1, Notified, PTL

-----------------------------------------------------------------------------
(* Watches beneath the notifications *)

LEMMA FaultOnlyKeeps == FaultOnly => (MInv => MInv') /\ (OInv => OInv')
<1> SUFFICES ASSUME FaultOnly PROVE (MInv => MInv') /\ (OInv => OInv')
  OBVIOUS
<1>1. UNCHANGED <<provider, account, now, channel, rows, sub, unsub, pass, stopped>>
  BY DEF FaultOnly
<1>2. ASSUME MInv PROVE MInv'
  <2>1. TInv'
    BY <1>2, FaultOnlyNext DEF MInv
  <2>2. Mine' /\ Batches'
    BY <1>1, <1>2 DEF MInv, Mine, Batches, BatchOf, HasRow
  <2> QED BY <2>1, <2>2 DEF MInv
<1>3. ASSUME OInv PROVE OInv'
  <2>1. MInv' /\ StopsItsRow' /\ HoldsNone'
    BY <1>1, <1>2, <1>3 DEF OInv, StopsItsRow, HoldsNone, HasRow
  <2>2. Loose' = Loose
    BY <1>1 DEF Loose, Orphans, Dropping, Open
  <2>3. ASSUME account PROVE IsFiniteSet(Loose) /\ Cardinality(Loose) <= faults'
    <3>1. IsFiniteSet(Loose) /\ Cardinality(Loose) <= faults
      BY <1>3, <2>3 DEF OInv, LooseAccounted
    <3>2. faults \in Nat /\ faults' = faults + 1
      BY <1>3 DEF OInv, MInv, TInv, Typed, FaultOnly, Fault
    <3> HIDE DEF Loose
    <3>3. Cardinality(Loose) \in Nat
      BY <3>1, FS_CardinalityType
    <3> QED BY <3>1, <3>2, <3>3
  <2> QED BY <1>1, <2>1, <2>2, <2>3 DEF OInv, LooseAccounted
<1> QED BY <1>2, <1>3

LEMMA OrphansUnderNotes == NoteSpec => []OInv
<1>1. NoteInit => OInv
  BY OInvInit DEF NoteInit
<1>2. OInv /\ [NoteNext]_vars => OInv'
  BY OInvNext, FaultOnlyKeeps, NoteIsWatch
<1> QED BY <1>1, <1>2, PTL DEF NoteSpec

\* OrphansAccounted with notifications being served as well.
THEOREM FewOrphansNotified == NoteSpec => []OrphansAccounted
BY OrphansUnderNotes, AccountedFor, PTL

LEMMA SameProvider == [NoteNext]_vars => UNCHANGED provider
<1>1. [Next]_watchVars => UNCHANGED provider
  BY DEF Next, CallStep, PassStep, Tick, watchVars, DeleteAccount, Subscribe, ChannelCreated,
         CreateUnanswered,
         ChannelIdTaken, InsertRow, InsertFails, Unsubscribe, ChannelStopped, StopUnanswered, DeleteRow,
         DeleteFails, CrashCall, StartPass, NextWatch, Patched, UpdateRow, EndPass, PatchUnanswered,
         UpdateFails, CrashWorker
<1> QED BY <1>1, NoteIsWatch DEF FaultOnly

\* A call that is over stays so; its row, once gone, does not come back, and never
\* names another channel.
Fades(c) ==
  sub[c].at = "over" => /\ sub'[c].at = "over"
                        /\ HasRow(c)' => HasRow(c) /\ rows'[c].channel = rows[c].channel

LEMMA RowsFade == MInv /\ [Next]_watchVars => \A c \in Calls : Fades(c)
<1> SUFFICES ASSUME MInv, [Next]_watchVars PROVE \A c \in Calls : Fades(c)
  OBVIOUS
<1>t. TInv /\ Typed
  BY DEF MInv, TInv
<1>s. sub \in [Calls -> Calling] /\ rows \in [Calls -> Rows]
  BY <1>t DEF Typed
<1>r. Over.at = "over" /\ Rest.at = "rest"
  BY RestType
<1>1. ASSUME UNCHANGED rows, NEW c \in Calls, sub[c].at # "over", \A d \in Calls \ {c} : sub'[d] = sub[d]
      PROVE  \A d \in Calls : Fades(d)
  BY <1>1 DEF Fades, HasRow
<1>2. CASE UNCHANGED <<rows, sub>>
  BY <1>2 DEF Fades, HasRow
<1>3. ASSUME NEW c \in Calls, Subscribe(c) PROVE \A d \in Calls : Fades(d)
  BY <1>3, <1>1, <1>s, <1>r DEF Subscribe
<1>4. ASSUME NEW c \in Calls, ChannelCreated(c) \/ CreateUnanswered(c) \/ ChannelIdTaken(c)
      PROVE  \A d \in Calls : Fades(d)
  BY <1>4, <1>1, CreatesIs
<1>5. ASSUME NEW c \in Calls, InsertRow(c) PROVE \A d \in Calls : Fades(d)
  BY <1>5, <1>t, InsertRowIs DEF Fades, HasRow
<1>6. ASSUME NEW c \in Calls, InsertFails(c) PROVE \A d \in Calls : Fades(d)
  BY <1>6, <1>1, <1>s DEF InsertFails
<1>7. ASSUME NEW c \in Calls, DeleteRow(c) PROVE \A d \in Calls : Fades(d)
  BY <1>7, <1>s DEF DeleteRow, Fades, HasRow
<1>8. ASSUME NEW c \in Calls, CrashCall(c) PROVE \A d \in Calls : Fades(d)
  BY <1>8, <1>s, <1>r DEF CrashCall, Fades, HasRow
<1>9. ASSUME NEW c \in Calls, Unsubscribe(c) \/ ChannelStopped(c) \/ StopUnanswered(c) \/ DeleteFails(c)
      PROVE  UNCHANGED <<rows, sub>>
  BY <1>9 DEF Unsubscribe, ChannelStopped, StopUnanswered, DeleteFails
<1>10. ASSUME NEW w \in Workers, UpdateRow(w) PROVE \A d \in Calls : Fades(d)
  <2>1. PICK c \in Calls, ch \in Channels :
          /\ pass[w].cur = {<<c, ch>>}
          /\ \A d \in Calls \ {c} : rows'[d] = rows[d]
          /\ rows'[c] = rows[c] \/ (HasRow(c) /\ rows'[c].channel = ch)
          /\ UNCHANGED sub
    BY <1>10, <1>t, UpdateRowIs
  <2>2. HasRow(c) => ch = rows[c].channel
    <3>1. <<c, ch>> \in pass[w].batch \cup pass[w].cur
      BY <2>1
    <3> QED BY <3>1 DEF MInv, Batches, BatchOf
  <2> QED BY <2>1, <2>2 DEF Fades, HasRow
<1>11. ASSUME NEW w \in Workers, StartPass(w) \/ NextWatch(w) \/ Patched(w) \/ EndPass(w)
                                 \/ PatchUnanswered(w) \/ UpdateFails(w) \/ CrashWorker(w)
       PROVE  UNCHANGED <<rows, sub>>
  BY <1>11 DEF StartPass, NextWatch, Patched, EndPass, PatchUnanswered, UpdateFails, CrashWorker
<1>12. CASE DeleteAccount
  BY <1>12 DEF DeleteAccount, Fades, HasRow
<1>13. CASE Tick \/ UNCHANGED watchVars
  BY <1>13, <1>2 DEF Tick, watchVars
<1> QED BY <1>2, <1>3, <1>4, <1>5, <1>6, <1>7, <1>8, <1>9, <1>10, <1>11, <1>12, <1>13 DEF Next, CallStep, PassStep

LEMMA RowsFadeNotified == MInv /\ [NoteNext]_vars => MInv' /\ \A c \in Calls : Fades(c)
<1>1. MInv /\ FaultOnly => \A c \in Calls : Fades(c)
  BY DEF FaultOnly, Fades, HasRow
<1> QED BY <1>1, RowsFade, MInvNext, FaultOnlyKeeps, NoteIsWatch

-----------------------------------------------------------------------------
(* Settled notifications were acted upon *)

\* What a request carries, what is settled and what is keyed has been sent, and a key
\* that names a number names one notification.
InSent ==
  /\ settled \subseteq sent /\ early \subseteq sent
  /\ \A h \in Handlers : hand[h].todo \subseteq sent /\ hand[h].cur \subseteq sent /\ hand[h].batch \subseteq sent
  /\ \A k \in events : \E m \in sent : k = EventKey(m)
SentOn(ch) == {m \in sent : m.channel = ch}
Numbered ==
  /\ \A n \in sent : n.number <= Cardinality(SentOn(n.channel))
  /\ \A m, n \in sent : m.channel = n.channel /\ m.number = n.number => m = n

\* The call behind a notification that was not early has ended, so its row will only go.
StoredSince == \A n \in sent \ early : n.channel[1] \in Calls /\ sub[n.channel[1]].at = "over"

\* A notification that must not be lost, and one that is not.
Due(n) == n \notin early /\ n \notin cutOff /\ n.change # "sync" /\ WatchOf(n) # {}
Acted(n) ==
  enqueued[n] > 0 \/ (provider = "google" /\ \E h \in Handlers : hand[h].at = "log" /\ n \in hand[h].cur)

\* At Google, whoever finds a key may rely on the one who stored it; a request of
\* Microsoft's relies on itself alone.
KeyIsDone == provider = "google" => \A n \in sent \ cutOff : EventKey(n) \in events => Acted(n)
Carries(h, n) ==
  n \in hand[h].todo \/ (hand[h].at \in {"find", "insert", "log"} /\ n \in hand[h].cur)
InRequest ==
  \A h \in Handlers : hand[h].at # "idle" =>
    \A n \in hand[h].batch : Due(n) => Carries(h, n) \/ Acted(n)
SettledDone == \A n \in settled : Due(n) => Acted(n)

SInv == NInv /\ MInv /\ InSent /\ Numbered /\ StoredSince /\ KeyIsDone /\ InRequest /\ SettledDone

LEMMA SInvInit == NoteInit => SInv
<1> SUFFICES ASSUME NoteInit PROVE SInv
  OBVIOUS
<1>1. NInv /\ MInv
  BY NoteInitial, MInvInit DEF NoteInit
<1>2. Idle.at = "idle" /\ Idle.todo = {} /\ Idle.cur = {} /\ Idle.batch = {}
  BY ServingIs DEF Idle
<1>3. \A h \in Handlers : hand[h] = Idle
  BY DEF NoteInit
<1>4. sent = {} /\ settled = {} /\ events = {} /\ early = {}
  BY DEF NoteInit
<1>5. InSent /\ Numbered
  BY <1>2, <1>3, <1>4 DEF InSent, Numbered
<1>6. StoredSince /\ KeyIsDone /\ SettledDone
  BY <1>4 DEF StoredSince, KeyIsDone, SettledDone
<1>7. InRequest
  BY <1>2, <1>3 DEF InRequest
<1> QED BY <1>1, <1>5, <1>6, <1>7 DEF SInv

\* What the request of a step takes up comes from what it had, or was sent.
LEMMA HandGoes ==
  ASSUME NInv, NEW h \in Handlers, NoteStep(h)
  PROVE  /\ \A g \in Handlers \ {h} : hand'[g] = hand[g]
         /\ UNCHANGED <<sent, early>> /\ cutOff \subseteq cutOff'
<1>1. hand \in [Handlers -> Hands]
  BY DEF NInv, NoteTyped
<1>2. \A g \in Handlers \ {h} : hand'[g] = hand[g]
  BY <1>1 DEF NoteStep, Deliver, Take, FindWatch, InsertEvent, InsertEventFails, LogEnqueued, Answer, Interrupted, Goto
<1>3. UNCHANGED <<sent, early>> /\ cutOff \subseteq cutOff'
  BY DEF NoteStep, Deliver, Take, FindWatch, InsertEvent, InsertEventFails, LogEnqueued, Answer, Interrupted
<1> QED BY <1>2, <1>3

LEMMA NotifyIs ==
  ASSUME NInv, NEW ch \in Channels, NEW change \in Changes \cup {"sync"}, Notify(ch, change)
  PROVE  \E note \in Notes :
           /\ note.channel = ch /\ note.number = Cardinality(SentOn(ch)) + 1
           /\ sent' = sent \cup {note}
           /\ early' = IF WatchOf(note) = {} THEN early \cup {note} ELSE early
           /\ UNCHANGED <<watchVars, settled, events, hand, enqueued, cutOff>>
<1> DEFINE note == [channel |-> ch, number |-> Cardinality(SentOn(ch)) + 1, change |-> change]
<1>1. IsFiniteSet(sent) /\ Cardinality(sent) < MaxNotes /\ SentOn(ch) \subseteq sent
  BY DEF NInv, NoteTyped, Notify, SentOn
<1>2. Cardinality(SentOn(ch)) + 1 \in 1 .. MaxNotes
  <2>1. Cardinality(sent) \in Nat /\ Cardinality(SentOn(ch)) \in Nat /\ Cardinality(SentOn(ch)) <= Cardinality(sent)
    BY <1>1, FS_Subset, FS_CardinalityType
  <2> QED BY <1>1, <2>1, NoteConstants
<1>3. note \in Notes
  BY <1>2 DEF Notes
<1>4. /\ sent' = sent \cup {note}
      /\ early' = IF WatchOf(note) = {} THEN early \cup {note} ELSE early
      /\ UNCHANGED <<watchVars, settled, events, hand, enqueued, cutOff>>
  BY DEF Notify, SentOn
<1>5. note.channel = ch /\ note.number = Cardinality(SentOn(ch)) + 1
  OBVIOUS
<1> HIDE DEF note
<1> QED BY <1>3, <1>4, <1>5

\* A new notification has a number of its own.
LEMMA NotifyIsNew ==
  ASSUME SInv, NEW ch, NEW note, note.channel = ch, note.number = Cardinality(SentOn(ch)) + 1
  PROVE  \A n \in sent : n.channel = ch => n.number < note.number
<1>1. IsFiniteSet(SentOn(ch))
  <2>1. IsFiniteSet(sent) /\ SentOn(ch) \subseteq sent
    BY DEF SInv, NInv, NoteTyped, SentOn
  <2> QED BY <2>1, FS_Subset
<1>2. Cardinality(SentOn(ch)) \in Nat
  BY <1>1, FS_CardinalityType
<1>3. \A n \in sent : n.number \in Nat
  BY NoteConstants DEF SInv, NInv, NoteTyped, Notes
<1> QED BY <1>2, <1>3 DEF SInv, Numbered

LEMMA NumberedNext == SInv /\ [NoteNext]_vars => Numbered'
<1> SUFFICES ASSUME SInv, [NoteNext]_vars PROVE Numbered'
  OBVIOUS
<1>n. NInv
  BY DEF SInv
<1>1. CASE UNCHANGED sent
  BY <1>1 DEF SInv, Numbered, SentOn
<1>2. ASSUME NEW ch \in Channels, NEW change \in Changes \cup {"sync"}, Notify(ch, change) PROVE Numbered'
  <2>1. PICK note \in Notes : /\ note.channel = ch /\ note.number = Cardinality(SentOn(ch)) + 1
                              /\ sent' = sent \cup {note}
    BY <1>2, <1>n, NotifyIs
  <2>2. \A n \in sent : n.channel = ch => n.number < note.number
    BY <2>1, NotifyIsNew
  <2>3. \A n \in sent : n.number \in Nat
    BY NoteConstants DEF SInv, NInv, NoteTyped, Notes
  <2>4. note.number \in Nat
    BY NoteConstants DEF Notes
  <2>5. \A m, n \in sent' : m.channel = n.channel /\ m.number = n.number => m = n
    BY <2>1, <2>2, <2>3, <2>4 DEF SInv, Numbered
  <2>6. IsFiniteSet(SentOn(ch)) /\ note \notin SentOn(ch)
    <3>1. IsFiniteSet(sent) /\ SentOn(ch) \subseteq sent
      BY DEF SInv, NInv, NoteTyped, SentOn
    <3>2. note \notin sent
      BY <2>1, <2>2, <2>4
    <3> QED BY <3>1, <3>2, FS_Subset
  <2>7. SentOn(ch)' = SentOn(ch) \cup {note}
    BY <2>1 DEF SentOn
  <2>8. Cardinality(SentOn(ch) \cup {note}) = Cardinality(SentOn(ch)) + 1
    <3> HIDE DEF SentOn
    <3> QED BY <2>6, FS_AddElement
  <2>9. \A n \in sent' : n.number <= Cardinality(SentOn(n.channel)')
    <3>1. ASSUME NEW n \in sent', n.channel = ch PROVE n.number <= Cardinality(SentOn(ch)')
      BY <2>1, <2>2, <2>3, <2>4, <2>7, <2>8, <3>1
    <3>2. ASSUME NEW n \in sent', n.channel # ch PROVE n.number <= Cardinality(SentOn(n.channel)')
      <4>1. n \in sent /\ SentOn(n.channel)' = SentOn(n.channel)
        BY <2>1, <3>2 DEF SentOn
      <4> QED BY <4>1 DEF SInv, Numbered
    <3> QED BY <3>1, <3>2
  <2> QED BY <2>5, <2>9 DEF Numbered, SentOn
<1>3. ASSUME NEW h \in Handlers, NoteStep(h) PROVE UNCHANGED sent
  BY <1>3, <1>n, HandGoes
<1>4. CASE WatchStep \/ TimePasses \/ UNCHANGED vars
  BY <1>4, <1>1 DEF WatchStep, TimePasses, noteVars, vars
<1> QED BY <1>1, <1>2, <1>3, <1>4 DEF NoteNext

LEMMA InSentNext == SInv /\ [NoteNext]_vars => InSent'
<1> SUFFICES ASSUME SInv, [NoteNext]_vars PROVE InSent'
  OBVIOUS
<1>n. NInv /\ InSent /\ hand \in [Handlers -> Hands]
  BY DEF SInv, NInv, NoteTyped
<1>k. \A n : EventKey(n)' = EventKey(n)
  BY SameProvider DEF EventKey
<1>1. CASE UNCHANGED <<sent, settled, early, hand, events>>
  BY <1>1, <1>n, <1>k DEF InSent
<1>2. ASSUME NEW ch \in Channels, NEW change \in Changes \cup {"sync"}, Notify(ch, change) PROVE InSent'
  <2>1. PICK note \in Notes : sent' = sent \cup {note} /\ early' \subseteq early \cup {note}
                              /\ UNCHANGED <<settled, events, hand>>
    BY <1>2, <1>n, NotifyIs
  <2> QED BY <2>1, <1>n, <1>k DEF InSent
<1>3. ASSUME NEW h \in Handlers, NoteStep(h) PROVE InSent'
  <2>1. UNCHANGED <<sent, early>> /\ \A g \in Handlers \ {h} : hand'[g] = hand[g]
    BY <1>3, <1>n, HandGoes
  <2>2. hand'[h].todo \subseteq sent /\ hand'[h].cur \subseteq sent /\ hand'[h].batch \subseteq sent
    <3>1. ASSUME NEW step, NEW todo \in SUBSET sent, NEW n \in SUBSET sent, NEW batch \in SUBSET sent,
                 hand' = [hand EXCEPT ![h] = Serving(step, todo, n, batch)]
          PROVE  hand'[h].todo \subseteq sent /\ hand'[h].cur \subseteq sent /\ hand'[h].batch \subseteq sent
      <4>1. hand'[h] = Serving(step, todo, n, batch)
        BY <1>n, <3>1
      <4> QED BY <4>1, ServingIs
    <3>2. ASSUME NEW step \in Steps, Goto(h, step)
          PROVE  hand'[h].todo \subseteq sent /\ hand'[h].cur \subseteq sent /\ hand'[h].batch \subseteq sent
      <4>1. hand'[h] = [hand[h] EXCEPT !.at = step] /\ hand[h] \in Hands
        BY <1>n, <3>2 DEF Goto
      <4>2. hand'[h].todo = hand[h].todo /\ hand'[h].cur = hand[h].cur /\ hand'[h].batch = hand[h].batch
        BY <4>1 DEF Hands
      <4> QED BY <1>n, <4>2 DEF InSent
    <3>3. ASSUME NEW batch \in SUBSET sent, Deliver(h, batch)
          PROVE  hand'[h].todo \subseteq sent /\ hand'[h].cur \subseteq sent /\ hand'[h].batch \subseteq sent
      BY <3>1, <3>3 DEF Deliver
    <3>4. CASE Take(h)
      <4>1. PICK n \in hand[h].todo : hand' = [hand EXCEPT ![h] = Serving("find", hand[h].todo \ {n}, {n}, hand[h].batch)]
        BY <3>4 DEF Take
      <4>2. hand[h].todo \subseteq sent /\ hand[h].batch \subseteq sent
        BY <1>n DEF InSent
      <4> QED BY <3>1, <4>1, <4>2
    <3>5. CASE FindWatch(h) \/ InsertEvent(h) \/ InsertEventFails(h) \/ LogEnqueued(h)
      <4>1. PICK step \in Steps : Goto(h, step)
        BY <3>5 DEF FindWatch, InsertEvent, InsertEventFails, LogEnqueued, Steps
      <4> QED BY <3>2, <4>1
    <3>6. CASE Answer(h) \/ Interrupted(h)
      <4>1. hand' = [hand EXCEPT ![h] = Idle]
        BY <3>6 DEF Answer, Interrupted
      <4>2. hand'[h] = Idle /\ Idle.todo = {} /\ Idle.cur = {} /\ Idle.batch = {}
        BY <1>n, <4>1, ServingIs DEF Idle
      <4> QED BY <4>2
    <3> QED BY <1>3, <3>3, <3>4, <3>5, <3>6 DEF NoteStep
  <2>3. settled' \subseteq sent
    BY <1>3, <1>n DEF NoteStep, Deliver, Take, FindWatch, InsertEvent, InsertEventFails, LogEnqueued, Answer,
                      Interrupted, InSent
  <2>4. events' \subseteq events \cup {EventKey(n) : n \in sent}
    <3>1. CASE InsertEvent(h)
      <4>1. Note(h) \in sent
        BY <3>1, <1>n, NoteIs DEF InsertEvent, InSent, NInv
      <4> QED BY <3>1, <4>1 DEF InsertEvent
    <3>2. CASE ~InsertEvent(h)
      BY <1>3, <3>2 DEF NoteStep, Deliver, Take, FindWatch, InsertEventFails, LogEnqueued, Answer, Interrupted
    <3> QED BY <3>1, <3>2
  <2> QED BY <1>n, <1>k, <2>1, <2>2, <2>3, <2>4 DEF InSent
<1>4. CASE WatchStep \/ TimePasses \/ UNCHANGED vars
  BY <1>4, <1>1 DEF WatchStep, TimePasses, noteVars, vars
<1> QED BY <1>2, <1>3, <1>4 DEF NoteNext

LEMMA StoredSinceNext == SInv /\ [NoteNext]_vars => StoredSince'
<1> SUFFICES ASSUME SInv, [NoteNext]_vars PROVE StoredSince'
  OBVIOUS
<1>n. NInv
  BY DEF SInv
<1>f. \A c \in Calls : Fades(c)
  BY RowsFadeNotified DEF SInv
<1>1. CASE sent' \ early' \subseteq sent \ early
  BY <1>1, <1>f DEF SInv, StoredSince, Fades
<1>2. ASSUME NEW ch \in Channels, NEW change \in Changes \cup {"sync"}, Notify(ch, change) PROVE StoredSince'
  <2>1. PICK note \in Notes : /\ sent' = sent \cup {note}
                              /\ early' = IF WatchOf(note) = {} THEN early \cup {note} ELSE early
                              /\ UNCHANGED watchVars
    BY <1>2, <1>n, NotifyIs
  <2>2. UNCHANGED sub
    BY <2>1 DEF watchVars
  <2>3. ASSUME WatchOf(note) # {} PROVE note.channel[1] \in Calls /\ sub[note.channel[1]].at = "over"
    <3>1. PICK c \in Calls : HasRow(c) /\ rows[c].channel = note.channel
      BY <2>3 DEF WatchOf
    <3> QED BY <3>1 DEF SInv, MInv, Mine
  <2> QED BY <2>1, <2>2, <2>3 DEF SInv, StoredSince
<1>3. ASSUME NEW h \in Handlers, NoteStep(h) PROVE sent' \ early' \subseteq sent \ early
  BY <1>3, <1>n, HandGoes
<1>4. CASE WatchStep \/ TimePasses \/ UNCHANGED vars
  BY <1>4, <1>1 DEF WatchStep, TimePasses, noteVars, vars
<1> QED BY <1>1, <1>2, <1>3, <1>4 DEF NoteNext

\* No notification becomes due.
LEMMA DueFades == SInv /\ [NoteNext]_vars => \A n \in sent : Due(n)' => Due(n)
<1> SUFFICES ASSUME SInv, [NoteNext]_vars, NEW n \in sent, Due(n)' PROVE Due(n)
  OBVIOUS
<1>1. early \subseteq early' /\ cutOff \subseteq cutOff'
  <2>n. NInv
    BY DEF SInv
  <2>1. ASSUME NEW h \in Handlers, NoteStep(h) PROVE early \subseteq early' /\ cutOff \subseteq cutOff'
    BY <2>1, <2>n, HandGoes
  <2>2. ASSUME NEW ch \in Channels, NEW change \in Changes \cup {"sync"}, Notify(ch, change)
        PROVE  early \subseteq early' /\ cutOff \subseteq cutOff'
    BY <2>2 DEF Notify
  <2> QED BY <2>1, <2>2 DEF NoteNext, WatchStep, TimePasses, noteVars, vars
<1>2. n \notin early /\ n \notin cutOff /\ n.change # "sync" /\ WatchOf(n)' # {}
  BY <1>1 DEF Due
<1>3. PICK c \in Calls : HasRow(c)' /\ rows'[c].channel = n.channel
  BY <1>2 DEF WatchOf
<1>4. MInv' /\ Fades(c)
  BY RowsFadeNotified DEF SInv
<1>5. c = n.channel[1]
  BY <1>3, <1>4 DEF MInv, Mine
<1>6. sub[c].at = "over"
  BY <1>2, <1>5 DEF SInv, StoredSince
<1>7. c \in WatchOf(n)
  BY <1>3, <1>4, <1>6 DEF Fades, WatchOf
<1> QED BY <1>2, <1>7 DEF Due

\* What was acted upon stays so, unless the handler is cut off.
LEMMA ActedStays == SInv /\ [NoteNext]_vars => \A n \in Notes : Acted(n) /\ n \notin cutOff' => Acted(n)'
<1> SUFFICES ASSUME SInv, [NoteNext]_vars, NEW n \in Notes, Acted(n), n \notin cutOff' PROVE Acted(n)'
  OBVIOUS
<1>n. NInv /\ enqueued \in [Notes -> Nat] /\ hand \in [Handlers -> Hands] /\ UNCHANGED provider
  BY SameProvider DEF SInv, NInv, NoteTyped
<1>1. CASE UNCHANGED <<enqueued, hand>>
  BY <1>1, <1>n DEF Acted
<1>2. ASSUME NEW h \in Handlers, NoteStep(h) PROVE Acted(n)'
  <2>1. \A g \in Handlers \ {h} : hand'[g] = hand[g]
    BY <1>2, <1>n, HandGoes
  <2>2. CASE LogEnqueued(h)
    <3>1. hand[h].cur = {Note(h)} /\ Note(h) \in Notes
      BY <2>2, <1>n, NoteIs DEF LogEnqueued, NInv
    <3>2. enqueued' = [enqueued EXCEPT ![Note(h)] = enqueued[Note(h)] + 1]
      BY <2>2 DEF LogEnqueued
    <3>3. enqueued'[Note(h)] > 0 /\ (enqueued[n] > 0 => enqueued'[n] > 0)
      BY <1>n, <3>1, <3>2
    <3> QED BY <1>n, <2>1, <3>1, <3>3 DEF Acted
  <2>3. CASE Interrupted(h)
    <3>1. provider = "google" /\ hand[h].at = "log" => n \notin hand[h].cur
      BY <2>3 DEF Interrupted
    <3>2. UNCHANGED enqueued
      BY <2>3 DEF Interrupted
    <3> QED BY <1>n, <2>1, <3>1, <3>2 DEF Acted
  <2>4. CASE ~LogEnqueued(h) /\ ~Interrupted(h)
    <3>0. Idle.at # "log"
      BY ServingIs DEF Idle
    <3>1. UNCHANGED enqueued /\ hand[h].at # "log"
      <4>1. CASE \E batch \in SUBSET sent : Deliver(h, batch)
        BY <3>0, <4>1 DEF Deliver
      <4>2. CASE Take(h) \/ FindWatch(h) \/ InsertEvent(h) \/ InsertEventFails(h) \/ Answer(h)
        BY <4>2 DEF Take, FindWatch, InsertEvent, InsertEventFails, Answer
      <4> QED BY <1>2, <2>4, <4>1, <4>2 DEF NoteStep
    <3> QED BY <1>n, <2>1, <3>1 DEF Acted
  <2> QED BY <2>2, <2>3, <2>4
<1>3. ASSUME NEW ch \in Channels, NEW change \in Changes \cup {"sync"}, Notify(ch, change)
      PROVE  UNCHANGED <<enqueued, hand>>
  BY <1>3 DEF Notify
<1> QED BY <1>1, <1>2, <1>3 DEF NoteNext, WatchStep, TimePasses, noteVars, vars

LEMMA KeyNumbers ==
  ASSUME Numbered, provider = "google", NEW m \in sent, NEW n \in sent, EventKey(m) = EventKey(n)
  PROVE  m = n
<1>1. m.channel = n.channel /\ m.number = n.number
  BY DEF EventKey
<1> QED BY <1>1 DEF Numbered

LEMMA KeyIsDoneNext == SInv /\ [NoteNext]_vars => KeyIsDone'
<1> SUFFICES ASSUME SInv, [NoteNext]_vars, provider = "google", NEW n \in sent', n \notin cutOff',
                    (EventKey(n) \in events)'
             PROVE  Acted(n)'
  BY SameProvider DEF KeyIsDone
<1>n. NInv /\ InSent /\ Numbered /\ sent \subseteq Notes
  BY DEF SInv, NInv, NoteTyped
<1>k. EventKey(n)' = EventKey(n)
  BY SameProvider DEF EventKey
<1>1. ASSUME n \in sent, EventKey(n) \in events, cutOff \subseteq cutOff' PROVE Acted(n)'
  <2>1. Acted(n)
    BY <1>1 DEF SInv, KeyIsDone
  <2>2. n \in Notes /\ n \notin cutOff'
    BY <1>1, <1>n
  <2> QED BY <2>1, <2>2, ActedStays
<1>2. ASSUME NEW ch \in Channels, NEW change \in Changes \cup {"sync"}, Notify(ch, change) PROVE Acted(n)'
  <2>1. PICK note \in Notes : /\ note.channel = ch /\ note.number = Cardinality(SentOn(ch)) + 1
                              /\ sent' = sent \cup {note} /\ UNCHANGED <<events, cutOff>>
    BY <1>2, <1>n, NotifyIs
  <2>2. CASE n \in sent
    BY <1>1, <1>k, <2>1, <2>2
  <2>3. CASE n = note
    <3>1. PICK m \in sent : EventKey(n) = EventKey(m)
      BY <1>n, <1>k, <2>1 DEF InSent
    <3>2. m.channel = ch /\ m.number = note.number
      BY <2>1, <2>3, <3>1 DEF EventKey
    <3>3. m.number < note.number /\ note.number \in Nat
      BY <2>1, <3>2, NotifyIsNew, NoteConstants DEF Notes
    <3> QED BY <3>2, <3>3
  <2> QED BY <2>1, <2>2, <2>3
<1>3. ASSUME NEW h \in Handlers, NoteStep(h) PROVE Acted(n)'
  <2>1. UNCHANGED sent /\ cutOff \subseteq cutOff'
    BY <1>3, <1>n, HandGoes
  <2>2. CASE EventKey(n) \in events
    BY <1>1, <2>1, <2>2
  <2>3. CASE EventKey(n) \notin events
    <3>1. InsertEvent(h)
      <4>1. SUFFICES ASSUME ~InsertEvent(h) PROVE UNCHANGED events
        BY <1>k, <2>3
      <4> QED BY <1>3, <4>1 DEF NoteStep, Deliver, Take, FindWatch, InsertEventFails, LogEnqueued, Answer, Interrupted
    <3>2. Note(h) \in sent /\ hand[h].cur = {Note(h)}
      BY <3>1, <1>n, NoteIs DEF InsertEvent, InSent, NInv
    <3>3. EventKey(n) = EventKey(Note(h))
      BY <1>k, <2>3, <3>1 DEF InsertEvent
    <3>4. n = Note(h)
      BY <1>n, <2>1, <3>2, <3>3, KeyNumbers
    <3>5. Goto(h, "log")
      BY <2>3, <3>1, <3>3 DEF InsertEvent
    <3>6. hand'[h].at = "log" /\ n \in hand'[h].cur
      BY <1>n, <3>2, <3>4, <3>5, GotoIs DEF NInv, NoteTyped, Steps
    <3> QED BY <3>6, SameProvider DEF Acted
  <2> QED BY <2>2, <2>3
<1>4. CASE WatchStep \/ TimePasses \/ UNCHANGED vars
  <2>1. UNCHANGED <<sent, events, cutOff>>
    BY <1>4 DEF WatchStep, TimePasses, noteVars, vars
  <2> QED BY <1>1, <1>k, <2>1
<1> QED BY <1>2, <1>3, <1>4 DEF NoteNext

\* Of the request that takes the step: a notification it carries, and must not lose, it
\* carries on or has acted upon.
LEMMA CarriesOn ==
  ASSUME SInv, [NoteNext]_vars, NEW h \in Handlers, NoteStep(h), NEW n \in hand'[h].batch, hand'[h].at # "idle",
         Due(n)'
  PROVE  Carries(h, n)' \/ Acted(n)'
<1>n. NInv /\ InSent /\ InSent' /\ hand \in [Handlers -> Hands] /\ UNCHANGED sent /\ sent \subseteq Notes
  BY HandGoes, InSentNext DEF SInv, NInv, NoteTyped
<1>d. n \in sent /\ Due(n) /\ n \notin cutOff' /\ n.change # "sync"
  <2>1. n \in sent
    BY <1>n DEF InSent
  <2> QED BY <2>1, DueFades DEF Due
<1>a. Acted(n) => Acted(n)'
  BY <1>n, <1>d, ActedStays
<1>i. ASSUME hand[h].at # "idle", n \in hand[h].batch PROVE Carries(h, n) \/ Acted(n)
  BY <1>d, <1>i DEF SInv, InRequest
<1>g. ASSUME NEW step \in Steps, Goto(h, step)
      PROVE  /\ hand'[h].at = step /\ hand'[h].cur = hand[h].cur
             /\ hand'[h].todo = hand[h].todo /\ hand'[h].batch = hand[h].batch
  <2>1. hand'[h] = [hand[h] EXCEPT !.at = step] /\ hand[h] \in Hands
    BY <1>n, <1>g DEF Goto
  <2> QED BY <2>1 DEF Hands
<1>1. ASSUME NEW batch \in SUBSET sent, Deliver(h, batch) PROVE Carries(h, n)'
  <2>1. hand'[h] = Serving("next", {m \in batch : m.change # "sync"}, {}, batch)
    BY <1>1, <1>n DEF Deliver
  <2>2. hand'[h].todo = {m \in batch : m.change # "sync"} /\ hand'[h].batch = batch
    BY <2>1, ServingIs
  <2> QED BY <2>2, <1>d DEF Carries
<1>2. CASE Take(h)
  <2>1. PICK m \in hand[h].todo : hand' = [hand EXCEPT ![h] = Serving("find", hand[h].todo \ {m}, {m}, hand[h].batch)]
    BY <1>2 DEF Take
  <2>2. /\ hand'[h].at = "find" /\ hand'[h].todo = hand[h].todo \ {m} /\ hand'[h].cur = {m}
        /\ hand'[h].batch = hand[h].batch
    BY <1>n, <2>1, ServingIs
  <2>3. hand[h].at = "next"
    BY <1>2 DEF Take
  <2> QED BY <1>a, <1>i, <2>2, <2>3 DEF Carries
<1>3. CASE FindWatch(h)
  <2>1. hand[h].at = "find"
    BY <1>3 DEF FindWatch
  <2>2. PICK step \in {"next", "insert"} : Goto(h, step) /\ (WatchOf(Note(h)) # {} => step = "insert")
    BY <1>3 DEF FindWatch
  <2>3. /\ hand'[h].at = step /\ hand'[h].cur = hand[h].cur
        /\ hand'[h].todo = hand[h].todo /\ hand'[h].batch = hand[h].batch
    BY <1>g, <2>2 DEF Steps
  <2>4. hand[h].cur = {Note(h)}
    BY <2>1, <1>n, NoteIs DEF NInv
  <2>5. n \in hand[h].cur => step = "insert"
    BY <1>d, <2>2, <2>4 DEF Due
  <2> QED BY <1>a, <1>i, <2>1, <2>3, <2>5 DEF Carries
<1>4. CASE InsertEvent(h)
  <2>1. hand[h].at = "insert"
    BY <1>4 DEF InsertEvent
  <2>2. hand[h].cur = {Note(h)}
    BY <2>1, <1>n, NoteIs DEF NInv
  <2>3. PICK step \in {"next", "log"} :
          Goto(h, step) /\ (step = "next" => provider = "google" /\ EventKey(Note(h)) \in events)
    BY <1>4 DEF InsertEvent
  <2>4. /\ hand'[h].at = step /\ hand'[h].cur = hand[h].cur
        /\ hand'[h].todo = hand[h].todo /\ hand'[h].batch = hand[h].batch
    BY <1>g, <2>3 DEF Steps
  <2>5. n \in hand[h].cur /\ step = "next" => Acted(n)
    BY <1>d, <2>2, <2>3 DEF Due, SInv, KeyIsDone
  <2> QED BY <1>a, <1>i, <2>1, <2>3, <2>4, <2>5 DEF Carries
<1>5. CASE InsertEventFails(h)
  <2>1. hand[h].at = "insert"
    BY <1>5 DEF InsertEventFails
  <2>2. hand[h].cur = {Note(h)}
    BY <2>1, <1>n, NoteIs DEF NInv
  <2>3. PICK step \in {"next", "log"} : Goto(h, step) /\ (step = "next" => Note(h) \in cutOff')
    BY <1>5 DEF InsertEventFails
  <2>4. /\ hand'[h].at = step /\ hand'[h].cur = hand[h].cur
        /\ hand'[h].todo = hand[h].todo /\ hand'[h].batch = hand[h].batch
    BY <1>g, <2>3 DEF Steps
  <2>5. n \in hand[h].cur => step = "log"
    BY <1>d, <2>2, <2>3
  <2> QED BY <1>a, <1>i, <2>1, <2>4, <2>5 DEF Carries
<1>6. CASE LogEnqueued(h)
  <2>1. hand[h].at = "log"
    BY <1>6 DEF LogEnqueued
  <2>2. hand[h].cur = {Note(h)} /\ Note(h) \in Notes
    BY <2>1, <1>n, NoteIs DEF NInv
  <2>3. Goto(h, "next") /\ enqueued' = [enqueued EXCEPT ![Note(h)] = enqueued[Note(h)] + 1] /\ enqueued \in [Notes -> Nat]
    BY <1>6, <1>n DEF LogEnqueued, NInv, NoteTyped
  <2>4. /\ hand'[h].at = "next" /\ hand'[h].todo = hand[h].todo /\ hand'[h].batch = hand[h].batch
    BY <1>g, <2>3 DEF Steps
  <2>5. enqueued'[Note(h)] > 0
    BY <2>2, <2>3
  <2>6. n \in hand[h].cur => Acted(n)'
    BY <2>2, <2>5 DEF Acted
  <2> QED BY <1>a, <1>i, <2>1, <2>4, <2>6 DEF Carries
<1>7. CASE Answer(h) \/ Interrupted(h)
  <2>1. hand'[h] = Idle /\ Idle.at = "idle"
    BY <1>7, <1>n, ServingIs DEF Answer, Interrupted, Idle
  <2> QED BY <2>1
<1> QED BY <1>1, <1>2, <1>3, <1>4, <1>5, <1>6, <1>7 DEF NoteStep

LEMMA InRequestNext == SInv /\ [NoteNext]_vars => InRequest'
<1> SUFFICES ASSUME SInv, [NoteNext]_vars, NEW g \in Handlers, hand'[g].at # "idle",
                    NEW n \in hand'[g].batch, Due(n)'
             PROVE  Carries(g, n)' \/ Acted(n)'
  BY DEF InRequest
<1>n. NInv /\ InSent /\ sent \subseteq Notes
  BY DEF SInv, NInv, NoteTyped
<1>1. ASSUME hand'[g] = hand[g] PROVE Carries(g, n)' \/ Acted(n)'
  <2>1. n \in sent /\ n \in Notes /\ n \notin cutOff'
    BY <1>1, <1>n DEF InSent, Due
  <2>2. Due(n)
    BY <2>1, DueFades
  <2>3. Carries(g, n) \/ Acted(n)
    BY <1>1, <2>2 DEF SInv, InRequest
  <2> QED BY <1>1, <2>1, <2>3, ActedStays DEF Carries
<1>2. ASSUME NEW h \in Handlers, NoteStep(h) PROVE Carries(g, n)' \/ Acted(n)'
  <2>1. CASE g = h
    BY <1>2, <2>1, CarriesOn
  <2>2. CASE g # h
    BY <1>1, <1>2, <1>n, <2>2, HandGoes
  <2> QED BY <2>1, <2>2
<1>3. ASSUME NEW ch \in Channels, NEW change \in Changes \cup {"sync"}, Notify(ch, change)
      PROVE  Carries(g, n)' \/ Acted(n)'
  BY <1>1, <1>3 DEF Notify
<1> QED BY <1>1, <1>2, <1>3 DEF NoteNext, WatchStep, TimePasses, noteVars, vars

LEMMA SettledDoneNext == SInv /\ [NoteNext]_vars => SettledDone'
<1> SUFFICES ASSUME SInv, [NoteNext]_vars, NEW n \in settled', Due(n)' PROVE Acted(n)'
  BY DEF SettledDone
<1>n. NInv /\ InSent /\ sent \subseteq Notes
  BY DEF SInv, NInv, NoteTyped
<1>1. ASSUME n \in sent, Acted(n) PROVE Acted(n)'
  BY <1>1, <1>n, ActedStays DEF Due
<1>2. CASE n \in settled
  BY <1>1, <1>2, <1>n, DueFades DEF InSent, SInv, SettledDone
<1>3. ASSUME NEW h \in Handlers, Answer(h), n \in hand[h].batch PROVE Acted(n)'
  <2>1. n \in sent /\ hand[h].at = "next" /\ hand[h].todo = {}
    BY <1>3, <1>n DEF InSent, Answer
  <2>2. Due(n)
    BY <2>1, DueFades
  <2> QED BY <1>1, <1>3, <2>1, <2>2 DEF SInv, InRequest, Carries
<1>4. n \in settled \/ \E h \in Handlers : Answer(h) /\ n \in hand[h].batch
  <2>1. ASSUME NEW h \in Handlers, NoteStep(h) PROVE n \in settled \/ (Answer(h) /\ n \in hand[h].batch)
    <3>1. CASE Answer(h)
      <4>1. settled' = settled \cup hand[h].batch
        BY <3>1 DEF Answer
      <4> QED BY <3>1, <4>1
    <3>2. CASE ~Answer(h)
      <4>1. settled' = settled
        BY <2>1, <3>2 DEF NoteStep, Deliver, Take, FindWatch, InsertEvent, InsertEventFails, LogEnqueued, Interrupted
      <4> QED BY <4>1
    <3> QED BY <3>1, <3>2
  <2>2. ASSUME NEW ch \in Channels, NEW change \in Changes \cup {"sync"}, Notify(ch, change) PROVE n \in settled
    BY <2>2 DEF Notify
  <2> QED BY <2>1, <2>2 DEF NoteNext, WatchStep, TimePasses, noteVars, vars
<1> QED BY <1>2, <1>3, <1>4

\* SettledIsActedUpon, for any number of channels, overlapping deliveries and faults:
\* what the provider is told not to repeat was acted upon (routes/providerWebhook.ts).
THEOREM SettledWasActedUpon == NoteSpec => []SettledIsActedUpon
<1>1. SInv /\ [NoteNext]_vars => SInv'
  BY NotesNext, RowsFadeNotified, InSentNext, NumberedNext, StoredSinceNext, KeyIsDoneNext, InRequestNext, SettledDoneNext
    DEF SInv
<1>2. SInv => SettledIsActedUpon
  <2> SUFFICES ASSUME SInv, NEW n \in settled, Due(n)
               PROVE  enqueued[n] > 0 \/ \E h \in Handlers : hand[h].at = "log" /\ n \in hand[h].cur
    BY DEF SettledIsActedUpon, Due
  <2> QED BY DEF SInv, SettledDone, Acted
<1> QED BY <1>1, <1>2, SInvInit, PTL DEF NoteSpec
=============================================================================
