--------------------------- MODULE DeliveryContract ---------------------------
(***************************************************************************)
(* What the delivery log promises to the caller of enqueueDelivery and to  *)
(* the user who reads it: a delivery that was handed over is owed to the   *)
(* endpoint until it is settled once, as delivered or as failed; delivered *)
(* means the endpoint accepted it; a settled delivery is offered again     *)
(* only when the user asks for it; a webhook's deliveries go with it.      *)
(***************************************************************************)
CONSTANTS Hooks, Events

VARIABLES
  state,  \* [Deliveries -> none, owed, delivered, failed or gone]
  taken   \* deliveries their endpoint has accepted at least once

vars == <<state, taken>>

Deliveries == Hooks \X Events

Init ==
  /\ state = [d \in Deliveries |-> "none"]
  /\ taken = {}

Submit(d) ==
  /\ state[d] = "none"
  /\ state' = [state EXCEPT ![d] = "owed"]
  /\ taken' = taken

\* An attempt that was under way when the webhook was deleted may still arrive.
Accept(d) ==
  /\ state[d] \in {"owed", "gone"}
  /\ taken' = taken \cup {d}
  /\ state' = state

Settle(d) ==
  /\ state[d] = "owed"
  /\ \/ d \in taken /\ state' = [state EXCEPT ![d] = "delivered"]
     \/ state' = [state EXCEPT ![d] = "failed"]
  /\ taken' = taken

Ask(d) ==
  /\ state[d] \in {"delivered", "failed"}
  /\ state' = [state EXCEPT ![d] = "owed"]
  /\ taken' = taken

Remove(h) ==
  /\ state' = [d \in Deliveries |-> IF d[1] = h THEN "gone" ELSE state[d]]
  /\ taken' = taken

Next ==
  \/ \E d \in Deliveries : Submit(d) \/ Accept(d) \/ Settle(d) \/ Ask(d)
  \/ \E h \in Hooks : Remove(h)

Spec == Init /\ [][Next]_vars

\* Nothing stays owed for ever.
FairSpec == Spec /\ \A d \in Deliveries : WF_vars(Settle(d))
=============================================================================
