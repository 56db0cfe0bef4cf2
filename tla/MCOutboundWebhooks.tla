-------------------------- MODULE MCOutboundWebhooks --------------------------
(* Small instances of OutboundWebhooks for TLC. *)
EXTENDS OutboundWebhooks, TLC

CONSTANTS h1, h2, e1, e2, w1, w2

\* Every webhook wants every event.
MCSubscriptions == {h1, h2} \X {e1, e2}
MCSubscriptions1 == {h1, h2} \X {e1}
MCOneDelivery == {<<h1, e1>>}

WorkerSymmetry == Permutations({w1, w2})
=============================================================================
