------------------------- MODULE MCProviderWebhooks -------------------------
(* Small instance of ProviderWebhooks, and with it of Watches, for TLC. *)
EXTENDS ProviderWebhooks, TLC

CONSTANTS c1, w1, w2, h1, h2, x

\* Half days: seven days at Google, three at Microsoft.
ChannelLife == [p \in Providers |-> IF p = "google" THEN 14 ELSE 6]

RequestSymmetry == Permutations({h1, h2}) \cup Permutations({w1, w2})
=============================================================================
