--------------------------- MODULE MCWebhookQueue ---------------------------
(* Model-checking instance of WebhookQueue. *)
EXTENDS WebhookQueue, TLC

\* Model values are interchangeable in the runs that check safety only.
Symmetry ==
    Permutations(Instances) \cup Permutations(Slots) \cup Permutations(CallSlots)
        \cup Permutations(Configs) \cup Permutations(Deliveries)
=============================================================================
