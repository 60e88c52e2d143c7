--------------------------- MODULE WebhookDelivery ---------------------------
(***************************************************************************)
(* What the webhook queue promises about one delivery, without queues,     *)
(* processes or retries: the row of webhook_deliveries is an honest        *)
(* account of the HTTP exchanges.  Requests may be repeated; the row may   *)
(* lag behind them (a crash, a failed UPDATE) but never runs ahead.        *)
(* WebhookQueue implements this specification.                             *)
(***************************************************************************)
EXTENDS Naturals

CONSTANTS Deliveries, MaxAttempts

VARIABLES
    known,      \* deliveries that were created
    status,     \* "none" before creation and after removal
    attempts,   \* attempts column
    posts,      \* requests sent
    acks        \* 2xx answers

vars == <<known, status, attempts, posts, acks>>

Init ==
    /\ known = {}
    /\ status = [d \in Deliveries |-> "none"]
    /\ attempts = [d \in Deliveries |-> 0]
    /\ posts = [d \in Deliveries |-> 0]
    /\ acks = [d \in Deliveries |-> 0]

Create(d) ==
    /\ d \notin known
    /\ known' = known \cup {d}
    /\ status' = [status EXCEPT ![d] = "pending"]
    /\ UNCHANGED <<attempts, posts, acks>>

\* Only a created delivery is posted; it may have been removed meanwhile.
Post(d, success) ==
    /\ d \in known
    /\ posts' = [posts EXCEPT ![d] = @ + 1]
    /\ acks' = IF success THEN [acks EXCEPT ![d] = @ + 1] ELSE acks
    /\ UNCHANGED <<known, status, attempts>>

\* What an outcome needs: a 2xx answer, a failed request, or the last attempt.
Justified(d, new) ==
    \/ new = "success" /\ acks[d] >= 1
    \/ new = "retrying" /\ acks[d] < posts[d]
    \/ new = "failed" /\ acks[d] < posts[d] /\ attempts[d] + 1 >= MaxAttempts

\* Each request is recorded at most once.
Record(d, new) ==
    /\ status[d] # "none"
    /\ attempts[d] < posts[d]
    /\ Justified(d, new)
    /\ status' = [status EXCEPT ![d] = new]
    /\ attempts' = [attempts EXCEPT ![d] = @ + 1]
    /\ UNCHANGED <<known, posts, acks>>

Remove(D) ==
    /\ status' = [d \in Deliveries |-> IF d \in D THEN "none" ELSE status[d]]
    /\ UNCHANGED <<known, attempts, posts, acks>>

Next ==
    \/ \E d \in Deliveries :
        \/ Create(d)
        \/ \E success \in BOOLEAN : Post(d, success)
        \/ \E new \in {"success", "retrying", "failed"} : Record(d, new)
    \/ \E D \in SUBSET Deliveries : Remove(D)

Spec == Init /\ [][Next]_vars
=============================================================================
