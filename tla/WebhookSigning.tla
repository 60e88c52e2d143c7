--------------------------- MODULE WebhookSigning ---------------------------
(***************************************************************************)
(* Secrets and signatures of webhooks: webhookSigner.ts, the routes of     *)
(* routes/webhooks.ts, and the secret as it travels through the queue: an  *)
(* item carries the configuration as it was when it was enqueued, and is   *)
(* signed when it is sent; a retry reads the configuration again.          *)
(*                                                                         *)
(* One configuration and the receiver of its webhooks, who verifies with   *)
(* the secret the owner was last told.  The routes answer with the secret  *)
(* hidden, but for regenerate-secret.  What becomes of deliveries is       *)
(* modelled in WebhookQueue.                                               *)
(***************************************************************************)
EXTENDS Integers

CONSTANTS
    Items,          \* deliveries on their way at a time
    Regenerations,  \* requests to regenerate the secret at a time
    MaxSecret,      \* bound: secrets drawn
    Tolerance,      \* toleranceMs of verifyWebhookSignature
    MaxFlight       \* timeout_ms, after which a POST is aborted

\* The schemas bound timeout_ms well below the five minutes of the tolerance.
ASSUME SigningAssumption ==
    MaxSecret \in Nat \ {0} /\ {Tolerance, MaxFlight} \subseteq Nat /\ MaxFlight <= Tolerance

VARIABLES
    settings,       \* the webhook_configs row: [there, enabled, secret]
    drawn,          \* secrets drawn so far; a secret is the number of its draw
    item,           \* [Items -> ItemState]
    regeneration,   \* [Regenerations -> answer under way]
    toldSecret,     \* the secret of the last answer the owner got, 0 for none
    misled          \* history: the last answer was lost, or another had overtaken it

signingVars == <<settings, drawn, item, regeneration, toldSecret, misled>>

NoItem == [pc |-> "idle"]
ItemState ==
    {NoItem} \cup
    [pc : {"queued", "posted", "retry"}, secret : 1..MaxSecret, age : 0..(Tolerance + 1), rotated : BOOLEAN]
NoAnswer == [secret |-> 0, overtaken |-> FALSE]

SigningInit ==
    /\ settings = [there |-> FALSE, enabled |-> FALSE, secret |-> 0]
    /\ drawn = 0
    /\ item = [i \in Items |-> NoItem]
    /\ regeneration = [g \in Regenerations |-> NoAnswer]
    /\ toldSecret = 0
    /\ misled = FALSE

-----------------------------------------------------------------------------
\* Only admins pass the access rule of the routes: authenticate sets no client.
Draw == drawn < MaxSecret /\ drawn' = drawn + 1

\* POST /webhooks; the answer hides the secret.
CreateWebhook ==
    /\ drawn = 0
    /\ Draw
    /\ settings' = [there |-> TRUE, enabled |-> TRUE, secret |-> drawn + 1]
    /\ UNCHANGED <<item, regeneration, toldSecret, misled>>

\* PATCH /webhooks/:id.
PatchWebhook(enabled) ==
    /\ settings.there
    /\ settings' = [settings EXCEPT !.enabled = enabled]
    /\ UNCHANGED <<drawn, item, regeneration, toldSecret, misled>>

\* DELETE /webhooks/:id.
DeleteWebhook ==
    /\ settings.there
    /\ settings' = [settings EXCEPT !.there = FALSE, !.enabled = FALSE]
    /\ UNCHANGED <<drawn, item, regeneration, toldSecret, misled>>

\* The UPDATE of regenerateSecret.  Items on their way keep the old secret.
RegenerateSecret(g) ==
    /\ regeneration[g] = NoAnswer
    /\ settings.there
    /\ Draw
    /\ settings' = [settings EXCEPT !.secret = drawn + 1]
    /\ item' = [i \in Items |-> IF item[i] = NoItem THEN NoItem ELSE [item[i] EXCEPT !.rotated = TRUE]]
    /\ regeneration' = [regeneration EXCEPT ![g] = [secret |-> drawn + 1, overtaken |-> FALSE]]
    /\ UNCHANGED <<toldSecret, misled>>

\* The answer of g comes in; those with older secrets that come later are overtaken.
AnswerEnds(g) ==
    regeneration' = [h \in Regenerations |->
        IF h = g \/ regeneration[h] = NoAnswer THEN NoAnswer
        ELSE [regeneration[h] EXCEPT !.overtaken = @ \/ regeneration[h].secret < regeneration[g].secret]]

\* It reaches the owner.
SecretShown(g) ==
    /\ regeneration[g] # NoAnswer
    /\ toldSecret' = regeneration[g].secret
    /\ misled' = regeneration[g].overtaken
    /\ AnswerEnds(g)
    /\ UNCHANGED <<settings, drawn, item>>

\* An error is answered although the UPDATE took effect, or the connection ends.
SecretLost(g) ==
    /\ regeneration[g] # NoAnswer
    /\ misled' = (misled \/ ~regeneration[g].overtaken)
    /\ AnswerEnds(g)
    /\ UNCHANGED <<settings, drawn, item, toldSecret>>

-----------------------------------------------------------------------------
Copy(pc) == [pc |-> pc, secret |-> settings.secret, age |-> 0, rotated |-> FALSE]

\* enqueue, for an event or from simulate-threshold: the enabled configuration
\* as it is now.
EnqueueItem(i) ==
    /\ item[i] = NoItem
    /\ settings.enabled
    /\ item' = [item EXCEPT ![i] = Copy("queued")]
    /\ UNCHANGED <<settings, drawn, regeneration, toldSecret, misled>>

\* Mutant: the timestamp that is signed is that of the event.
SendAsOfEvent(i) ==
    /\ item[i].pc = "queued"
    /\ item' = [item EXCEPT ![i].pc = "posted"]
    /\ UNCHANGED <<settings, drawn, regeneration, toldSecret, misled>>

\* buildSignatureHeaders: the POST is signed with the secret of the item and
\* the time of now.
SendItem(i) ==
    /\ item[i].pc = "queued"
    /\ item' = [item EXCEPT ![i].pc = "posted", ![i].age = 0]
    /\ UNCHANGED <<settings, drawn, regeneration, toldSecret, misled>>

\* extractAndVerifySignature at the receiver, whose clock agrees.
VerifyWebhookSignature(posted) == posted.age <= Tolerance /\ posted.secret = toldSecret

\* Whether it verifies or not, the receiver's answer ends the delivery or has
\* it tried again.
ItemAnswered(i) ==
    /\ item[i].pc = "posted"
    /\ item' = [item EXCEPT ![i] = IF VerifyWebhookSignature(@) THEN NoItem ELSE [@ EXCEPT !.pc = "retry"]]
    /\ UNCHANGED <<settings, drawn, regeneration, toldSecret, misled>>

\* Aborted, or the receiver has other reasons.
ItemFails(i) ==
    /\ item[i].pc = "posted"
    /\ item' = [item EXCEPT ![i].pc = "retry"]
    /\ UNCHANGED <<settings, drawn, regeneration, toldSecret, misled>>

\* processRetries reads the configuration again, and skips the row without it.
RetryItem(i) ==
    /\ item[i].pc = "retry"
    /\ settings.enabled
    /\ item' = [item EXCEPT ![i] = Copy("queued")]
    /\ UNCHANGED <<settings, drawn, regeneration, toldSecret, misled>>

\* No attempt is left, or the configuration took its deliveries with it.
DropItem(i) ==
    /\ item[i].pc = "retry"
    /\ item' = [item EXCEPT ![i] = NoItem]
    /\ UNCHANGED <<settings, drawn, regeneration, toldSecret, misled>>

\* Time passes: an item may wait in the queue for ever, a POST may not.
SigningTick ==
    /\ \A i \in Items : item[i].pc = "posted" => item[i].age # MaxFlight
    /\ item' = [i \in Items |-> IF item[i].pc \in {"queued", "posted"} /\ item[i].age <= Tolerance
                                THEN [item[i] EXCEPT !.age = @ + 1] ELSE item[i]]
    /\ UNCHANGED <<settings, drawn, regeneration, toldSecret, misled>>

SigningNext ==
    \/ CreateWebhook \/ DeleteWebhook
    \/ \E enabled \in BOOLEAN : PatchWebhook(enabled)
    \/ \E g \in Regenerations : RegenerateSecret(g) \/ SecretShown(g) \/ SecretLost(g)
    \/ \E i \in Items : \/ EnqueueItem(i) \/ SendItem(i) \/ ItemAnswered(i) \/ ItemFails(i)
                        \/ RetryItem(i) \/ DropItem(i)
    \/ SigningTick

SigningSpec == SigningInit /\ [][SigningNext]_signingVars

-----------------------------------------------------------------------------
\* Types.
SigningTypeOK ==
    /\ settings \in [there : BOOLEAN, enabled : BOOLEAN, secret : 0..MaxSecret]
    /\ drawn \in 0..MaxSecret
    /\ item \in [Items -> ItemState]
    /\ regeneration \in [Regenerations -> [secret : 0..MaxSecret, overtaken : BOOLEAN]]
    /\ toldSecret \in 0..MaxSecret
    /\ misled \in BOOLEAN

\* Once the owner has been told a secret, and while no regeneration is under
\* way, a receiver rejects a POST only because the secret changed after its
\* delivery was enqueued or read for a retry, or because the last answer of a
\* regeneration was lost or overtaken by a later one: never for its age,
\* however long it waited in the queue.
RejectedMeansRotated ==
    \A i \in Items :
        (item[i].pc = "posted" /\ toldSecret # 0 /\ \A g \in Regenerations : regeneration[g] = NoAnswer)
            => VerifyWebhookSignature(item[i]) \/ item[i].rotated \/ misled
=============================================================================
