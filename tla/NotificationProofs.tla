-------------------------- MODULE NotificationProofs --------------------------
(***************************************************************************)
(* Proofs about the webhooks of usage thresholds and about the secrets     *)
(* webhooks are signed with.                                               *)
(***************************************************************************)
EXTENDS UsageMonitor, WebhookSigning, FiniteSetTheorems, TLAPS

-----------------------------------------------------------------------------
(***************************************************************************)
(* Secrets.  The row holds the secret drawn last.  The owner who was told  *)
(* another one has been misled, or is about to be told.                    *)
(***************************************************************************)

Pending(g) == regeneration[g] # NoAnswer

AnswersHold ==
    /\ \A g \in Regenerations :
          Pending(g) => /\ regeneration[g].secret \in 1..drawn
                        /\ regeneration[g].secret = drawn => ~regeneration[g].overtaken
    /\ \A g \in Regenerations :
          (Pending(g) /\ ~regeneration[g].overtaken) =>
             \E h \in Regenerations : Pending(h) /\ regeneration[h].secret = drawn
    /\ \A g, h \in Regenerations :
          (Pending(g) /\ Pending(h) /\ regeneration[g].secret = regeneration[h].secret) => g = h

OwnerToldOrMisled ==
    \/ misled
    \/ toldSecret = 0
    \/ toldSecret = drawn
    \/ \E g \in Regenerations : Pending(g) /\ regeneration[g].secret = drawn

ItemsCurrent ==
    \A i \in Items :
        item[i] # NoItem =>
            /\ ~item[i].rotated => item[i].secret = settings.secret
            /\ item[i].pc = "posted" => item[i].age <= MaxFlight

SettingsCurrent == settings.secret = drawn /\ (settings.enabled => settings.there) /\ (settings.there => drawn > 0)

SigningInv == SigningTypeOK /\ SettingsCurrent /\ AnswersHold /\ OwnerToldOrMisled /\ ItemsCurrent

LEMMA SigningBounds ==
  MaxSecret \in Nat /\ Tolerance \in Nat /\ MaxFlight \in Nat /\ MaxFlight <= Tolerance
  BY SigningAssumption

LEMMA BusyItem ==
  ASSUME SigningTypeOK, NEW i \in Items, item[i] # NoItem
  PROVE  item[i] \in [pc : {"queued", "posted", "retry"}, secret : 1..MaxSecret,
                      age : 0..(Tolerance + 1), rotated : BOOLEAN]
  BY DEF SigningTypeOK, ItemState

LEMMA AnswersEnd ==
  ASSUME SigningTypeOK, SettingsCurrent, AnswersHold, NEW g \in Regenerations, Pending(g), AnswerEnds(g),
         UNCHANGED drawn
  PROVE  /\ regeneration' \in [Regenerations -> [secret : 0..MaxSecret, overtaken : BOOLEAN]]
         /\ \A h \in Regenerations :
               Pending(h)' <=> h # g /\ Pending(h)
         /\ \A h \in Regenerations :
               Pending(h)' => /\ regeneration'[h].secret = regeneration[h].secret
                              /\ regeneration'[h].overtaken <=>
                                    (regeneration[h].overtaken \/ regeneration[h].secret < regeneration[g].secret)
  <1>1. ASSUME NEW h \in Regenerations, h # g, Pending(h)
        PROVE  /\ regeneration'[h] = [regeneration[h] EXCEPT
                     !.overtaken = @ \/ regeneration[h].secret < regeneration[g].secret]
               /\ regeneration[h].secret # 0
    BY <1>1 DEF AnswerEnds, Pending, AnswersHold
  <1>2. ASSUME NEW h \in Regenerations, h # g, Pending(h)
        PROVE  /\ regeneration'[h] \in [secret : 0..MaxSecret, overtaken : BOOLEAN]
               /\ regeneration'[h].secret = regeneration[h].secret
               /\ regeneration'[h].overtaken <=>
                     (regeneration[h].overtaken \/ regeneration[h].secret < regeneration[g].secret)
               /\ regeneration'[h] # NoAnswer
    <2> DEFINE b == regeneration[h].overtaken \/ regeneration[h].secret < regeneration[g].secret
    <2>1. regeneration[h] \in [secret : 0..MaxSecret, overtaken : BOOLEAN]
      BY DEF SigningTypeOK
    <2>2. b \in BOOLEAN
      OBVIOUS
    <2>3. regeneration'[h] = [regeneration[h] EXCEPT !.overtaken = b] /\ regeneration[h].secret # 0
      BY <1>1, <1>2
    <2> HIDE DEF b
    <2>4. /\ regeneration'[h] \in [secret : 0..MaxSecret, overtaken : BOOLEAN]
          /\ regeneration'[h].secret = regeneration[h].secret
          /\ regeneration'[h].overtaken = b
      BY <2>1, <2>2, <2>3
    <2>5. regeneration'[h] # NoAnswer
      BY <2>3, <2>4 DEF NoAnswer
    <2>6. regeneration'[h].overtaken <=> b
      BY <2>4
    <2> QED
      BY <2>4, <2>5, <2>6 DEF b
  <1>3. ASSUME NEW h \in Regenerations, h = g \/ ~Pending(h)
        PROVE  regeneration'[h] = NoAnswer
    BY <1>3 DEF AnswerEnds, Pending
  <1>4. NoAnswer \in [secret : 0..MaxSecret, overtaken : BOOLEAN]
    BY SigningBounds DEF NoAnswer
  <1>5. regeneration' = [h \in Regenerations |-> regeneration'[h]]
    BY DEF AnswerEnds
  <1> QED
    BY <1>2, <1>3, <1>4, <1>5 DEF Pending

LEMMA AnswersEndHold ==
  ASSUME SigningTypeOK, SettingsCurrent, AnswersHold, NEW g \in Regenerations, Pending(g), AnswerEnds(g),
         UNCHANGED drawn
  PROVE  /\ AnswersHold'
         /\ \A h \in Regenerations : (Pending(h) /\ regeneration[h].secret = drawn /\ h # g) =>
               Pending(h)' /\ regeneration'[h].secret = drawn'
  <1>0. drawn \in Nat /\ \A h \in Regenerations : Pending(h) => regeneration[h].secret \in 1..drawn
    BY SigningBounds DEF SigningTypeOK, AnswersHold
  <1>1. ASSUME NEW h \in Regenerations, Pending(h)'
        PROVE  /\ regeneration'[h].secret \in 1..drawn'
               /\ regeneration'[h].secret = drawn' => ~regeneration'[h].overtaken
    BY <1>0, <1>1, AnswersEnd DEF AnswersHold
  <1>2. ASSUME NEW h \in Regenerations, Pending(h)', ~regeneration'[h].overtaken
        PROVE  \E k \in Regenerations : Pending(k)' /\ regeneration'[k].secret = drawn'
    <2>1. Pending(h) /\ h # g /\ ~regeneration[h].overtaken /\ ~(regeneration[h].secret < regeneration[g].secret)
      BY <1>2, AnswersEnd
    <2>2. PICK k \in Regenerations : Pending(k) /\ regeneration[k].secret = drawn
      BY <2>1 DEF AnswersHold
    <2>3. k # g
      BY <1>0, <2>1, <2>2 DEF AnswersHold
    <2> QED
      BY <2>2, <2>3, AnswersEnd
  <1>3. ASSUME NEW h \in Regenerations, NEW k \in Regenerations, Pending(h)', Pending(k)',
               regeneration'[h].secret = regeneration'[k].secret
        PROVE  h = k
    BY <1>3, AnswersEnd DEF AnswersHold
  <1> QED
    BY <1>1, <1>2, <1>3, AnswersEnd DEF AnswersHold

LEMMA SigningInvInit == SigningInit => SigningInv
  <1> SUFFICES ASSUME SigningInit PROVE SigningInv
    OBVIOUS
  <1>1. NoAnswer \in [secret : 0..MaxSecret, overtaken : BOOLEAN] /\ NoItem \in ItemState
    BY SigningBounds DEF NoAnswer, ItemState
  <1>2. settings \in [there : BOOLEAN, enabled : BOOLEAN, secret : 0..MaxSecret]
    BY SigningBounds DEF SigningInit
  <1>3. SigningTypeOK
    BY <1>1, <1>2, SigningBounds DEF SigningInit, SigningTypeOK
  <1>4. SettingsCurrent
    BY DEF SigningInit, SettingsCurrent
  <1> QED
    BY <1>3, <1>4 DEF SigningInit, SigningInv, AnswersHold, Pending, OwnerToldOrMisled, ItemsCurrent

\* A step of one item, given what the item is after it.
LEMMA ItemStep ==
  ASSUME SigningInv, NEW i \in Items, NEW new \in ItemState, item' = [item EXCEPT ![i] = new],
         new # NoItem => /\ ~new.rotated => new.secret = settings.secret
                         /\ new.pc = "posted" => new.age <= MaxFlight,
         UNCHANGED <<settings, drawn, regeneration, toldSecret, misled>>
  PROVE  SigningInv'
  <1> USE DEF SigningInv
  <1>1. /\ item' \in [Items -> ItemState]
        /\ item'[i] = new /\ \A j \in Items \ {i} : item'[j] = item[j]
    BY DEF SigningTypeOK
  <1>2. ItemsCurrent'
    BY <1>1 DEF ItemsCurrent
  <1> QED
    BY <1>1, <1>2 DEF SigningTypeOK, SettingsCurrent, AnswersHold, Pending, OwnerToldOrMisled

LEMMA SigningInvStep == SigningInv /\ [SigningNext]_signingVars => SigningInv'
  <1> SUFFICES ASSUME SigningInv, [SigningNext]_signingVars PROVE SigningInv'
    OBVIOUS
  <1> USE DEF SigningInv
  <1>0. drawn \in 0..MaxSecret /\ MaxSecret \in Nat /\ Tolerance \in Nat /\ MaxFlight \in Nat
    BY SigningBounds DEF SigningTypeOK
  <1>1. CASE CreateWebhook
    <2>1. drawn = 0 /\ drawn' = 1 /\ drawn' \in 0..MaxSecret
      BY <1>0, <1>1 DEF CreateWebhook, Draw
    <2>2. settings' = [there |-> TRUE, enabled |-> TRUE, secret |-> 1]
      BY <1>1, <2>1 DEF CreateWebhook
    <2>3. UNCHANGED <<item, regeneration, toldSecret, misled>>
      BY <1>1 DEF CreateWebhook
    <2>4. \A g \in Regenerations : ~Pending(g)
      BY <2>1 DEF AnswersHold
    <2>5. SigningTypeOK' /\ SettingsCurrent'
      BY <2>1, <2>2, <2>3 DEF SigningTypeOK, SettingsCurrent
    <2>6. AnswersHold'
      BY <2>3, <2>4 DEF AnswersHold, Pending
    <2>7. OwnerToldOrMisled'
      BY <2>1, <2>3, <2>4 DEF OwnerToldOrMisled
    <2>8. ItemsCurrent'
      <3>1. \A i \in Items : item[i] # NoItem => item[i].secret \in 1..MaxSecret
        BY BusyItem
      <3>2. settings.secret = 0
        BY <2>1 DEF SettingsCurrent
      <3>3. \A i \in Items : item[i] # NoItem => item[i].rotated
        BY <3>1, <3>2, BusyItem DEF ItemsCurrent
      <3> QED
        BY <2>3, <3>3 DEF ItemsCurrent
    <2> QED
      BY <2>5, <2>6, <2>7, <2>8
  <1>2. ASSUME NEW enabled \in BOOLEAN, PatchWebhook(enabled) PROVE SigningInv'
    <2>1. settings' = [there |-> TRUE, enabled |-> enabled, secret |-> settings.secret]
      BY <1>2 DEF PatchWebhook, SigningTypeOK
    <2>2. UNCHANGED <<drawn, item, regeneration, toldSecret, misled>> /\ settings.there
      BY <1>2 DEF PatchWebhook
    <2> QED
      BY <2>1, <2>2 DEF SigningTypeOK, SettingsCurrent, AnswersHold, Pending, OwnerToldOrMisled, ItemsCurrent
  <1>3. CASE DeleteWebhook
    <2>1. settings' = [there |-> FALSE, enabled |-> FALSE, secret |-> settings.secret]
      BY <1>3 DEF DeleteWebhook, SigningTypeOK
    <2>2. UNCHANGED <<drawn, item, regeneration, toldSecret, misled>>
      BY <1>3 DEF DeleteWebhook
    <2> QED
      BY <2>1, <2>2 DEF SigningTypeOK, SettingsCurrent, AnswersHold, Pending, OwnerToldOrMisled, ItemsCurrent
  <1>4. ASSUME NEW g \in Regenerations, RegenerateSecret(g) PROVE SigningInv'
    <2>1. /\ ~Pending(g) /\ settings.there /\ drawn' = drawn + 1 /\ drawn' \in 1..MaxSecret
          /\ UNCHANGED <<toldSecret, misled>>
      BY <1>0, <1>4 DEF RegenerateSecret, Draw, Pending
    <2>2. settings' = [there |-> settings.there, enabled |-> settings.enabled, secret |-> drawn']
      BY <1>4, <2>1 DEF RegenerateSecret, SigningTypeOK
    <2>3. /\ regeneration' \in [Regenerations -> [secret : 0..MaxSecret, overtaken : BOOLEAN]]
          /\ regeneration'[g] = [secret |-> drawn', overtaken |-> FALSE]
          /\ \A h \in Regenerations \ {g} : regeneration'[h] = regeneration[h]
      <3>1. regeneration' = [regeneration EXCEPT ![g] = [secret |-> drawn', overtaken |-> FALSE]]
        BY <1>4, <2>1 DEF RegenerateSecret
      <3>2. [secret |-> drawn', overtaken |-> FALSE] \in [secret : 0..MaxSecret, overtaken : BOOLEAN]
        BY <2>1, <1>0
      <3> QED
        BY <3>1, <3>2 DEF SigningTypeOK
    <2>4. Pending(g)' /\ \A h \in Regenerations \ {g} : Pending(h)' <=> Pending(h)
      <3>1. regeneration'[g].secret = drawn' /\ NoAnswer.secret = 0 /\ drawn' # 0
        BY <1>0, <2>1, <2>3 DEF NoAnswer
      <3>2. regeneration'[g] # NoAnswer
        BY <3>1
      <3> QED
        BY <2>3, <3>2 DEF Pending
    <2>5. ASSUME NEW i \in Items
          PROVE  item'[i] \in ItemState /\ (item'[i] # NoItem =>
                    item'[i].rotated /\ (item'[i].pc = "posted" => item'[i].age <= MaxFlight))
      <3>1. CASE item[i] = NoItem
        BY <1>4, <3>1 DEF RegenerateSecret, ItemState
      <3>2. CASE item[i] # NoItem
        <4>1. item'[i] = [item[i] EXCEPT !.rotated = TRUE]
          BY <1>4, <3>2 DEF RegenerateSecret
        <4> QED
          BY <3>2, <4>1, BusyItem DEF ItemState, ItemsCurrent
      <3> QED
        BY <3>1, <3>2
    <2>6. item' \in [Items -> ItemState] /\ ItemsCurrent'
      <3>1. item' = [i \in Items |-> item'[i]]
        BY <1>4 DEF RegenerateSecret
      <3> QED
        BY <2>5, <3>1 DEF ItemsCurrent
    <2>7. SigningTypeOK' /\ SettingsCurrent'
      BY <1>0, <2>1, <2>2, <2>3, <2>6 DEF SigningTypeOK, SettingsCurrent
    <2>8. AnswersHold'
      <3>1. \A h \in Regenerations \ {g} : Pending(h) => regeneration[h].secret \in 1..drawn
        BY DEF AnswersHold
      <3>2. ASSUME NEW h \in Regenerations, Pending(h)'
            PROVE  /\ regeneration'[h].secret \in 1..drawn'
                   /\ regeneration'[h].secret = drawn' => ~regeneration'[h].overtaken
        BY <1>0, <2>1, <2>3, <2>4, <3>1, <3>2
      <3>3. regeneration'[g].secret = drawn'
        BY <2>3
      <3>4. ASSUME NEW h \in Regenerations, NEW k \in Regenerations, Pending(h)', Pending(k)',
                   regeneration'[h].secret = regeneration'[k].secret
            PROVE  h = k
        BY <1>0, <2>1, <2>3, <2>4, <3>1, <3>4 DEF AnswersHold
      <3> QED
        BY <2>4, <3>2, <3>3, <3>4 DEF AnswersHold
    <2>9. OwnerToldOrMisled'
      BY <2>3, <2>4 DEF OwnerToldOrMisled
    <2> QED
      BY <2>6, <2>7, <2>8, <2>9
  <1>5. ASSUME NEW g \in Regenerations, SecretShown(g) \/ SecretLost(g) PROVE SigningInv'
    <2>1. Pending(g) /\ AnswerEnds(g) /\ UNCHANGED <<settings, drawn, item>>
      BY <1>5 DEF SecretShown, SecretLost, Pending
    <2>2. regeneration[g].secret \in 1..drawn /\ regeneration[g].overtaken \in BOOLEAN
      BY <2>1 DEF AnswersHold, SigningTypeOK
    <2>3. /\ AnswersHold'
          /\ \A h \in Regenerations : (Pending(h) /\ regeneration[h].secret = drawn /\ h # g) =>
                Pending(h)' /\ regeneration'[h].secret = drawn'
      BY <2>1, AnswersEndHold
    <2>4. SigningTypeOK'
      <3>1. toldSecret' \in 0..MaxSecret /\ misled' \in BOOLEAN
        BY <1>0, <1>5, <2>2 DEF SecretShown, SecretLost, SigningTypeOK
      <3> QED
        BY <2>1, <3>1, AnswersEnd DEF SigningTypeOK
    <2>5. OwnerToldOrMisled'
      <3>1. CASE regeneration[g].overtaken
        <4>1. CASE SecretShown(g)
          BY <3>1, <4>1 DEF SecretShown, OwnerToldOrMisled
        <4>2. CASE SecretLost(g)
          <5>1. regeneration[g].secret # drawn
            BY <2>1, <3>1 DEF AnswersHold
          <5>2. toldSecret' = toldSecret /\ (misled => misled')
            BY <4>2 DEF SecretLost
          <5> QED
            BY <2>1, <2>3, <5>1, <5>2 DEF OwnerToldOrMisled
        <4> QED
          BY <1>5, <4>1, <4>2
      <3>2. CASE ~regeneration[g].overtaken
        <4>1. CASE SecretShown(g)
          <5>1. PICK h \in Regenerations : Pending(h) /\ regeneration[h].secret = drawn
            BY <2>1, <3>2 DEF AnswersHold
          <5>2. toldSecret' = regeneration[g].secret
            BY <4>1 DEF SecretShown
          <5>3. CASE h = g
            BY <2>1, <5>1, <5>2, <5>3 DEF OwnerToldOrMisled
          <5>4. CASE h # g
            BY <2>3, <5>1, <5>4 DEF OwnerToldOrMisled
          <5> QED
            BY <5>3, <5>4
        <4>2. CASE SecretLost(g)
          BY <3>2, <4>2 DEF SecretLost, OwnerToldOrMisled
        <4> QED
          BY <1>5, <4>1, <4>2
      <3> QED
        BY <3>1, <3>2
    <2> QED
      BY <2>1, <2>3, <2>4, <2>5 DEF SettingsCurrent, ItemsCurrent
  <1>6. ASSUME settings.enabled
        PROVE  /\ Copy("queued") \in ItemState /\ Copy("queued") # NoItem
               /\ Copy("queued").secret = settings.secret /\ Copy("queued").pc = "queued"
    <2>1. settings.secret \in 1..MaxSecret
      BY <1>0, <1>6 DEF SettingsCurrent
    <2> QED
      BY <1>0, <2>1 DEF Copy, ItemState, NoItem
  <1>7. ASSUME NEW i \in Items, EnqueueItem(i) \/ RetryItem(i) PROVE SigningInv'
    <2>1. settings.enabled /\ item' = [item EXCEPT ![i] = Copy("queued")]
          /\ UNCHANGED <<settings, drawn, regeneration, toldSecret, misled>>
      BY <1>7 DEF EnqueueItem, RetryItem
    <2> QED
      BY <1>6, <2>1, ItemStep
  <1>8. ASSUME NEW i \in Items, SendItem(i) PROVE SigningInv'
    <2> DEFINE new == [item[i] EXCEPT !.pc = "posted", !.age = 0]
    <2>1. item[i] # NoItem
      BY <1>8 DEF SendItem, NoItem
    <2>2. /\ new \in ItemState /\ new # NoItem /\ new.age = 0 /\ new.secret = item[i].secret
          /\ ~new.rotated => ~item[i].rotated
      <3>1. item[i] \in [pc : {"queued", "posted", "retry"}, secret : 1..MaxSecret,
                         age : 0..(Tolerance + 1), rotated : BOOLEAN]
        BY <2>1, BusyItem
      <3>2. 0 \in 0..(Tolerance + 1)
        BY <1>0
      <3>3. /\ new \in [pc : {"queued", "posted", "retry"}, secret : 1..MaxSecret,
                        age : 0..(Tolerance + 1), rotated : BOOLEAN]
            /\ new.pc = "posted" /\ new.age = 0 /\ new.secret = item[i].secret
            /\ new.rotated = item[i].rotated
        BY <3>1, <3>2
      <3> HIDE DEF new
      <3> QED
        BY <3>3 DEF ItemState, NoItem
    <2>3. item' = [item EXCEPT ![i] = new] /\ UNCHANGED <<settings, drawn, regeneration, toldSecret, misled>>
      BY <1>8 DEF SendItem
    <2> HIDE DEF new
    <2>4. /\ ~new.rotated => new.secret = settings.secret
          /\ new.age <= MaxFlight
      BY <1>0, <2>1, <2>2 DEF ItemsCurrent
    <2> QED
      BY <2>2, <2>3, <2>4, ItemStep
  <1>9. ASSUME NEW i \in Items, item[i].pc = "posted"
        PROVE  /\ [item[i] EXCEPT !.pc = "retry"] \in ItemState
               /\ [item[i] EXCEPT !.pc = "retry"].pc = "retry"
               /\ ~[item[i] EXCEPT !.pc = "retry"].rotated =>
                     [item[i] EXCEPT !.pc = "retry"].secret = settings.secret
    <2>1. item[i] # NoItem
      BY <1>9 DEF NoItem
    <2> QED
      BY <2>1, BusyItem DEF ItemState, ItemsCurrent
  <1>10. NoItem \in ItemState
    BY DEF ItemState
  <1>11. ASSUME NEW i \in Items, NEW new \in {NoItem, [item[i] EXCEPT !.pc = "retry"]}, item[i].pc = "posted",
                item' = [item EXCEPT ![i] = new],
                UNCHANGED <<settings, drawn, regeneration, toldSecret, misled>>
         PROVE  SigningInv'
    BY <1>9, <1>10, <1>11, ItemStep
  <1>12. ASSUME NEW i \in Items, ItemAnswered(i) \/ ItemFails(i) PROVE SigningInv'
    BY <1>11, <1>12 DEF ItemAnswered, ItemFails
  <1>13. ASSUME NEW i \in Items, DropItem(i) PROVE SigningInv'
    BY <1>10, <1>13, ItemStep DEF DropItem
  <1>14. CASE SigningTick
    <2>1. ASSUME NEW i \in Items
          PROVE  /\ item'[i] \in ItemState
                 /\ item'[i] # NoItem => /\ item[i] # NoItem
                                         /\ item'[i].rotated = item[i].rotated
                                         /\ item'[i].secret = item[i].secret
                                         /\ item'[i].pc = "posted" => item'[i].age <= MaxFlight
      <3>1. CASE item[i] = NoItem
        <4>1. item'[i] = item[i]
          BY <1>14, <3>1 DEF SigningTick, NoItem
        <4> QED
          BY <1>10, <3>1, <4>1
      <3>2. CASE item[i] # NoItem
        <4>1. item[i] \in [pc : {"queued", "posted", "retry"}, secret : 1..MaxSecret,
                           age : 0..(Tolerance + 1), rotated : BOOLEAN]
          BY <3>2, BusyItem
        <4>2. item[i].pc = "posted" => item[i].age <= MaxFlight /\ item[i].age # MaxFlight
          BY <1>14, <3>2 DEF SigningTick, ItemsCurrent
        <4>3. CASE item'[i] = item[i]
          BY <3>2, <4>2, <4>3 DEF ItemsCurrent, SigningTypeOK
        <4>4. CASE item[i].age <= Tolerance /\ item'[i] = [item[i] EXCEPT !.age = @ + 1]
          BY <1>0, <3>2, <4>1, <4>2, <4>4 DEF ItemState
        <4> QED
          BY <1>14, <4>3, <4>4 DEF SigningTick
      <3> QED
        BY <3>1, <3>2
    <2>2. item' = [i \in Items |-> item'[i]] /\ UNCHANGED <<settings, drawn, regeneration, toldSecret, misled>>
      BY <1>14 DEF SigningTick
    <2>3. ItemsCurrent'
      BY <2>1, <2>2 DEF ItemsCurrent
    <2> QED
      BY <2>1, <2>2, <2>3 DEF SigningTypeOK, SettingsCurrent, AnswersHold, Pending, OwnerToldOrMisled
  <1>15. CASE UNCHANGED signingVars
    BY <1>15 DEF signingVars, SigningTypeOK, SettingsCurrent, AnswersHold, Pending, OwnerToldOrMisled, ItemsCurrent
  <1> QED
    BY <1>1, <1>2, <1>3, <1>4, <1>5, <1>7, <1>8, <1>12, <1>13, <1>14, <1>15 DEF SigningNext

\* However answers of regenerations overtake one another and deliveries wait, a
\* receiver that knows the last secret told rejects no POST but for a rotation
\* since it was enqueued, or for an answer that was lost or overtaken.
THEOREM RejectionMeansRotation == SigningSpec => []RejectedMeansRotated
  <1>1. SigningInv => RejectedMeansRotated
    <2> SUFFICES ASSUME SigningInv, NEW i \in Items, item[i].pc = "posted", toldSecret # 0,
                        \A g \in Regenerations : regeneration[g] = NoAnswer,
                        ~item[i].rotated, ~misled
                 PROVE  VerifyWebhookSignature(item[i])
      BY DEF RejectedMeansRotated
    <2>1. item[i] # NoItem
      BY DEF NoItem
    <2>2. toldSecret = drawn
      BY DEF SigningInv, OwnerToldOrMisled, Pending
    <2>3. item[i].secret = drawn /\ item[i].age <= MaxFlight
      BY <2>1 DEF SigningInv, ItemsCurrent, SettingsCurrent
    <2>4. item[i].age \in Nat
      BY <2>1, BusyItem, SigningBounds DEF SigningInv
    <2> QED
      BY <2>2, <2>3, <2>4, SigningBounds DEF VerifyWebhookSignature
  <1> QED
    BY <1>1, SigningInvInit, SigningInvStep, PTL DEF SigningSpec

-----------------------------------------------------------------------------
(***************************************************************************)
(* Thresholds.  While a threshold is not marked, it has been told once for *)
(* every request that has told it and has still to mark it.  One that was  *)
(* marked by such a request first has been told once more, and from the    *)
(* mark on no request sends it anew, so that what was told and what is     *)
(* still to be sent never outnumber the requests.                          *)
(***************************************************************************)

Names == Thresholds \X Days
SentBy(e, n) == e.pc = "send" /\ <<e.threshold, e.cycle>> = n
Owed(n) == {q \in Monitors : HasToMark(monitor[q], n)}
Sending(n) == {q \in Monitors : SentBy(monitor[q], n)}

MonitorTypes ==
    /\ usage \in 0..MaxUsage
    /\ cycle \in Days /\ today \in Days
    /\ marked \subseteq Names
    /\ told \in [Names -> Nat]
    /\ suppressed \subseteq Names
    /\ monitor \in [Monitors -> MonitorState]

UnmarkedOwed == \A n \in Names \ marked : told[n] = Cardinality(Owed(n))

MarkedSettled ==
    \A n \in marked : /\ told[n] >= Cardinality(Owed(n)) + (IF n \in suppressed THEN 0 ELSE 1)
                      /\ told[n] + Cardinality(Sending(n)) <= Cardinality(Monitors)

MonitorInv == MonitorTypes /\ UnmarkedOwed /\ MarkedSettled

LEMMA MonitorBounds ==
  /\ IsFiniteSet(Monitors) /\ Cardinality(Monitors) \in Nat
  /\ MaxUsage \in Nat /\ MaxDay \in Nat /\ UsageLimit \in Nat \ {0}
  BY MonitorAssumption, FS_CardinalityType

LEMMA FiniteCounts ==
  ASSUME NEW n
  PROVE  /\ IsFiniteSet(Owed(n)) /\ IsFiniteSet(Sending(n))
         /\ Cardinality(Owed(n)) \in Nat /\ Cardinality(Sending(n)) \in Nat
         /\ Cardinality(Owed(n)) + Cardinality(Sending(n)) <= Cardinality(Monitors)
  <1>1. Owed(n) \in SUBSET Monitors /\ Sending(n) \in SUBSET Monitors
    BY DEF Owed, Sending
  <1>2. /\ IsFiniteSet(Owed(n)) /\ IsFiniteSet(Sending(n))
        /\ Cardinality(Owed(n)) \in Nat /\ Cardinality(Sending(n)) \in Nat
    BY <1>1, MonitorBounds, FS_Subset, FS_CardinalityType
  <1>3. Owed(n) \cap Sending(n) = {}
    BY DEF Owed, Sending, HasToMark, SentBy
  <1>4. Cardinality(Owed(n) \cup Sending(n)) = Cardinality(Owed(n)) + Cardinality(Sending(n))
    <2>1. Cardinality(Owed(n) \cap Sending(n)) = 0
      BY <1>3, FS_EmptySet
    <2>2. Cardinality(Owed(n) \cup Sending(n))
             = Cardinality(Owed(n)) + Cardinality(Sending(n)) - Cardinality(Owed(n) \cap Sending(n))
      BY <1>2, FS_Union
    <2> QED
      BY <1>2, <2>1, <2>2
  <1>5. Owed(n) \cup Sending(n) \in SUBSET Monitors
    BY <1>1
  <1>6. Cardinality(Owed(n) \cup Sending(n)) <= Cardinality(Monitors)
    BY <1>5, MonitorBounds, FS_Subset
  <1> QED
    BY <1>2, <1>4, <1>6

LEMMA SetMoves ==
  ASSUME NEW S, IsFiniteSet(S), NEW q, NEW T, T = (S \ {q}) \cup (IF q \in T THEN {q} ELSE {})
  PROVE  Cardinality(T) = Cardinality(S) + (IF q \in T THEN 1 ELSE 0) - (IF q \in S THEN 1 ELSE 0)
  <1>1. /\ IsFiniteSet(S \ {q}) /\ Cardinality(S) \in Nat /\ Cardinality(S \ {q}) \in Nat
        /\ Cardinality(S \ {q}) = IF q \in S THEN Cardinality(S) - 1 ELSE Cardinality(S)
    BY FS_RemoveElement, FS_CardinalityType
  <1>2. CASE q \in T
    <2>1. T = (S \ {q}) \cup {q} /\ q \notin S \ {q}
      BY <1>2
    <2>2. Cardinality(T) = Cardinality(S \ {q}) + 1
      BY <1>1, <2>1, FS_AddElement
    <2> QED
      BY <1>1, <1>2, <2>2
  <1>3. CASE q \notin T
    <2>1. T = S \ {q}
      BY <1>3
    <2> QED
      BY <1>1, <1>3, <2>1
  <1> QED
    BY <1>2, <1>3

\* What a step of one request does to the counts.
LEMMA OneMoves ==
  ASSUME MonitorTypes, NEW q \in Monitors, NEW new \in MonitorState, monitor' = [monitor EXCEPT ![q] = new],
         NEW n
  PROVE  /\ Cardinality(Owed(n)') = Cardinality(Owed(n))
               + (IF HasToMark(new, n) THEN 1 ELSE 0) - (IF HasToMark(monitor[q], n) THEN 1 ELSE 0)
         /\ Cardinality(Sending(n)') = Cardinality(Sending(n))
               + (IF SentBy(new, n) THEN 1 ELSE 0) - (IF SentBy(monitor[q], n) THEN 1 ELSE 0)
         /\ monitor' \in [Monitors -> MonitorState]
  <1>1. /\ monitor' \in [Monitors -> MonitorState] /\ monitor'[q] = new
        /\ \A p \in Monitors \ {q} : monitor'[p] = monitor[p]
    BY DEF MonitorTypes
  <1>2. /\ q \in Owed(n)' <=> HasToMark(new, n)
        /\ q \in Owed(n) <=> HasToMark(monitor[q], n)
        /\ q \in Sending(n)' <=> SentBy(new, n)
        /\ q \in Sending(n) <=> SentBy(monitor[q], n)
    BY <1>1 DEF Owed, Sending, HasToMark, SentBy
  <1>3. \A p \in Monitors \ {q} : (p \in Owed(n)' <=> p \in Owed(n)) /\ (p \in Sending(n)' <=> p \in Sending(n))
    BY <1>1 DEF Owed, Sending, HasToMark, SentBy
  <1>4. Owed(n) \subseteq Monitors /\ Owed(n)' \subseteq Monitors /\ Sending(n) \subseteq Monitors /\ Sending(n)' \subseteq Monitors
    BY DEF Owed, Sending
  <1>5. Owed(n)' = (Owed(n) \ {q}) \cup (IF q \in Owed(n)' THEN {q} ELSE {})
    BY <1>3, <1>4
  <1>6. Sending(n)' = (Sending(n) \ {q}) \cup (IF q \in Sending(n)' THEN {q} ELSE {})
    BY <1>3, <1>4
  <1>7. Cardinality(Owed(n)') = Cardinality(Owed(n)) + (IF q \in Owed(n)' THEN 1 ELSE 0) - (IF q \in Owed(n) THEN 1 ELSE 0)
    BY <1>5, FiniteCounts, SetMoves
  <1>8. Cardinality(Sending(n)') = Cardinality(Sending(n)) + (IF q \in Sending(n)' THEN 1 ELSE 0) - (IF q \in Sending(n) THEN 1 ELSE 0)
    BY <1>6, FiniteCounts, SetMoves
  <1> QED
    BY <1>1, <1>2, <1>7, <1>8

\* A request that is anywhere has a usage, a cycle and a threshold.
LEMMA BusyMonitor ==
  ASSUME MonitorTypes, NEW q \in Monitors, monitor[q].pc \in {"check", "send", "quota", "mark"}
  PROVE  /\ monitor[q] \in [pc : {"check", "send", "quota", "mark"}, usage : 0..MaxUsage, cycle : Days,
                            threshold : Thresholds, enqueued : BOOLEAN]
         /\ Notification(q) \in Names
         /\ Notification(q) = <<monitor[q].threshold, monitor[q].cycle>>
  <1>1. monitor[q] # NoMonitor
    BY DEF NoMonitor
  <1> QED
    BY <1>1 DEF MonitorTypes, MonitorState, Notification, Names

\* A step of Goto leaves what the request has enqueued.
LEMMA MonitorGoes ==
  ASSUME MonitorTypes, NEW q \in Monitors, monitor[q].pc \in {"check", "send", "quota", "mark"},
         NEW pc \in {"check", "send", "quota", "mark"}, Goto(q, pc)
  PROVE  \E new \in MonitorState :
            /\ monitor' = [monitor EXCEPT ![q] = new]
            /\ new.pc = pc /\ <<new.threshold, new.cycle>> = Notification(q)
            /\ new.enqueued = monitor[q].enqueued
  <1> DEFINE new == [monitor[q] EXCEPT !.pc = pc]
  <1>1. new \in [pc : {"check", "send", "quota", "mark"}, usage : 0..MaxUsage, cycle : Days,
                 threshold : Thresholds, enqueued : BOOLEAN]
    BY BusyMonitor
  <1>2. new.pc = pc /\ <<new.threshold, new.cycle>> = Notification(q) /\ new.enqueued = monitor[q].enqueued
    BY BusyMonitor
  <1>3. monitor' = [monitor EXCEPT ![q] = new]
    BY DEF Goto
  <1> HIDE DEF new
  <1>4. new \in MonitorState
    BY <1>1 DEF MonitorState
  <1> QED
    BY <1>2, <1>3, <1>4

LEMMA IdleOwesNothing ==
  NoMonitor \in MonitorState /\ \A n : ~HasToMark(NoMonitor, n) /\ ~SentBy(NoMonitor, n)
  BY DEF NoMonitor, MonitorState, HasToMark, SentBy

\* What the counts of n are to be after a step of one request from old to new.
Settles(old, new, n, toldNew, markedNew, suppressedNew) ==
    LET owed == Cardinality(Owed(n)) + (IF HasToMark(new, n) THEN 1 ELSE 0) - (IF HasToMark(old, n) THEN 1 ELSE 0)
        sending == Cardinality(Sending(n)) + (IF SentBy(new, n) THEN 1 ELSE 0) - (IF SentBy(old, n) THEN 1 ELSE 0)
    IN  /\ n \notin markedNew => toldNew = owed
        /\ n \in markedNew => toldNew >= owed + (IF n \in suppressedNew THEN 0 ELSE 1) /\ toldNew + sending <= Cardinality(Monitors)

\* The counts of a state, with what they say of it.
LEMMA CountsOf ==
  ASSUME MonitorInv, NEW n \in Names
  PROVE  /\ told[n] \in Nat /\ Cardinality(Owed(n)) \in Nat /\ Cardinality(Sending(n)) \in Nat
         /\ Cardinality(Monitors) \in Nat
         /\ Cardinality(Owed(n)) + Cardinality(Sending(n)) <= Cardinality(Monitors)
         /\ n \notin marked => told[n] = Cardinality(Owed(n))
         /\ n \in marked => /\ told[n] >= Cardinality(Owed(n)) + (IF n \in suppressed THEN 0 ELSE 1)
                            /\ told[n] + Cardinality(Sending(n)) <= Cardinality(Monitors)
  BY FiniteCounts, MonitorBounds DEF MonitorInv, MonitorTypes, UnmarkedOwed, MarkedSettled

LEMMA MonitorInvStep == MonitorInv /\ [MonitorNext]_monitorVars => MonitorInv'
  <1> SUFFICES ASSUME MonitorInv, [MonitorNext]_monitorVars PROVE MonitorInv'
    OBVIOUS
  <1>0. MonitorTypes
    BY DEF MonitorInv
  <1>1. ASSUME UNCHANGED <<marked, told, suppressed, monitor>>,
               usage' \in 0..MaxUsage, cycle' \in Days, today' \in Days
        PROVE  MonitorInv'
    BY <1>1 DEF MonitorInv, MonitorTypes, UnmarkedOwed, MarkedSettled, Owed, Sending
  <1>2. CASE CountCall \/ ResetCycle \/ DayTurns \/ UNCHANGED monitorVars
    <2>1. UNCHANGED <<marked, told, suppressed, monitor>>
      BY <1>2 DEF CountCall, ResetCycle, DayTurns, monitorVars
    <2>2. usage' \in 0..MaxUsage /\ cycle' \in Days /\ today' \in Days
      BY <1>0, <1>2, MonitorBounds DEF CountCall, ResetCycle, DayTurns, monitorVars, MonitorTypes, Days
    <2> QED
      BY <1>1, <2>1, <2>2
  <1>3. ASSUME NEW q \in Monitors, NEW new \in MonitorState, monitor' = [monitor EXCEPT ![q] = new],
               UNCHANGED <<usage, cycle, today>>,
               told' \in [Names -> Nat], marked' \subseteq Names, suppressed' \subseteq Names,
               \A n \in Names : Settles(monitor[q], new, n, told'[n], marked', suppressed')
        PROVE  MonitorInv'
    <2>1. MonitorTypes'
      BY <1>0, <1>3 DEF MonitorTypes
    <2>2. ASSUME NEW n \in Names
          PROVE  /\ Cardinality(Owed(n)') = Cardinality(Owed(n)) + (IF HasToMark(new, n) THEN 1 ELSE 0)
                                 - (IF HasToMark(monitor[q], n) THEN 1 ELSE 0)
                 /\ Cardinality(Sending(n)') = Cardinality(Sending(n)) + (IF SentBy(new, n) THEN 1 ELSE 0)
                                 - (IF SentBy(monitor[q], n) THEN 1 ELSE 0)
      BY <1>0, <1>3, OneMoves
    <2>3. UnmarkedOwed'
      BY <1>3, <2>2 DEF UnmarkedOwed, Settles
    <2>4. MarkedSettled'
      BY <1>3, <2>2 DEF MarkedSettled, Settles
    <2> QED
      BY <2>1, <2>3, <2>4 DEF MonitorInv
  <1>4. ASSUME NEW q \in Monitors, Begin(q, usage, cycle) PROVE MonitorInv'
    <2>1. PICK threshold \in Thresholds :
             monitor' = [monitor EXCEPT ![q] = [pc |-> "check", usage |-> usage, cycle |-> cycle,
                                                threshold |-> threshold, enqueued |-> FALSE]]
      BY <1>4 DEF Begin
    <2> DEFINE new == [pc |-> "check", usage |-> usage, cycle |-> cycle, threshold |-> threshold,
                       enqueued |-> FALSE]
    <2>2. new \in MonitorState /\ \A n : ~HasToMark(new, n) /\ ~SentBy(new, n)
      BY <1>0 DEF MonitorTypes, MonitorState, HasToMark, SentBy
    <2>3. \A n : ~HasToMark(monitor[q], n) /\ ~SentBy(monitor[q], n)
      BY <1>4, IdleOwesNothing DEF Begin
    <2>4. UNCHANGED <<usage, cycle, today, marked, told, suppressed>>
      BY <1>4 DEF Begin
    <2>5. monitor' = [monitor EXCEPT ![q] = new]
      BY <2>1
    <2> HIDE DEF new
    <2>6. \A n \in Names : Settles(monitor[q], new, n, told[n], marked, suppressed)
      BY <2>2, <2>3, CountsOf DEF Settles
    <2> QED
      BY <1>0, <1>3, <2>2, <2>4, <2>5, <2>6 DEF MonitorTypes
  <1>5. ASSUME NEW q \in Monitors, CheckNotified(q) PROVE MonitorInv'
    <2>1. monitor[q].pc = "check" /\ \A n : ~HasToMark(monitor[q], n) /\ ~SentBy(monitor[q], n)
      BY <1>5 DEF CheckNotified, HasToMark, SentBy
    <2>2. UNCHANGED <<usage, cycle, today, marked, told, suppressed>>
      BY <1>5 DEF CheckNotified
    <2>3. CASE HasBeenNotified(q)
      <3>1. monitor' = [monitor EXCEPT ![q] = NoMonitor]
        BY <1>5, <2>3 DEF CheckNotified, End
      <3>2. \A n \in Names : Settles(monitor[q], NoMonitor, n, told[n], marked, suppressed)
        BY <2>1, IdleOwesNothing, CountsOf DEF Settles
      <3> QED
        BY <1>0, <1>3, <2>2, <3>1, <3>2, IdleOwesNothing DEF MonitorTypes
    <2>4. CASE ~HasBeenNotified(q)
      <3>1. PICK new \in MonitorState : /\ monitor' = [monitor EXCEPT ![q] = new]
                                        /\ new.pc = "send" /\ <<new.threshold, new.cycle>> = Notification(q)
        BY <1>0, <1>5, <2>1, <2>4, MonitorGoes DEF CheckNotified
      <3>2. \A n : ~HasToMark(new, n) /\ (SentBy(new, n) => n \notin marked)
        BY <2>4, <3>1 DEF HasToMark, SentBy, HasBeenNotified
      <3>3. \A n \in Names : Settles(monitor[q], new, n, told[n], marked, suppressed)
        BY <2>1, <3>2, CountsOf DEF Settles
      <3> QED
        BY <1>0, <1>3, <2>2, <3>1, <3>3 DEF MonitorTypes
    <2> QED
      BY <2>3, <2>4
  <1>6. ASSUME NEW q \in Monitors, SendUsageThreshold(q) PROVE MonitorInv'
    <2>1. PICK complete \in BOOLEAN :
             /\ told' = IF complete THEN [told EXCEPT ![Notification(q)] = @ + 1] ELSE told
             /\ monitor' = [monitor EXCEPT ![q].pc = AfterThreshold(q), ![q].enqueued = complete]
      BY <1>6 DEF SendUsageThreshold
    <2>2. monitor[q].pc = "send" /\ UNCHANGED <<usage, cycle, today, marked, suppressed>>
      BY <1>6 DEF SendUsageThreshold
    <2>3. PICK new \in MonitorState : /\ monitor' = [monitor EXCEPT ![q] = new]
                                      /\ new.pc \in {"quota", "mark"}
                                      /\ <<new.threshold, new.cycle>> = Notification(q)
                                      /\ new.enqueued = complete
      <3> DEFINE sent == [monitor[q] EXCEPT !.pc = AfterThreshold(q), !.enqueued = complete]
      <3>1. AfterThreshold(q) \in {"quota", "mark"}
        BY DEF AfterThreshold
      <3>2. sent \in [pc : {"check", "send", "quota", "mark"}, usage : 0..MaxUsage, cycle : Days,
                      threshold : Thresholds, enqueued : BOOLEAN]
        BY <1>0, <2>2, <3>1, BusyMonitor
      <3>3. /\ sent.pc \in {"quota", "mark"} /\ <<sent.threshold, sent.cycle>> = Notification(q)
            /\ sent.enqueued = complete
        BY <1>0, <2>2, <3>1, BusyMonitor
      <3>4. monitor' = [monitor EXCEPT ![q] = sent]
        BY <1>0, <2>1 DEF MonitorTypes
      <3> HIDE DEF sent
      <3>5. sent \in MonitorState
        BY <3>2 DEF MonitorState
      <3> QED
        BY <3>3, <3>4, <3>5
    <2>4. Notification(q) \in Names /\ Notification(q) = <<monitor[q].threshold, monitor[q].cycle>>
      BY <1>0, <2>2, BusyMonitor
    <2>5. \A n \in Names : /\ SentBy(monitor[q], n) <=> n = Notification(q)
                           /\ ~SentBy(new, n) /\ ~HasToMark(monitor[q], n)
                           /\ HasToMark(new, n) <=> (complete /\ n = Notification(q))
      BY <2>2, <2>3, <2>4 DEF HasToMark, SentBy
    <2>6. CASE complete
      <3>1. /\ told' \in [Names -> Nat]
            /\ \A n \in Names : told'[n] = IF n = Notification(q) THEN told[n] + 1 ELSE told[n]
        <4>1. told' = [told EXCEPT ![Notification(q)] = @ + 1]
          BY <2>1, <2>6
        <4> QED
          BY <1>0, <2>4, <4>1 DEF MonitorTypes
      <3>2. ASSUME NEW n \in Names PROVE Settles(monitor[q], new, n, told'[n], marked, suppressed)
        <4>1. CASE n = Notification(q)
          <5>1. HasToMark(new, n) /\ SentBy(monitor[q], n) /\ ~SentBy(new, n) /\ ~HasToMark(monitor[q], n)
            BY <2>5, <2>6, <4>1
          <5> QED
            BY <3>1, <4>1, <5>1, CountsOf DEF Settles
        <4>2. CASE n # Notification(q)
          <5>1. ~HasToMark(new, n) /\ ~SentBy(monitor[q], n) /\ ~SentBy(new, n) /\ ~HasToMark(monitor[q], n)
            BY <2>5, <4>2
          <5> QED
            BY <3>1, <4>2, <5>1, CountsOf DEF Settles
        <4> QED
          BY <4>1, <4>2
      <3> QED
        BY <1>0, <1>3, <2>2, <2>3, <3>1, <3>2 DEF MonitorTypes
    <2>7. CASE ~complete
      <3>1. told' = told
        BY <2>1, <2>7
      <3>2. ASSUME NEW n \in Names PROVE Settles(monitor[q], new, n, told[n], marked, suppressed)
        <4>1. ~HasToMark(new, n) /\ ~SentBy(new, n) /\ ~HasToMark(monitor[q], n)
          BY <2>5, <2>7
        <4> QED
          BY <4>1, CountsOf DEF Settles
      <3> QED
        BY <1>0, <1>3, <2>2, <2>3, <3>1, <3>2 DEF MonitorTypes
    <2> QED
      BY <2>6, <2>7
  <1>7. ASSUME NEW q \in Monitors, SendQuotaExceeded(q) PROVE MonitorInv'
    <2>1. monitor[q].pc = "quota" /\ Goto(q, "mark") /\ UNCHANGED <<usage, cycle, today, marked, told, suppressed>>
      BY <1>7 DEF SendQuotaExceeded
    <2>2. PICK new \in MonitorState : /\ monitor' = [monitor EXCEPT ![q] = new]
                                      /\ new.pc = "mark" /\ <<new.threshold, new.cycle>> = Notification(q)
                                      /\ new.enqueued = monitor[q].enqueued
      BY <1>0, <2>1, MonitorGoes
    <2>3. \A n : /\ HasToMark(new, n) <=> HasToMark(monitor[q], n)
                /\ ~SentBy(new, n) /\ ~SentBy(monitor[q], n)
      BY <1>0, <2>1, <2>2, BusyMonitor DEF HasToMark, SentBy
    <2>4. \A n \in Names : Settles(monitor[q], new, n, told[n], marked, suppressed)
      BY <2>3, CountsOf DEF Settles
    <2> QED
      BY <1>0, <1>3, <2>1, <2>2, <2>4 DEF MonitorTypes
  <1>8. ASSUME NEW q \in Monitors, MarkAsNotified(q) PROVE MonitorInv'
    <2>1. /\ monitor[q].pc = "mark" /\ marked' = marked \cup {Notification(q)}
          /\ monitor' = [monitor EXCEPT ![q] = NoMonitor]
          /\ suppressed' = IF monitor[q].enqueued THEN suppressed ELSE suppressed \cup ({Notification(q)} \ marked)
          /\ UNCHANGED <<usage, cycle, today, told>>
      BY <1>8 DEF MarkAsNotified, End
    <2>2. Notification(q) \in Names /\ Notification(q) = <<monitor[q].threshold, monitor[q].cycle>>
      BY <1>0, <2>1, BusyMonitor
    <2>3. \A n : /\ ~SentBy(monitor[q], n)
                 /\ HasToMark(monitor[q], n) <=> (monitor[q].enqueued /\ n = Notification(q))
      BY <2>1, <2>2 DEF HasToMark, SentBy
    <2>4. ASSUME NEW n \in Names, n # Notification(q) PROVE Settles(monitor[q], NoMonitor, n, told[n], marked', suppressed')
      <3>1. ~HasToMark(monitor[q], n) /\ (n \in marked' <=> n \in marked) /\ (n \in suppressed' <=> n \in suppressed)
        BY <2>1, <2>3, <2>4
      <3> QED
        BY <2>3, <3>1, IdleOwesNothing, CountsOf DEF Settles
    <2>5. Settles(monitor[q], NoMonitor, Notification(q), told[Notification(q)], marked', suppressed')
      <3> DEFINE n == Notification(q)
      <3>1. CASE monitor[q].enqueued
        <4>1. HasToMark(monitor[q], n) /\ n \in marked' /\ suppressed' = suppressed
          BY <2>1, <2>3, <3>1
        <4>2. Cardinality(Owed(n)) > 0
          <5>1. q \in Owed(n)
            BY <4>1 DEF Owed
          <5> QED
            BY <5>1, FiniteCounts, FS_EmptySet
        <4> QED
          BY <2>2, <2>3, <4>1, <4>2, IdleOwesNothing, CountsOf DEF Settles
      <3>2. CASE ~monitor[q].enqueued
        <4>1. /\ ~HasToMark(monitor[q], n) /\ n \in marked'
              /\ n \notin marked => n \in suppressed'
              /\ n \in marked => (n \in suppressed' <=> n \in suppressed)
          BY <2>1, <2>3, <3>2
        <4> QED
          BY <2>2, <2>3, <4>1, IdleOwesNothing, CountsOf DEF Settles
      <3> QED
        BY <3>1, <3>2
    <2>6. marked' \subseteq Names /\ suppressed' \subseteq Names
      BY <1>0, <2>1, <2>2 DEF MonitorTypes
    <2> QED
      BY <1>0, <1>3, <2>1, <2>4, <2>5, <2>6, IdleOwesNothing DEF MonitorTypes
  <1>9. ASSUME NEW q \in Monitors, MonitorThrows(q) PROVE MonitorInv'
    <2>1. /\ monitor[q].pc \in {"check", "mark"}
          /\ monitor' = [monitor EXCEPT ![q] = NoMonitor]
          /\ Unmarked({q})
          /\ UNCHANGED <<usage, cycle, today, marked, suppressed>>
      BY <1>9 DEF MonitorThrows, End
    <2>2. \A n : ~SentBy(monitor[q], n)
      BY <2>1 DEF SentBy
    <2>3. ASSUME NEW n \in Names
          PROVE  told'[n] = told[n] - (IF HasToMark(monitor[q], n) THEN 1 ELSE 0) /\ told'[n] \in Nat
      <3> DEFINE lost == {p \in {q} : HasToMark(monitor[p], n)}
      <3>1. told'[n] = told[n] - Cardinality(lost)
        BY <2>1 DEF Unmarked, Names
      <3>2. CASE HasToMark(monitor[q], n)
        <4>1. lost = {} \cup {q}
          BY <3>2
        <4>2. Cardinality(lost) = 1
          <5> HIDE DEF lost
          <5>1. Cardinality({} \cup {q}) = Cardinality({}) + 1
            BY FS_EmptySet, FS_AddElement
          <5> QED
            BY <4>1, <5>1, FS_EmptySet
        <4>3. Cardinality(Owed(n)) > 0
          <5>1. q \in Owed(n)
            BY <3>2 DEF Owed
          <5> QED
            BY <5>1, FiniteCounts, FS_EmptySet
        <4>4. told'[n] = told[n] - 1 /\ told[n] > 0
          BY <3>1, <4>2, <4>3, CountsOf
        <4> QED
          BY <3>2, <4>4, CountsOf
      <3>3. CASE ~HasToMark(monitor[q], n)
        <4>1. lost = {}
          BY <3>3
        <4>2. Cardinality(lost) = 0
          <5> HIDE DEF lost
          <5> QED
            BY <4>1, FS_EmptySet
        <4>3. told'[n] = told[n]
          BY <3>1, <4>2, CountsOf
        <4> QED
          BY <3>3, <4>3, CountsOf
      <3> QED
        BY <3>2, <3>3
    <2>4. told' \in [Names -> Nat]
      BY <2>1, <2>3 DEF Unmarked, Names
    <2>5. ASSUME NEW n \in Names PROVE Settles(monitor[q], NoMonitor, n, told'[n], marked, suppressed)
      <3>1. CASE HasToMark(monitor[q], n)
        BY <2>2, <2>3, <3>1, IdleOwesNothing, CountsOf DEF Settles
      <3>2. CASE ~HasToMark(monitor[q], n)
        BY <2>2, <2>3, <3>2, IdleOwesNothing, CountsOf DEF Settles
      <3> QED
        BY <3>1, <3>2
    <2> QED
      BY <1>0, <1>3, <2>1, <2>4, <2>5, IdleOwesNothing DEF MonitorTypes
  <1>10. CASE MonitorExits
    <2>1. /\ monitor' = [q \in Monitors |-> NoMonitor]
          /\ Unmarked({q \in Monitors : monitor[q] # NoMonitor})
          /\ UNCHANGED <<usage, cycle, today, marked, suppressed>>
      BY <1>10 DEF MonitorExits
    <2>2. ASSUME NEW n \in Names
          PROVE  told'[n] = told[n] - Cardinality(Owed(n)) /\ told'[n] \in Nat
      <3> DEFINE lost == {p \in {q \in Monitors : monitor[q] # NoMonitor} : HasToMark(monitor[p], n)}
      <3>1. told'[n] = told[n] - Cardinality(lost)
        BY <2>1 DEF Unmarked, Names
      <3>2. lost = Owed(n)
        BY IdleOwesNothing DEF Owed
      <3>3. told'[n] = told[n] - Cardinality(Owed(n))
        BY <3>1, <3>2
      <3> QED
        BY <3>3, CountsOf
    <2>3. told' \in [Names -> Nat]
      BY <2>1, <2>2 DEF Unmarked, Names
    <2>4. \A n : Cardinality(Owed(n)') = 0 /\ Cardinality(Sending(n)') = 0
      <3>1. \A n : Owed(n)' = {} /\ Sending(n)' = {}
        BY <2>1, IdleOwesNothing DEF Owed, Sending
      <3> QED
        BY <3>1, FS_EmptySet
    <2>5. MonitorTypes'
      BY <1>0, <2>1, <2>3, IdleOwesNothing DEF MonitorTypes
    <2>6. UnmarkedOwed' /\ MarkedSettled'
      BY <1>0, <2>1, <2>2, <2>4, CountsOf DEF UnmarkedOwed, MarkedSettled, MonitorTypes
    <2> QED
      BY <2>5, <2>6 DEF MonitorInv
  <1> QED
    BY <1>2, <1>4, <1>5, <1>6, <1>7, <1>8, <1>9, <1>10
    DEF MonitorNext, UsageWebhookMonitor, CheckClientUsageThresholds

LEMMA MonitorInvInit == MonitorInit => MonitorInv
  <1> SUFFICES ASSUME MonitorInit PROVE MonitorInv
    OBVIOUS
  <1>1. \A n : Owed(n) = {}
    BY IdleOwesNothing DEF MonitorInit, Owed
  <1>2. MonitorTypes
    BY IdleOwesNothing, MonitorBounds DEF MonitorInit, MonitorTypes, Days, Names
  <1> QED
    BY <1>1, <1>2, FS_EmptySet DEF MonitorInit, MonitorInv, UnmarkedOwed, MarkedSettled, Names

\* With any number of overlapping requests, faults and exits, a threshold marked
\* as notified has been told in its cycle by a request that did not lose its mark,
\* but for one that a request marked first whose own enqueue had failed.
THEOREM MarkedThresholdsTold == MonitorSpec => []MarkedMeansTold
  <1>1. MonitorInv => MarkedMeansTold
    BY CountsOf DEF MonitorInv, MonitorTypes, MarkedMeansTold
  <1> QED
    BY <1>1, MonitorInvInit, MonitorInvStep, PTL DEF MonitorSpec

\* Of a threshold no more webhooks of one cycle are told than there are requests
\* at a time, but for those whose request could not mark it.
THEOREM ToldOncePerRequest == MonitorSpec => []RepeatsBounded
  <1>1. MonitorInv => RepeatsBounded
    BY CountsOf DEF RepeatsBounded, Names
  <1> QED
    BY <1>1, MonitorInvInit, MonitorInvStep, PTL DEF MonitorSpec
===============================================================================
