------------------------ MODULE ClientRegistryProofs ------------------------
(***************************************************************************)
(* Proofs about tiers and clients, and about how a client's requests are   *)
(* let through, for any number of them, of requests and of processes.      *)
(***************************************************************************)
EXTENDS ClientRegistry, ClientAccess, TLAPS

\* Types, and that a counted tier is a tier.
LEMMA RegistryTypeInit == RegistryInit => RegistryTypeOK
  BY DEF RegistryInit, RegistryTypeOK, RequestState

LEMMA WriteClientTypes ==
  ASSUME RegistryTypeOK, NEW s \in Slugs, NEW line \in ClientRow, WriteClient(s, line)
  PROVE  client' \in [Slugs -> ClientRow \cup {NoClient}] /\ joinedLate' \subseteq Slugs
  BY DEF RegistryTypeOK, WriteClient, Join

LEMMA RegistryTypeStep == RegistryTypeOK /\ [RegistryNext]_registryVars => RegistryTypeOK'
  <1> SUFFICES ASSUME RegistryTypeOK, [RegistryNext]_registryVars PROVE RegistryTypeOK'
    OBVIOUS
  <1> USE DEF RegistryTypeOK
  <1>1. ASSUME NEW t \in Tiers, CreateTier(t) PROVE RegistryTypeOK'
    BY <1>1 DEF CreateTier
  <1>2. ASSUME NEW t \in Tiers, NEW active \in BOOLEAN, UpdateTier(t, active) PROVE RegistryTypeOK'
    BY <1>2 DEF UpdateTier
  <1>3. ASSUME NEW q \in Requests, NEW t \in Tiers, CountBeforeDeactivate(q, t) PROVE RegistryTypeOK'
    BY <1>3 DEF CountBeforeDeactivate, RequestState
  <1>4. ASSUME NEW q \in Requests, DeactivateTier(q) PROVE RegistryTypeOK'
    <2>1. request[q].tier \in Tiers
      BY <1>4 DEF DeactivateTier, RequestState, NoRequest
    <2> QED
      BY <1>4, <2>1 DEF DeactivateTier, RequestState
  <1>5. ASSUME NEW q \in Requests, NEW s \in Slugs, NEW t \in Tiers, CheckSlug(q, s, t)
        PROVE  RegistryTypeOK'
    BY <1>5 DEF CheckSlug, RequestState
  <1>6. ASSUME NEW q \in Requests, CreateClient(q) PROVE RegistryTypeOK'
    <2>1. request[q].slug \in Slugs /\ request[q].tier \in Tiers
      BY <1>6 DEF CreateClient, RequestState, NoRequest
    <2>2. [tier |-> request[q].tier, active |-> TRUE] \in ClientRow
      BY <2>1 DEF ClientRow
    <2>3. client' \in [Slugs -> ClientRow \cup {NoClient}] /\ joinedLate' \subseteq Slugs
      BY <1>6, <2>1, <2>2, WriteClientTypes DEF CreateClient
    <2> QED
      BY <1>6, <2>3 DEF CreateClient, RequestState
  <1>7. ASSUME NEW q \in Requests, RequestEnds(q) PROVE RegistryTypeOK'
    BY <1>7 DEF RequestEnds, RequestState
  <1>8. ASSUME NEW s \in Slugs, DeactivateClient(s) PROVE RegistryTypeOK'
    <2>1. [client[s] EXCEPT !.active = FALSE] \in ClientRow
      BY <1>8 DEF DeactivateClient, Found, ClientRow
    <2> QED
      BY <1>8, <2>1, WriteClientTypes DEF DeactivateClient
  <1>9. ASSUME NEW s \in Slugs, NEW line \in ClientRow, UpdateClient(s, line) PROVE RegistryTypeOK'
    BY <1>9, WriteClientTypes DEF UpdateClient
  <1>10. CASE UNCHANGED registryVars
    BY <1>10 DEF registryVars
  <1> QED
    BY <1>1, <1>2, <1>3, <1>4, <1>5, <1>6, <1>7, <1>8, <1>9, <1>10 DEF RegistryNext

-----------------------------------------------------------------------------
(***************************************************************************)
(* The clients of an inactive tier.  What holds between the COUNT and the  *)
(* UPDATE of a deactivation makes the property inductive: the tier has no  *)
(* active client but those that joined since.                              *)
(***************************************************************************)

OnTier(s, t) == Found(s) /\ client[s].active /\ client[s].tier = t

CountHolds == \A t \in Tiers, s \in Slugs : Counted(t) /\ OnTier(s, t) => s \in joinedLate

InactiveExcused ==
    \A t \in Tiers, s \in Slugs :
        tier[t] = "inactive" /\ OnTier(s, t) => s \in joinedLate \/ t \in switchedOff

RegistryInv == RegistryTypeOK /\ CountHolds /\ InactiveExcused

\* A written client that is active is on a tier that is active and not counted,
\* or was on the same tier before, or is noted as late; the others stay.
LEMMA JoinNotes ==
  ASSUME RegistryTypeOK, NEW s \in Slugs, NEW line \in ClientRow, WriteClient(s, line),
         NEW other \in Slugs, NEW t \in Tiers, OnTier(other, t)', other \notin joinedLate'
  PROVE  \/ OnTier(other, t) /\ other \notin joinedLate
         \/ tier[t] = "active" /\ ~Counted(t)
  <1> USE DEF RegistryTypeOK, WriteClient, Join, OnTier, Found, ListActiveTiers
  <1>1. CASE other # s
    BY <1>1
  <1>2. CASE other = s
    <2>1. line.active /\ line.tier = t
      BY <1>2, NoClientAssumption DEF ClientRow
    <2>2. CASE client[s] # NoClient /\ client[s].active /\ client[s].tier = line.tier
      BY <1>2, <2>1, <2>2
    <2>3. CASE ~(client[s] # NoClient /\ client[s].active /\ client[s].tier = line.tier)
      <3>1. line.active /\ (Found(s) /\ client[s].active => client[s].tier # line.tier)
        BY <2>1, <2>3
      <3>2. line.tier \in ListActiveTiers /\ ~Counted(line.tier)
        BY <1>2, <3>1
      <3> QED
        BY <2>1, <3>2
    <2> QED
      BY <2>2, <2>3
  <1> QED
    BY <1>1, <1>2

LEMMA WriteClientKeeps ==
  ASSUME RegistryInv, NEW s \in Slugs, NEW line \in ClientRow, WriteClient(s, line),
         UNCHANGED <<tier, switchedOff>>, \A t \in Tiers : Counted(t)' => Counted(t)
  PROVE  CountHolds' /\ InactiveExcused'
  <1>1. ASSUME NEW t \in Tiers, NEW other \in Slugs, Counted(t)', OnTier(other, t)', other \notin joinedLate'
        PROVE  FALSE
    <2>1. Counted(t)
      BY <1>1
    <2>2. OnTier(other, t) /\ other \notin joinedLate
      BY <1>1, <2>1, JoinNotes DEF RegistryInv
    <2> QED
      BY <2>1, <2>2 DEF RegistryInv, CountHolds
  <1>2. ASSUME NEW t \in Tiers, NEW other \in Slugs, tier'[t] = "inactive", OnTier(other, t)',
               other \notin joinedLate', t \notin switchedOff'
        PROVE  FALSE
    <2>1. OnTier(other, t) /\ other \notin joinedLate
      BY <1>2, JoinNotes DEF RegistryInv
    <2> QED
      BY <1>2, <2>1 DEF RegistryInv, InactiveExcused
  <1> QED
    BY <1>1, <1>2 DEF CountHolds, InactiveExcused

\* What CountHolds and InactiveExcused lose nothing by.
LEMMA StillKeeps ==
  ASSUME RegistryInv, UNCHANGED <<client, joinedLate>>,
         \A t \in Tiers : Counted(t)' => Counted(t) \/ ActiveClients(t) = {},
         \A t \in Tiers : tier'[t] = "inactive" =>
             \/ t \in switchedOff'
             \/ tier[t] = "inactive" /\ t \notin switchedOff
             \/ Counted(t)
  PROVE  CountHolds' /\ InactiveExcused'
  <1> USE DEF RegistryInv, CountHolds, InactiveExcused, OnTier, Found
  <1>1. CountHolds'
    BY DEF ActiveClients, TierOfClient
  <1>2. InactiveExcused'
    OBVIOUS
  <1> QED
    BY <1>1, <1>2

LEMMA RegistryInvStep == RegistryInv /\ [RegistryNext]_registryVars => RegistryInv'
  <1> SUFFICES ASSUME RegistryInv, [RegistryNext]_registryVars PROVE CountHolds' /\ InactiveExcused'
    BY RegistryTypeStep DEF RegistryInv
  <1> USE DEF RegistryInv
  <1>0. \A t \in Tiers, q \in Requests : request[q] = [pc |-> "counted", tier |-> t] => Counted(t)
    BY DEF Counted
  <1>1. ASSUME NEW t \in Tiers, CreateTier(t) PROVE CountHolds' /\ InactiveExcused'
    <2>1. \A u \in Tiers : Counted(u)' => Counted(u)
      BY <1>1 DEF CreateTier, Counted
    <2>2. \A u \in Tiers : tier'[u] = "inactive" => tier[u] = "inactive"
      BY <1>1 DEF CreateTier, RegistryTypeOK
    <2> QED
      BY <1>1, <2>1, <2>2, StillKeeps DEF CreateTier
  <1>2. ASSUME NEW t \in Tiers, NEW active \in BOOLEAN, UpdateTier(t, active)
        PROVE  CountHolds' /\ InactiveExcused'
    <2>1. \A u \in Tiers : Counted(u)' => Counted(u)
      BY <1>2 DEF UpdateTier, Counted
    <2>2. \A u \in Tiers : tier'[u] = "inactive" =>
             \/ u \in switchedOff'
             \/ tier[u] = "inactive" /\ u \notin switchedOff
      BY <1>2 DEF UpdateTier, RegistryTypeOK
    <2> QED
      BY <1>2, <2>1, <2>2, StillKeeps DEF UpdateTier
  <1>3. ASSUME NEW q \in Requests, NEW t \in Tiers, CountBeforeDeactivate(q, t)
        PROVE  CountHolds' /\ InactiveExcused'
    <2>1. \A u \in Tiers : Counted(u)' => Counted(u) \/ ActiveClients(u) = {}
      BY <1>3 DEF CountBeforeDeactivate, Counted, RegistryTypeOK
    <2> QED
      BY <1>3, <2>1, StillKeeps DEF CountBeforeDeactivate
  <1>4. ASSUME NEW q \in Requests, DeactivateTier(q) PROVE CountHolds' /\ InactiveExcused'
    <2>1. PICK t \in Tiers : request[q] = [pc |-> "counted", tier |-> t]
      BY <1>4 DEF DeactivateTier, RegistryTypeOK, RequestState, NoRequest
    <2>2. Counted(t)
      BY <2>1, <1>0
    <2>3. \A u \in Tiers : Counted(u)' => Counted(u)
      BY <1>4 DEF DeactivateTier, Counted, RegistryTypeOK, NoRequest
    <2>4. \A u \in Tiers \ {t} : tier'[u] = tier[u] /\ (u \in switchedOff' <=> u \in switchedOff)
      BY <1>4, <2>1 DEF DeactivateTier, RegistryTypeOK
    <2>5. \A u \in Tiers : tier'[u] = "inactive" =>
             \/ u \in switchedOff'
             \/ tier[u] = "inactive" /\ u \notin switchedOff
             \/ Counted(u)
      BY <2>2, <2>4
    <2> QED
      BY <1>4, <2>3, <2>5, StillKeeps DEF DeactivateTier
  <1>5. ASSUME NEW q \in Requests, NEW s \in Slugs, NEW t \in Tiers, CheckSlug(q, s, t)
        PROVE  CountHolds' /\ InactiveExcused'
    <2>1. \A u \in Tiers : Counted(u)' => Counted(u)
      BY <1>5 DEF CheckSlug, Counted, RegistryTypeOK
    <2> QED
      BY <1>5, <2>1, StillKeeps DEF CheckSlug
  <1>6. ASSUME NEW q \in Requests, CreateClient(q) PROVE CountHolds' /\ InactiveExcused'
    <2>1. \A u \in Tiers : Counted(u)' => Counted(u)
      BY <1>6 DEF CreateClient, Counted, RegistryTypeOK, NoRequest
    <2>2. CASE UNCHANGED <<client, joinedLate>>
      BY <1>6, <2>1, <2>2, StillKeeps DEF CreateClient
    <2>3. CASE WriteClient(request[q].slug, [tier |-> request[q].tier, active |-> TRUE])
      <3>1. request[q].slug \in Slugs /\ request[q].tier \in Tiers
        BY <1>6 DEF CreateClient, RegistryTypeOK, RequestState, NoRequest
      <3>2. [tier |-> request[q].tier, active |-> TRUE] \in ClientRow
        BY <3>1 DEF ClientRow
      <3> QED
        BY <1>6, <2>1, <2>3, <3>1, <3>2, WriteClientKeeps DEF CreateClient
    <2> QED
      BY <1>6, <2>2, <2>3 DEF CreateClient
  <1>7. ASSUME NEW q \in Requests, RequestEnds(q) PROVE CountHolds' /\ InactiveExcused'
    <2>1. \A u \in Tiers : Counted(u)' => Counted(u)
      BY <1>7 DEF RequestEnds, Counted, RegistryTypeOK, NoRequest
    <2> QED
      BY <1>7, <2>1, StillKeeps DEF RequestEnds
  <1>8. ASSUME NEW s \in Slugs, DeactivateClient(s) PROVE CountHolds' /\ InactiveExcused'
    <2>1. [client[s] EXCEPT !.active = FALSE] \in ClientRow
      BY <1>8 DEF DeactivateClient, Found, ClientRow, RegistryTypeOK
    <2>2. \A u \in Tiers : Counted(u)' => Counted(u)
      BY <1>8 DEF DeactivateClient, Counted
    <2> QED
      BY <1>8, <2>1, <2>2, WriteClientKeeps DEF DeactivateClient
  <1>9. ASSUME NEW s \in Slugs, NEW line \in ClientRow, UpdateClient(s, line)
        PROVE  CountHolds' /\ InactiveExcused'
    <2>1. \A u \in Tiers : Counted(u)' => Counted(u)
      BY <1>9 DEF UpdateClient, Counted
    <2> QED
      BY <1>9, <2>1, WriteClientKeeps DEF UpdateClient
  <1>10. CASE UNCHANGED registryVars
    <2>1. \A u \in Tiers : Counted(u)' => Counted(u)
      BY <1>10 DEF registryVars, Counted
    <2> QED
      BY <1>10, <2>1, StillKeeps DEF registryVars
  <1> QED
    BY <1>1, <1>2, <1>3, <1>4, <1>5, <1>6, <1>7, <1>8, <1>9, <1>10 DEF RegistryNext

\* However many clients, tiers and requests there are, a deactivation strands no
\* client on an inactive tier that had not joined it late or had the tier
\* switched off under it.
THEOREM DeactivationSound == RegistrySpec => []InactiveTierUnused
  <1>1. RegistryInit => RegistryInv
    BY RegistryTypeInit DEF RegistryInit, RegistryInv, CountHolds, InactiveExcused, OnTier, Found
  <1>2. RegistryInv => InactiveTierUnused
    BY DEF RegistryInv, RegistryTypeOK, InactiveExcused, InactiveTierUnused, OnTier, Found,
       TierOfClient, ClientRow
  <1> QED
    BY <1>1, <1>2, RegistryInvStep, PTL DEF RegistrySpec

-----------------------------------------------------------------------------
(***************************************************************************)
(* The way of a request.  Every list that covers the address, be it under  *)
(* way, stored or answered with, is charged with the time since the table  *)
(* said so; and one that outlived a confirmed removal, with that time.     *)
(***************************************************************************)

\* How long ago the table last covered the address.
Said == tableSaid[TRUE]

PassedKey == {"client", "list", "store", "let", "bypassed"}
PassedClient == {"list", "store", "let", "bypassed"}

WasActive ==
    \A c \in Calls :
        call[c] # NoCall =>
            /\ call[c].pc \in PassedKey \/ key = "active" => call[c].keyWas
            /\ call[c].pc \in PassedClient \/ clientOn => call[c].clientWas

TableRecent ==
    /\ covered => Said = 0
    /\ \A c \in Calls :
        /\ call[c].pc = "store" /\ call[c].covers => Said <= call[c].wait
        /\ call[c].pc = "let" => Said <= ListAge
    /\ \A g \in Gates : cache[g].covers /\ cache[g].age < CacheTTL => Said <= MaxLag + cache[g].age

RemovalSeen ==
    \A g \in Gates :
        confirmed[g] # None =>
            /\ ~covered
            /\ \A c \in Calls :
                call[c].pc = "store" /\ call[c].covers /\ call[c].gate = g => confirmed[g] <= call[c].wait
            /\ cache[g].covers /\ cache[g].age < CacheTTL =>
                cache[g].age <= confirmed[g] /\ confirmed[g] <= MaxLag + cache[g].age

AccessInv == AccessTypeOK /\ WasActive /\ TableRecent /\ RemovalSeen

LEMMA AccessBounds ==
  /\ CacheTTL \in Nat /\ CacheTTL > 0 /\ MaxLag \in Nat
  /\ ListAge = MaxLag + CacheTTL - 1 /\ LongSince = MaxLag + CacheTTL
  BY AccessAssumption DEF ListAge, LongSince

Arrived == [pc : {"key", "client", "list", "store", "let", "bypassed"}, gate : Gates,
            covers : BOOLEAN, wait : 0..MaxLag, keyWas : BOOLEAN, clientWas : BOOLEAN]

LEMMA CallTypes ==
  /\ CallState = {NoCall} \cup Arrived
  /\ NoCall.pc = "idle" /\ \A e \in Arrived : e.pc # "idle" /\ e # NoCall
  BY DEF CallState, NoCall, Arrived

LEMMA SaidType == AccessTypeOK => Said \in 0..LongSince
  BY DEF Said, AccessTypeOK

LEMMA AccessInit0 == AccessInit => AccessInv
  <1> SUFFICES ASSUME AccessInit PROVE AccessInv
    OBVIOUS
  <1> USE DEF AccessInit
  <1>0. /\ tableSaid \in [BOOLEAN -> 0..LongSince]
        /\ cache \in [Gates -> CachedList] /\ change \in [Gates -> ChangeState]
    BY AccessBounds DEF CachedList, ChangeState
  <1>1. AccessTypeOK
    BY <1>0 DEF AccessTypeOK, KeyState, CallState, None
  <1>2. \A c \in Calls : call[c] = NoCall /\ call[c].pc = "idle"
    BY DEF NoCall
  <1>3. \A g \in Gates : ~cache[g].covers /\ confirmed[g] = None
    BY DEF NoList
  <1>4. WasActive
    BY <1>2 DEF WasActive
  <1>5. TableRecent
    BY <1>2, <1>3 DEF TableRecent
  <1>6. RemovalSeen
    BY <1>3 DEF RemovalSeen
  <1> QED
    BY <1>1, <1>4, <1>5, <1>6 DEF AccessInv

\* Key and client change; every open request notes it.
LEMMA AccessOwner ==
  ASSUME AccessInv, GenerateKey \/ RevokeKey \/ KeyExpires \/ \E on \in BOOLEAN : SetClient(on)
  PROVE  AccessInv'
  <1> USE DEF AccessInv
  <1>1. /\ key' \in KeyState /\ clientOn' \in BOOLEAN
        /\ UNCHANGED <<covered, tableSaid, cache, change, confirmed>>
        /\ \/ Noting(key', clientOn')
           \/ UNCHANGED call /\ key' # "active" /\ clientOn' = clientOn
    <2>1. CASE GenerateKey
      <3>1. key' = "active" /\ clientOn' = clientOn /\ Noting("active", clientOn)
        BY <2>1 DEF GenerateKey
      <3>2. Noting(key', clientOn')
        BY <3>1 DEF Noting
      <3> QED
        BY <2>1, <3>1, <3>2 DEF GenerateKey, KeyState, AccessTypeOK
    <2>2. CASE RevokeKey \/ KeyExpires
      BY <2>2 DEF RevokeKey, KeyExpires, KeyState, AccessTypeOK
    <2>3. ASSUME NEW on \in BOOLEAN, SetClient(on) PROVE <1>1!:
      <3>1. key' = key /\ clientOn' = on /\ Noting(key, on)
        BY <2>3 DEF SetClient
      <3>2. Noting(key', clientOn')
        BY <3>1 DEF Noting
      <3> QED
        BY <2>3, <3>1, <3>2 DEF SetClient, AccessTypeOK
    <2> QED
      BY <2>1, <2>2, <2>3
  <1>2. ASSUME NEW c \in Calls
        PROVE  /\ call'[c] \in CallState
               /\ call[c] = NoCall <=> call'[c] = NoCall
               /\ call'[c].pc = call[c].pc
               /\ call[c] # NoCall => /\ call'[c].covers = call[c].covers
                                      /\ call'[c].wait = call[c].wait
                                      /\ call'[c].gate = call[c].gate
                                      /\ call'[c].keyWas = (call[c].keyWas \/ key' = "active")
                                      /\ call'[c].clientWas = (call[c].clientWas \/ clientOn')
    <2>1. call[c] \in CallState
      BY DEF AccessTypeOK
    <2>2. CASE call[c] = NoCall
      <3>1. call'[c] = NoCall
        BY <1>1, <2>2 DEF Noting
      <3> QED
        BY <2>2, <3>1, CallTypes
    <2>3. CASE call[c] # NoCall
      <3>1. call[c] \in Arrived
        BY <2>1, <2>3, CallTypes
      <3>2. CASE Noting(key', clientOn')
        <4>1. call'[c] = [call[c] EXCEPT !.keyWas = @ \/ key' = "active", !.clientWas = @ \/ clientOn']
          BY <2>3, <3>2 DEF Noting
        <4>2. call'[c] \in Arrived
          BY <3>1, <4>1 DEF Arrived
        <4> QED
          BY <2>3, <3>1, <4>1, <4>2, CallTypes DEF Arrived
      <3>3. CASE UNCHANGED call /\ key' # "active" /\ clientOn' = clientOn
        <4>1. clientOn => call[c].clientWas
          BY <2>3 DEF WasActive
        <4> QED
          BY <2>1, <3>1, <3>3, <4>1 DEF Arrived
      <3> QED
        BY <1>1, <3>2, <3>3
    <2> QED
      BY <2>2, <2>3
  <1>3. call' \in [Calls -> CallState]
    BY <1>1, <1>2 DEF Noting, AccessTypeOK
  <1>4. AccessTypeOK'
    BY <1>1, <1>3 DEF AccessTypeOK
  <1>5. WasActive'
    BY <1>1, <1>2 DEF WasActive
  <1>6. \A c \in Calls : call[c].pc \in {"store", "let"} => call[c] # NoCall
    BY CallTypes
  <1>7. TableRecent'
    <2>1. Said' = Said
      BY <1>1 DEF Said
    <2> QED
      BY <1>1, <1>2, <1>6, <2>1 DEF TableRecent
  <1>8. RemovalSeen'
    BY <1>1, <1>2, <1>6 DEF RemovalSeen
  <1> QED
    BY <1>4, <1>5, <1>7, <1>8

\* What the invariant says of one request.
CallHolds(e) ==
    e # NoCall =>
        /\ e.pc \in PassedKey \/ key = "active" => e.keyWas
        /\ e.pc \in PassedClient \/ clientOn => e.clientWas
        /\ e.pc = "store" /\ e.covers =>
              /\ Said <= e.wait
              /\ confirmed[e.gate] # None => confirmed[e.gate] <= e.wait
        /\ e.pc = "let" => Said <= ListAge

LEMMA CallsHold == AccessInv => \A c \in Calls : CallHolds(call[c])
  <1> SUFFICES ASSUME AccessInv, NEW c \in Calls, call[c] # NoCall PROVE CallHolds(call[c])
    BY DEF CallHolds
  <1>1. call[c].gate \in Gates
    BY CallTypes DEF AccessInv, AccessTypeOK, Arrived
  <1> QED
    BY <1>1 DEF AccessInv, WasActive, TableRecent, RemovalSeen, CallHolds

\* A step of one request, which may store a list on the way.
LEMMA CallGoes ==
  ASSUME AccessInv, UNCHANGED <<key, clientOn, covered, tableSaid, change, confirmed>>,
         NEW c \in Calls, NEW e \in CallState, call' = [call EXCEPT ![c] = e], CallHolds(e),
         \/ UNCHANGED cache
         \/ /\ call[c].pc = "store"
            /\ cache' = [cache EXCEPT ![call[c].gate] = [covers |-> call[c].covers, age |-> 0]]
  PROVE  AccessInv'
  <1> USE DEF AccessInv
  <1>1. \A b \in Calls : call'[b] = IF b = c THEN e ELSE call[b]
    BY DEF AccessTypeOK
  <1>2. \A b \in Calls : CallHolds(call'[b])
    BY <1>1, CallsHold
  <1>3. \A g \in Gates :
           \/ cache'[g] = cache[g]
           \/ /\ cache'[g].age = 0 /\ cache'[g] \in CachedList
              /\ cache'[g].covers => /\ Said <= MaxLag
                                     /\ confirmed[g] # None => confirmed[g] \in 0..MaxLag
    <2>1. CASE UNCHANGED cache
      BY <2>1
    <2>2. CASE /\ call[c].pc = "store"
               /\ cache' = [cache EXCEPT ![call[c].gate] = [covers |-> call[c].covers, age |-> 0]]
      <3>1. call[c] \in Arrived
        BY <2>2, CallTypes DEF AccessTypeOK
      <3>2. call[c].gate \in Gates /\ call[c].covers \in BOOLEAN /\ call[c].wait \in 0..MaxLag
        BY <3>1 DEF Arrived
      <3>3. [covers |-> call[c].covers, age |-> 0] \in CachedList
        BY <3>2, AccessBounds DEF CachedList
      <3>4. Said \in 0..LongSince
        BY SaidType
      <3>5. \A g \in Gates : confirmed[g] \in {None} \cup 0..LongSince
        BY DEF AccessTypeOK
      <3>6. call[c].covers => /\ Said <= call[c].wait
                              /\ confirmed[call[c].gate] # None => confirmed[call[c].gate] <= call[c].wait
        BY <2>2, <3>1, CallsHold, CallTypes DEF CallHolds
      <3>7. ASSUME NEW g \in Gates, g = call[c].gate PROVE cache'[g] = [covers |-> call[c].covers, age |-> 0]
        BY <2>2, <3>2, <3>7 DEF AccessTypeOK
      <3>8. ASSUME NEW g \in Gates, g # call[c].gate PROVE cache'[g] = cache[g]
        BY <2>2, <3>8 DEF AccessTypeOK
      <3>9. ASSUME NEW g \in Gates, g = call[c].gate
            PROVE  /\ cache'[g].age = 0 /\ cache'[g] \in CachedList
                   /\ cache'[g].covers => /\ Said <= MaxLag
                                          /\ confirmed[g] # None => confirmed[g] \in 0..MaxLag
        <4>1. cache'[g].age = 0 /\ cache'[g] \in CachedList /\ cache'[g].covers = call[c].covers
          BY <3>3, <3>7, <3>9
        <4>2. ASSUME call[c].covers
              PROVE  Said <= MaxLag /\ (confirmed[g] # None => confirmed[g] \in 0..MaxLag)
          <5>1. Said <= call[c].wait /\ (confirmed[g] # None => confirmed[g] <= call[c].wait)
            BY <3>6, <3>9, <4>2
          <5>2. Said \in 0..LongSince /\ confirmed[g] \in {None} \cup 0..LongSince
            BY <3>4, <3>5
          <5> QED
            BY <3>2, <5>1, <5>2, AccessBounds
        <4> QED
          BY <4>1, <4>2
      <3> QED
        BY <3>8, <3>9
    <2> QED
      BY <2>1, <2>2
  <1>4. cache' \in [Gates -> CachedList]
    <2>1. \A g \in Gates : cache'[g] \in CachedList
      BY <1>3 DEF AccessTypeOK
    <2> QED
      BY <2>1 DEF AccessTypeOK
  <1>5. AccessTypeOK'
    BY <1>4 DEF AccessTypeOK
  <1>6. WasActive'
    BY <1>2 DEF WasActive, CallHolds
  <1>7. \A b \in Calls : call'[b].pc \in {"store", "let"} => call'[b] # NoCall
    BY CallTypes
  <1>8. TableRecent'
    <2>1. ASSUME NEW g \in Gates, cache'[g].covers, cache'[g].age < CacheTTL
          PROVE  Said <= MaxLag + cache'[g].age
      <3>1. CASE cache'[g] = cache[g]
        BY <2>1, <3>1 DEF TableRecent
      <3>2. CASE cache'[g].age = 0 /\ Said <= MaxLag
        BY <3>2, AccessBounds
      <3> QED
        BY <1>3, <2>1, <3>1, <3>2
    <2>2. \A b \in Calls : /\ call'[b].pc = "store" /\ call'[b].covers => Said <= call'[b].wait
                           /\ call'[b].pc = "let" => Said <= ListAge
      BY <1>2, <1>7 DEF CallHolds
    <2>3. Said' = Said /\ (covered' => Said' = 0)
      BY DEF Said, TableRecent
    <2>4. \A g \in Gates : cache'[g].covers /\ cache'[g].age < CacheTTL => Said' <= MaxLag + cache'[g].age
      BY <2>1, <2>3
    <2>5. \A b \in Calls : /\ call'[b].pc = "store" /\ call'[b].covers => Said' <= call'[b].wait
                           /\ call'[b].pc = "let" => Said' <= ListAge
      BY <2>2, <2>3
    <2> QED
      BY <2>3, <2>4, <2>5 DEF TableRecent
  <1>9. RemovalSeen'
    <2> SUFFICES ASSUME NEW g \in Gates, confirmed[g] # None
                 PROVE  /\ ~covered
                        /\ \A b \in Calls : (call'[b].pc = "store" /\ call'[b].covers /\ call'[b].gate = g)
                                                => confirmed[g] <= call'[b].wait
                        /\ cache'[g].covers /\ cache'[g].age < CacheTTL =>
                              cache'[g].age <= confirmed[g] /\ confirmed[g] <= MaxLag + cache'[g].age
      BY DEF RemovalSeen
    <2>1. ~covered
      BY DEF RemovalSeen
    <2>2. \A b \in Calls : (call'[b].pc = "store" /\ call'[b].covers /\ call'[b].gate = g)
                              => confirmed[g] <= call'[b].wait
      BY <1>2, <1>7 DEF CallHolds
    <2>3. ASSUME cache'[g].covers, cache'[g].age < CacheTTL
          PROVE  cache'[g].age <= confirmed[g] /\ confirmed[g] <= MaxLag + cache'[g].age
      <3>1. CASE cache'[g] = cache[g]
        BY <2>3, <3>1 DEF RemovalSeen
      <3>2. CASE cache'[g].age = 0 /\ confirmed[g] \in 0..MaxLag
        BY <3>2, AccessBounds
      <3> QED
        BY <1>3, <2>3, <3>1, <3>2
    <2> QED
      BY <2>1, <2>2, <2>3
  <1> QED
    BY <1>5, <1>6, <1>8, <1>9

Passes(c) ==
    \/ \E g \in Gates : Arrive(c, g)
    \/ FindKey(c) \/ FindClient(c) \/ StatementThrows(c) \/ ListClientIPs(c) \/ StoreList(c) \/ EndCall(c)

LEMMA AccessPasses ==
  ASSUME AccessInv, NEW c \in Calls, Passes(c)
  PROVE  AccessInv'
  <1> USE DEF AccessInv
  <1>1. NoCall \in CallState /\ CallHolds(NoCall)
    BY CallTypes DEF CallHolds
  <1>2. CallHolds(call[c])
    BY CallsHold
  <1>3. call[c] # NoCall => call[c] \in Arrived
    BY CallTypes DEF AccessTypeOK
  <1>4. ASSUME NEW pc \in {"refused", "client", "list", "let", "bypassed"}, call[c] # NoCall, To(c, pc),
               UNCHANGED <<key, clientOn, covered, tableSaid, change, confirmed>>,
               \/ UNCHANGED cache
               \/ /\ call[c].pc = "store"
                  /\ cache' = [cache EXCEPT ![call[c].gate] = [covers |-> call[c].covers, age |-> 0]],
               pc # "refused" => call[c].keyWas,
               pc \in {"list", "let", "bypassed"} => call[c].clientWas,
               pc = "let" => Said <= ListAge
        PROVE  AccessInv'
    <2>1. CASE pc = "refused"
      <3>1. call' = [call EXCEPT ![c] = NoCall]
        BY <1>4, <2>1 DEF To
      <3> QED
        BY <1>1, <1>4, <3>1, CallGoes
    <2>2. CASE pc # "refused"
      <3> DEFINE e == [call[c] EXCEPT !.pc = pc]
      <3>1. call' = [call EXCEPT ![c] = e]
        BY <1>4, <2>2 DEF To, AccessTypeOK
      <3>2. /\ e \in Arrived /\ e.pc = pc
            /\ e.keyWas = call[c].keyWas /\ e.clientWas = call[c].clientWas
        BY <1>3, <1>4, <2>2 DEF Arrived
      <3>3. CallHolds(e)
        BY <1>2, <1>4, <2>2, <3>2 DEF CallHolds, PassedClient
      <3>4. e \in CallState
        BY <3>2, CallTypes
      <3> HIDE DEF e
      <3> QED
        BY <1>4, <3>1, <3>3, <3>4, CallGoes
    <2> QED
      BY <2>1, <2>2
  <1>5. ASSUME NEW g \in Gates, Arrive(c, g) PROVE AccessInv'
    <2> DEFINE e == [pc |-> "key", gate |-> g, covers |-> FALSE, wait |-> 0,
                     keyWas |-> key = "active", clientWas |-> clientOn]
    <2>1. e \in Arrived
      BY AccessBounds DEF Arrived, AccessTypeOK
    <2>2. CallHolds(e)
      BY DEF CallHolds, PassedKey, PassedClient
    <2>3. e \in CallState
      BY <2>1, CallTypes
    <2>4. /\ call' = [call EXCEPT ![c] = e]
          /\ UNCHANGED <<key, clientOn, covered, tableSaid, cache, change, confirmed>>
      BY <1>5 DEF Arrive
    <2> HIDE DEF e
    <2> QED
      BY <2>2, <2>3, <2>4, CallGoes
  <1>6. CASE FindKey(c)
    <2>1. call[c] # NoCall
      BY <1>6, CallTypes DEF FindKey
    <2>2. key = "active" => call[c].keyWas
      BY <2>1 DEF WasActive
    <2> QED
      BY <1>4, <1>6, <2>1, <2>2 DEF FindKey
  <1>7. CASE FindClient(c)
    <2>1. call[c] # NoCall /\ call[c].pc = "client"
      BY <1>7, CallTypes DEF FindClient
    <2>2. call[c].keyWas /\ (clientOn => call[c].clientWas)
      BY <2>1 DEF WasActive, PassedKey
    <2> DEFINE list == cache[call[c].gate]
    <2>3. list.covers /\ Fresh(list) => Said <= ListAge
      <3>1. call[c].gate \in Gates
        BY <1>3, <2>1 DEF Arrived
      <3>2. list \in CachedList /\ Said \in 0..LongSince
        BY <3>1, SaidType DEF AccessTypeOK
      <3>3. list # NoList => list.age \in 0..CacheTTL
        BY <3>2 DEF CachedList
      <3>4. list.covers /\ list.age < CacheTTL => Said <= MaxLag + list.age
        BY <3>1 DEF TableRecent
      <3> HIDE DEF list
      <3>5. ASSUME list.covers, Fresh(list) PROVE Said <= ListAge
        <4>1. list # NoList /\ list.age < CacheTTL
          BY <3>5 DEF Fresh
        <4>2. Said <= MaxLag + list.age /\ list.age \in 0..CacheTTL
          BY <3>3, <3>4, <3>5, <4>1
        <4> QED
          BY <3>2, <4>1, <4>2, AccessBounds
      <3> QED
        BY <3>5
    <2>4. UNCHANGED <<key, clientOn, covered, tableSaid, cache, change, confirmed>>
      BY <1>7 DEF FindClient
    <2>5. \/ To(c, "refused")
          \/ clientOn /\ To(c, "bypassed")
          \/ clientOn /\ To(c, "list")
          \/ clientOn /\ list.covers /\ Fresh(list) /\ To(c, "let")
      BY <1>7 DEF FindClient, Verdict
    <2> HIDE DEF list
    <2> QED
      BY <1>4, <2>1, <2>2, <2>3, <2>4, <2>5
  <1>8. CASE StatementThrows(c)
    <2>1. call[c] # NoCall
      BY <1>8, CallTypes DEF StatementThrows
    <2> QED
      BY <1>4, <1>8, <2>1 DEF StatementThrows
  <1>9. CASE ListClientIPs(c)
    <2>1. call[c].pc = "list" /\ call[c] \in Arrived
      BY <1>3, <1>9, CallTypes DEF ListClientIPs
    <2> DEFINE e == [call[c] EXCEPT !.pc = "store", !.covers = covered, !.wait = 0]
    <2>2. /\ call' = [call EXCEPT ![c] = e]
          /\ UNCHANGED <<key, clientOn, covered, tableSaid, cache, change, confirmed>>
      BY <1>9 DEF ListClientIPs, AccessTypeOK
    <2>9. covered \in BOOLEAN /\ 0 \in 0..MaxLag
      BY AccessBounds DEF AccessTypeOK
    <2>3. /\ e \in Arrived
          /\ e.pc = "store" /\ e.covers = covered /\ e.wait = 0 /\ e.gate = call[c].gate
          /\ e.keyWas = call[c].keyWas /\ e.clientWas = call[c].clientWas
      BY <2>1, <2>9 DEF Arrived
    <2>4. covered => Said = 0 /\ confirmed[call[c].gate] = None
      BY <2>1 DEF TableRecent, RemovalSeen, Arrived
    <2>5. call[c].keyWas /\ call[c].clientWas
      BY <2>1, CallTypes DEF WasActive, PassedKey, PassedClient
    <2> HIDE DEF e
    <2>6. CallHolds(e)
      <3>1. e.keyWas /\ e.clientWas
        BY <2>3, <2>5
      <3>2. ASSUME e.covers PROVE /\ Said <= e.wait
                                  /\ confirmed[e.gate] # None => confirmed[e.gate] <= e.wait
        <4>1. covered
          BY <2>3, <3>2
        <4> QED
          BY <2>3, <2>4, <4>1
      <3> QED
        BY <2>3, <3>1, <3>2 DEF CallHolds
    <2>7. e \in CallState
      BY <2>3, CallTypes
    <2> QED
      BY <2>2, <2>6, <2>7, CallGoes
  <1>10. CASE StoreList(c)
    <2>1. call[c].pc = "store" /\ call[c] \in Arrived /\ call[c] # NoCall
      BY <1>3, <1>10, CallTypes DEF StoreList
    <2>2. call[c].keyWas /\ call[c].clientWas
      BY <2>1 DEF WasActive, PassedKey, PassedClient
    <2>3. call[c].covers => Said <= ListAge
      <3>1. call[c].wait \in 0..MaxLag /\ Said \in 0..LongSince
        BY <2>1, SaidType DEF Arrived
      <3>2. ASSUME call[c].covers PROVE Said <= ListAge
        <4>1. Said <= call[c].wait
          BY <2>1, <3>2 DEF TableRecent
        <4> QED
          BY <3>1, <4>1, AccessBounds
      <3> QED
        BY <3>2
    <2>4. /\ UNCHANGED <<key, clientOn, covered, tableSaid, change, confirmed>>
          /\ cache' = [cache EXCEPT ![call[c].gate] = [covers |-> call[c].covers, age |-> 0]]
          /\ To(c, Verdict(call[c].covers))
      BY <1>10 DEF StoreList
    <2>5. To(c, "refused") \/ (call[c].covers /\ To(c, "let"))
      <3>1. CASE call[c].covers
        BY <2>4, <3>1 DEF Verdict
      <3>2. CASE ~call[c].covers
        BY <2>4, <3>2 DEF Verdict
      <3> QED
        BY <3>1, <3>2
    <2> QED
      BY <1>4, <2>1, <2>2, <2>3, <2>4, <2>5
  <1>11. CASE EndCall(c)
    <2>1. /\ call' = [call EXCEPT ![c] = NoCall]
          /\ UNCHANGED <<key, clientOn, covered, tableSaid, cache, change, confirmed>>
      BY <1>11 DEF EndCall
    <2> QED
      BY <1>1, <2>1, CallGoes
  <1> QED
    BY <1>5, <1>6, <1>7, <1>8, <1>9, <1>10, <1>11 DEF Passes

\* A process writes an entry.
LEMMA AccessWrites ==
  ASSUME AccessInv, NEW g \in Gates, AddAllowedIP(g) \/ RemoveAllowedIP(g)
  PROVE  AccessInv'
  <1> USE DEF AccessInv
  <1>1. PICK value \in BOOLEAN, what \in {"add", "remove"} : Write(g, value, what)
    BY DEF AddAllowedIP, RemoveAllowedIP
  <1> USE <1>1
  <1>2. /\ UNCHANGED <<key, clientOn, cache, call>> /\ covered' = value
        /\ tableSaid' = [tableSaid EXCEPT ![value] = 0]
        /\ change' = [change EXCEPT ![g] = [what |-> what, wait |-> 0]]
        /\ confirmed' = IF value THEN [h \in Gates |-> None] ELSE confirmed
    BY DEF Write
  <1>3. Said' = (IF value THEN 0 ELSE Said) /\ Said \in 0..LongSince
    BY <1>2, SaidType DEF Said, AccessTypeOK
  <1>4. AccessTypeOK'
    <2>1. tableSaid' \in [BOOLEAN -> 0..LongSince]
      BY <1>2, AccessBounds DEF AccessTypeOK
    <2>2. change' \in [Gates -> ChangeState]
      <3>1. [what |-> what, wait |-> 0] \in ChangeState
        BY AccessBounds DEF ChangeState
      <3> QED
        BY <1>2, <3>1 DEF AccessTypeOK
    <2>3. confirmed' \in [Gates -> {None} \cup 0..LongSince]
      BY <1>2 DEF AccessTypeOK
    <2> QED
      BY <1>2, <2>1, <2>2, <2>3 DEF AccessTypeOK
  <1>5. WasActive'
    BY <1>2 DEF WasActive
  <1>6. CASE value
    <2>1. Said' = 0 /\ \A h \in Gates : confirmed'[h] = None
      BY <1>2, <1>3, <1>6
    <2>2. \A c \in Calls : call[c].pc = "store" => call[c].wait \in 0..MaxLag
      BY CallTypes DEF AccessTypeOK, Arrived
    <2>3. \A h \in Gates : cache[h].covers => cache[h].age \in 0..CacheTTL
      BY DEF AccessTypeOK, CachedList, NoList
    <2>4. ListAge \in Nat
      BY AccessBounds
    <2>5. TableRecent'
      BY <1>2, <2>1, <2>2, <2>3, <2>4, AccessBounds DEF TableRecent
    <2>6. RemovalSeen'
      BY <2>1 DEF RemovalSeen
    <2> QED
      BY <1>4, <1>5, <2>5, <2>6
  <1>7. CASE ~value
    <2>1. Said' = Said /\ UNCHANGED confirmed /\ ~covered'
      BY <1>2, <1>3, <1>7
    <2>2. TableRecent'
      BY <1>2, <2>1 DEF TableRecent
    <2>3. RemovalSeen'
      BY <1>2, <2>1 DEF RemovalSeen
    <2> QED
      BY <1>4, <1>5, <2>2, <2>3
  <1> QED
    BY <1>6, <1>7

\* A process forgets its list, and may confirm a removal.
LEMMA AccessForgets ==
  ASSUME AccessInv, NEW g \in Gates,
         UNCHANGED <<key, clientOn, covered, tableSaid, call>>,
         change' = change \/ change' = [change EXCEPT ![g] = NoChange],
         \/ UNCHANGED <<cache, confirmed>>
         \/ cache' = [cache EXCEPT ![g] = NoList] /\ UNCHANGED confirmed
         \/ /\ cache' = [cache EXCEPT ![g] = NoList]
            /\ ~covered /\ confirmed' = [confirmed EXCEPT ![g] = 0]
  PROVE  AccessInv'
  <1> USE DEF AccessInv
  <1>1. change' \in [Gates -> ChangeState]
    BY DEF AccessTypeOK, ChangeState
  <1>2. /\ NoList \in CachedList /\ ~NoList.covers
        /\ 0 \in 0..LongSince
    BY AccessBounds DEF CachedList, NoList
  <1>3. AccessTypeOK'
    BY <1>1, <1>2 DEF AccessTypeOK
  <1>4. WasActive'
    BY DEF WasActive
  <1>5. Said' = Said
    BY DEF Said
  <1>6. \A h \in Gates : cache'[h] = cache[h] \/ ~cache'[h].covers
    BY <1>2 DEF AccessTypeOK
  <1>7. TableRecent'
    BY <1>5, <1>6 DEF TableRecent
  <1>8. \A h \in Gates : \/ confirmed'[h] = confirmed[h]
                         \/ confirmed'[h] = 0 /\ ~covered /\ ~cache'[h].covers
    BY <1>2 DEF AccessTypeOK
  <1>9. \A c \in Calls : call[c].pc = "store" => call[c].wait \in 0..MaxLag
    BY CallTypes DEF AccessTypeOK, Arrived
  <1>10. RemovalSeen'
    <2> SUFFICES ASSUME NEW h \in Gates, confirmed'[h] # None
                 PROVE  /\ ~covered
                        /\ \A c \in Calls : (call[c].pc = "store" /\ call[c].covers /\ call[c].gate = h)
                                                => confirmed'[h] <= call[c].wait
                        /\ cache'[h].covers /\ cache'[h].age < CacheTTL =>
                              cache'[h].age <= confirmed'[h] /\ confirmed'[h] <= MaxLag + cache'[h].age
      BY DEF RemovalSeen
    <2>1. CASE confirmed'[h] = confirmed[h]
      BY <1>6, <2>1 DEF RemovalSeen
    <2>2. CASE confirmed'[h] = 0 /\ ~covered /\ ~cache'[h].covers
      BY <1>9, <2>2
    <2> QED
      BY <1>8, <2>1, <2>2
  <1> QED
    BY <1>3, <1>4, <1>7, <1>10

LEMMA AccessRestarts ==
  ASSUME AccessInv, NEW g \in Gates, GateRestarts(g)
  PROVE  AccessInv'
  <1> USE DEF AccessInv
  <1>1. /\ NoList \in CachedList /\ ~NoList.covers /\ NoChange \in ChangeState
        /\ NoCall \in CallState /\ NoCall.pc = "idle"
    BY DEF CachedList, NoList, ChangeState, CallState, NoCall
  <1>2. AccessTypeOK'
    BY <1>1 DEF AccessTypeOK, GateRestarts
  <1>3. \A c \in Calls : call'[c] = NoCall \/ call'[c] = call[c]
    BY DEF GateRestarts
  <1>4. \A h \in Gates : /\ cache'[h] = cache[h] \/ ~cache'[h].covers
                         /\ confirmed'[h] = None \/ (confirmed'[h] = confirmed[h] /\ cache'[h] = cache[h])
    BY <1>1 DEF GateRestarts, AccessTypeOK
  <1>5. Said' = Said /\ UNCHANGED <<key, clientOn, covered>>
    BY DEF GateRestarts, Said
  <1>6. WasActive'
    BY <1>3, <1>5 DEF WasActive
  <1>7. TableRecent'
    BY <1>1, <1>3, <1>4, <1>5 DEF TableRecent
  <1>8. RemovalSeen'
    BY <1>1, <1>3, <1>4, <1>5 DEF RemovalSeen
  <1> QED
    BY <1>2, <1>6, <1>7, <1>8

\* Time: what was charged with its age ages no slower than it is allowed to.
LEMMA AccessTicks ==
  ASSUME AccessInv, AccessTick
  PROVE  AccessInv'
  <1> USE DEF AccessInv
  <1>1. Said \in 0..LongSince /\ Said' = (IF covered THEN 0 ELSE Older(Said, LongSince))
    BY SaidType DEF AccessTick, Said, AccessTypeOK
  <1>2. UNCHANGED <<key, clientOn, covered>>
    BY DEF AccessTick
  <1>3. ASSUME NEW c \in Calls
        PROVE  /\ call'[c] \in CallState /\ call'[c].pc = call[c].pc /\ call[c].pc # "let"
               /\ call[c] = NoCall <=> call'[c] = NoCall
               /\ call[c] # NoCall => /\ call'[c].keyWas = call[c].keyWas
                                      /\ call'[c].clientWas = call[c].clientWas
               /\ call[c].pc = "store" => /\ call'[c].covers = call[c].covers
                                          /\ call'[c].gate = call[c].gate
                                          /\ call[c].wait \in 0..MaxLag
                                          /\ call'[c].wait = call[c].wait + 1
    <2>1. call[c] \in CallState /\ call[c].pc # "let"
      BY DEF AccessTypeOK, AccessTick
    <2>2. CASE call[c].pc # "store"
      <3>1. call'[c] = call[c]
        BY <2>2 DEF AccessTick
      <3> QED
        BY <2>1, <2>2, <3>1
    <2>3. CASE call[c].pc = "store"
      <3>1. call[c] \in Arrived
        BY <2>1, <2>3, CallTypes
      <3>2. call[c].wait < MaxLag /\ call'[c] = [call[c] EXCEPT !.wait = @ + 1]
        BY <2>3 DEF AccessTick
      <3>3. call[c].wait \in 0..MaxLag /\ call[c].wait + 1 \in 0..MaxLag
        BY <3>1, <3>2, AccessBounds DEF Arrived
      <3>4. call'[c] \in Arrived
        BY <3>1, <3>2, <3>3 DEF Arrived
      <3> QED
        BY <2>1, <2>3, <3>1, <3>2, <3>3, <3>4, CallTypes DEF Arrived
    <2> QED
      BY <2>2, <2>3
  <1>4. ASSUME NEW g \in Gates
        PROVE  /\ cache'[g] \in CachedList
               /\ cache'[g].covers => /\ cache[g].covers /\ cache[g].age \in 0..CacheTTL
                                      /\ cache'[g].age = Older(cache[g].age, CacheTTL)
    <2>1. CASE cache[g] = NoList
      <3>1. cache'[g] = NoList
        BY <2>1 DEF AccessTick
      <3> QED
        BY <3>1 DEF CachedList, NoList
    <2>2. CASE cache[g] # NoList
      <3>1. cache[g] \in [covers : BOOLEAN, age : 0..CacheTTL]
        BY <2>2 DEF AccessTypeOK, CachedList
      <3>2. cache'[g] = [cache[g] EXCEPT !.age = Older(@, CacheTTL)]
        BY <2>2 DEF AccessTick
      <3>3. cache[g].age \in 0..CacheTTL /\ Older(cache[g].age, CacheTTL) \in 0..CacheTTL
        BY <3>1, AccessBounds DEF Older
      <3>4. cache'[g] \in [covers : BOOLEAN, age : 0..CacheTTL]
        BY <3>1, <3>2, <3>3
      <3> QED
        BY <3>1, <3>2, <3>3, <3>4 DEF CachedList
    <2> QED
      BY <2>1, <2>2
  <1>5. ASSUME NEW g \in Gates
        PROVE  /\ confirmed'[g] \in {None} \cup 0..LongSince
               /\ confirmed'[g] # None => /\ confirmed[g] # None /\ confirmed[g] \in 0..LongSince
                                          /\ confirmed'[g] = Older(confirmed[g], LongSince)
    <2>1. confirmed[g] \in {None} \cup 0..LongSince
      BY DEF AccessTypeOK
    <2>2. CASE confirmed[g] = None
      BY <2>2 DEF AccessTick
    <2>3. CASE confirmed[g] # None
      <3>1. confirmed'[g] = Older(confirmed[g], LongSince)
        BY <2>3 DEF AccessTick
      <3>2. confirmed[g] \in 0..LongSince
        BY <2>1, <2>3
      <3> QED
        BY <2>3, <3>1, <3>2, AccessBounds DEF Older
    <2> QED
      BY <2>2, <2>3
  <1>6. change' \in [Gates -> ChangeState]
    <2>1. ASSUME NEW g \in Gates PROVE change'[g] \in ChangeState
      <3>1. CASE change[g] = NoChange
        BY <3>1 DEF AccessTick, ChangeState
      <3>2. CASE change[g] # NoChange
        <4>1. change[g] \in [what : {"add", "remove"}, wait : 0..MaxLag]
          BY <3>2 DEF AccessTypeOK, ChangeState
        <4>2. change[g].wait < MaxLag /\ change'[g] = [change[g] EXCEPT !.wait = @ + 1]
          BY <3>2 DEF AccessTick
        <4>3. change[g].wait + 1 \in 0..MaxLag
          BY <4>1, <4>2, AccessBounds
        <4> QED
          BY <4>1, <4>2, <4>3 DEF ChangeState
      <3> QED
        BY <3>1, <3>2
    <2> QED
      BY <2>1 DEF AccessTick
  <1>7. tableSaid' \in [BOOLEAN -> 0..LongSince]
    <2>1. ASSUME NEW b \in BOOLEAN PROVE tableSaid'[b] \in 0..LongSince
      <3>1. tableSaid[b] \in 0..LongSince
        BY DEF AccessTypeOK
      <3>2. tableSaid'[b] = IF b = covered THEN 0 ELSE Older(tableSaid[b], LongSince)
        BY DEF AccessTick
      <3> QED
        BY <3>1, <3>2, AccessBounds DEF Older
    <2> QED
      BY <2>1 DEF AccessTick
  <1>8. AccessTypeOK'
    <2>1. call' \in [Calls -> CallState]
      BY <1>3 DEF AccessTick
    <2>2. cache' \in [Gates -> CachedList]
      BY <1>4 DEF AccessTick
    <2>3. confirmed' \in [Gates -> {None} \cup 0..LongSince]
      BY <1>5 DEF AccessTick
    <2> QED
      BY <1>2, <1>6, <1>7, <2>1, <2>2, <2>3 DEF AccessTypeOK
  <1>9. WasActive'
    BY <1>2, <1>3 DEF WasActive
  <1>10. TableRecent'
    <2>1. ASSUME NEW c \in Calls, call'[c].pc = "store", call'[c].covers PROVE Said' <= call'[c].wait
      <3>1. Said <= call[c].wait
        BY <1>3, <2>1 DEF TableRecent
      <3> QED
        BY <1>1, <1>3, <2>1, <3>1, AccessBounds DEF Older
    <2>2. ASSUME NEW g \in Gates, cache'[g].covers, cache'[g].age < CacheTTL
          PROVE  Said' <= MaxLag + cache'[g].age
      <3>1. cache[g].covers /\ cache[g].age \in 0..CacheTTL /\ cache'[g].age = Older(cache[g].age, CacheTTL)
        BY <1>4, <2>2
      <3>2. cache[g].age < CacheTTL /\ cache'[g].age = cache[g].age + 1
        BY <2>2, <3>1, AccessBounds DEF Older
      <3>3. Said <= MaxLag + cache[g].age
        BY <3>1, <3>2 DEF TableRecent
      <3> QED
        BY <1>1, <3>1, <3>2, <3>3, AccessBounds DEF Older
    <2>3. covered' => Said' = 0
      BY <1>1, <1>2
    <2>4. \A c \in Calls : call'[c].pc # "let"
      BY <1>3
    <2> QED
      BY <2>1, <2>2, <2>3, <2>4 DEF TableRecent
  <1>11. RemovalSeen'
    <2> SUFFICES ASSUME NEW g \in Gates, confirmed'[g] # None
                 PROVE  /\ ~covered'
                        /\ \A c \in Calls : (call'[c].pc = "store" /\ call'[c].covers /\ call'[c].gate = g)
                                                => confirmed'[g] <= call'[c].wait
                        /\ cache'[g].covers /\ cache'[g].age < CacheTTL =>
                              cache'[g].age <= confirmed'[g] /\ confirmed'[g] <= MaxLag + cache'[g].age
      BY DEF RemovalSeen
    <2>1. /\ confirmed[g] # None /\ confirmed[g] \in 0..LongSince
          /\ confirmed'[g] = Older(confirmed[g], LongSince)
      BY <1>5
    <2>2. ~covered'
      BY <1>2, <2>1 DEF RemovalSeen
    <2>3. ASSUME NEW c \in Calls, call'[c].pc = "store", call'[c].covers, call'[c].gate = g
          PROVE  confirmed'[g] <= call'[c].wait
      <3>1. confirmed[g] <= call[c].wait
        BY <1>3, <2>1, <2>3 DEF RemovalSeen
      <3> QED
        BY <1>3, <2>1, <2>3, <3>1, AccessBounds DEF Older
    <2>4. ASSUME cache'[g].covers, cache'[g].age < CacheTTL
          PROVE  cache'[g].age <= confirmed'[g] /\ confirmed'[g] <= MaxLag + cache'[g].age
      <3>1. cache[g].covers /\ cache[g].age \in 0..CacheTTL /\ cache'[g].age = Older(cache[g].age, CacheTTL)
        BY <1>4, <2>4
      <3>2. cache[g].age < CacheTTL /\ cache'[g].age = cache[g].age + 1
        BY <2>4, <3>1, AccessBounds DEF Older
      <3>3. cache[g].age <= confirmed[g] /\ confirmed[g] <= MaxLag + cache[g].age
        BY <2>1, <3>1, <3>2 DEF RemovalSeen
      <3> QED
        BY <2>1, <3>1, <3>2, <3>3, AccessBounds DEF Older
    <2> QED
      BY <2>2, <2>3, <2>4
  <1> QED
    BY <1>8, <1>9, <1>10, <1>11

LEMMA AccessStep == AccessInv /\ [AccessNext]_accessVars => AccessInv'
  <1> SUFFICES ASSUME AccessInv, [AccessNext]_accessVars PROVE AccessInv'
    OBVIOUS
  <1>1. CASE GenerateKey \/ RevokeKey \/ KeyExpires \/ \E on \in BOOLEAN : SetClient(on)
    BY <1>1, AccessOwner
  <1>2. ASSUME NEW g \in Gates, AddAllowedIP(g) \/ RemoveAllowedIP(g) PROVE AccessInv'
    BY <1>2, AccessWrites
  <1>3. ASSUME NEW g \in Gates, DeleteList(g) \/ ChangeThrows(g) \/ ClearCache(g) PROVE AccessInv'
    <2>1. UNCHANGED <<key, clientOn, covered, tableSaid, call>>
      BY <1>3 DEF DeleteList, ChangeThrows, ClearCache
    <2>2. change' = change \/ change' = [change EXCEPT ![g] = NoChange]
      BY <1>3 DEF DeleteList, ChangeThrows, ClearCache
    <2>3. \/ UNCHANGED <<cache, confirmed>>
          \/ cache' = [cache EXCEPT ![g] = NoList] /\ UNCHANGED confirmed
          \/ /\ cache' = [cache EXCEPT ![g] = NoList]
             /\ ~covered /\ confirmed' = [confirmed EXCEPT ![g] = 0]
      <3>1. confirmed = [confirmed EXCEPT ![g] = confirmed[g]]
        BY DEF AccessInv, AccessTypeOK
      <3> QED
        BY <1>3, <3>1 DEF DeleteList, ChangeThrows, ClearCache
    <2> QED
      BY <2>1, <2>2, <2>3, AccessForgets
  <1>4. ASSUME NEW g \in Gates, GateRestarts(g) PROVE AccessInv'
    BY <1>4, AccessRestarts
  <1>5. ASSUME NEW c \in Calls, Passes(c) PROVE AccessInv'
    BY <1>5, AccessPasses
  <1>6. CASE AccessTick
    BY <1>6, AccessTicks
  <1>7. CASE UNCHANGED accessVars
    BY <1>7 DEF accessVars, AccessInv, AccessTypeOK, WasActive, TableRecent, RemovalSeen, Said
  <1> QED
    BY <1>1, <1>2, <1>3, <1>4, <1>5, <1>6, <1>7 DEF AccessNext, Passes

LEMMA AccessIsInv == AccessSpec => []AccessInv
  BY AccessInit0, AccessStep, PTL DEF AccessSpec

\* The time for which a removed address may still be let through is that of a
\* fetch and of a cached list, for any number of processes, any requests and
\* any lifetimes; and nobody passes whose key or client was never active while
\* the request was under way.
THEOREM AdmittedRecentlyHolds == AccessSpec => []AdmittedRecently
  <1>1. AccessInv => AdmittedRecently
    <2> SUFFICES ASSUME AccessInv, NEW c \in Calls, call[c].pc \in {"let", "bypassed"}
                 PROVE  /\ call[c].keyWas /\ call[c].clientWas
                        /\ call[c].pc = "let" => Said <= ListAge
      BY DEF AdmittedRecently, Said
    <2>1. call[c] # NoCall
      BY CallTypes
    <2> QED
      BY <2>1 DEF AccessInv, WasActive, TableRecent, PassedKey, PassedClient
  <1> QED
    BY <1>1, AccessIsInv, PTL

\* A list that outlives a confirmed removal was stored after it, by a fetch
\* that was under way when the process forgot its list.
THEOREM InvalidationIsLasting == AccessSpec => []InvalidationHolds
  <1>1. AccessInv => InvalidationHolds
    <2> SUFFICES ASSUME AccessInv, NEW g \in Gates, cache[g].covers, Fresh(cache[g]),
                        confirmed[g] \in 0..(LongSince - 1)
                 PROVE  (confirmed[g] - cache[g].age) \in 0..MaxLag
      BY DEF InvalidationHolds
    <2>1. cache[g].age < CacheTTL /\ cache[g].age \in 0..CacheTTL /\ confirmed[g] # None
      BY DEF AccessInv, AccessTypeOK, CachedList, NoList, Fresh, None
    <2>2. cache[g].age <= confirmed[g] /\ confirmed[g] <= MaxLag + cache[g].age
      BY <2>1 DEF AccessInv, RemovalSeen
    <2> QED
      BY <2>1, <2>2, AccessBounds
  <1> QED
    BY <1>1, AccessIsInv, PTL
=============================================================================
