--------------------------- MODULE ClientRegistry ---------------------------
(***************************************************************************)
(* Tiers and clients: src/shared/services/clientTierService.ts and         *)
(* clientService.ts behind the routes client-tiers.ts and clients.ts.      *)
(*                                                                         *)
(* No row is ever deleted, so a client is its slug, which is UNIQUE, and a *)
(* tier its id.  deactivateTier counts the clients of the tier and then    *)
(* updates it, and nothing that gives a client a tier looks at whether the *)
(* tier is active.                                                         *)
(***************************************************************************)
EXTENDS Integers, FiniteSets

CONSTANTS
    Tiers,
    Slugs,
    NoClient,
    Requests    \* deactivations of a tier, and creations of a client, at a time

ASSUME NoClientAssumption == NoClient \notin [tier : Tiers, active : BOOLEAN]

VARIABLES
    tier,           \* [Tiers -> "none" | "active" | "inactive"], client_tiers
    client,         \* [Slugs -> ClientRow or NoClient], clients
    request,        \* [Requests -> RequestState]
    switchedOff,    \* history: tiers last made inactive by updateTier
    joinedLate      \* history: clients that last joined their tier while it was inactive
                    \*     or while a deactivation had counted its clients

registryVars == <<tier, client, request, switchedOff, joinedLate>>

ClientRow == [tier : Tiers, active : BOOLEAN]
NoRequest == [pc |-> "idle"]
RequestState ==
    {NoRequest} \cup [pc : {"counted"}, tier : Tiers] \cup [pc : {"slug_free"}, slug : Slugs, tier : Tiers]

RegistryInit ==
    /\ tier = [t \in Tiers |-> "none"]
    /\ client = [s \in Slugs |-> NoClient]
    /\ request = [q \in Requests |-> NoRequest]
    /\ switchedOff = {}
    /\ joinedLate = {}

-----------------------------------------------------------------------------
\* getClientBySlug and getClientById.
Found(s) == client[s] # NoClient

\* getTierById; no tier is ever deleted.
TierFound(t) == tier[t] # "none"

ListActiveTiers == {t \in Tiers : tier[t] = "active"}

\* getClientWithTier joins the tier of a client, active or not.
TierOfClient(s) == client[s].tier

\* The COUNT of deactivateTier.
ActiveClients(t) == {s \in Slugs : Found(s) /\ client[s].active /\ TierOfClient(s) = t}

Counted(t) == \E q \in Requests : request[q] = [pc |-> "counted", tier |-> t]

\* What the history keeps of the client s whose row becomes row.
Join(s, row) ==
    LET joins == row.active /\ (Found(s) /\ client[s].active => client[s].tier # row.tier)
        late == row.tier \notin ListActiveTiers \/ Counted(row.tier)
    IN joinedLate' = IF joins THEN IF late THEN joinedLate \cup {s} ELSE joinedLate \ {s}
                     ELSE joinedLate

WriteClient(s, row) ==
    /\ client' = [client EXCEPT ![s] = row]
    /\ Join(s, row)

-----------------------------------------------------------------------------
\* createTier: the INSERT of a known id throws.
CreateTier(t) ==
    /\ ~TierFound(t)
    /\ tier' = [tier EXCEPT ![t] = "active"]
    /\ UNCHANGED <<client, request, switchedOff, joinedLate>>

\* updateTier with is_active; it counts nobody.
UpdateTier(t, active) ==
    /\ TierFound(t)
    /\ tier' = [tier EXCEPT ![t] = IF active THEN "active" ELSE "inactive"]
    /\ switchedOff' = IF active THEN switchedOff \ {t} ELSE switchedOff \cup {t}
    /\ UNCHANGED <<client, request, joinedLate>>

\* Mutant: one client is not yet too many.
CountBeforeDeactivateOne(q, t) ==
    /\ request[q] = NoRequest
    /\ Cardinality(ActiveClients(t)) <= 1
    /\ request' = [request EXCEPT ![q] = [pc |-> "counted", tier |-> t]]
    /\ UNCHANGED <<tier, client, switchedOff, joinedLate>>

\* deactivateTier, its COUNT; with clients on the tier it throws.
CountBeforeDeactivate(q, t) ==
    /\ request[q] = NoRequest
    /\ ActiveClients(t) = {}
    /\ request' = [request EXCEPT ![q] = [pc |-> "counted", tier |-> t]]
    /\ UNCHANGED <<tier, client, switchedOff, joinedLate>>

\* deactivateTier, its UPDATE, which finds no row for an unknown id.
DeactivateTier(q) ==
    /\ request[q].pc = "counted"
    /\ LET t == request[q].tier
       IN /\ tier' = IF TierFound(t) THEN [tier EXCEPT ![t] = "inactive"] ELSE tier
          /\ switchedOff' = IF tier[t] = "active" THEN switchedOff \ {t} ELSE switchedOff
    /\ request' = [request EXCEPT ![q] = NoRequest]
    /\ UNCHANGED <<client, joinedLate>>

\* POST /clients asks for the slug first.
CheckSlug(q, s, t) ==
    /\ request[q] = NoRequest
    /\ ~Found(s)
    /\ request' = [request EXCEPT ![q] = [pc |-> "slug_free", slug |-> s, tier |-> t]]
    /\ UNCHANGED <<tier, client, switchedOff, joinedLate>>

\* createClient: the INSERT throws for a slug taken in between and for an
\* unknown tier, and takes an inactive one.
CreateClient(q) ==
    /\ request[q].pc = "slug_free"
    /\ LET r == request[q]
       IN IF Found(r.slug) \/ ~TierFound(r.tier)
          THEN UNCHANGED <<client, joinedLate>>
          ELSE WriteClient(r.slug, [tier |-> r.tier, active |-> TRUE])
    /\ request' = [request EXCEPT ![q] = NoRequest]
    /\ UNCHANGED <<tier, switchedOff>>

\* updateClient with any of tier_id and is_active.
UpdateClient(s, row) ==
    /\ Found(s)
    /\ TierFound(row.tier)
    /\ row # client[s]
    /\ WriteClient(s, row)
    /\ UNCHANGED <<tier, request, switchedOff>>

\* DELETE /clients/:id.
DeactivateClient(s) ==
    /\ Found(s)
    /\ WriteClient(s, [client[s] EXCEPT !.active = FALSE])
    /\ UNCHANGED <<tier, request, switchedOff>>

\* A statement throws, or the process exits, between two statements.
RequestEnds(q) ==
    /\ request[q] # NoRequest
    /\ request' = [request EXCEPT ![q] = NoRequest]
    /\ UNCHANGED <<tier, client, switchedOff, joinedLate>>

RegistryNext ==
    \/ \E t \in Tiers : CreateTier(t) \/ \E active \in BOOLEAN : UpdateTier(t, active)
    \/ \E q \in Requests : \/ \E t \in Tiers : CountBeforeDeactivate(q, t)
                           \/ DeactivateTier(q)
                           \/ \E s \in Slugs, t \in Tiers : CheckSlug(q, s, t)
                           \/ CreateClient(q)
                           \/ RequestEnds(q)
    \/ \E s \in Slugs : DeactivateClient(s) \/ \E row \in ClientRow : UpdateClient(s, row)

RegistrySpec == RegistryInit /\ [][RegistryNext]_registryVars

-----------------------------------------------------------------------------
\* Types.
RegistryTypeOK ==
    /\ tier \in [Tiers -> {"none", "active", "inactive"}]
    /\ client \in [Slugs -> ClientRow \cup {NoClient}]
    /\ request \in [Requests -> RequestState]
    /\ switchedOff \subseteq Tiers
    /\ joinedLate \subseteq Slugs

\* deactivateTier leaves no active client behind by itself: one that is on an
\* inactive tier joined it after the deactivation counted (the COUNT and the
\* UPDATE are two statements), or when it was inactive already (nobody checks
\* that), or updateTier switched the tier off.
InactiveTierUnused ==
    \A s \in Slugs :
        (Found(s) /\ client[s].active /\ tier[TierOfClient(s)] = "inactive")
            => s \in joinedLate \/ TierOfClient(s) \in switchedOff
=============================================================================
