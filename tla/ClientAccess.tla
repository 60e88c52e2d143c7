---------------------------- MODULE ClientAccess ----------------------------
(***************************************************************************)
(* How a request of a client is let through: validateClientAPIKey and      *)
(* authenticateClientAPIKey, then validateIPWhitelist over                 *)
(* ipWhitelistService, in the order docs/IP_WHITELIST.md gives.            *)
(*                                                                         *)
(* One client, one key, one caller's address.  The table of addresses is   *)
(* seen through whether an active entry covers the address.  Each process  *)
(* caches the entries of the client with the time it stored them; times    *)
(* are ages that stop where nothing depends on them any more.              *)
(*                                                                         *)
(* The routes of ip-whitelist.ts accept only client ids that are UUIDs,    *)
(* which createClient does not make: the operations on entries are those   *)
(* of the service, for a client whose row was inserted with such an id.    *)
(***************************************************************************)
EXTENDS Integers

CONSTANTS
    Gates,          \* gateway processes
    Calls,          \* requests of the client at a time
    CacheTTL,       \* CACHE_TTL
    MaxLag,         \* bound: how long the answer to a statement takes
    Bypass          \* config.bypassLocalhost

ASSUME AccessAssumption == CacheTTL \in Nat \ {0} /\ MaxLag \in Nat /\ Bypass \in BOOLEAN

VARIABLES
    key,        \* the client's key: a row of client_api_keys
    clientOn,   \* is_active of the client
    covered,    \* whether an active entry covers the address
    tableSaid,  \* history: [BOOLEAN -> time since covered had that value]
    cache,      \* [Gates -> CachedList]
    change,     \* [Gates -> a change of an entry under way there]
    confirmed,  \* history: [Gates -> time since it confirmed the removal that
                \*           the table shows, or what stands for none]
    call        \* [Calls -> CallState]

accessVars == <<key, clientOn, covered, tableSaid, cache, change, confirmed, call>>

\* The age up to which a decision may rest on an old list.
ListAge == MaxLag + CacheTTL - 1
LongSince == ListAge + 1
None == -1

KeyState == {"none", "active", "ended"}
NoList == [covers |-> FALSE, age |-> None]
CachedList == {NoList} \cup [covers : BOOLEAN, age : 0..CacheTTL]
NoChange == [what |-> "none", wait |-> 0]
ChangeState == {NoChange} \cup [what : {"add", "remove"}, wait : 0..MaxLag]

\* A request: where it is, its process, the list it was answered with and how
\* long ago; and whether its key and its client were active since it arrived.
NoCall == [pc |-> "idle"]
CallState ==
    {NoCall} \cup
    [pc : {"key", "client", "list", "store", "let", "bypassed"}, gate : Gates,
     covers : BOOLEAN, wait : 0..MaxLag, keyWas : BOOLEAN, clientWas : BOOLEAN]

Older(age, limit) == IF age < limit THEN age + 1 ELSE limit

-----------------------------------------------------------------------------
AccessInit ==
    /\ key = "none"
    /\ clientOn = TRUE
    /\ covered = FALSE
    /\ tableSaid = [b \in BOOLEAN |-> IF b THEN LongSince ELSE 0]
    /\ cache = [g \in Gates |-> NoList]
    /\ change = [g \in Gates |-> NoChange]
    /\ confirmed = [g \in Gates |-> None]
    /\ call = [c \in Calls |-> NoCall]

\* What the open requests note when the key or the client becomes active.
Noting(newKey, newClient) ==
    call' = [c \in Calls |->
                IF call[c] = NoCall THEN NoCall
                ELSE [call[c] EXCEPT !.keyWas = @ \/ newKey = "active", !.clientWas = @ \/ newClient]]

\* generateClientAPIKey.  What fails after its INSERT leaves a row whose key
\* nobody has been told: such a row is never found again.
GenerateKey ==
    /\ key = "none"
    /\ key' = "active"
    /\ Noting("active", clientOn)
    /\ UNCHANGED <<clientOn, covered, tableSaid, cache, change, confirmed>>

RevokeKey ==
    /\ key = "active"
    /\ key' = "ended"
    /\ UNCHANGED <<clientOn, covered, tableSaid, cache, change, confirmed, call>>

\* expires_at passes.
KeyExpires ==
    /\ key = "active"
    /\ key' = "ended"
    /\ UNCHANGED <<clientOn, covered, tableSaid, cache, change, confirmed, call>>

\* deactivateClient, or updateClient with is_active.
SetClient(on) ==
    /\ on # clientOn
    /\ clientOn' = on
    /\ Noting(key, on)
    /\ UNCHANGED <<key, covered, tableSaid, cache, change, confirmed>>

-----------------------------------------------------------------------------
(***************************************************************************)
(* ipWhitelistService.  A change of the entries is a statement, and when   *)
(* its answer arrives the process forgets its list.                        *)
(***************************************************************************)

Write(g, value, what) ==
    /\ change[g] = NoChange
    /\ covered' = value
    /\ tableSaid' = [tableSaid EXCEPT ![value] = 0]
    /\ confirmed' = IF value THEN [h \in Gates |-> None] ELSE confirmed
    /\ change' = [change EXCEPT ![g] = [what |-> what, wait |-> 0]]
    /\ UNCHANGED <<key, clientOn, cache, call>>

\* The INSERT of addAllowedIP, the UPDATE of removeAllowedIP.
AddAllowedIP(g) == Write(g, TRUE, "add")
RemoveAllowedIP(g) == covered /\ Write(g, FALSE, "remove")

\* Mutant: the list of the process is kept.
KeepList(g) ==
    /\ change[g] # NoChange
    /\ change' = [change EXCEPT ![g] = NoChange]
    /\ confirmed' = [confirmed EXCEPT ![g] =
                        IF change[g].what = "remove" /\ ~covered THEN 0 ELSE @]
    /\ UNCHANGED <<key, clientOn, covered, tableSaid, cache, call>>

\* this.cache.delete(clientId), and the answer of the operation.
DeleteList(g) ==
    /\ change[g] # NoChange
    /\ change' = [change EXCEPT ![g] = NoChange]
    /\ cache' = [cache EXCEPT ![g] = NoList]
    /\ confirmed' = [confirmed EXCEPT ![g] =
                        IF change[g].what = "remove" /\ ~covered THEN 0 ELSE @]
    /\ UNCHANGED <<key, clientOn, covered, tableSaid, call>>

\* The statement took effect but its answer is an error: the list is kept.
ChangeThrows(g) ==
    /\ change[g] # NoChange
    /\ change' = [change EXCEPT ![g] = NoChange]
    /\ UNCHANGED <<key, clientOn, covered, tableSaid, cache, confirmed, call>>

ClearCache(g) ==
    /\ cache' = [cache EXCEPT ![g] = NoList]
    /\ UNCHANGED <<key, clientOn, covered, tableSaid, change, confirmed, call>>

-----------------------------------------------------------------------------
(***************************************************************************)
(* A request.                                                              *)
(***************************************************************************)

\* A request that is refused ends there.
To(c, pc) == call' = [call EXCEPT ![c] = IF pc = "refused" THEN NoCall ELSE [@ EXCEPT !.pc = pc]]

Arrive(c, g) ==
    /\ call[c] = NoCall
    /\ call' = [call EXCEPT ![c] = [pc |-> "key", gate |-> g, covers |-> FALSE, wait |-> 0,
                                    keyWas |-> key = "active", clientWas |-> clientOn]]
    /\ UNCHANGED <<key, clientOn, covered, tableSaid, cache, change, confirmed>>

\* Mutant: the row of the key, whether or not it is active and in date.
FindAnyKey(c) ==
    /\ call[c].pc = "key"
    /\ To(c, IF key # "none" THEN "client" ELSE "refused")
    /\ UNCHANGED <<key, clientOn, covered, tableSaid, cache, change, confirmed>>

\* validateClientAPIKey: the key, active and not expired.
FindKey(c) ==
    /\ call[c].pc = "key"
    /\ To(c, IF key = "active" THEN "client" ELSE "refused")
    /\ UNCHANGED <<key, clientOn, covered, tableSaid, cache, change, confirmed>>

Fresh(list) == list # NoList /\ list.age < CacheTTL

\* isIPAllowed over the entries, and what validateIPWhitelist makes of it.
Verdict(covers) == IF covers THEN "let" ELSE "refused"

\* getClientWithTier, then validateIPWhitelist: a request from localhost is let
\* through, a cached list is used while it is fresh, or the entries are read.
FindClient(c) ==
    /\ call[c].pc = "client"
    /\ LET list == cache[call[c].gate]
       IN  \/ ~clientOn /\ To(c, "refused")
           \/ clientOn /\ Bypass /\ To(c, "bypassed")
           \/ clientOn /\ To(c, IF Fresh(list) THEN Verdict(list.covers) ELSE "list")
    /\ UNCHANGED <<key, clientOn, covered, tableSaid, cache, change, confirmed>>

\* A statement throws: validateClientAPIKey answers null, isIPAllowed false.
StatementThrows(c) ==
    /\ call[c].pc \in {"key", "client", "list"}
    /\ To(c, "refused")
    /\ UNCHANGED <<key, clientOn, covered, tableSaid, cache, change, confirmed>>

\* listClientIPs at the database.
ListClientIPs(c) ==
    /\ call[c].pc = "list"
    /\ call' = [call EXCEPT ![c].pc = "store", ![c].covers = covered, ![c].wait = 0]
    /\ UNCHANGED <<key, clientOn, covered, tableSaid, cache, change, confirmed>>

\* Its answer: getActiveIPsForClient stores it with the time of now.
StoreList(c) ==
    /\ call[c].pc = "store"
    /\ cache' = [cache EXCEPT ![call[c].gate] = [covers |-> call[c].covers, age |-> 0]]
    /\ To(c, Verdict(call[c].covers))
    /\ UNCHANGED <<key, clientOn, covered, tableSaid, change, confirmed>>

EndCall(c) ==
    /\ call[c].pc \in {"let", "bypassed"}
    /\ call' = [call EXCEPT ![c] = NoCall]
    /\ UNCHANGED <<key, clientOn, covered, tableSaid, cache, change, confirmed>>

-----------------------------------------------------------------------------
\* A process exits and starts again, its list and its requests gone.
GateRestarts(g) ==
    /\ cache' = [cache EXCEPT ![g] = NoList]
    /\ change' = [change EXCEPT ![g] = NoChange]
    /\ confirmed' = [confirmed EXCEPT ![g] = None]
    /\ call' = [c \in Calls |-> IF call[c] # NoCall /\ call[c].gate = g THEN NoCall ELSE call[c]]
    /\ UNCHANGED <<key, clientOn, covered, tableSaid>>

\* Time passes: not past MaxLag for an answer under way, and a verdict is
\* passed on at once.
AccessTick ==
    /\ \A c \in Calls : /\ call[c].pc \notin {"let", "bypassed"}
                        /\ call[c].pc = "store" => call[c].wait < MaxLag
    /\ \A g \in Gates : change[g] = NoChange \/ change[g].wait < MaxLag
    /\ call' = [c \in Calls |-> IF call[c].pc = "store"
                                THEN [call[c] EXCEPT !.wait = @ + 1] ELSE call[c]]
    /\ change' = [g \in Gates |-> IF change[g] = NoChange THEN NoChange
                                  ELSE [change[g] EXCEPT !.wait = @ + 1]]
    /\ cache' = [g \in Gates |-> IF cache[g] = NoList THEN NoList
                                 ELSE [cache[g] EXCEPT !.age = Older(@, CacheTTL)]]
    /\ confirmed' = [g \in Gates |-> IF confirmed[g] = None THEN None
                                     ELSE Older(confirmed[g], LongSince)]
    /\ tableSaid' = [b \in BOOLEAN |-> IF b = covered THEN 0 ELSE Older(tableSaid[b], LongSince)]
    /\ UNCHANGED <<key, clientOn, covered>>

AccessNext ==
    \/ GenerateKey \/ RevokeKey \/ KeyExpires
    \/ \E on \in BOOLEAN : SetClient(on)
    \/ \E g \in Gates : \/ AddAllowedIP(g) \/ RemoveAllowedIP(g) \/ DeleteList(g) \/ ChangeThrows(g)
                        \/ ClearCache(g) \/ GateRestarts(g)
    \/ \E c \in Calls, g \in Gates : Arrive(c, g)
    \/ \E c \in Calls : \/ FindKey(c) \/ FindClient(c) \/ StatementThrows(c)
                        \/ ListClientIPs(c) \/ StoreList(c) \/ EndCall(c)
    \/ AccessTick

AccessSpec == AccessInit /\ [][AccessNext]_accessVars

-----------------------------------------------------------------------------
(***************************************************************************)
(* Properties.                                                             *)
(***************************************************************************)

\* Types.
AccessTypeOK ==
    /\ key \in KeyState
    /\ {clientOn, covered} \subseteq BOOLEAN
    /\ tableSaid \in [BOOLEAN -> 0..LongSince]
    /\ cache \in [Gates -> CachedList]
    /\ change \in [Gates -> ChangeState]
    /\ confirmed \in [Gates -> {None} \cup 0..LongSince]
    /\ call \in [Calls -> CallState]

\* A request that is let through had an active key and an active client since
\* it arrived, and its address was covered no longer ago than a fetch and the
\* life of a list take together: on whichever process the entry was removed,
\* and however fetches and invalidations overtake each other.
AdmittedRecently ==
    \A c \in Calls :
        /\ call[c].pc \in {"let", "bypassed"} => call[c].keyWas /\ call[c].clientWas
        /\ call[c].pc = "let" => tableSaid[TRUE] <= ListAge

\* The process that confirmed a removal may still hold a list from before it,
\* since a fetch under way stores its answer after the invalidation; but only
\* such a one: the list was stored after the confirmation, and within MaxLag.
InvalidationHolds ==
    \A g \in Gates :
        (cache[g].covers /\ Fresh(cache[g]) /\ confirmed[g] \in 0..(LongSince - 1)) =>
            (confirmed[g] - cache[g].age) \in 0..MaxLag
=============================================================================
