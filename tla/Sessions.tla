------------------------------ MODULE Sessions ------------------------------
(***************************************************************************)
(* Accounts and tokens: src/shared/auth/jwt.ts, the routes of              *)
(* routes/auth.ts that use it, authenticateJWT of middleware/auth.ts, and  *)
(* what routes/users.ts does to an account.                                *)
(*                                                                         *)
(* A token is a value: its payload and the second it was signed in, so two *)
(* tokens signed alike in one second are the same token.  Payloads are     *)
(* copied from the users row once, at login, and never compared with it    *)
(* again.  Revoked tokens are kept in the node cache of one process.       *)
(***************************************************************************)
EXTENDS Integers, FiniteSets

CONSTANTS
    Users,          \* e-mail addresses
    Grants,         \* what a payload says of role and permissions
    NewGrant,       \* that of a registered user: role user, no permissions
    NoAccount,
    Replicas,       \* gateway processes
    AccessLife,     \* seconds an access token lives
    RefreshLife,    \* seconds a refresh token lives
    HashTime,       \* bound: seconds between the query and the tokens of a login
    Flows,          \* registrations and logins at a time
    MaxTokens       \* bound: live tokens at a time

ASSUME GrantAssumption == NewGrant \in Grants /\ NoAccount \notin Grants
ASSUME LifeAssumption == {AccessLife, RefreshLife} \subseteq Nat \ {0} /\ HashTime \in Nat

VARIABLES
    account,    \* [Users -> Grants or NoAccount], the users table
    lastHad,    \* history: [Users -> [Grants -> seconds since the row said so]]
    flow,       \* [Flows -> FlowState]
    tokens,     \* live tokens that were handed out
    blacklist,  \* [Replicas -> SUBSET [token, left]], the keys blacklist:*
    loggedOut   \* history: [Replicas -> live tokens it has confirmed a logout of]

sessionVars == <<account, lastHad, flow, tokens, blacklist, loggedOut>>

\* What a token grants may be this old; the history stops one second later.
GrantAge == HashTime + (RefreshLife - 1) + (AccessLife - 1)
LongAgo == GrantAge + 1

Life(kind) == IF kind = "access" THEN AccessLife ELSE RefreshLife
TokenOf(kind) == [kind : {kind}, user : Users, grant : Grants, age : 0..(Life(kind) - 1)]
Token == TokenOf("access") \cup TokenOf("refresh")
NoFlow == [pc |-> "idle"]
FlowState == {NoFlow} \cup [pc : {"register", "login"}, user : Users, grant : Grants, wait : 0..HashTime]

-----------------------------------------------------------------------------
Sign(kind, u, g) == [kind |-> kind, user |-> u, grant |-> g, age |-> 0]

GenerateTokenPair(u, g) == {Sign("access", u, g), Sign("refresh", u, g)}

\* jwt.verify: the signature of that kind of token, and exp in the future.
Verify(kind, t) == t.kind = kind /\ t.age < Life(kind)

IsTokenBlacklisted(i, t) == \E entry \in blacklist[i] : entry.token = t

\* authenticateJWT.
AuthenticateJWT(i, t) == ~IsTokenBlacklisted(i, t) /\ Verify("access", t)

\* Mutant: what has passed of the life, instead of what is left.
SecondsPassed(t) == t.age

\* Mutant: the entry outlives its token by a second.
SecondsLeftAndOne(t) == Life(t.kind) - t.age + 1

\* decoded.exp - now.
SecondsLeft(t) == Life(t.kind) - t.age

\* blacklistToken: an entry that lives as long as the token.
BlacklistToken(i, t) ==
    blacklist' = [blacklist EXCEPT ![i] =
                     @ \cup {[token |-> t, left |-> n] : n \in {SecondsLeft(t)} \ {0}}]

SetAccount(u, value) ==
    /\ account' = [account EXCEPT ![u] = value]
    /\ lastHad' = [lastHad EXCEPT ![u] = [g \in Grants |-> IF g = value THEN 0 ELSE @[g]]]

HandOut(new) ==
    /\ Cardinality(tokens \cup new) <= MaxTokens
    /\ tokens' = tokens \cup new

EndFlow(f) == flow' = [flow EXCEPT ![f] = NoFlow]

-----------------------------------------------------------------------------
SessionInit ==
    /\ account = [u \in Users |-> NoAccount]
    /\ lastHad = [u \in Users |-> [g \in Grants |-> LongAgo]]
    /\ flow = [f \in Flows |-> NoFlow]
    /\ tokens = {}
    /\ blacklist = [i \in Replicas |-> {}]
    /\ loggedOut = [i \in Replicas |-> {}]

\* POST /auth/register: the query for the e-mail, then bcrypt.hash.
RegisterChecks(f, u) ==
    /\ flow[f] = NoFlow
    /\ account[u] = NoAccount
    /\ flow' = [flow EXCEPT ![f] = [pc |-> "register", user |-> u, grant |-> NewGrant, wait |-> 0]]
    /\ UNCHANGED <<account, lastHad, tokens, blacklist, loggedOut>>

\* The INSERT and the tokens; or the INSERT fails, as it does on the UNIQUE
\* column when a registration of the address has passed the check meanwhile.
RegisterInserts(f) ==
    /\ flow[f].pc = "register"
    /\ EndFlow(f)
    /\ \/ /\ account[flow[f].user] = NoAccount
          /\ SetAccount(flow[f].user, NewGrant)
          /\ HandOut(GenerateTokenPair(flow[f].user, NewGrant))
       \/ UNCHANGED <<account, lastHad, tokens>>
    /\ UNCHANGED <<blacklist, loggedOut>>

\* POST /auth/login: the row is read, then bcrypt.compare.
LoginFindsUser(f, u) ==
    /\ flow[f] = NoFlow
    /\ account[u] # NoAccount
    /\ flow' = [flow EXCEPT ![f] = [pc |-> "login", user |-> u, grant |-> account[u], wait |-> 0]]
    /\ UNCHANGED <<account, lastHad, tokens, blacklist, loggedOut>>

\* The password matches, and tokens are signed with the row as it was read; or
\* it does not.
LoginAnswers(f) ==
    /\ flow[f].pc = "login"
    /\ EndFlow(f)
    /\ HandOut(GenerateTokenPair(flow[f].user, flow[f].grant)) \/ UNCHANGED tokens
    /\ UNCHANGED <<account, lastHad, blacklist, loggedOut>>

\* Mutant: the refresh token is renewed together with the access token.
RefreshBoth(i, t) ==
    /\ Verify("refresh", t)
    /\ ~IsTokenBlacklisted(i, t)
    /\ tokens' = (tokens \ {t}) \cup GenerateTokenPair(t.user, t.grant)
    /\ UNCHANGED <<account, lastHad, flow, blacklist, loggedOut>>

\* POST /auth/refresh: an access token with the payload of the refresh token.
RefreshAccessToken(i, t) ==
    /\ Verify("refresh", t)
    /\ ~IsTokenBlacklisted(i, t)
    /\ HandOut({Sign("access", t.user, t.grant)})
    /\ UNCHANGED <<account, lastHad, flow, blacklist, loggedOut>>

\* POST /auth/logout, which authenticates first.
Logout(i, t) ==
    /\ AuthenticateJWT(i, t)
    /\ BlacklistToken(i, t)
    /\ loggedOut' = [loggedOut EXCEPT ![i] = @ \cup {t}]
    /\ UNCHANGED <<account, lastHad, flow, tokens>>

\* PATCH /users/:id with scopes, by an admin; PATCH of a name changes nothing here.
PatchScopes(u, g) ==
    /\ account[u] # NoAccount
    /\ SetAccount(u, g)
    /\ UNCHANGED <<flow, tokens, blacklist, loggedOut>>

\* POST /users: an account with any role and scopes, and no tokens.
CreateUser(u, g) ==
    /\ account[u] = NoAccount
    /\ SetAccount(u, g)
    /\ UNCHANGED <<flow, tokens, blacklist, loggedOut>>

\* DELETE /users/:id.
DeleteUser(u) ==
    /\ account[u] # NoAccount
    /\ SetAccount(u, NoAccount)
    /\ UNCHANGED <<flow, tokens, blacklist, loggedOut>>

\* A process exits and is started again: its cache is empty.  A flow it was
\* running ends as one that fails.
ReplicaRestarts(i) ==
    /\ blacklist' = [blacklist EXCEPT ![i] = {}]
    /\ loggedOut' = [loggedOut EXCEPT ![i] = {}]
    /\ UNCHANGED <<account, lastHad, flow, tokens>>

\* A second passes.  Tokens that expire are accepted nowhere and leave.
Aged(set) == {[t EXCEPT !.age = @ + 1] : t \in {x \in set : x.age + 1 < Life(x.kind)}}

SecondPasses ==
    /\ \A f \in Flows : flow[f] # NoFlow => flow[f].wait < HashTime
    /\ flow' = [f \in Flows |-> IF flow[f] = NoFlow THEN NoFlow ELSE [flow[f] EXCEPT !.wait = @ + 1]]
    /\ tokens' = Aged(tokens)
    /\ loggedOut' = [i \in Replicas |-> Aged(loggedOut[i])]
    /\ blacklist' = [i \in Replicas |->
                        {[token |-> [entry.token EXCEPT !.age = @ + 1], left |-> entry.left - 1] :
                            entry \in {x \in blacklist[i] : x.left > 1}}]
    /\ lastHad' = [u \in Users |-> [g \in Grants |->
                      IF account[u] = g THEN 0
                      ELSE IF lastHad[u][g] < LongAgo THEN lastHad[u][g] + 1 ELSE LongAgo]]
    /\ UNCHANGED account

SessionNext ==
    \/ \E f \in Flows, u \in Users : RegisterChecks(f, u) \/ LoginFindsUser(f, u)
    \/ \E f \in Flows : RegisterInserts(f) \/ LoginAnswers(f)
    \/ \E i \in Replicas, t \in tokens : RefreshAccessToken(i, t) \/ Logout(i, t)
    \/ \E u \in Users, g \in Grants : PatchScopes(u, g) \/ CreateUser(u, g)
    \/ \E u \in Users : DeleteUser(u)
    \/ \E i \in Replicas : ReplicaRestarts(i)
    \/ SecondPasses

SessionSpec == SessionInit /\ [][SessionNext]_sessionVars

-----------------------------------------------------------------------------
(***************************************************************************)
(* Properties.                                                             *)
(***************************************************************************)

\* Types.
SessionTypeOK ==
    /\ account \in [Users -> Grants \cup {NoAccount}]
    /\ lastHad \in [Users -> [Grants -> 0..LongAgo]]
    /\ flow \in [Flows -> FlowState]
    /\ tokens \subseteq Token
    /\ loggedOut \in [Replicas -> SUBSET TokenOf("access")]
    /\ blacklist \in [Replicas -> SUBSET [token : TokenOf("access"), left : 1..AccessLife]]

\* Deleting a user or taking a scope away ends no session, and a refresh copies
\* the old payload; but no chain of logins, refreshes and slow hashes keeps a
\* grant alive longer than one refresh token and one access token: what an
\* accepted token grants, the users row has said within that time.
GrantIsRecent ==
    \A i \in Replicas, t \in tokens :
        AuthenticateJWT(i, t) => lastHad[t.user][t.grant] <= GrantAge

\* Between two restarts, a process refuses exactly the live tokens it has
\* confirmed a logout of: an entry never leaves the cache before its token
\* expires.
RevocationIsExact ==
    \A i \in Replicas, t \in tokens :
        t.kind = "access" => (AuthenticateJWT(i, t) <=> t \notin loggedOut[i])
=============================================================================
