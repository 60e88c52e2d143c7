---------------------------- MODULE SessionsProofs ----------------------------
(***************************************************************************)
(* Proofs about tokens, for any number of users, processes and logins and  *)
(* any lifetimes.                                                          *)
(***************************************************************************)
EXTENDS Sessions, TLAPS

Revocation == [token : TokenOf("access"), left : 1..AccessLife]

-----------------------------------------------------------------------------
(***************************************************************************)
(* Types.                                                                  *)
(***************************************************************************)

LEMMA LivesArePositive ==
  /\ AccessLife \in Nat \ {0} /\ RefreshLife \in Nat \ {0} /\ HashTime \in Nat
  /\ LongAgo \in Nat /\ LongAgo = HashTime + RefreshLife + AccessLife - 1
  /\ Life("access") = AccessLife /\ Life("refresh") = RefreshLife
  BY LifeAssumption DEF LongAgo, GrantAge, Life

LEMMA AccessTokenType ==
  ASSUME NEW t
  PROVE  t \in TokenOf("access") <=>
           t \in [kind : {"access"}, user : Users, grant : Grants, age : 0..(AccessLife - 1)]
  BY LivesArePositive DEF TokenOf

LEMMA RefreshTokenType ==
  ASSUME NEW t
  PROVE  t \in TokenOf("refresh") <=>
           t \in [kind : {"refresh"}, user : Users, grant : Grants, age : 0..(RefreshLife - 1)]
  BY LivesArePositive DEF TokenOf

LEMMA TokenFields ==
  ASSUME NEW t \in Token
  PROVE  /\ t.user \in Users /\ t.grant \in Grants /\ t.age \in Nat /\ t.age < Life(t.kind)
         /\ \/ t.kind = "access" /\ t \in TokenOf("access")
            \/ t.kind = "refresh" /\ t \in TokenOf("refresh")
  BY AccessTokenType, RefreshTokenType, LivesArePositive DEF Token

LEMMA PairTypes ==
  ASSUME NEW u \in Users, NEW g \in Grants
  PROVE  Sign("access", u, g) \in TokenOf("access") /\ Sign("refresh", u, g) \in TokenOf("refresh")
  BY AccessTokenType, RefreshTokenType, LivesArePositive DEF Sign

LEMMA AgedTypes ==
  ASSUME NEW kind \in {"access", "refresh"}, NEW t \in TokenOf(kind), t.age + 1 < Life(t.kind)
  PROVE  /\ [t EXCEPT !.age = @ + 1] \in TokenOf(kind)
         /\ [t EXCEPT !.age = @ + 1].age = t.age + 1
         /\ [t EXCEPT !.age = @ + 1].user = t.user
         /\ [t EXCEPT !.age = @ + 1].grant = t.grant
         /\ [t EXCEPT !.age = @ + 1].kind = t.kind
  <1>1. CASE kind = "access"
    BY <1>1, AccessTokenType, LivesArePositive
  <1>2. CASE kind = "refresh"
    BY <1>2, RefreshTokenType, LivesArePositive
  <1> QED
    BY <1>1, <1>2

\* Writing an account leaves no grant longer ago than it was.
LEMMA SetAccountTypes ==
  ASSUME SessionTypeOK, NEW u \in Users, NEW value \in Grants \cup {NoAccount}, SetAccount(u, value)
  PROVE  /\ account' \in [Users -> Grants \cup {NoAccount}]
         /\ lastHad' \in [Users -> [Grants -> 0..LongAgo]]
         /\ \A v \in Users, g \in Grants : lastHad'[v][g] <= lastHad[v][g]
         /\ \A v \in Users, g \in Grants :
               /\ v = u /\ account'[v] = g => lastHad'[v][g] = 0
               /\ v # u => account'[v] = account[v] /\ lastHad'[v] = lastHad[v]
  <1>1. lastHad' = [lastHad EXCEPT ![u] = [g \in Grants |-> IF g = value THEN 0 ELSE lastHad[u][g]]]
    BY DEF SetAccount
  <1>2. [g \in Grants |-> IF g = value THEN 0 ELSE lastHad[u][g]] \in [Grants -> 0..LongAgo]
    BY LivesArePositive DEF SessionTypeOK
  <1>3. account' = [account EXCEPT ![u] = value]
    BY DEF SetAccount
  <1>4. \A v \in Users, g \in Grants : lastHad[v][g] \in 0..LongAgo
    BY DEF SessionTypeOK
  <1> QED
    BY <1>1, <1>2, <1>3, <1>4, LivesArePositive DEF SessionTypeOK

-----------------------------------------------------------------------------
(***************************************************************************)
(* The invariant.  A blacklist holds the live tokens its process has       *)
(* confirmed a logout of, each for what is left of its life: an entry that *)
(* stays in the cache for another second is of a token that does.          *)
(***************************************************************************)

BlacklistExact ==
    \A i \in Replicas :
        /\ \A t \in loggedOut[i] : [token |-> t, left |-> SecondsLeft(t)] \in blacklist[i]
        /\ \A entry \in blacklist[i] : entry.token \in loggedOut[i] /\ entry.left = SecondsLeft(entry.token)

\* What is granted now, was granted when a login read it, and when its tokens
\* and theirs were signed.
GrantsNow == \A u \in Users, g \in Grants : account[u] = g => lastHad[u][g] = 0

LoginsRecent ==
    \A f \in Flows :
        flow[f] # NoFlow /\ flow[f].pc = "login" => lastHad[flow[f].user][flow[f].grant] <= flow[f].wait

TokensRecent ==
    \A t \in tokens :
        lastHad[t.user][t.grant] <= HashTime + t.age + (IF t.kind = "access" THEN RefreshLife - 1 ELSE 0)

SessionInv == SessionTypeOK /\ BlacklistExact /\ GrantsNow /\ LoginsRecent /\ TokensRecent

LEMMA SessionTypeInit == SessionInit => SessionTypeOK
  BY LivesArePositive DEF SessionInit, SessionTypeOK, FlowState

LEMMA SessionTypeStep == SessionTypeOK /\ BlacklistExact /\ [SessionNext]_sessionVars => SessionTypeOK'
  <1> SUFFICES ASSUME SessionTypeOK, BlacklistExact, [SessionNext]_sessionVars PROVE SessionTypeOK'
    OBVIOUS
  <1> USE DEF SessionTypeOK
  <1>0. HashTime \in Nat
    BY LivesArePositive
  <1>1. ASSUME NEW f \in Flows, NEW u \in Users, RegisterChecks(f, u) PROVE SessionTypeOK'
    BY <1>0, <1>1, GrantAssumption DEF RegisterChecks, FlowState
  <1>2. ASSUME NEW f \in Flows, NEW u \in Users, LoginFindsUser(f, u) PROVE SessionTypeOK'
    BY <1>0, <1>2 DEF LoginFindsUser, FlowState
  <1>3. ASSUME NEW f \in Flows, flow[f] # NoFlow
        PROVE  flow[f].user \in Users /\ flow[f].grant \in Grants
    BY <1>3 DEF FlowState
  <1>4. ASSUME NEW f \in Flows, RegisterInserts(f) PROVE SessionTypeOK'
    <2>1. flow[f].user \in Users
      BY <1>3, <1>4 DEF RegisterInserts, NoFlow
    <2>2. flow' \in [Flows -> FlowState]
      BY <1>4 DEF RegisterInserts, EndFlow, FlowState
    <2>3. CASE SetAccount(flow[f].user, NewGrant) /\ HandOut(GenerateTokenPair(flow[f].user, NewGrant))
      <3>1. tokens' \subseteq Token
        BY <2>1, <2>3, PairTypes, GrantAssumption DEF HandOut, GenerateTokenPair, Token
      <3> QED
        BY <1>4, <2>1, <2>2, <2>3, <3>1, SetAccountTypes, GrantAssumption DEF RegisterInserts
    <2>4. CASE UNCHANGED <<account, lastHad, tokens>>
      BY <1>4, <2>2, <2>4 DEF RegisterInserts
    <2> QED
      BY <1>4, <2>3, <2>4 DEF RegisterInserts
  <1>5. ASSUME NEW f \in Flows, LoginAnswers(f) PROVE SessionTypeOK'
    <2>1. flow[f].user \in Users /\ flow[f].grant \in Grants
      BY <1>3, <1>5 DEF LoginAnswers, NoFlow
    <2>2. flow' \in [Flows -> FlowState]
      BY <1>5 DEF LoginAnswers, EndFlow, FlowState
    <2>3. tokens' \subseteq Token
      BY <1>5, <2>1, PairTypes DEF LoginAnswers, HandOut, GenerateTokenPair, Token
    <2> QED
      BY <1>5, <2>2, <2>3 DEF LoginAnswers
  <1>6. ASSUME NEW i \in Replicas, NEW t \in tokens, RefreshAccessToken(i, t) PROVE SessionTypeOK'
    <2>1. t \in Token
      OBVIOUS
    <2>2. tokens' \subseteq Token
      BY <1>6, <2>1, TokenFields, PairTypes DEF RefreshAccessToken, HandOut, Token
    <2> QED
      BY <1>6, <2>2 DEF RefreshAccessToken
  <1>7. ASSUME NEW i \in Replicas, NEW t \in tokens, Logout(i, t) PROVE SessionTypeOK'
    <2>1. t \in Token /\ t.kind = "access"
      BY <1>7 DEF Logout, AuthenticateJWT, Verify
    <2>2. t \in TokenOf("access") /\ SecondsLeft(t) \in 1..AccessLife
      BY <2>1, TokenFields, LivesArePositive DEF SecondsLeft
    <2>3. [token |-> t, left |-> SecondsLeft(t)] \in Revocation
      BY <2>2 DEF Revocation
    <2> QED
      BY <1>7, <2>2, <2>3 DEF Logout, BlacklistToken, Revocation
  <1>8. ASSUME NEW u \in Users, NEW g \in Grants, PatchScopes(u, g) \/ CreateUser(u, g) PROVE SessionTypeOK'
    BY <1>8, SetAccountTypes DEF PatchScopes, CreateUser
  <1>9. ASSUME NEW u \in Users, DeleteUser(u) PROVE SessionTypeOK'
    BY <1>9, SetAccountTypes DEF DeleteUser
  <1>10. ASSUME NEW i \in Replicas, ReplicaRestarts(i) PROVE SessionTypeOK'
    BY <1>10 DEF ReplicaRestarts
  <1>11. CASE SecondPasses
    <2>1. \A f \in Flows : flow'[f] \in FlowState
      <3>1. ASSUME NEW f \in Flows, flow[f] # NoFlow PROVE [flow[f] EXCEPT !.wait = @ + 1] \in FlowState
        <4>1. flow[f] \in [pc : {"register", "login"}, user : Users, grant : Grants, wait : 0..HashTime]
          BY <3>1 DEF FlowState
        <4>2. flow[f].wait < HashTime
          BY <1>11, <3>1 DEF SecondPasses
        <4>3. flow[f].wait + 1 \in 0..HashTime
          BY <1>0, <4>1, <4>2
        <4> QED
          BY <4>1, <4>3 DEF FlowState
      <3> QED
        BY <1>11, <3>1 DEF SecondPasses, FlowState
    <2>2. flow' \in [Flows -> FlowState]
      BY <1>11, <2>1 DEF SecondPasses
    <2>3. tokens' \subseteq Token
      BY <1>11, TokenFields, AgedTypes DEF SecondPasses, Aged, Token
    <2>4. loggedOut' \in [Replicas -> SUBSET TokenOf("access")]
      BY <1>11, AgedTypes DEF SecondPasses, Aged
    <2>5. ASSUME NEW i \in Replicas PROVE blacklist'[i] \subseteq Revocation
      <3>1. ASSUME NEW entry \in blacklist[i], entry.left > 1
            PROVE  [token |-> [entry.token EXCEPT !.age = @ + 1], left |-> entry.left - 1] \in Revocation
        <4>1. entry.token \in TokenOf("access") /\ entry.left \in 1..AccessLife
          OBVIOUS
        <4>2. entry.token.age + 1 < Life(entry.token.kind)
          <5>1. entry.left = Life(entry.token.kind) - entry.token.age
            BY DEF BlacklistExact, SecondsLeft
          <5>2. entry.token.age \in Nat /\ Life(entry.token.kind) = AccessLife
            BY <4>1, AccessTokenType, LivesArePositive
          <5> QED
            BY <3>1, <5>1, <5>2, LivesArePositive
        <4>3. [entry.token EXCEPT !.age = @ + 1] \in TokenOf("access")
          BY <4>1, <4>2, AgedTypes
        <4> QED
          BY <3>1, <4>1, <4>3, LivesArePositive DEF Revocation
      <3> QED
        BY <1>11, <3>1 DEF SecondPasses
    <2>6. blacklist' \in [Replicas -> SUBSET Revocation]
      BY <1>11, <2>5 DEF SecondPasses
    <2>7. lastHad' \in [Users -> [Grants -> 0..LongAgo]]
      BY <1>11, LivesArePositive DEF SecondPasses
    <2> QED
      BY <1>11, <2>2, <2>3, <2>4, <2>6, <2>7 DEF SecondPasses, Revocation
  <1>12. CASE UNCHANGED sessionVars
    BY <1>12 DEF sessionVars
  <1> QED
    BY <1>1, <1>2, <1>4, <1>5, <1>6, <1>7, <1>8, <1>9, <1>10, <1>11, <1>12 DEF SessionNext

LEMMA LogoutExact ==
  ASSUME SessionTypeOK, BlacklistExact, NEW i \in Replicas, NEW t \in tokens, Logout(i, t)
  PROVE  BlacklistExact'
  <1>1. t \in TokenOf("access") /\ SecondsLeft(t) \in 1..AccessLife
    <2>1. t \in Token /\ t.kind = "access"
      BY DEF Logout, AuthenticateJWT, Verify, SessionTypeOK
    <2> QED
      BY <2>1, TokenFields, LivesArePositive DEF SecondsLeft
  <1>2. /\ blacklist'[i] = blacklist[i] \cup {[token |-> t, left |-> SecondsLeft(t)]}
        /\ loggedOut'[i] = loggedOut[i] \cup {t}
        /\ \A j \in Replicas \ {i} : blacklist'[j] = blacklist[j] /\ loggedOut'[j] = loggedOut[j]
    BY <1>1 DEF Logout, BlacklistToken, SessionTypeOK
  <1> QED
    BY <1>2 DEF BlacklistExact

LEMMA SecondExact ==
  ASSUME SessionTypeOK, BlacklistExact, SecondPasses
  PROVE  BlacklistExact'
  <1> SUFFICES ASSUME NEW i \in Replicas
               PROVE  /\ \A t \in loggedOut'[i] : [token |-> t, left |-> SecondsLeft(t)] \in blacklist'[i]
                      /\ \A entry \in blacklist'[i] :
                            entry.token \in loggedOut'[i] /\ entry.left = SecondsLeft(entry.token)
    BY DEF BlacklistExact
  <1> DEFINE older(t) == [t EXCEPT !.age = @ + 1]
  <1>1. loggedOut'[i] = {older(t) : t \in {x \in loggedOut[i] : x.age + 1 < Life(x.kind)}}
    BY DEF SecondPasses, Aged
  <1>2. blacklist'[i] = {[token |-> older(entry.token), left |-> entry.left - 1] :
                            entry \in {x \in blacklist[i] : x.left > 1}}
    BY DEF SecondPasses
  <1>3. ASSUME NEW t \in loggedOut[i]
        PROVE  /\ SecondsLeft(t) = AccessLife - t.age /\ t.age \in Nat /\ Life(t.kind) = AccessLife
               /\ SecondsLeft(t) > 1 <=> t.age + 1 < Life(t.kind)
               /\ SecondsLeft(t) > 1 => SecondsLeft(older(t)) = SecondsLeft(t) - 1
    <2>1. t \in TokenOf("access")
      BY DEF SessionTypeOK
    <2>2. SecondsLeft(t) = AccessLife - t.age /\ t.age \in Nat /\ Life(t.kind) = AccessLife
      BY <2>1, AccessTokenType, LivesArePositive DEF SecondsLeft
    <2>3. SecondsLeft(t) > 1 <=> t.age + 1 < Life(t.kind)
      BY <2>2, LivesArePositive
    <2>4. ASSUME SecondsLeft(t) > 1 PROVE SecondsLeft(older(t)) = SecondsLeft(t) - 1
      <3>1. older(t).age = t.age + 1 /\ older(t).kind = t.kind
        BY <2>1, <2>3, <2>4, AgedTypes
      <3> QED
        BY <2>2, <3>1, LivesArePositive DEF SecondsLeft
    <2> QED
      BY <2>2, <2>3, <2>4
  <1>4. ASSUME NEW t \in loggedOut'[i] PROVE [token |-> t, left |-> SecondsLeft(t)] \in blacklist'[i]
    <2>1. PICK x \in loggedOut[i] : x.age + 1 < Life(x.kind) /\ t = older(x)
      BY <1>1
    <2>2. SecondsLeft(x) > 1 /\ SecondsLeft(t) = SecondsLeft(x) - 1
      BY <1>3, <2>1
    <2>3. [token |-> x, left |-> SecondsLeft(x)] \in blacklist[i]
      BY DEF BlacklistExact
    <2>4. \A entry \in blacklist[i] :
             entry.left > 1 => [token |-> older(entry.token), left |-> entry.left - 1] \in blacklist'[i]
      BY <1>2
    <2>5. [token |-> older(x), left |-> SecondsLeft(x) - 1] \in blacklist'[i]
      <3> DEFINE entry == [token |-> x, left |-> SecondsLeft(x)]
      <3> HIDE DEF older
      <3>1. entry \in blacklist[i] /\ entry.token = x /\ entry.left = SecondsLeft(x)
        BY <2>3
      <3> HIDE DEF entry
      <3> QED
        BY <2>2, <2>4, <3>1
    <2> QED
      BY <2>1, <2>2, <2>5
  <1>5. ASSUME NEW entry \in blacklist'[i]
        PROVE  entry.token \in loggedOut'[i] /\ entry.left = SecondsLeft(entry.token)
    <2>1. PICK x \in blacklist[i] : x.left > 1 /\ entry = [token |-> older(x.token), left |-> x.left - 1]
      BY <1>2
    <2>2. x.token \in loggedOut[i] /\ x.left = SecondsLeft(x.token)
      BY DEF BlacklistExact
    <2>3. x.token.age + 1 < Life(x.token.kind) /\ SecondsLeft(older(x.token)) = x.left - 1
      BY <1>3, <2>1, <2>2
    <2> QED
      BY <1>1, <2>1, <2>2, <2>3
  <1> QED
    BY <1>4, <1>5

\* Where the tokens and the flows of before remain, a write of an account keeps
\* them recent.
LEMMA SetAccountRecent ==
  ASSUME SessionInv, NEW u \in Users, NEW value \in Grants \cup {NoAccount}, SetAccount(u, value),
         \A f \in Flows : flow'[f] # NoFlow => flow'[f] = flow[f]
  PROVE  /\ GrantsNow' /\ LoginsRecent'
         /\ \A t \in tokens :
               lastHad'[t.user][t.grant] <= HashTime + t.age + (IF t.kind = "access" THEN RefreshLife - 1 ELSE 0)
  <1> USE DEF SessionInv
  <1>1. \A v \in Users, g \in Grants : /\ lastHad'[v][g] <= lastHad[v][g]
                                        /\ lastHad'[v][g] \in Nat /\ lastHad[v][g] \in Nat
    BY SetAccountTypes, LivesArePositive DEF SessionTypeOK
  <1>2. GrantsNow'
    BY SetAccountTypes DEF GrantsNow
  <1>3. LoginsRecent'
    <2>1. ASSUME NEW f \in Flows, flow'[f] # NoFlow, flow'[f].pc = "login"
          PROVE  lastHad'[flow'[f].user][flow'[f].grant] <= flow'[f].wait
      <3>1. flow'[f] = flow[f] /\ flow[f].user \in Users /\ flow[f].grant \in Grants /\ flow[f].wait \in 0..HashTime
        BY <2>1 DEF SessionTypeOK, FlowState
      <3>2. lastHad[flow[f].user][flow[f].grant] <= flow[f].wait
        BY <2>1, <3>1 DEF LoginsRecent
      <3> QED
        BY <1>1, <3>1, <3>2, LivesArePositive
    <2> QED
      BY <2>1 DEF LoginsRecent
  <1>4. ASSUME NEW t \in tokens
        PROVE  lastHad'[t.user][t.grant] <= HashTime + t.age + (IF t.kind = "access" THEN RefreshLife - 1 ELSE 0)
    <2>1. t.user \in Users /\ t.grant \in Grants /\ t.age \in Nat
      BY TokenFields DEF SessionTypeOK
    <2>2. lastHad[t.user][t.grant] <= HashTime + t.age + (IF t.kind = "access" THEN RefreshLife - 1 ELSE 0)
      BY DEF TokensRecent
    <2> QED
      BY <1>1, <2>1, <2>2, LivesArePositive
  <1> QED
    BY <1>2, <1>3, <1>4

\* The tokens signed for what a row says, or said while a login waited.
LEMMA PairRecent ==
  ASSUME NEW u \in Users, NEW g \in Grants, NEW had \in Nat, had <= HashTime,
         NEW t \in GenerateTokenPair(u, g)
  PROVE  /\ t.user = u /\ t.grant = g
         /\ had <= HashTime + t.age + (IF t.kind = "access" THEN RefreshLife - 1 ELSE 0)
  BY LivesArePositive DEF GenerateTokenPair, Sign

LEMMA SessionInvStep == SessionInv /\ [SessionNext]_sessionVars => SessionInv'
  <1> SUFFICES ASSUME SessionInv, [SessionNext]_sessionVars
               PROVE  BlacklistExact' /\ GrantsNow' /\ LoginsRecent' /\ TokensRecent'
    BY SessionTypeStep DEF SessionInv
  <1> DEFINE Goal == BlacklistExact' /\ GrantsNow' /\ LoginsRecent' /\ TokensRecent'
  <1> USE DEF SessionInv
  <1>0. \A v \in Users, g \in Grants : lastHad[v][g] \in Nat /\ lastHad[v][g] <= LongAgo
    BY LivesArePositive DEF SessionTypeOK
  <1>1. ASSUME NEW f \in Flows, NEW u \in Users, RegisterChecks(f, u) PROVE Goal
    BY <1>1 DEF RegisterChecks, BlacklistExact, GrantsNow, LoginsRecent, TokensRecent, SessionTypeOK
  <1>2. ASSUME NEW f \in Flows, NEW u \in Users, LoginFindsUser(f, u) PROVE Goal
    <2>1. account[u] \in Grants /\ lastHad[u][account[u]] = 0
      BY <1>2 DEF LoginFindsUser, SessionTypeOK, GrantsNow
    <2>2. flow' = [flow EXCEPT ![f] = [pc |-> "login", user |-> u, grant |-> account[u], wait |-> 0]]
      BY <1>2 DEF LoginFindsUser
    <2>3. UNCHANGED <<account, lastHad, tokens, blacklist, loggedOut>>
      BY <1>2 DEF LoginFindsUser
    <2>4. LoginsRecent'
      BY <2>1, <2>2, <2>3 DEF LoginsRecent, SessionTypeOK
    <2> QED
      BY <2>3, <2>4 DEF BlacklistExact, GrantsNow, TokensRecent
  <1>3. ASSUME NEW f \in Flows, flow[f] # NoFlow
        PROVE  flow[f].user \in Users /\ flow[f].grant \in Grants /\ flow[f].wait \in 0..HashTime
    BY <1>3 DEF FlowState, SessionTypeOK
  <1>4. ASSUME NEW f \in Flows, RegisterInserts(f) PROVE Goal
    <2>1. flow[f].user \in Users
      BY <1>3, <1>4 DEF RegisterInserts, NoFlow
    <2>2. BlacklistExact'
      BY <1>4 DEF RegisterInserts, BlacklistExact
    <2>3. \A k \in Flows : flow'[k] # NoFlow => flow'[k] = flow[k]
      BY <1>4 DEF RegisterInserts, EndFlow, SessionTypeOK
    <2>4. CASE SetAccount(flow[f].user, NewGrant) /\ HandOut(GenerateTokenPair(flow[f].user, NewGrant))
      <3>1. /\ GrantsNow' /\ LoginsRecent'
            /\ \A t \in tokens :
                  lastHad'[t.user][t.grant] <= HashTime + t.age + (IF t.kind = "access" THEN RefreshLife - 1 ELSE 0)
        BY <2>1, <2>3, <2>4, SetAccountRecent, GrantAssumption
      <3>2. lastHad'[flow[f].user][NewGrant] = 0
        BY <2>1, <2>4, GrantAssumption DEF SetAccount, SessionTypeOK
      <3>3. TokensRecent'
        <4>1. \A t \in GenerateTokenPair(flow[f].user, NewGrant) :
                 lastHad'[t.user][t.grant] <= HashTime + t.age + (IF t.kind = "access" THEN RefreshLife - 1 ELSE 0)
          BY <2>1, <3>2, PairRecent, GrantAssumption, LivesArePositive
        <4> QED
          BY <2>4, <3>1, <4>1 DEF TokensRecent, HandOut
      <3> QED
        BY <2>2, <3>1, <3>3
    <2>5. CASE UNCHANGED <<account, lastHad, tokens>>
      BY <2>2, <2>3, <2>5 DEF GrantsNow, LoginsRecent, TokensRecent
    <2> QED
      BY <1>4, <2>4, <2>5 DEF RegisterInserts
  <1>5. ASSUME NEW f \in Flows, LoginAnswers(f) PROVE Goal
    <2>1. /\ flow[f] # NoFlow /\ flow[f].pc = "login"
          /\ flow[f].user \in Users /\ flow[f].grant \in Grants /\ flow[f].wait \in 0..HashTime
      BY <1>3, <1>5 DEF LoginAnswers, NoFlow
    <2>2. UNCHANGED <<account, lastHad, blacklist, loggedOut>>
      BY <1>5 DEF LoginAnswers
    <2>3. LoginsRecent'
      BY <1>5, <2>2 DEF LoginAnswers, EndFlow, SessionTypeOK, LoginsRecent
    <2>4. TokensRecent'
      <3>1. /\ lastHad[flow[f].user][flow[f].grant] \in Nat
            /\ lastHad[flow[f].user][flow[f].grant] <= HashTime
        BY <1>0, <2>1, LivesArePositive DEF LoginsRecent
      <3>2. \A t \in GenerateTokenPair(flow[f].user, flow[f].grant) :
               lastHad[t.user][t.grant] <= HashTime + t.age + (IF t.kind = "access" THEN RefreshLife - 1 ELSE 0)
        BY <2>1, <3>1, PairRecent
      <3> QED
        BY <1>5, <2>2, <3>2 DEF LoginAnswers, HandOut, TokensRecent
    <2> QED
      BY <2>2, <2>3, <2>4 DEF BlacklistExact, GrantsNow
  <1>6. ASSUME NEW i \in Replicas, NEW t \in tokens, RefreshAccessToken(i, t) PROVE Goal
    <2>1. t.kind = "refresh" /\ t.age < RefreshLife
      BY <1>6, LivesArePositive DEF RefreshAccessToken, Verify
    <2>2. t.user \in Users /\ t.grant \in Grants /\ t.age \in Nat
      BY TokenFields DEF SessionTypeOK
    <2>3. lastHad[t.user][t.grant] <= HashTime + t.age
      BY <1>0, <2>1, <2>2, LivesArePositive DEF TokensRecent
    <2>4. UNCHANGED <<account, lastHad, flow, blacklist, loggedOut>>
      BY <1>6 DEF RefreshAccessToken
    <2>5. TokensRecent'
      <3> DEFINE new == Sign("access", t.user, t.grant)
      <3>1. new.user = t.user /\ new.grant = t.grant /\ new.kind = "access" /\ new.age = 0
        BY DEF Sign
      <3>2. lastHad[new.user][new.grant] <= HashTime + new.age + (IF new.kind = "access" THEN RefreshLife - 1 ELSE 0)
        BY <1>0, <2>1, <2>2, <2>3, <3>1, LivesArePositive
      <3>3. tokens' = tokens \cup {new}
        BY <1>6 DEF RefreshAccessToken, HandOut
      <3> HIDE DEF new
      <3> QED
        BY <2>4, <3>2, <3>3 DEF TokensRecent
    <2> QED
      BY <2>4, <2>5 DEF BlacklistExact, GrantsNow, LoginsRecent
  <1>7. ASSUME NEW i \in Replicas, NEW t \in tokens, Logout(i, t) PROVE Goal
    <2>1. UNCHANGED <<account, lastHad, flow, tokens>>
      BY <1>7 DEF Logout
    <2> QED
      BY <1>7, <2>1, LogoutExact DEF GrantsNow, LoginsRecent, TokensRecent
  <1>8. ASSUME NEW u \in Users, NEW value \in Grants \cup {NoAccount}, SetAccount(u, value),
               UNCHANGED <<flow, tokens, blacklist, loggedOut>>
        PROVE  Goal
    BY <1>8, SetAccountRecent DEF BlacklistExact, TokensRecent
  <1>9. ASSUME NEW i \in Replicas, ReplicaRestarts(i) PROVE Goal
    <2>1. UNCHANGED <<account, lastHad, flow, tokens>>
      BY <1>9 DEF ReplicaRestarts
    <2>2. BlacklistExact'
      BY <1>9 DEF ReplicaRestarts, BlacklistExact, SessionTypeOK
    <2> QED
      BY <2>1, <2>2 DEF GrantsNow, LoginsRecent, TokensRecent
  <1>10. CASE SecondPasses
    <2>1. \A v \in Users, g \in Grants : lastHad'[v][g] \in Nat /\ lastHad'[v][g] <= lastHad[v][g] + 1
      BY <1>0, <1>10, LivesArePositive DEF SecondPasses
    <2>2. GrantsNow'
      BY <1>10 DEF SecondPasses, GrantsNow
    <2>3. LoginsRecent'
      <3>1. ASSUME NEW f \in Flows, flow'[f] # NoFlow, flow'[f].pc = "login"
            PROVE  lastHad'[flow'[f].user][flow'[f].grant] <= flow'[f].wait
        <4>1. flow[f] # NoFlow /\ flow'[f] = [flow[f] EXCEPT !.wait = @ + 1]
          BY <1>10, <3>1 DEF SecondPasses
        <4>2. flow[f] \in [pc : {"register", "login"}, user : Users, grant : Grants, wait : 0..HashTime]
          BY <4>1 DEF SessionTypeOK, FlowState
        <4>3. /\ flow'[f].user = flow[f].user /\ flow'[f].grant = flow[f].grant
              /\ flow'[f].pc = flow[f].pc /\ flow'[f].wait = flow[f].wait + 1
          BY <4>1, <4>2
        <4>4. lastHad[flow[f].user][flow[f].grant] <= flow[f].wait
          BY <3>1, <4>1, <4>3 DEF LoginsRecent
        <4> QED
          BY <1>0, <2>1, <4>2, <4>3, <4>4, LivesArePositive
      <3> QED
        BY <3>1 DEF LoginsRecent
    <2>4. TokensRecent'
      <3>1. ASSUME NEW t \in tokens'
            PROVE  lastHad'[t.user][t.grant] <= HashTime + t.age + (IF t.kind = "access" THEN RefreshLife - 1 ELSE 0)
        <4>1. PICK x \in tokens : x.age + 1 < Life(x.kind) /\ t = [x EXCEPT !.age = @ + 1]
          BY <1>10 DEF SecondPasses, Aged
        <4>2. x.user \in Users /\ x.grant \in Grants /\ x.age \in Nat
          BY TokenFields DEF SessionTypeOK
        <4>3. t.user = x.user /\ t.grant = x.grant /\ t.kind = x.kind /\ t.age = x.age + 1
          BY <4>1, AgedTypes, TokenFields DEF SessionTypeOK
        <4>4. lastHad[x.user][x.grant] <= HashTime + x.age + (IF x.kind = "access" THEN RefreshLife - 1 ELSE 0)
          BY DEF TokensRecent
        <4> QED
          BY <1>0, <2>1, <4>2, <4>3, <4>4, LivesArePositive
      <3> QED
        BY <3>1 DEF TokensRecent
    <2> QED
      BY <1>10, <2>2, <2>3, <2>4, SecondExact
  <1>11. CASE UNCHANGED sessionVars
    BY <1>11 DEF sessionVars, BlacklistExact, GrantsNow, LoginsRecent, TokensRecent
  <1>12. ASSUME NEW u \in Users, NEW g \in Grants, PatchScopes(u, g) \/ CreateUser(u, g) PROVE Goal
    BY <1>8, <1>12 DEF PatchScopes, CreateUser
  <1>13. ASSUME NEW u \in Users, DeleteUser(u) PROVE Goal
    BY <1>8, <1>13 DEF DeleteUser
  <1> QED
    BY <1>1, <1>2, <1>4, <1>5, <1>6, <1>7, <1>9, <1>10, <1>11, <1>12, <1>13 DEF SessionNext

LEMMA SessionInvInit == SessionInit => SessionInv
  BY SessionTypeInit, GrantAssumption
  DEF SessionInit, SessionInv, BlacklistExact, GrantsNow, LoginsRecent, TokensRecent

\* Whatever is logged out, restarted or refreshed, a process refuses exactly the
\* live access tokens it has confirmed a logout of since it started.
THEOREM RevocationExact == SessionSpec => []RevocationIsExact
  <1>1. SessionInv => RevocationIsExact
    <2> SUFFICES ASSUME SessionInv, NEW i \in Replicas, NEW t \in tokens, t.kind = "access"
                 PROVE  AuthenticateJWT(i, t) <=> t \notin loggedOut[i]
      BY DEF RevocationIsExact
    <2>1. Verify("access", t)
      BY TokenFields DEF SessionInv, SessionTypeOK, Verify
    <2>2. IsTokenBlacklisted(i, t) <=> t \in loggedOut[i]
      BY DEF SessionInv, BlacklistExact, IsTokenBlacklisted
    <2> QED
      BY <2>1, <2>2 DEF AuthenticateJWT
  <1> QED
    BY <1>1, SessionInvInit, SessionInvStep, PTL DEF SessionSpec

\* Whatever the lifetimes and however long a hash takes, no accepted token grants
\* what the users row has not said for longer than a login, the life of a refresh
\* token and the life of an access token.
THEOREM GrantsAreRecent == SessionSpec => []GrantIsRecent
  <1>1. SessionInv => GrantIsRecent
    <2> SUFFICES ASSUME SessionInv, NEW i \in Replicas, NEW t \in tokens, AuthenticateJWT(i, t)
                 PROVE  lastHad[t.user][t.grant] <= GrantAge
      BY DEF GrantIsRecent
    <2>1. t.kind = "access" /\ t.age < AccessLife
      BY LivesArePositive DEF AuthenticateJWT, Verify
    <2>2. t.age \in Nat /\ t.user \in Users /\ t.grant \in Grants
      BY TokenFields DEF SessionInv, SessionTypeOK
    <2>3. lastHad[t.user][t.grant] <= HashTime + t.age + (RefreshLife - 1)
      BY <2>1 DEF SessionInv, TokensRecent
    <2>4. lastHad[t.user][t.grant] \in Nat
      BY <2>2, LivesArePositive DEF SessionInv, SessionTypeOK
    <2> QED
      BY <2>1, <2>2, <2>3, <2>4, LivesArePositive DEF GrantAge
  <1> QED
    BY <1>1, SessionInvInit, SessionInvStep, PTL DEF SessionSpec
===============================================================================
