------------------------- MODULE GatewayPartsProofs -------------------------
(***************************************************************************)
(* Proofs about the parts of the gateway that share no state: the limit per*)
(* minute and the scopes, the types of the other parts, and that the parts *)
(* keep beside one another what each is proved to keep alone.              *)
(***************************************************************************)
EXTENDS MCGatewayParts, JobSchedulerProofs, SessionsProofs, NotificationProofs, ClientRegistryProofs,
        AuditTrailProofs, TLAPS

-----------------------------------------------------------------------------
(***************************************************************************)
(* The limit per minute.  A counter lives as long as the last request it   *)
(* accepted is in the window, and counts at least what is in it.           *)
(***************************************************************************)

\* Requests since an age include those since a later one; the last one was
\* accepted Window - left ago, and the counter counts all of them.
WindowCounted(k) ==
    /\ \A a, b \in Ages : a <= b => accepted[k][a] <= accepted[k][b]
    /\ \A a \in Ages : a < Window - counter[k].left => accepted[k][a] = 0
    /\ counter[k].left > 0 => accepted[k][Window - counter[k].left] > 0
    /\ AcceptedLately(k) <= CurrentCount(k)

\* What was accepted since the limit changed was accepted under it.
UnderPlan(k) ==
    sincePlan > 0 => accepted[k][sincePlan - 1] = 0 \/ CurrentCount(k) <= limit

RateTypes ==
    /\ limit \in Plans /\ sincePlan \in 0..Window
    /\ counter \in [Counters -> [count : 0..MaxPlan, left : 0..Window]]
    /\ accepted \in [Counters -> [Ages -> Nat]]

RateInv == RateTypes /\ \A k \in Counters : WindowCounted(k) /\ UnderPlan(k)

LEMMA PlanBounds ==
  /\ Window \in Nat /\ Window > 0 /\ Plans \subseteq Nat
  /\ MaxPlan \in Plans /\ MaxPlan \in Nat /\ \A n \in Plans : n <= MaxPlan
  /\ Window - 1 \in Ages /\ 0 \in Ages
  <1>1. PICK m \in Plans : \A n \in Plans : n <= m
    BY PlansAssumption
  <1>2. MaxPlan \in Plans /\ \A n \in Plans : n <= MaxPlan
    BY <1>1, Zenon DEF MaxPlan
  <1> QED
    BY <1>2, WindowAssumption, PlansAssumption DEF Ages

LEMMA RateInit0 == RateInit => RateInv
  BY PlanBounds DEF RateInit, RateInv, RateTypes, WindowCounted, UnderPlan, NoCounter, CurrentCount,
     AcceptedLately, Ages

\* What the invariant says of one counter, with its variables as values.
LEMMA CountersTyped ==
  ASSUME RateTypes, NEW k \in Counters
  PROVE  /\ counter[k].count \in 0..MaxPlan /\ counter[k].left \in 0..Window
         /\ accepted[k] \in [Ages -> Nat] /\ CurrentCount(k) \in 0..MaxPlan
         /\ limit \in Nat /\ limit <= MaxPlan
  BY PlanBounds DEF RateTypes, CurrentCount

LEMMA RateAccepts ==
  ASSUME RateInv, NEW k \in Counters, AcceptRequest(k)
  PROVE  RateInv'
  <1>1. RateTypes /\ WindowCounted(k) /\ UnderPlan(k)
    BY DEF RateInv
  <1> DEFINE n == CurrentCount(k)
  <1>2. n \in Nat /\ n < limit /\ n + 1 \in 0..MaxPlan
    BY <1>1, CountersTyped, PlanBounds DEF AcceptRequest, Refuses
  <1>3. /\ counter' = [counter EXCEPT ![k] = [count |-> n + 1, left |-> Window]]
        /\ accepted' = [accepted EXCEPT ![k] = [age \in Ages |-> @[age] + 1]]
        /\ UNCHANGED <<limit, sincePlan>>
    BY DEF AcceptRequest, StoreCount
  <1>4. AcceptedLately(k) <= n
    BY <1>1 DEF WindowCounted
  <1> HIDE DEF n
  <1>5. /\ counter'[k] = [count |-> n + 1, left |-> Window]
        /\ accepted'[k] = [age \in Ages |-> accepted[k][age] + 1]
        /\ \A j \in Counters \ {k} : counter'[j] = counter[j] /\ accepted'[j] = accepted[j]
    BY <1>1, <1>3 DEF RateTypes
  <1>6. RateTypes'
    <2>1. [count |-> n + 1, left |-> Window] \in [count : 0..MaxPlan, left : 0..Window]
      BY <1>2, PlanBounds
    <2>2. [age \in Ages |-> accepted[k][age] + 1] \in [Ages -> Nat]
      BY <1>1, CountersTyped
    <2> QED
      BY <1>1, <1>3, <2>1, <2>2 DEF RateTypes
  <1>7. (CurrentCount(k))' = n + 1
    BY <1>5, PlanBounds DEF CurrentCount
  <1>8. WindowCounted(k)'
    <2>1. \A a, b \in Ages : a <= b => accepted'[k][a] <= accepted'[k][b]
      BY <1>1, <1>5, CountersTyped DEF WindowCounted
    <2>2. counter'[k].left = Window
      BY <1>5
    <2>3. accepted'[k][0] > 0
      BY <1>1, <1>5, CountersTyped, PlanBounds
    <2>4. (AcceptedLately(k))' = AcceptedLately(k) + 1 /\ AcceptedLately(k) \in Nat
      BY <1>1, <1>5, CountersTyped, PlanBounds DEF AcceptedLately
    <2> QED
      BY <1>2, <1>4, <1>7, <2>1, <2>2, <2>3, <2>4, PlanBounds DEF WindowCounted, Ages
  <1>9. UnderPlan(k)'
    BY <1>1, <1>2, <1>3, <1>7, CountersTyped DEF UnderPlan
  <1>10. ASSUME NEW j \in Counters, j # k PROVE WindowCounted(j)' /\ UnderPlan(j)'
    BY <1>3, <1>5, <1>10 DEF RateInv, WindowCounted, UnderPlan, AcceptedLately, CurrentCount
  <1> QED
    BY <1>6, <1>8, <1>9, <1>10 DEF RateInv

LEMMA RateTicks ==
  ASSUME RateInv, RateTick
  PROVE  RateInv'
  <1>1. RateTypes
    BY DEF RateInv
  <1>2. /\ limit' = limit /\ sincePlan \in 0..Window /\ sincePlan' \in 1..Window
        /\ sincePlan' = (IF sincePlan < Window THEN sincePlan + 1 ELSE Window)
    BY <1>1, PlanBounds DEF RateTick, RateTypes
  <1>3. ASSUME NEW k \in Counters
        PROVE  /\ counter'[k] \in [count : 0..MaxPlan, left : 0..Window]
               /\ accepted'[k] \in [Ages -> Nat]
               /\ WindowCounted(k)' /\ UnderPlan(k)'
    <2> DEFINE h == accepted[k]
               left == counter[k].left
               n == CurrentCount(k)
    <2>1. /\ \A a, b \in Ages : a <= b => h[a] <= h[b]
          /\ \A a \in Ages : a < Window - left => h[a] = 0
          /\ left > 0 => h[Window - left] > 0
          /\ h[Window - 1] <= n
          /\ sincePlan > 0 => h[sincePlan - 1] = 0 \/ n <= limit
      BY DEF RateInv, WindowCounted, UnderPlan, AcceptedLately
    <2>2. /\ counter[k].count \in 0..MaxPlan /\ left \in 0..Window
          /\ h \in [Ages -> Nat] /\ n \in 0..MaxPlan /\ limit \in Nat
          /\ left > 0 => n = counter[k].count
          /\ left = 0 => n = 0
      BY <1>1, CountersTyped DEF CurrentCount
    <2>3. counter'[k] = IF left > 1 THEN [counter[k] EXCEPT !.left = left - 1] ELSE NoCounter
      BY DEF RateTick
    <2>4. accepted'[k] = [age \in Ages |-> IF age = 0 THEN 0 ELSE h[age - 1]]
      BY DEF RateTick
    <2>5. /\ counter'[k].left = (IF left > 1 THEN left - 1 ELSE 0)
          /\ counter'[k] \in [count : 0..MaxPlan, left : 0..Window]
          /\ CurrentCount(k)' = IF left > 1 THEN n ELSE 0
      <3>0. counter[k] \in [count : 0..MaxPlan, left : 0..Window]
        BY <1>1 DEF RateTypes
      <3>1. CASE left > 1
        <4>1. counter'[k] = [counter[k] EXCEPT !.left = left - 1] /\ left - 1 \in 0..Window /\ left - 1 > 0
          BY <2>2, <2>3, <3>1, PlanBounds
        <4>2. counter'[k].left = left - 1 /\ counter'[k].count = counter[k].count
          BY <3>0, <4>1
        <4> QED
          BY <2>2, <3>0, <3>1, <4>1, <4>2 DEF CurrentCount
      <3>2. CASE ~(left > 1)
        <4>1. counter'[k] = NoCounter
          BY <2>3, <3>2
        <4> QED
          BY <3>2, <4>1, PlanBounds DEF CurrentCount, NoCounter
      <3> QED
        BY <3>1, <3>2
    <2> HIDE DEF h, left, n
    <2> DEFINE g == accepted'[k]
    <2>6. /\ g \in [Ages -> Nat] /\ g[0] = 0
          /\ \A a \in Ages : a > 0 => a - 1 \in Ages /\ g[a] = h[a - 1]
      BY <2>2, <2>4, PlanBounds DEF Ages
    <2> HIDE DEF g
    <2>7. \A a, b \in Ages : a <= b => g[a] <= g[b]
      <3> SUFFICES ASSUME NEW a \in Ages, NEW b \in Ages, a <= b PROVE g[a] <= g[b]
        OBVIOUS
      <3>1. CASE a = 0
        BY <2>6, <3>1, PlanBounds
      <3>2. CASE a > 0
        <4>1. b > 0 /\ a - 1 <= b - 1
          BY <3>2 DEF Ages
        <4> QED
          BY <2>1, <2>6, <3>2, <4>1
      <3> QED
        BY <3>1, <3>2 DEF Ages
    <2>8. ASSUME NEW a \in Ages, a < Window - counter'[k].left PROVE g[a] = 0
      <3>1. CASE a = 0
        BY <2>6, <3>1
      <3>2. CASE a > 0
        <4>1. a - 1 < Window - left
          BY <2>2, <2>5, <2>8, <3>2, PlanBounds DEF Ages
        <4> QED
          BY <2>1, <2>6, <3>2, <4>1
      <3> QED
        BY <3>1, <3>2 DEF Ages
    <2>9. ASSUME counter'[k].left > 0 PROVE g[Window - counter'[k].left] > 0
      <3>1. left > 1 /\ counter'[k].left = left - 1
        BY <2>5, <2>9
      <3>2. /\ Window - counter'[k].left \in Ages /\ Window - counter'[k].left > 0
            /\ Window - counter'[k].left - 1 = Window - left
        BY <2>2, <3>1, PlanBounds DEF Ages
      <3> QED
        BY <2>1, <2>2, <2>6, <3>1, <3>2
    <2>10. g[Window - 1] <= CurrentCount(k)'
      <3>1. CASE left > 1
        <4>1. g[Window - 1] <= h[Window - 1]
          <5>1. CASE Window = 1
            BY <2>2, <2>6, <5>1, PlanBounds
          <5>2. CASE Window > 1
            BY <2>1, <2>6, <5>2, PlanBounds DEF Ages
          <5> QED
            BY <5>1, <5>2, PlanBounds
        <4>2. g[Window - 1] \in Nat /\ h[Window - 1] \in Nat /\ n \in Nat
          BY <2>2, <2>6, PlanBounds
        <4> QED
          BY <2>1, <2>5, <3>1, <4>1, <4>2
      <3>2. CASE ~(left > 1)
        <4>1. counter'[k].left = 0 /\ Window - 1 < Window - counter'[k].left
          BY <2>5, <3>2, PlanBounds
        <4> QED
          BY <2>5, <2>8, <3>2, <4>1, PlanBounds
      <3> QED
        BY <3>1, <3>2
    <2>11. g[sincePlan' - 1] = 0 \/ CurrentCount(k)' <= limit
      <3>0. sincePlan' - 1 \in Ages
        BY <1>2, PlanBounds DEF Ages
      <3>1. CASE sincePlan' = 1
        BY <2>6, <3>1
      <3>2. CASE ~(left > 1)
        BY <2>2, <2>5, <3>2
      <3>3. CASE left > 1 /\ sincePlan' > 1
        <4>1. sincePlan > 0 /\ sincePlan' - 2 \in Ages /\ sincePlan - 1 \in Ages /\ sincePlan' - 2 <= sincePlan - 1
          BY <1>2, <3>3, PlanBounds DEF Ages
        <4>2. g[sincePlan' - 1] = h[sincePlan' - 2]
          <5>1. sincePlan' - 1 > 0 /\ sincePlan' - 1 - 1 = sincePlan' - 2
            BY <1>2, <3>3
          <5> QED
            BY <2>6, <3>0, <5>1
        <4>3. h[sincePlan' - 2] <= h[sincePlan - 1]
          BY <2>1, <4>1
        <4>4. h[sincePlan' - 2] \in Nat
          BY <2>2, <4>1
        <4> QED
          BY <2>1, <2>5, <3>3, <4>1, <4>2, <4>3, <4>4
      <3> QED
        BY <1>2, <3>1, <3>2, <3>3
    <2> QED
      BY <1>2, <2>5, <2>6, <2>7, <2>8, <2>9, <2>10, <2>11
         DEF WindowCounted, UnderPlan, AcceptedLately, g
  <1>4. RateTypes'
    <2>1. counter' = [k \in Counters |-> counter'[k]] /\ accepted' = [k \in Counters |-> accepted'[k]]
      BY DEF RateTick
    <2>2. /\ counter' \in [Counters -> [count : 0..MaxPlan, left : 0..Window]]
          /\ accepted' \in [Counters -> [Ages -> Nat]]
      BY <1>3, <2>1
    <2> QED
      BY <1>1, <1>2, <2>2 DEF RateTypes
  <1> QED
    BY <1>3, <1>4 DEF RateInv

LEMMA RateInvStep == RateInv /\ [RateNext]_rateVars => RateInv'
  <1> SUFFICES ASSUME RateInv, [RateNext]_rateVars PROVE RateInv'
    OBVIOUS
  <1>1. ASSUME NEW k \in Counters, AcceptRequest(k) PROVE RateInv'
    BY <1>1, RateAccepts
  <1>2. ASSUME NEW k \in Counters, CounterLost(k) PROVE RateInv'
    <2>1. /\ counter' = [counter EXCEPT ![k] = NoCounter]
          /\ accepted' = [accepted EXCEPT ![k] = [age \in Ages |-> 0]]
          /\ UNCHANGED <<limit, sincePlan>>
      BY <1>2 DEF CounterLost
    <2>2. NoCounter \in [count : 0..MaxPlan, left : 0..Window] /\ [age \in Ages |-> 0] \in [Ages -> Nat]
      BY PlanBounds DEF NoCounter
    <2>3. RateTypes'
      BY <2>1, <2>2 DEF RateInv, RateTypes
    <2>4. WindowCounted(k)' /\ UnderPlan(k)'
      <3>1. counter'[k] = NoCounter /\ accepted'[k] = [age \in Ages |-> 0]
        BY <2>1 DEF RateInv, RateTypes
      <3>2. CurrentCount(k)' = 0 /\ sincePlan' \in 0..Window
        BY <2>3, <3>1 DEF CurrentCount, NoCounter, RateTypes
      <3>3. counter'[k].left = 0 /\ \A a \in Ages : accepted'[k][a] = 0
        BY <3>1 DEF NoCounter
      <3>4. WindowCounted(k)'
        BY <3>2, <3>3, PlanBounds DEF WindowCounted, AcceptedLately
      <3>5. sincePlan' > 0 => sincePlan' - 1 \in Ages
        <4>1. sincePlan' = sincePlan /\ sincePlan \in 0..Window
          BY <2>1 DEF RateInv, RateTypes
        <4> QED
          BY <4>1, WindowAssumption DEF Ages
      <3> QED
        BY <3>3, <3>4, <3>5 DEF UnderPlan
    <2>5. ASSUME NEW j \in Counters, j # k PROVE WindowCounted(j)' /\ UnderPlan(j)'
      <3>1. counter'[j] = counter[j] /\ accepted'[j] = accepted[j]
        BY <2>1, <2>5 DEF RateInv, RateTypes
      <3> QED
        BY <2>1, <3>1 DEF RateInv, WindowCounted, UnderPlan, AcceptedLately, CurrentCount
    <2> QED
      BY <2>3, <2>4, <2>5 DEF RateInv
  <1>3. ASSUME NEW n \in Plans, ChangePlan(n) PROVE RateInv'
    <2>1. limit' = n /\ sincePlan' = 0 /\ UNCHANGED <<counter, accepted>>
      BY <1>3 DEF ChangePlan
    <2> QED
      BY <2>1, PlanBounds DEF RateInv, RateTypes, WindowCounted, UnderPlan, AcceptedLately, CurrentCount
  <1>4. CASE RateTick
    BY <1>4, RateTicks
  <1>5. CASE UNCHANGED rateVars
    BY <1>5 DEF rateVars, RateInv, RateTypes, WindowCounted, UnderPlan, AcceptedLately, CurrentCount
  <1> QED
    BY <1>1, <1>2, <1>3, <1>4, <1>5 DEF RateNext, RefuseRequest

LEMMA RateIsInv == RateSpec => []RateInv
  BY RateInit0, RateInvStep, PTL DEF RateSpec

\* A process accepts in no window more requests than the plan allows, for any
\* window, any limits and any times of requests, changes of plan and restarts,
\* once the plan has been the same for a window: see RateBound.
THEOREM RateIsBounded == RateSpec => []RateBound
  <1>1. RateInv => RateBound
    <2> SUFFICES ASSUME RateInv, sincePlan = Window, NEW k \in Counters PROVE AcceptedLately(k) <= limit
      BY DEF RateBound
    <2>1. AcceptedLately(k) <= CurrentCount(k) /\ (AcceptedLately(k) = 0 \/ CurrentCount(k) <= limit)
      BY PlanBounds DEF RateInv, WindowCounted, UnderPlan, AcceptedLately
    <2>2. AcceptedLately(k) \in Nat /\ CurrentCount(k) \in Nat /\ limit \in Nat
      BY CountersTyped, PlanBounds DEF RateInv, AcceptedLately
    <2> QED
      BY <2>1, <2>2
  <1> QED
    BY <1>1, RateIsInv, PTL

\* However often it was refused, a client that was served nothing for a window
\* has no counter any more and is served: see WaitingHelps.
THEOREM WaitingIsEnough == RateSpec => []WaitingHelps
  <1>1. RateInv => WaitingHelps
    <2> SUFFICES ASSUME RateInv, limit > 0, NEW k \in Counters, AcceptedLately(k) = 0 PROVE ~Refuses(k)
      BY DEF WaitingHelps
    <2>1. counter[k].left \in 0..Window /\ accepted[k] \in [Ages -> Nat] /\ limit \in Nat
      BY CountersTyped DEF RateInv
    <2>2. ASSUME counter[k].left > 0 PROVE FALSE
      <3>1. Window - counter[k].left \in Ages /\ Window - counter[k].left <= Window - 1
        BY <2>1, <2>2, PlanBounds DEF Ages
      <3>2. accepted[k][Window - counter[k].left] > 0
        BY <2>2 DEF RateInv, WindowCounted
      <3>3. accepted[k][Window - counter[k].left] <= accepted[k][Window - 1]
        BY <3>1, PlanBounds DEF RateInv, WindowCounted
      <3>4. accepted[k][Window - counter[k].left] \in Nat
        BY <2>1, <3>1
      <3> QED
        BY <3>2, <3>3, <3>4 DEF AcceptedLately
    <2>3. CurrentCount(k) = 0
      BY <2>1, <2>2 DEF CurrentCount
    <2> QED
      BY <2>1, <2>3 DEF Refuses
  <1> QED
    BY <1>1, RateIsInv, PTL

-----------------------------------------------------------------------------
(***************************************************************************)
(* Scopes.  The hierarchy climbs in rank, and every guard asks for scopes  *)
(* of one of its route's resources that rank with what the handler does.   *)
(***************************************************************************)

LEMMA SuperiorRanksHigher ==
  ASSUME NEW a \in Actions, NEW b \in Superior[a]
  PROVE  b \in Actions /\ Rank[a] \in Nat /\ Rank[b] \in Nat /\ Rank[a] < Rank[b]
  BY DEF Actions, Superior, Rank

\* A route that is guarded by what its handler does.
Sound(route) ==
    /\ \A s \in route.guard :
        s \in Scope /\ s[1] \in route.of /\ Rank[s[2]] >= Rank[route.effect]
    /\ \E s \in route.guard : s \in Predefined
    /\ route.effect \in Actions

LEMMA GuardOfOne ==
  ASSUME NEW resources, NEW effect \in Actions, NEW r \in Resources, NEW a \in Actions,
         r \in resources, Rank[a] >= Rank[effect], <<r, a>> \in Predefined
  PROVE  Sound(On(resources, effect, {<<r, a>>}))
  BY DEF Sound, On, Scope

LEMMA GuardOfTwo ==
  ASSUME NEW resources, NEW effect \in Actions, NEW q \in Resources, NEW a \in Actions,
         NEW r \in Resources, NEW b \in Actions,
         q \in resources, Rank[a] >= Rank[effect], r \in resources, Rank[b] >= Rank[effect],
         <<q, a>> \in Predefined
  PROVE  Sound(On(resources, effect, {<<q, a>>, <<r, b>>}))
  BY DEF Sound, On, Scope

LEMMA PredefinedScopes ==
  /\ <<"api_keys", "delete">> \in Predefined
  /\ <<"api_keys", "read">> \in Predefined
  /\ <<"api_keys", "write">> \in Predefined
  /\ <<"audit", "admin">> \in Predefined
  /\ <<"audit", "read">> \in Predefined
  /\ <<"clients", "admin">> \in Predefined
  /\ <<"clients", "delete">> \in Predefined
  /\ <<"clients", "read">> \in Predefined
  /\ <<"clients", "write">> \in Predefined
  /\ <<"tiers", "delete">> \in Predefined
  /\ <<"tiers", "write">> \in Predefined
  /\ <<"usage", "read">> \in Predefined
  /\ <<"usage", "write">> \in Predefined
  /\ <<"users", "delete">> \in Predefined
  /\ <<"users", "read">> \in Predefined
  /\ <<"users", "write">> \in Predefined
  BY DEF Predefined, Actions

LEMMA EffectRanks ==
  /\ Rank["admin"] >= Rank["delete"]
  /\ Rank["admin"] >= Rank["read"]
  /\ Rank["admin"] >= Rank["write"]
  /\ Rank["delete"] >= Rank["delete"]
  /\ Rank["read"] >= Rank["read"]
  /\ Rank["write"] >= Rank["write"]
  BY DEF Rank

LEMMA RoutesSound == \A route \in Routes : Sound(route)
  <1>1. \A route \in UserRoutes : Sound(route)
    <2>1. Sound(On({"users"}, "write", {<<"users", "write">>}))
      BY PredefinedScopes, EffectRanks, GuardOfOne DEF Resources, Actions
    <2>2. Sound(On({"users"}, "read", {<<"users", "read">>}))
      BY PredefinedScopes, EffectRanks, GuardOfOne DEF Resources, Actions
    <2>3. Sound(On({"users"}, "delete", {<<"users", "delete">>, <<"users", "admin">>}))
      BY PredefinedScopes, EffectRanks, GuardOfTwo DEF Resources, Actions
    <2> QED
      BY <2>1, <2>2, <2>3 DEF UserRoutes
  <1>2. \A route \in ClientRoutes : Sound(route)
    <2>1. Sound(On({"clients"}, "write", {<<"clients", "write">>}))
      BY PredefinedScopes, EffectRanks, GuardOfOne DEF Resources, Actions
    <2>2. Sound(On({"clients"}, "read", {<<"clients", "read">>}))
      BY PredefinedScopes, EffectRanks, GuardOfOne DEF Resources, Actions
    <2>3. Sound(On({"clients"}, "delete", {<<"clients", "delete">>, <<"clients", "admin">>}))
      BY PredefinedScopes, EffectRanks, GuardOfTwo DEF Resources, Actions
    <2>4. Sound(On({"usage", "clients"}, "read", {<<"usage", "read">>, <<"clients", "admin">>}))
      BY PredefinedScopes, EffectRanks, GuardOfTwo DEF Resources, Actions
    <2>5. Sound(On({"usage", "clients"}, "write", {<<"usage", "write">>, <<"clients", "admin">>}))
      BY PredefinedScopes, EffectRanks, GuardOfTwo DEF Resources, Actions
    <2> QED
      BY <2>1, <2>2, <2>3, <2>4, <2>5 DEF ClientRoutes
  <1>3. \A route \in TierRoutes : Sound(route)
    <2>1. Sound(On({"tiers"}, "write", {<<"tiers", "write">>}))
      BY PredefinedScopes, EffectRanks, GuardOfOne DEF Resources, Actions
    <2>2. Sound(On({"tiers"}, "delete", {<<"tiers", "delete">>, <<"tiers", "admin">>}))
      BY PredefinedScopes, EffectRanks, GuardOfTwo DEF Resources, Actions
    <2> QED
      BY <2>1, <2>2 DEF TierRoutes
  <1>4. \A route \in KeyRoutes : Sound(route)
    <2>1. Sound(On({"api_keys"}, "write", {<<"api_keys", "write">>}))
      BY PredefinedScopes, EffectRanks, GuardOfOne DEF Resources, Actions
    <2>2. Sound(On({"api_keys"}, "read", {<<"api_keys", "read">>}))
      BY PredefinedScopes, EffectRanks, GuardOfOne DEF Resources, Actions
    <2>3. Sound(On({"api_keys"}, "delete", {<<"api_keys", "delete">>, <<"api_keys", "admin">>}))
      BY PredefinedScopes, EffectRanks, GuardOfTwo DEF Resources, Actions
    <2> QED
      BY <2>1, <2>2, <2>3 DEF KeyRoutes
  <1>5. \A route \in WhitelistRoutes : Sound(route)
    <2>1. Sound(On({"clients"}, "write", {<<"clients", "admin">>}))
      BY PredefinedScopes, EffectRanks, GuardOfOne DEF Resources, Actions
    <2>2. Sound(On({"clients"}, "read", {<<"clients", "read">>}))
      BY PredefinedScopes, EffectRanks, GuardOfOne DEF Resources, Actions
    <2>3. Sound(On({"clients"}, "delete", {<<"clients", "admin">>}))
      BY PredefinedScopes, EffectRanks, GuardOfOne DEF Resources, Actions
    <2> QED
      BY <2>1, <2>2, <2>3 DEF WhitelistRoutes
  <1>6. \A route \in AuditRoutes : Sound(route)
    <2>1. Sound(On({"audit"}, "read", {<<"audit", "read">>}))
      BY PredefinedScopes, EffectRanks, GuardOfOne DEF Resources, Actions
    <2>2. Sound(On({"audit"}, "write", {<<"audit", "admin">>}))
      BY PredefinedScopes, EffectRanks, GuardOfOne DEF Resources, Actions
    <2>3. Sound(On({"audit"}, "delete", {<<"audit", "admin">>}))
      BY PredefinedScopes, EffectRanks, GuardOfOne DEF Resources, Actions
    <2> QED
      BY <2>1, <2>2, <2>3 DEF AuditRoutes
  <1> QED
    BY <1>1, <1>2, <1>3, <1>4, <1>5, <1>6 DEF Routes

LEMMA HeldRanks ==
  ASSUME NEW route, Sound(route), NEW held, held \subseteq Scope, HasAnyPermission(held, route.guard)
  PROVE  \E h \in held : h[1] \in route.of /\ Rank[h[2]] >= Rank[route.effect]
  <1>1. PICK s \in route.guard : HasPermission(held, s)
    BY DEF HasAnyPermission
  <1>2. s \in Scope /\ s[1] \in route.of /\ Rank[s[2]] >= Rank[route.effect] /\ route.effect \in Actions
    BY DEF Sound
  <1>3. CASE s \in held
    BY <1>2, <1>3
  <1>4. ASSUME NEW a \in Superior[s[2]], <<s[1], a>> \in held
        PROVE  \E h \in held : h[1] \in route.of /\ Rank[h[2]] >= Rank[route.effect]
    <2>1. s[2] \in Actions
      BY <1>2 DEF Scope
    <2>2. Rank[s[2]] \in Nat /\ Rank[a] \in Nat /\ Rank[s[2]] < Rank[a]
      BY <2>1, SuperiorRanksHigher
    <2>3. Rank[route.effect] \in Nat
      BY <1>2 DEF Rank, Actions
    <2>4. Rank[a] >= Rank[route.effect]
      BY <1>2, <2>2, <2>3
    <2> QED
      BY <1>2, <1>4, <2>4
  <1> QED
    BY <1>1, <1>3, <1>4 DEF HasPermission

\* Whatever a caller holds, in the lists the code stores and in any other, a
\* guarded route opens only by a scope on one of its resources that ranks with
\* what its handler does, and opens for every admin: see OpenedByRank.
THEOREM RoutesOpenByRank == ScopesSpec => []OpenedByRank
  <1>1. OpenedByRank
    <2> SUFFICES ASSUME NEW route \in Routes
                 PROVE  /\ caller.role = "admin" => RequireAnyScope(caller, route)
                        /\ caller.role # "admin" /\ RequireAnyScope(caller, route) =>
                              \E held \in caller.permissions.scopes \cap Scope :
                                  held[1] \in route.of /\ Rank[held[2]] >= Rank[route.effect]
      BY DEF OpenedByRank
    <2>1. Sound(route)
      BY RoutesSound
    <2>2. ASSUME caller.role = "admin" PROVE RequireAnyScope(caller, route)
      <3>1. LoadedScopes(caller) = Predefined
        BY <2>2 DEF LoadedScopes, Group
      <3> QED
        BY <2>1, <3>1 DEF RequireAnyScope, HasAnyPermission, HasPermission, Sound
    <2>3. ASSUME caller.role # "admin", RequireAnyScope(caller, route)
          PROVE  \E held \in caller.permissions.scopes \cap Scope :
                    held[1] \in route.of /\ Rank[held[2]] >= Rank[route.effect]
      <3>1. LoadedScopes(caller) \subseteq caller.permissions.scopes \cap Scope
        BY <2>3 DEF LoadedScopes, ParseScopes
      <3>2. \E held \in LoadedScopes(caller) : held[1] \in route.of /\ Rank[held[2]] >= Rank[route.effect]
        BY <2>1, <2>3, <3>1, HeldRanks DEF RequireAnyScope
      <3> QED
        BY <3>1, <3>2
    <2> QED
      BY <2>2, <2>3
  <1> QED
    BY <1>1, PTL

-----------------------------------------------------------------------------
(***************************************************************************)
(* What the types of the rate limiter, the scheduler and the monitor need  *)
(* beyond their invariants.                                                *)
(***************************************************************************)

\* A counter has counted all that is in its window, so neither exceeds the
\* greatest of the limits.
LEMMA RateTypesHold == RateInv => RateTypeOK
  <1> SUFFICES ASSUME RateInv PROVE RateTypeOK
    OBVIOUS
  <1>1. ASSUME NEW k \in Counters, NEW a \in Ages PROVE accepted[k][a] \in 0..MaxPlan
    <2>1. a <= Window - 1 /\ Window - 1 \in Ages
      BY PlanBounds DEF Ages
    <2>2. accepted[k][a] <= AcceptedLately(k) /\ AcceptedLately(k) <= CurrentCount(k)
      BY <2>1 DEF RateInv, WindowCounted, AcceptedLately
    <2>3. accepted[k][a] \in Nat /\ AcceptedLately(k) \in Nat /\ CurrentCount(k) \in 0..MaxPlan
      BY <2>1, CountersTyped DEF RateInv, AcceptedLately
    <2> QED
      BY <2>2, <2>3, PlanBounds
  <1>2. \A k \in Counters : accepted[k] \in [Ages -> 0..MaxPlan]
    BY <1>1 DEF RateInv, RateTypes
  <1> QED
    BY <1>2 DEF RateInv, RateTypes, RateTypeOK

LEMMA LongestRetention == Retentions # {} => OldestAge \in Nat
  <1>1. PICK d \in Retentions : \A e \in Retentions : e <= d
    BY RetentionsAssumption
  <1> DEFINE longest == CHOOSE n \in Retentions : \A m \in Retentions : m <= n
  <1>2. longest \in Retentions
    BY <1>1, Zenon
  <1>3. OldestAge = longest + 1
    BY DEF OldestAge
  <1>4. longest \in Nat
    BY <1>2, RetentionsAssumption
  <1> HIDE DEF longest
  <1> QED
    BY <1>3, <1>4

\* A row that is written is at most a day older than the longest retention.
AgesBounded == gateway \in {"down", "up"} /\ \A r \in LogRows : Written(r) => rowAge[r] <= OldestAge

LEMMA AgesInit == SchedulerInit => AgesBounded
  BY DEF SchedulerInit, AgesBounded, Written

LEMMA AgesStep == TasksInv /\ CleaningInv /\ AgesBounded /\ [SchedulerNext]_schedulerVars => AgesBounded'
  <1> SUFFICES ASSUME TasksInv, CleaningInv, AgesBounded, [SchedulerNext]_schedulerVars PROVE AgesBounded'
    OBVIOUS
  <1>1. OldestAge \in Nat /\ Unwritten = -1 /\ Deleted = -2
    BY LongestRetention DEF TasksInv, RetentionConfig, Unwritten, Deleted
  <1>2. ASSUME gateway' \in {"down", "up"}, \A r \in LogRows : rowAge'[r] \in {rowAge[r], Deleted, 0}
        PROVE  AgesBounded'
    BY <1>1, <1>2 DEF AgesBounded, Written
  <1>3. CASE DayPasses
    <2>1. \A r \in LogRows :
            \/ rowAge'[r] = rowAge[r]
            \/ rowAge[r] \in Nat /\ rowAge[r] < OldestAge /\ rowAge'[r] = rowAge[r] + 1
      BY <1>3 DEF DayPasses, CleaningInv, Written
    <2>2. gateway' = gateway
      BY <1>3 DEF DayPasses
    <2> QED
      BY <1>1, <2>1, <2>2 DEF AgesBounded, Written
  <1>4. ASSUME NEW k \in Cleaners, CleanupOldLogs(k) \/ DeleteOldRows(k) PROVE AgesBounded'
    BY <1>2, <1>4 DEF CleanupOldLogs, DeleteOldRows, AgesBounded
  <1>5. ASSUME NEW r \in LogRows, WriteLogRow(r) PROVE AgesBounded'
    BY <1>2, <1>5 DEF WriteLogRow, AgesBounded, CleaningInv
  <1>6. CASE UNCHANGED schedulerVars
    BY <1>2, <1>6 DEF schedulerVars, AgesBounded
  <1> QED
    BY <1>2, <1>3, <1>4, <1>5, <1>6 DEF SchedulerNext, GatewayStarts, GatewayExits, SchedulerRestartRoute,
       MonthlyRestartRoute, RetentionRoute, ScheduledCleanup, CleanupRoute, AgesBounded

LEMMA SchedulerTypesHold == TasksInv /\ CleaningInv /\ AgesBounded => SchedulerTypeOK
  <1> SUFFICES ASSUME TasksInv, CleaningInv, AgesBounded PROVE SchedulerTypeOK
    OBVIOUS
  <1>1. OldestAge \in Nat
    BY LongestRetention DEF TasksInv, RetentionConfig
  <1>2. \A r \in LogRows : rowAge[r] \in {Unwritten, Deleted} \cup 0..OldestAge
    BY <1>1 DEF CleaningInv, AgesBounded, Written
  <1>3. rowAge \in [LogRows -> {Unwritten, Deleted} \cup 0..OldestAge]
    BY <1>2 DEF CleaningInv
  <1>4. /\ scheduler.running \in BOOLEAN
        /\ scheduler.monthly \in Seq(Expressions)
        /\ scheduler.cleanup \in Seq(Hours)
    BY DEF TasksInv, Agree, Scheduled, Tasks
  <1> QED
    BY <1>3, <1>4 DEF SchedulerTypeOK, TasksInv, CleaningInv, AgesBounded

LEMMA SchedulerTypes == SchedulerSpec => []SchedulerTypeOK
  <1>1. SchedulerInit => TasksInv /\ CleaningInv /\ AgesBounded
    BY TasksInvInit, AgesInit DEF SchedulerInit, CleaningInv, Idle, CleaningState, Unwritten
  <1> QED
    BY <1>1, TasksInvStep, CleaningInvStep, AgesStep, SchedulerTypesHold, PTL DEF SchedulerSpec

\* What MonitorTypes leaves out.
FaultsCounted == quotaTold \subseteq Days /\ faults \in 0..MaxFaults

LEMMA FaultsStep == MonitorTypes /\ FaultsCounted /\ [MonitorNext]_monitorVars => FaultsCounted'
  <1> SUFFICES ASSUME MonitorTypes, FaultsCounted, [MonitorNext]_monitorVars PROVE FaultsCounted'
    OBVIOUS
  <1>1. MaxFaults \in Nat
    BY MonitorAssumption
  <1>2. ASSUME UNCHANGED quotaTold, faults' = faults \/ (faults < MaxFaults /\ faults' = faults + 1)
        PROVE  FaultsCounted'
    BY <1>1, <1>2 DEF FaultsCounted
  <1>3. ASSUME NEW q \in Monitors, SendQuotaExceeded(q) PROVE FaultsCounted'
    <2>1. monitor[q].cycle \in Days
      BY <1>3 DEF SendQuotaExceeded, MonitorTypes, MonitorState, NoMonitor
    <2>2. quotaTold' = quotaTold \/ quotaTold' = quotaTold \cup {monitor[q].cycle}
      BY <1>3 DEF SendQuotaExceeded
    <2>3. faults' = faults \/ (faults < MaxFaults /\ faults' = faults + 1)
      BY <1>3 DEF SendQuotaExceeded, Enqueue
    <2> QED
      BY <1>1, <2>1, <2>2, <2>3 DEF FaultsCounted
  <1>4. ASSUME NEW q \in Monitors,
               \/ UsageWebhookMonitor(q) \/ CheckClientUsageThresholds(q) \/ CheckNotified(q)
               \/ SendUsageThreshold(q) \/ MarkAsNotified(q) \/ MonitorThrows(q)
        PROVE  FaultsCounted'
    BY <1>2, <1>4 DEF UsageWebhookMonitor, CheckClientUsageThresholds, Begin, CheckNotified,
       SendUsageThreshold, Enqueue, MarkAsNotified, MonitorThrows
  <1>5. CASE CountCall \/ ResetCycle \/ DayTurns \/ MonitorExits \/ UNCHANGED monitorVars
    BY <1>2, <1>5 DEF CountCall, ResetCycle, DayTurns, MonitorExits, monitorVars
  <1> QED
    BY <1>3, <1>4, <1>5 DEF MonitorNext

LEMMA MonitorTypesAll == MonitorSpec => []MonitorTypeOK
  <1>1. MonitorInit => FaultsCounted
    BY MonitorAssumption DEF MonitorInit, FaultsCounted
  <1>2. MonitorInv /\ FaultsCounted => MonitorTypeOK
    BY DEF MonitorInv, MonitorTypes, FaultsCounted, MonitorTypeOK, Names
  <1>3. MonitorInv => MonitorTypes
    BY DEF MonitorInv
  <1> QED
    BY <1>1, <1>2, <1>3, FaultsStep, MonitorInvInit, MonitorInvStep, PTL DEF MonitorSpec

-----------------------------------------------------------------------------
(***************************************************************************)
(* The composition.  A step of it is a step of one part that leaves the    *)
(* others alone, so the composition implements each.                       *)
(***************************************************************************)

LEMMA InitOfParts ==
  MCInit => /\ SchedulerInit /\ SessionInit /\ ScopesInit /\ AccessInit /\ RateInit
            /\ MonitorInit /\ RegistryInit /\ AuditInit /\ SigningInit
  BY DEF MCInit

LEMMA StepOfParts ==
  [MCNext]_allVars => /\ [SchedulerNext]_schedulerVars /\ [SessionNext]_sessionVars
                      /\ [ScopesNext]_scopeVars /\ [AccessNext]_accessVars /\ [RateNext]_rateVars
                      /\ [MonitorNext]_monitorVars /\ [RegistryNext]_registryVars
                      /\ [AuditNext]_auditVars /\ [SigningNext]_signingVars
  <1>1. CASE MCNext
    BY <1>1 DEF MCNext, Rest
  <1>2. CASE UNCHANGED allVars
    BY <1>2 DEF allVars
  <1> QED
    BY <1>1, <1>2

\* Beside one another the parts behave as they do alone: see MCSpec.
THEOREM PartsAreThemselves ==
    MCSpec => /\ SchedulerSpec /\ SessionSpec /\ ScopesSpec /\ AccessSpec /\ RateSpec
              /\ MonitorSpec /\ RegistrySpec /\ AuditSpec /\ SigningSpec
  BY InitOfParts, StepOfParts, PTL DEF MCSpec, SchedulerSpec, SessionSpec, ScopesSpec, AccessSpec, RateSpec,
     MonitorSpec, RegistrySpec, AuditSpec, SigningSpec

RoleKnown == caller.role \in {"user", "client", "admin"}

LEMMA RolesKnown == ScopesSpec => []RoleKnown
  <1>1. ScopesInit => RoleKnown
    BY DEF ScopesInit, Nobody, RoleKnown
  <1>2. RoleKnown /\ [ScopesNext]_scopeVars => RoleKnown'
    BY DEF RoleKnown, ScopesNext, AsUser, AsClientKey, AsAdmin, scopeVars
  <1> QED
    BY <1>1, <1>2, PTL DEF ScopesSpec

LEMMA PartKnown == MCSpec => [](part \in Parts)
  <1>1. MCInit => part \in Parts
    BY DEF MCInit
  <1>2. part \in Parts /\ [MCNext]_allVars => (part \in Parts)'
    <2>1. MCNext => UNCHANGED part
      BY DEF MCNext, Rest
    <2>2. UNCHANGED allVars => UNCHANGED part
      BY DEF allVars
    <2> QED
      BY <2>1, <2>2
  <1> QED
    BY <1>1, <1>2, PTL DEF MCSpec

\* Every variable of the part that moves keeps its type: see PartsTypeOK.
THEOREM PartsTypeCorrect == MCSpec => []PartsTypeOK
  <1>1. SessionSpec => []SessionTypeOK
    <2>1. SessionInv => SessionTypeOK
      BY DEF SessionInv
    <2> QED
      BY <2>1, SessionInvInit, SessionInvStep, PTL DEF SessionSpec
  <1>2. AccessSpec => []AccessTypeOK
    <2>1. AccessInv => AccessTypeOK
      BY DEF AccessInv
    <2> QED
      BY <2>1, AccessIsInv, PTL
  <1>3. RateSpec => []RateTypeOK
    BY RateIsInv, RateTypesHold, PTL
  <1>4. RegistrySpec => []RegistryTypeOK
    BY RegistryTypeInit, RegistryTypeStep, PTL DEF RegistrySpec
  <1>5. AuditSpec => []AuditTypeOK
    BY AuditTypeInit, AuditTypeStep, PTL DEF AuditSpec
  <1>6. SigningSpec => []SigningTypeOK
    <2>1. SigningInv => SigningTypeOK
      BY DEF SigningInv
    <2> QED
      BY <2>1, SigningInvInit, SigningInvStep, PTL DEF SigningSpec
  <1>7. part \in Parts /\ SchedulerTypeOK /\ SessionTypeOK /\ RoleKnown /\ AccessTypeOK /\ RateTypeOK
           /\ MonitorTypeOK /\ RegistryTypeOK /\ AuditTypeOK /\ SigningTypeOK
        => PartsTypeOK
    BY Zenon DEF PartsTypeOK, RoleKnown
  <1> QED
    BY PartsAreThemselves, SchedulerTypes, MonitorTypesAll, RolesKnown, PartKnown,
       <1>1, <1>2, <1>3, <1>4, <1>5, <1>6, <1>7, PTL

\* What the parts promise they promise beside one another too.
THEOREM PartsKeepTheirPromises ==
    MCSpec => /\ [](OneTaskPerJob /\ TasksAsConfigured)
              /\ [](GrantIsRecent /\ RevocationIsExact)
              /\ []OpenedByRank
              /\ [](AdmittedRecently /\ InvalidationHolds)
              /\ [](RateBound /\ WaitingHelps)
              /\ [](MarkedMeansTold /\ RepeatsBounded)
              /\ []InactiveTierUnused
              /\ [](CurrentValueRecorded /\ DeletedOnce)
              /\ []RejectedMeansRotated
              /\ DeletesOnlyExpired
  BY PartsAreThemselves, NoSecondTask, TasksFollowConfiguration, GrantsAreRecent, RevocationExact,
     RoutesOpenByRank, AdmittedRecentlyHolds, InvalidationIsLasting, RateIsBounded, WaitingIsEnough,
     MarkedThresholdsTold, ToldOncePerRequest, DeactivationSound, CurrentValueIsRecorded,
     OneDeletionLogged, RejectionMeansRotation, OnlyExpiredDeleted, PTL
=============================================================================
