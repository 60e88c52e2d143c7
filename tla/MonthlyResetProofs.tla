------------------------- MODULE MonthlyResetProofs -------------------------
(***************************************************************************)
(* Proofs about metering and the monthly reset, for any number of clients, *)
(* requests, processes and executions.                                     *)
(***************************************************************************)
EXTENDS MonthlyReset, FiniteSetTheorems, TLAPS

-----------------------------------------------------------------------------
(***************************************************************************)
(* Types.  A request that was authenticated has a client.                  *)
(***************************************************************************)

CallersKnown == \A r \in Requests : stage[r] # "idle" => caller[r] \in Clients

TypeInv == ResetTypeOK /\ CallersKnown

LEMMA TypeInit == Init => TypeInv
  BY RetriesAssumption
     DEF Init, MeterInit, TypeInv, ResetTypeOK, MeterTypeOK, CallersKnown,
         StageState, JobState, LastState

\* What the meter alone has to preserve.
MeterInv == MeterTypeOK /\ CallersKnown

LEMMA MeterTypeStep == MeterInv /\ MeterNext => MeterInv'
  <1> SUFFICES ASSUME MeterInv, NEW r \in Requests,
                      \/ \E c \in Clients : Authenticate(r, c)
                      \/ TurnAway(r)
                      \/ RequestStep(r)
               PROVE  MeterInv'
    BY DEF MeterNext
  <1> USE DEF MeterInv, MeterTypeOK, CallersKnown, StageState
  <1>1. ASSUME NEW c \in Clients, Authenticate(r, c) PROVE MeterInv'
    BY <1>1 DEF Authenticate
  <1>2. CASE TurnAway(r)
    BY <1>2 DEF TurnAway, Forget
  <1>3. CASE Refuse(r)
    BY <1>3 DEF Refuse, Forget
  <1>4. CASE Serve(r)
    BY <1>4 DEF Serve
  <1>5. CASE Count(r)
    BY <1>5 DEF Count, Forget
  <1>6. CASE CountFails(r)
    BY <1>6 DEF CountFails, Forget
  <1> QED
    BY <1>1, <1>2, <1>3, <1>4, <1>5, <1>6 DEF RequestStep

LEMMA TypeResetUsage ==
  ASSUME TypeInv, NEW c \in Clients, ResetUsage(c)
  PROVE  /\ usage' \in [Clients -> Nat]
         /\ wiped' \in [Clients -> Nat]
         /\ cycle' \in [Clients -> Nat]
  BY DEF ResetUsage, TypeInv, ResetTypeOK, MeterTypeOK

LEMMA TypeEndJobs ==
  ASSUME TypeInv, NEW over, EndJobs(over)
  PROVE  /\ jpc' \in [Jobs -> JobState]
         /\ page' \in [Jobs -> SUBSET Clients]
         /\ todo' \in [Jobs -> SUBSET Clients]
         /\ attempt' \in [Jobs -> Nat]
         /\ failures' \in [Jobs -> Nat]
         /\ began' \in [Jobs -> Nat]
  BY DEF EndJobs, TypeInv, ResetTypeOK, JobState

LEMMA TypeReport ==
  ASSUME TypeInv, NEW i \in Instances, NEW ok, NEW n, Report(i, ok, n)
  PROVE  /\ last' \in [Instances -> LastState]
         /\ alerted' \in [Instances -> BOOLEAN]
  BY DEF Report, TypeInv, ResetTypeOK, LastState

LEMMA HostType == \A j \in Jobs : j[1] \in Instances
  BY DEF Jobs

LEMMA TypeClientRoutes == TypeInv /\ ClientRoutes => TypeInv'
  <1> SUFFICES ASSUME TypeInv, NEW c \in Clients,
                      ResetRoute(c) \/ \E value \in BOOLEAN : SetActive(c, value)
               PROVE  TypeInv'
    BY DEF ClientRoutes
  <1>1. CASE ResetRoute(c)
    BY <1>1, TypeResetUsage DEF ResetRoute, requestVars, processVars, jobVars,
       TypeInv, ResetTypeOK, MeterTypeOK, CallersKnown
  <1>2. ASSUME NEW value \in BOOLEAN, SetActive(c, value) PROVE TypeInv'
    BY <1>2 DEF SetActive, requestVars, processVars, jobVars,
       TypeInv, ResetTypeOK, MeterTypeOK, CallersKnown
  <1> QED
    BY <1>1, <1>2

LEMMA TypeMonthTurns == TypeInv /\ MonthTurns => TypeInv'
  BY DEF MonthTurns, meterVars, requestVars, jobVars, TypeInv, ResetTypeOK, MeterTypeOK,
     CallersKnown

LEMMA TypeProcess == ASSUME TypeInv, NEW i \in Instances, Process(i) PROVE TypeInv'
  <1> USE DEF meterVars, requestVars, processVars, jobVars, TypeInv, ResetTypeOK,
              MeterTypeOK, CallersKnown
  <1>1. CASE StartScheduled(i)
    BY <1>1 DEF StartScheduled, StartJob, JobState
  <1>2. CASE StartManual(i)
    BY <1>2 DEF StartManual, StartJob, JobState
  <1>3. ASSUME NEW n \in Retries, Reconfigure(i, n) PROVE TypeInv'
    BY <1>3 DEF Reconfigure
  <1>4. CASE Exit(i)
    <2>1. last' \in [Instances -> LastState] /\ alerted' \in [Instances -> BOOLEAN]
      BY <1>4 DEF Exit, LastState
    <2> QED
      BY <1>4, <2>1, TypeEndJobs DEF Exit
  <1>5. CASE Restart(i)
    BY <1>5 DEF Restart
  <1> QED
    BY <1>1, <1>2, <1>3, <1>4, <1>5 DEF Process

LEMMA TypeJobStep == ASSUME TypeInv, NEW j \in Jobs, JobStep(j) PROVE TypeInv'
  <1> USE DEF meterVars, requestVars, processVars, jobVars, TypeInv, ResetTypeOK,
              MeterTypeOK, CallersKnown
  <1>1. CASE ListClients(j)
    BY <1>1 DEF ListClients, ActivePage, JobState
  <1>2. CASE ListFails(j)
    BY <1>2, HostType, TypeEndJobs, TypeReport DEF ListFails
  <1>3. ASSUME NEW c \in Clients, ResetClient(j, c) PROVE TypeInv'
    BY <1>3, TypeResetUsage DEF ResetClient, NextClient
  <1>4. ASSUME NEW c \in Clients, ResetThrows(j, c)
        PROVE  /\ usage' \in [Clients -> Nat]
               /\ wiped' \in [Clients -> Nat]
               /\ cycle' \in [Clients -> Nat]
    BY <1>4, TypeResetUsage DEF ResetThrows
  <1>5. ASSUME NEW c \in Clients, RetryClient(j, c) PROVE TypeInv'
    BY <1>4, <1>5 DEF RetryClient, ResetThrows
  <1>6. ASSUME NEW c \in Clients, GiveUpClient(j, c) PROVE TypeInv'
    BY <1>4, <1>6 DEF GiveUpClient, ResetThrows, NextClient
  <1>7. CASE FinishJob(j)
    BY <1>7, HostType, TypeEndJobs, TypeReport DEF FinishJob
  <1> QED
    BY <1>1, <1>2, <1>3, <1>5, <1>6, <1>7 DEF JobStep

LEMMA TypeStep == TypeInv /\ [Next]_vars => TypeInv'
  <1> SUFFICES ASSUME TypeInv, [Next]_vars PROVE TypeInv'
    OBVIOUS
  <1>1. CASE Meter
    BY <1>1, MeterTypeStep
       DEF Meter, MeterInv, processVars, jobVars, TypeInv, ResetTypeOK
  <1>2. CASE UNCHANGED vars
    BY <1>2 DEF vars, meterVars, requestVars, processVars, jobVars, TypeInv,
       ResetTypeOK, MeterTypeOK, CallersKnown
  <1> QED
    BY <1>1, <1>2, TypeClientRoutes, TypeMonthTurns, TypeProcess, TypeJobStep DEF Next

LEMMA TypeInvariant == Spec => []TypeInv
  BY TypeInit, TypeStep, PTL DEF Spec

\* The variables of the meter, the processes and the executions keep their types.
THEOREM BillingTypeCorrect == Spec => []ResetTypeOK
  BY TypeInvariant, PTL DEF TypeInv

-----------------------------------------------------------------------------
(***************************************************************************)
(* The account of calls and the bound on the overshoot.  A step of the     *)
(* meter moves one request of one client between the terms of the sums; a  *)
(* reset moves usage to wiped; every other step leaves them alone.         *)
(***************************************************************************)

AccountInv == UsageAccounts /\ OvershootBounded

AccountVars == <<usage, requestVars, served, lost, wiped>>

LEMMA CountingFinite ==
  ASSUME NEW c \in Clients
  PROVE  /\ IsFiniteSet(Counting(c)) /\ Cardinality(Counting(c)) \in Nat
         /\ IsFiniteSet(Admitted(c)) /\ Cardinality(Admitted(c)) \in Nat
  BY RequestsAssumption, FS_Subset, FS_CardinalityType DEF Counting, Admitted

\* A request that ends leaves the two sets of its client.
LEMMA ForgetRemoves ==
  ASSUME MeterInv, NEW r \in Requests, Forget(r), NEW c \in Clients
  PROVE  /\ Counting(c)' = Counting(c) \ {r}
         /\ Admitted(c)' = Admitted(c) \ {r}
  <1>1. \A q \in Requests \ {r} :
           stage'[q] = stage[q] /\ caller'[q] = caller[q] /\ snapshot'[q] = snapshot[q]
    BY DEF Forget, MeterInv, MeterTypeOK
  <1>2. caller'[r] = NoClient /\ NoClient # c
    BY NoClientAssumption DEF Forget, MeterInv, MeterTypeOK
  <1> QED
    BY <1>1, <1>2 DEF Counting, Admitted

LEMMA AuthenticateAdmits ==
  ASSUME MeterInv, NEW r \in Requests, NEW a \in Clients, Authenticate(r, a), NEW c \in Clients
  PROVE  /\ Counting(c)' = Counting(c)
         /\ r \notin Admitted(c)
         /\ Admitted(c)' =
              IF c = a /\ usage[a] < MonthlyLimit THEN Admitted(c) \cup {r} ELSE Admitted(c)
  <1>1. \A q \in Requests \ {r} :
           stage'[q] = stage[q] /\ caller'[q] = caller[q] /\ snapshot'[q] = snapshot[q]
    BY DEF Authenticate, MeterInv, MeterTypeOK
  <1>2. /\ stage[r] = "idle" /\ stage'[r] = "open"
        /\ caller'[r] = a /\ snapshot'[r] = usage[a]
    BY DEF Authenticate, MeterInv, MeterTypeOK
  <1> QED
    BY <1>1, <1>2 DEF Counting, Admitted

LEMMA ServeMoves ==
  ASSUME MeterInv, NEW r \in Requests, Serve(r), NEW c \in Clients
  PROVE  /\ Admitted(c)' = Admitted(c)
         /\ r \notin Counting(c)
         /\ Counting(c)' = IF c = caller[r] THEN Counting(c) \cup {r} ELSE Counting(c)
  <1>1. \A q \in Requests : q # r => stage'[q] = stage[q]
    BY DEF Serve, MeterInv, MeterTypeOK
  <1>2. /\ stage[r] = "open" /\ stage'[r] = "counting" /\ snapshot[r] < MonthlyLimit
        /\ caller' = caller /\ snapshot' = snapshot
    BY DEF Serve, MeterInv, MeterTypeOK
  <1> QED
    BY <1>1, <1>2 DEF Counting, Admitted

LEMMA AccountsServe ==
  ASSUME MeterInv, UsageAccounts, NEW r \in Requests, Serve(r)
  PROVE  UsageAccounts'
  <1> SUFFICES ASSUME NEW c \in Clients
               PROVE  usage'[c] + Cardinality(Counting(c)') + lost'[c] + wiped'[c] = served'[c]
    BY DEF UsageAccounts, Counting
  <1>1. usage[c] + Cardinality(Counting(c)) + lost[c] + wiped[c] = served[c]
    BY DEF UsageAccounts
  <1>2. /\ usage' = usage /\ lost' = lost /\ wiped' = wiped
        /\ served'[c] = IF c = caller[r] THEN served[c] + 1 ELSE served[c]
    BY DEF Serve, MeterInv, MeterTypeOK
  <1>3. Cardinality(Counting(c)') =
          IF c = caller[r] THEN Cardinality(Counting(c)) + 1 ELSE Cardinality(Counting(c))
    BY ServeMoves, CountingFinite, FS_AddElement
  <1>4. /\ usage[c] \in Nat /\ lost[c] \in Nat /\ wiped[c] \in Nat /\ served[c] \in Nat
        /\ Cardinality(Counting(c)) \in Nat
    BY CountingFinite DEF MeterInv, MeterTypeOK
  <1> QED
    BY <1>1, <1>2, <1>3, <1>4

\* The increment of a call is executed or lost.
LEMMA AccountsCount ==
  ASSUME MeterInv, UsageAccounts, NEW r \in Requests, Count(r) \/ CountFails(r)
  PROVE  UsageAccounts'
  <1> SUFFICES ASSUME NEW c \in Clients
               PROVE  usage'[c] + Cardinality(Counting(c)') + lost'[c] + wiped'[c] = served'[c]
    BY DEF UsageAccounts, Counting
  <1>1. usage[c] + Cardinality(Counting(c)) + lost[c] + wiped[c] = served[c]
    BY DEF UsageAccounts
  <1>2. Forget(r) /\ wiped' = wiped /\ served' = served /\ stage[r] = "counting"
    BY DEF Count, CountFails
  <1>3. usage'[c] + lost'[c] =
          IF c = caller[r] THEN usage[c] + lost[c] + 1 ELSE usage[c] + lost[c]
    <2>1. /\ usage \in [Clients -> Nat] /\ lost \in [Clients -> Nat]
          /\ caller[r] \in Clients
      BY <1>2 DEF MeterInv, MeterTypeOK, CallersKnown
    <2>2. CASE Count(r)
      BY <2>1, <2>2 DEF Count
    <2>3. CASE CountFails(r)
      BY <2>1, <2>3 DEF CountFails
    <2> QED
      BY <2>2, <2>3
  <1>4. r \in Counting(c) <=> c = caller[r]
    BY <1>2 DEF Counting
  <1>5. Cardinality(Counting(c)') =
          IF c = caller[r] THEN Cardinality(Counting(c)) - 1 ELSE Cardinality(Counting(c))
    BY <1>2, <1>4, ForgetRemoves, CountingFinite, FS_RemoveElement
  <1>6. /\ usage[c] \in Nat /\ lost[c] \in Nat /\ wiped[c] \in Nat /\ served[c] \in Nat
        /\ usage'[c] \in Nat /\ lost'[c] \in Nat
        /\ Cardinality(Counting(c)) \in Nat
    BY MeterTypeStep, CountingFinite DEF MeterInv, MeterTypeOK, MeterNext, RequestStep
  <1> QED
    BY <1>1, <1>2, <1>3, <1>5, <1>6

\* A step that ends a request that was not served, or begins one.
LEMMA AccountsOther ==
  ASSUME MeterInv, UsageAccounts, NEW r \in Requests,
         TurnAway(r) \/ Refuse(r) \/ \E a \in Clients : Authenticate(r, a)
  PROVE  UsageAccounts'
  <1>1. /\ usage' = usage /\ lost' = lost /\ wiped' = wiped /\ served' = served
    BY DEF TurnAway, Refuse, Authenticate
  <1>2. ASSUME NEW c \in Clients PROVE Counting(c)' = Counting(c)
    <2>1. CASE TurnAway(r) \/ Refuse(r)
      <3>1. Forget(r) /\ r \notin Counting(c)
        BY <2>1 DEF TurnAway, Refuse, Counting
      <3> QED
        BY <3>1, ForgetRemoves
    <2> QED
      BY <2>1, AuthenticateAdmits
  <1> QED
    BY <1>1, <1>2 DEF UsageAccounts

LEMMA AccountsMeter == MeterInv /\ UsageAccounts /\ MeterNext => UsageAccounts'
  BY AccountsServe, AccountsCount, AccountsOther DEF MeterNext, RequestStep

\* Authentication admits a request only while the counter is below the limit,
\* with at most the other requests admitted before it.
LEMMA OvershootAuthenticate ==
  ASSUME MeterInv, OvershootBounded, NEW r \in Requests, NEW a \in Clients,
         Authenticate(r, a)
  PROVE  OvershootBounded'
  <1> SUFFICES ASSUME NEW c \in Clients
               PROVE  usage'[c] + Cardinality(Admitted(c)')
                        < MonthlyLimit + Cardinality(Requests)
    BY DEF OvershootBounded, Admitted
  <1>1. usage' = usage
    BY DEF Authenticate
  <1>2. usage[c] + Cardinality(Admitted(c)) < MonthlyLimit + Cardinality(Requests)
    BY DEF OvershootBounded
  <1>3. usage[c] \in Nat /\ Cardinality(Admitted(c)) \in Nat /\ Cardinality(Requests) \in Nat
    BY CountingFinite, RequestsAssumption, FS_CardinalityType DEF MeterInv, MeterTypeOK
  <1>4. CASE c = a /\ usage[a] < MonthlyLimit
    <2>1. Admitted(c)' = Admitted(c) \cup {r} /\ r \notin Admitted(c)
      BY <1>4, AuthenticateAdmits
    <2>2. Cardinality(Admitted(c)') \in Nat
          /\ Cardinality(Admitted(c)') <= Cardinality(Requests)
      <3>1. Admitted(c)' \subseteq Requests
        BY DEF Admitted
      <3> QED
        BY <3>1, RequestsAssumption, FS_Subset, FS_CardinalityType
    <2> QED
      BY <1>1, <1>3, <1>4, <2>2, LimitAssumption
  <1>5. CASE ~(c = a /\ usage[a] < MonthlyLimit)
    BY <1>1, <1>2, <1>5, AuthenticateAdmits
  <1> QED
    BY <1>4, <1>5

\* No other step of the meter increases the sum.
LEMMA OvershootOther ==
  ASSUME MeterInv, OvershootBounded, NEW r \in Requests, TurnAway(r) \/ RequestStep(r)
  PROVE  OvershootBounded'
  <1> SUFFICES ASSUME NEW c \in Clients
               PROVE  usage'[c] + Cardinality(Admitted(c)')
                        < MonthlyLimit + Cardinality(Requests)
    BY DEF OvershootBounded, Admitted
  <1>1. usage[c] + Cardinality(Admitted(c)) < MonthlyLimit + Cardinality(Requests)
    BY DEF OvershootBounded
  <1>2. /\ usage \in [Clients -> Nat] /\ usage[c] \in Nat
        /\ Cardinality(Admitted(c)) \in Nat /\ Cardinality(Requests) \in Nat
        /\ MonthlyLimit \in Nat
    BY CountingFinite, RequestsAssumption, LimitAssumption, FS_CardinalityType
       DEF MeterInv, MeterTypeOK
  <1>3. CASE Serve(r)
    BY <1>1, <1>3, ServeMoves DEF Serve
  <1>4. CASE TurnAway(r) \/ Refuse(r) \/ CountFails(r)
    <2>1. Forget(r) /\ usage' = usage
      BY <1>4 DEF TurnAway, Refuse, CountFails
    <2>2. /\ Cardinality(Admitted(c)') \in Nat
          /\ Cardinality(Admitted(c)') <= Cardinality(Admitted(c))
      BY <2>1, ForgetRemoves, CountingFinite, FS_Subset, FS_CardinalityType
    <2> QED
      BY <1>1, <1>2, <2>1, <2>2
  <1>5. CASE Count(r)
    <2>1. /\ Forget(r) /\ stage[r] = "counting"
          /\ usage'[c] = IF c = caller[r] THEN usage[c] + 1 ELSE usage[c]
      BY <1>2, <1>5 DEF Count
    <2>2. c = caller[r] => r \in Admitted(c)
      BY <2>1 DEF Admitted
    <2>3. c # caller[r] => r \notin Admitted(c)
      BY DEF Admitted
    <2>4. Cardinality(Admitted(c)') =
            IF c = caller[r] THEN Cardinality(Admitted(c)) - 1 ELSE Cardinality(Admitted(c))
      BY <2>1, <2>2, <2>3, ForgetRemoves, CountingFinite, FS_RemoveElement
    <2> QED
      BY <1>1, <1>2, <2>1, <2>4
  <1> QED
    BY <1>3, <1>4, <1>5 DEF RequestStep

LEMMA AccountMeter == MeterInv /\ AccountInv /\ MeterNext => AccountInv'
  BY AccountsMeter, OvershootAuthenticate, OvershootOther DEF AccountInv, MeterNext

\* A reset, by a route or by an execution, whether or not it is reported.
LEMMA AccountReset ==
  ASSUME TypeInv, AccountInv, NEW c \in Clients, ResetUsage(c),
         UNCHANGED <<requestVars, served, lost>>
  PROVE  AccountInv'
  <1>1. /\ stage' = stage /\ caller' = caller /\ snapshot' = snapshot
        /\ served' = served /\ lost' = lost
    BY DEF requestVars
  <1>2. \A d \in Clients : Counting(d)' = Counting(d) /\ Admitted(d)' = Admitted(d)
    BY <1>1 DEF Counting, Admitted
  <1> SUFFICES ASSUME NEW d \in Clients
               PROVE  /\ usage'[d] + Cardinality(Counting(d)) + lost[d] + wiped'[d] = served[d]
                      /\ usage'[d] + Cardinality(Admitted(d))
                           < MonthlyLimit + Cardinality(Requests)
    BY <1>1, <1>2 DEF AccountInv, UsageAccounts, OvershootBounded
  <1>3. /\ usage[d] + Cardinality(Counting(d)) + lost[d] + wiped[d] = served[d]
        /\ usage[d] + Cardinality(Admitted(d)) < MonthlyLimit + Cardinality(Requests)
    BY DEF AccountInv, UsageAccounts, OvershootBounded
  <1>4. /\ usage'[d] = IF d = c THEN 0 ELSE usage[d]
        /\ wiped'[d] = IF d = c THEN wiped[d] + usage[d] ELSE wiped[d]
    BY DEF ResetUsage, TypeInv, ResetTypeOK, MeterTypeOK
  <1>5. /\ usage[d] \in Nat /\ lost[d] \in Nat /\ wiped[d] \in Nat /\ served[d] \in Nat
        /\ Cardinality(Counting(d)) \in Nat /\ Cardinality(Admitted(d)) \in Nat
        /\ MonthlyLimit \in Nat /\ Cardinality(Requests) \in Nat
    BY CountingFinite, RequestsAssumption, LimitAssumption, FS_CardinalityType
       DEF TypeInv, ResetTypeOK, MeterTypeOK
  <1> QED
    BY <1>3, <1>4, <1>5

LEMMA AccountStill == AccountInv /\ UNCHANGED AccountVars => AccountInv'
  BY DEF AccountVars, requestVars, AccountInv, UsageAccounts, OvershootBounded,
     Counting, Admitted

\* A step of the reset side resets one client or leaves the account alone.
LEMMA ResetOrStill ==
  ASSUME ClientRoutes \/ MonthTurns \/ (\E i \in Instances : Process(i))
           \/ (\E j \in Jobs : JobStep(j)) \/ UNCHANGED vars
  PROVE  \/ UNCHANGED AccountVars
         \/ \E c \in Clients : ResetUsage(c) /\ UNCHANGED <<requestVars, served, lost>>
  <1> USE DEF AccountVars, meterVars, requestVars
  <1>1. CASE ClientRoutes
    BY <1>1 DEF ClientRoutes, ResetRoute, SetActive
  <1>2. CASE MonthTurns \/ UNCHANGED vars
    BY <1>2 DEF MonthTurns, vars
  <1>3. ASSUME NEW i \in Instances, Process(i) PROVE UNCHANGED AccountVars
    BY <1>3 DEF Process, StartScheduled, StartManual, Reconfigure, Exit, Restart
  <1>4. ASSUME NEW j \in Jobs, JobStep(j)
        PROVE  \/ UNCHANGED AccountVars
               \/ \E c \in Clients : ResetUsage(c) /\ UNCHANGED <<requestVars, served, lost>>
    BY <1>4 DEF JobStep, ListClients, ListFails, ResetClient, RetryClient, GiveUpClient,
       ResetThrows, FinishJob
  <1> QED
    BY <1>1, <1>2, <1>3, <1>4

LEMMA AccountInit == Init => AccountInv
  <1> SUFFICES ASSUME Init, NEW c \in Clients
               PROVE  /\ usage[c] + Cardinality(Counting(c)) + lost[c] + wiped[c] = served[c]
                      /\ usage[c] + Cardinality(Admitted(c))
                           < MonthlyLimit + Cardinality(Requests)
    BY DEF AccountInv, UsageAccounts, OvershootBounded
  <1>1. Counting(c) = {} /\ Admitted(c) = {}
    BY DEF Init, MeterInit, Counting, Admitted
  <1>2. usage[c] = 0 /\ lost[c] = 0 /\ wiped[c] = 0 /\ served[c] = 0
    BY DEF Init, MeterInit
  <1> QED
    BY <1>1, <1>2, FS_EmptySet, LimitAssumption, RequestsAssumption, FS_CardinalityType

LEMMA AccountStep == TypeInv /\ AccountInv /\ [Next]_vars => AccountInv'
  BY AccountMeter, AccountReset, AccountStill, ResetOrStill
     DEF Next, Meter, TypeInv, ResetTypeOK, MeterInv

\* However requests, resets, retries and failures interleave, every call let
\* through is counted, on its way, lost to a failed statement or forgotten by a
\* reset.
THEOREM CallsAreAccounted == Spec => []UsageAccounts
  BY TypeInvariant, AccountInit, AccountStep, PTL DEF Spec, AccountInv

\* With n requests in progress at most, a client passes its monthly limit by at
\* most n - 1 calls between two resets.
THEOREM OvershootIsBounded == Spec => []OvershootBounded
  BY TypeInvariant, AccountInit, AccountStep, PTL DEF Spec, AccountInv

-----------------------------------------------------------------------------
(***************************************************************************)
(* What an execution reports.  Another execution or a route can only move  *)
(* the cycle of a client to the current month, which no execution's        *)
(* listing is later than.                                                  *)
(***************************************************************************)

BeganBefore == \A j \in Jobs : began[j] <= month

ProgressInv == BeganBefore /\ ProgressIsReal

\* Cycles only move forward to the present month.
CyclesAdvance == \A c \in Clients : cycle'[c] \in {cycle[c], month}

\* A step that leaves executions alone, or starts one.
JobsAside ==
    /\ CyclesAdvance
    /\ month' \in Nat /\ month' >= month
    /\ UNCHANGED <<page, todo, failures, began>>
    /\ \A j \in Jobs : jpc'[j] = jpc[j] \/ (jpc[j] = "idle" /\ jpc'[j] = "list")

LEMMA ResetAdvances ==
  ASSUME TypeInv, NEW c \in Clients, ResetUsage(c)
  PROVE  cycle'[c] = month /\ CyclesAdvance
  BY DEF ResetUsage, CyclesAdvance, TypeInv, ResetTypeOK

LEMMA ProgressAside == TypeInv /\ ProgressInv /\ JobsAside => ProgressInv'
  <1> SUFFICES ASSUME TypeInv, ProgressInv, JobsAside, NEW j \in Jobs
               PROVE  /\ began'[j] <= month'
                      /\ jpc'[j] = "reset" /\ failures'[j] = 0 =>
                           \A c \in page'[j] \ todo'[j] : cycle'[c] >= began'[j]
    BY DEF ProgressInv, BeganBefore, ProgressIsReal
  <1>1. /\ began[j] \in Nat /\ month \in Nat /\ page[j] \subseteq Clients
        /\ \A c \in Clients : cycle[c] \in Nat
    BY DEF TypeInv, ResetTypeOK
  <1>2. /\ began[j] <= month
        /\ jpc[j] = "reset" /\ failures[j] = 0 =>
             \A c \in page[j] \ todo[j] : cycle[c] >= began[j]
    BY DEF ProgressInv, BeganBefore, ProgressIsReal
  <1> QED
    BY <1>1, <1>2 DEF JobsAside, CyclesAdvance

\* The steps outside the executions.
LEMMA OutsideIsAside ==
  ASSUME TypeInv,
         \/ Meter \/ ClientRoutes \/ MonthTurns \/ UNCHANGED vars
         \/ \E i \in Instances : StartScheduled(i) \/ StartManual(i) \/ Restart(i)
                                   \/ \E n \in Retries : Reconfigure(i, n)
  PROVE  JobsAside
  <1> USE DEF JobsAside, CyclesAdvance, jobVars, processVars
  <1>0. /\ month \in Nat /\ month + 1 \in Nat /\ month + 1 >= month /\ month >= month
        /\ cycle' = cycle => CyclesAdvance
    BY DEF TypeInv, ResetTypeOK
  <1>1. CASE Meter \/ MonthTurns \/ UNCHANGED vars
    <2>1. /\ cycle' = cycle /\ jpc' = jpc
          /\ UNCHANGED <<page, todo, failures, began>>
          /\ month' \in {month, month + 1}
      BY <1>1 DEF Meter, MonthTurns, vars
    <2> QED
      BY <1>0, <2>1
  <1>2. CASE ClientRoutes
    <2>1. /\ CyclesAdvance
          /\ UNCHANGED <<page, todo, failures, began>>
          /\ month' = month /\ jpc' = jpc
      BY <1>0, <1>2, ResetAdvances DEF ClientRoutes, ResetRoute, SetActive
    <2> QED
      BY <1>0, <2>1
  <1>3. ASSUME NEW i \in Instances,
               StartScheduled(i) \/ StartManual(i) \/ Restart(i)
                 \/ \E n \in Retries : Reconfigure(i, n)
        PROVE  JobsAside
    <2>1. CASE StartScheduled(i) \/ StartManual(i)
      <3>1. PICK j \in Jobs : StartJob(j)
        BY <2>1 DEF StartScheduled, StartManual, Jobs
      <3>2. \A k \in Jobs : jpc'[k] = jpc[k] \/ (jpc[k] = "idle" /\ jpc'[k] = "list")
        BY <3>1 DEF StartJob, TypeInv, ResetTypeOK
      <3>3. month' = month /\ cycle' = cycle
        BY <2>1 DEF StartScheduled, StartManual
      <3>4. UNCHANGED <<page, todo, failures, began>>
        BY <3>1 DEF StartJob
      <3> QED
        BY <1>0, <3>2, <3>3, <3>4
    <2>2. CASE Restart(i) \/ \E n \in Retries : Reconfigure(i, n)
      <3>1. /\ month' = month /\ cycle' = cycle /\ jpc' = jpc
            /\ UNCHANGED <<page, todo, failures, began>>
        BY <2>2 DEF Restart, Reconfigure
      <3> QED
        BY <1>0, <3>1
    <2> QED
      BY <1>3, <2>1, <2>2
  <1> QED
    BY <1>1, <1>2, <1>3

\* Executions that end make no claim any more.
LEMMA ProgressEnd ==
  ASSUME TypeInv, ProgressInv, NEW over, EndJobs(over), UNCHANGED <<month, cycle>>
  PROVE  ProgressInv'
  <1> SUFFICES ASSUME NEW j \in Jobs
               PROVE  /\ began'[j] <= month'
                      /\ jpc'[j] = "reset" /\ failures'[j] = 0 =>
                           \A c \in page'[j] \ todo'[j] : cycle'[c] >= began'[j]
    BY DEF ProgressInv, BeganBefore, ProgressIsReal
  <1>1. CASE j \in over
    BY <1>1 DEF EndJobs, TypeInv, ResetTypeOK
  <1>2. CASE j \notin over
    <2>1. /\ jpc'[j] = jpc[j] /\ page'[j] = page[j] /\ todo'[j] = todo[j]
          /\ failures'[j] = failures[j] /\ began'[j] = began[j]
      BY <1>2 DEF EndJobs
    <2> QED
      BY <2>1 DEF ProgressInv, BeganBefore, ProgressIsReal
  <1> QED
    BY <1>1, <1>2

LEMMA ProgressList ==
  ASSUME TypeInv, ProgressInv, NEW k \in Jobs, ListClients(k)
  PROVE  ProgressInv'
  <1> SUFFICES ASSUME NEW j \in Jobs
               PROVE  /\ began'[j] <= month'
                      /\ jpc'[j] = "reset" /\ failures'[j] = 0 =>
                           \A c \in page'[j] \ todo'[j] : cycle'[c] >= began'[j]
    BY DEF ProgressInv, BeganBefore, ProgressIsReal
  <1>1. CASE j = k
    <2>1. began'[j] = month /\ month' = month /\ page'[j] = todo'[j] /\ month \in Nat
      BY <1>1 DEF ListClients, TypeInv, ResetTypeOK
    <2> QED
      BY <2>1
  <1>2. CASE j # k
    <2>1. /\ jpc'[j] = jpc[j] /\ page'[j] = page[j] /\ todo'[j] = todo[j]
          /\ failures' = failures /\ began'[j] = began[j]
          /\ month' = month /\ cycle' = cycle
      BY <1>2 DEF ListClients, TypeInv, ResetTypeOK
    <2> QED
      BY <2>1 DEF ProgressInv, BeganBefore, ProgressIsReal
  <1> QED
    BY <1>1, <1>2

\* At a client: it is reset and passed, tried again, or passed as a failure.
LEMMA ProgressClient ==
  ASSUME TypeInv, ProgressInv, NEW k \in Jobs, NEW d \in Clients,
         ResetClient(k, d) \/ RetryClient(k, d) \/ GiveUpClient(k, d)
  PROVE  ProgressInv'
  <1> SUFFICES ASSUME NEW j \in Jobs
               PROVE  /\ began'[j] <= month'
                      /\ jpc'[j] = "reset" /\ failures'[j] = 0 =>
                           \A c \in page'[j] \ todo'[j] : cycle'[c] >= began'[j]
    BY DEF ProgressInv, BeganBefore, ProgressIsReal
  <1>1. /\ began[j] <= month
        /\ jpc[j] = "reset" /\ failures[j] = 0 =>
             \A c \in page[j] \ todo[j] : cycle[c] >= began[j]
    BY DEF ProgressInv, BeganBefore, ProgressIsReal
  <1>2. /\ began[j] \in Nat /\ month \in Nat /\ page[j] \subseteq Clients
        /\ failures \in [Jobs -> Nat] /\ todo \in [Jobs -> SUBSET Clients]
        /\ \A c \in Clients : cycle[c] \in Nat
    BY DEF TypeInv, ResetTypeOK
  <1>3. /\ jpc' = jpc /\ page' = page /\ began' = began /\ month' = month
        /\ CyclesAdvance
    BY ResetAdvances DEF ResetClient, RetryClient, GiveUpClient, ResetThrows, processVars,
       CyclesAdvance
  <1>4. CASE ResetClient(k, d)
    <2>1. /\ failures' = failures /\ cycle'[d] = month
          /\ todo'[j] = IF j = k THEN todo[j] \ {d} ELSE todo[j]
      BY <1>2, <1>4, ResetAdvances DEF ResetClient, NextClient
    <2> QED
      BY <1>1, <1>2, <1>3, <2>1 DEF CyclesAdvance
  <1>5. CASE RetryClient(k, d)
    BY <1>1, <1>2, <1>3, <1>5 DEF RetryClient, CyclesAdvance
  <1>6. CASE GiveUpClient(k, d)
    <2>1. /\ failures'[j] = IF j = k THEN failures[j] + 1 ELSE failures[j]
          /\ todo'[j] = IF j = k THEN todo[j] \ {d} ELSE todo[j]
          /\ failures[j] \in Nat
      BY <1>2, <1>6 DEF GiveUpClient, NextClient
    <2> QED
      BY <1>1, <1>2, <1>3, <2>1 DEF CyclesAdvance
  <1> QED
    BY <1>4, <1>5, <1>6

LEMMA ProgressStep == TypeInv /\ ProgressInv /\ [Next]_vars => ProgressInv'
  <1> SUFFICES ASSUME TypeInv, ProgressInv, [Next]_vars PROVE ProgressInv'
    OBVIOUS
  <1>1. ASSUME NEW j \in Jobs, JobStep(j) PROVE ProgressInv'
    BY <1>1, ProgressList, ProgressClient, ProgressEnd DEF JobStep, ListFails, FinishJob
  <1>2. ASSUME NEW i \in Instances, Process(i) PROVE ProgressInv'
    BY <1>2, ProgressEnd, OutsideIsAside, ProgressAside DEF Process, Exit
  <1> QED
    BY <1>1, <1>2, OutsideIsAside, ProgressAside DEF Next

LEMMA ProgressInit == Init => ProgressInv
  BY DEF Init, ProgressInv, BeganBefore, ProgressIsReal

\* As long as an execution has counted no failure, the clients it has passed
\* were reset since its listing.
THEOREM ProgressCorrect == Spec => []ProgressIsReal
  BY TypeInvariant, ProgressInit, ProgressStep, PTL DEF Spec, ProgressInv

\* An execution leaves the loop by FinishJob, or with its process, which then
\* has no last execution.
LEMMA SuccessStep ==
  ASSUME TypeInv, ProgressInv, [Next]_vars, NEW j \in Jobs,
         jpc[j] = "reset", jpc'[j] = "idle", last'[j[1]] = "success"
  PROVE  FinishJob(j) /\ failures[j] = 0
  <1>1. ~JobsAside
    BY DEF JobsAside
  <1>2. ASSUME NEW i \in Instances, Exit(i) PROVE FALSE
    <2>1. j[1] # i
      BY <1>2 DEF Exit, TypeInv, ResetTypeOK
    <2>2. j \notin {i} \X {"cron", "manual"}
      BY <2>1
    <2> QED
      BY <1>2, <2>2 DEF Exit, EndJobs
  <1>3. PICK k \in Jobs : JobStep(k)
    BY <1>1, <1>2, OutsideIsAside DEF Next, Process
  <1>4. ASSUME k # j PROVE FALSE
    <2>1. jpc'[j] = jpc[j]
      BY <1>3, <1>4 DEF JobStep, ListClients, ListFails, ResetClient, RetryClient,
         GiveUpClient, ResetThrows, FinishJob, EndJobs, TypeInv, ResetTypeOK
    <2> QED
      BY <2>1
  <1>5. FinishJob(j)
    BY <1>3, <1>4 DEF JobStep, ListClients, ListFails, ResetClient, RetryClient,
       GiveUpClient, ResetThrows
  <1>6. failures[j] = 0
    BY <1>5, HostType DEF FinishJob, Report, TypeInv, ResetTypeOK
  <1> QED
    BY <1>5, <1>6

\* An execution that reports success has reset every client it listed.
THEOREM SuccessCorrect == Spec => SuccessIsReal
  <1>1. TypeInv /\ ProgressInv /\ [Next]_vars =>
          \A j \in Jobs :
            jpc[j] = "reset" /\ jpc'[j] = "idle" /\ last'[j[1]] = "success" =>
              \A c \in page[j] : cycle[c] >= began[j]
    BY SuccessStep DEF FinishJob, ProgressInv, ProgressIsReal
  <1> QED
    BY <1>1, TypeInvariant, ProgressInit, ProgressStep, PTL DEF Spec, SuccessIsReal

-----------------------------------------------------------------------------
(***************************************************************************)
(* Where one page is enough: an execution misses active clients only for   *)
(* want of a page that holds them, or because they changed meanwhile.      *)
(***************************************************************************)

PageHoldsAll == Cardinality(Clients) <= PageLimit /\ ~MayDeactivate

PageIsWhole ==
    \A j \in Jobs : jpc[j] = "reset" => \A c \in Clients : active[c] => c \in page[j]

LEMMA OnePage ==
  ASSUME Cardinality(Clients) <= PageLimit, NEW c \in Clients, active[c]
  PROVE  c \in ActivePage
  <1> DEFINE newer == {d \in Clients : active[d] /\ d > c}
  <1>1. IsFiniteSet(Clients) /\ c \in Nat
    BY ClientsAssumption
  <1>2. /\ IsFiniteSet(Clients \ {c}) /\ Cardinality(Clients \ {c}) = Cardinality(Clients) - 1
        /\ Cardinality(Clients) \in Nat
    BY <1>1, FS_RemoveElement, FS_CardinalityType
  <1>3. newer \subseteq Clients \ {c}
    BY <1>1
  <1>4. Cardinality(newer) <= Cardinality(Clients \ {c}) /\ Cardinality(newer) \in Nat
    BY <1>2, <1>3, FS_Subset, FS_CardinalityType
  <1> HIDE DEF newer
  <1>5. Cardinality(newer) < PageLimit
    BY <1>2, <1>4, PageLimitAssumption
  <1> QED
    BY <1>5 DEF ActivePage, newer

LEMMA PageStep ==
  ASSUME PageHoldsAll, TypeInv, PageIsWhole, [Next]_vars
  PROVE  PageIsWhole'
  <1>1. active' = active
    <2>1. ~MayDeactivate
      BY DEF PageHoldsAll
    <2>2. CASE Meter
      BY <2>2 DEF Meter, MeterNext, RequestStep, Authenticate, TurnAway, Refuse, Serve, Count, CountFails
    <2>3. CASE ClientRoutes \/ MonthTurns \/ UNCHANGED vars
      BY <2>1, <2>3 DEF ClientRoutes, ResetRoute, SetActive, MonthTurns, vars, meterVars
    <2>4. ASSUME NEW i \in Instances, Process(i) PROVE active' = active
      BY <2>4 DEF Process, StartScheduled, StartManual, Reconfigure, Exit, Restart, meterVars
    <2>5. ASSUME NEW j \in Jobs, JobStep(j) PROVE active' = active
      BY <2>5 DEF JobStep, ListClients, ListFails, ResetClient, RetryClient, GiveUpClient, ResetThrows,
         FinishJob, meterVars
    <2> QED
      BY <2>2, <2>3, <2>4, <2>5 DEF Next
  <1>2. ASSUME JobsAside PROVE PageIsWhole'
    BY <1>1, <1>2 DEF JobsAside, PageIsWhole
  <1>3. ASSUME NEW over, EndJobs(over) PROVE PageIsWhole'
    BY <1>1, <1>3 DEF EndJobs, PageIsWhole
  <1>4. ASSUME NEW k \in Jobs, ListClients(k) PROVE PageIsWhole'
    <2>1. /\ jpc' = [jpc EXCEPT ![k] = "reset"] /\ page' = [page EXCEPT ![k] = ActivePage]
          /\ jpc \in [Jobs -> JobState] /\ page \in [Jobs -> SUBSET Clients]
      BY <1>4 DEF ListClients, TypeInv, ResetTypeOK
    <2> QED
      BY <1>1, <2>1, OnePage DEF PageHoldsAll, PageIsWhole
  <1>5. ASSUME NEW k \in Jobs, NEW c \in Clients,
               ResetClient(k, c) \/ RetryClient(k, c) \/ GiveUpClient(k, c)
        PROVE  PageIsWhole'
    BY <1>1, <1>5 DEF ResetClient, RetryClient, GiveUpClient, ResetThrows, PageIsWhole
  <1>6. ASSUME NEW k \in Jobs, JobStep(k) PROVE PageIsWhole'
    BY <1>3, <1>4, <1>5, <1>6 DEF JobStep, ListFails, FinishJob
  <1>7. ASSUME NEW i \in Instances, Process(i) PROVE PageIsWhole'
    BY <1>2, <1>3, <1>7, OutsideIsAside DEF Process, Exit
  <1> QED
    BY <1>2, <1>6, <1>7, OutsideIsAside DEF Next

\* What the documentation promises holds as long as one page holds every
\* client and none is activated or deactivated: an execution that reports
\* success has then reset every active client.
THEOREM OnePageResetsAll == PageHoldsAll => (Spec => AllActiveReset)
  <1> SUFFICES ASSUME PageHoldsAll PROVE Spec => AllActiveReset
    OBVIOUS
  <1>1. Init => PageIsWhole
    BY DEF Init, PageIsWhole
  <1>2. TypeInv /\ PageIsWhole /\ [Next]_vars => PageIsWhole'
    BY PageStep
  <1>3. TypeInv /\ ProgressInv /\ PageIsWhole /\ [Next]_vars =>
          \A j \in Jobs :
            jpc[j] = "reset" /\ jpc'[j] = "idle" /\ last'[j[1]] = "success" =>
              \A c \in Clients : active[c] => cycle[c] >= began[j]
    BY SuccessStep DEF FinishJob, ProgressInv, ProgressIsReal, PageIsWhole
  <1> QED
    BY <1>1, <1>2, <1>3, TypeInvariant, ProgressInit, ProgressStep, PTL DEF Spec, AllActiveReset
=============================================================================
