------------------------- MODULE WebhookQueueProofs -------------------------
(***************************************************************************)
(* Machine-checked proofs about WebhookQueue, for any number of instances, *)
(* invocations, configurations and deliveries.                             *)
(***************************************************************************)
EXTENDS WebhookQueue, FiniteSetTheorems, SequenceTheorems, TLAPS

-----------------------------------------------------------------------------
(***************************************************************************)
(* Type correctness.                                                       *)
(***************************************************************************)

\* The instance of an invocation, of either kind.
LEMMA HostType ==
    /\ \A w \in Workers : w[1] \in Instances
    /\ \A c \in Calls : c[1] \in Instances
  BY DEF Workers, Calls

\* What the actions need of the variables' types, with the facts about a
\* worker's and a call's delivery that make indexing by it meaningful.
TypeInv ==
    /\ TypeOK
    /\ \A w \in Workers : pc[w] \in {"send"} \cup Unrecorded => cur[w] \in Deliveries
    /\ \A c \in Calls : cpc[c] = "select" => made[c] \in Deliveries

LEMMA TypeInit == Init => TypeInv
  BY DEF Init, TypeInv, TypeOK, ConfigState, Status, LifeState, WorkerState,
         CallState, Unrecorded

LEMMA TypeManage == TypeInv /\ Manage => TypeInv'
  <1> SUFFICES ASSUME TypeInv, NEW k \in Configs,
                      \/ CreateConfig(k)
                      \/ \E state \in {"on", "off"} : SetEnabled(k, state)
                      \/ DeleteConfig(k)
               PROVE  TypeInv'
    BY DEF Manage
  <1> USE DEF TypeInv, TypeOK, ConfigState, nodeVars, workVars, callVars, histVars
  <1>1. CASE CreateConfig(k)
    BY <1>1 DEF CreateConfig
  <1>2. CASE \E state \in {"on", "off"} : SetEnabled(k, state)
    BY <1>2 DEF SetEnabled
  <1>3. CASE DeleteConfig(k)
    BY <1>3 DEF DeleteConfig, Status
  <1> QED
    BY <1>1, <1>2, <1>3

LEMMA TypeCallStarts == TypeInv /\ CallStarts => TypeInv'
  <1> SUFFICES ASSUME TypeInv, NEW c \in Calls, NEW subscribed \in SUBSET Configs,
                      Enqueue(c, subscribed)
               PROVE  TypeInv'
    BY DEF CallStarts
  <1> QED
    BY DEF TypeInv, TypeOK, Enqueue, CallState, dbVars, nodeVars, workVars, histVars

LEMMA TypeCallStep ==
  ASSUME TypeInv, NEW c \in Calls, CallStep(c)
  PROVE  TypeInv'
  <1> USE HostType DEF TypeInv, TypeOK
  <1>1. ASSUME NEW k \in Configs, NEW d \in Deliveries, InsertDelivery(c, k, d)
        PROVE  TypeInv'
    <2>1. Cardinality(Known) \in Nat
      BY DeliveriesAssumption, FS_Difference, FS_CardinalityType DEF Known
    <2> QED
      BY <1>1, <2>1 DEF InsertDelivery, CallState, Status, nodeVars, workVars, histVars
  <1>2. CASE InsertFails(c) \/ SelectFails(c)
    BY <1>2 DEF InsertFails, SelectFails, EndCall, CallState, dbVars, nodeVars,
                workVars, histVars
  <1>3. CASE PushDelivery(c)
    <2>1. Append(queue[c[1]], made[c]) \in Seq(Deliveries)
      BY <1>3 DEF PushDelivery
    <2>2. queue' \in [Instances -> Seq(Deliveries)]
      BY <1>3, <2>1 DEF PushDelivery
    <2>3. immediate' \in [Instances -> BOOLEAN]
      BY <1>3 DEF PushDelivery
    <2>4. /\ cpc' \in [Calls -> CallState]
          /\ todo' \in [Calls -> SUBSET Configs]
          /\ made' \in [Calls -> Deliveries \cup {NoDelivery}]
          /\ \A b \in Calls : cpc'[b] = "select" => made'[b] \in Deliveries
      <3>1. CASE todo[c] = {}
        <4>1. /\ cpc' = [cpc EXCEPT ![c] = "idle"]
              /\ todo' = [todo EXCEPT ![c] = {}]
              /\ made' = [made EXCEPT ![c] = NoDelivery]
          BY <1>3, <3>1 DEF PushDelivery, EndCall
        <4> QED
          BY <4>1 DEF CallState
      <3>2. CASE todo[c] # {}
        BY <1>3, <3>2 DEF PushDelivery, CallState
      <3> QED
        BY <3>1, <3>2
    <2>5. UNCHANGED <<dbVars, life, processing, workVars, histVars>>
      BY <1>3 DEF PushDelivery
    <2> QED
      BY <2>2, <2>3, <2>4, <2>5 DEF dbVars, workVars, histVars
  <1> QED
    BY <1>1, <1>2, <1>3 DEF CallStep

LEMMA TypeTrigger ==
  ASSUME TypeInv, NEW w \in Workers, IntervalTick(w) \/ ImmediateRuns(w)
  PROVE  TypeInv'
  <1> USE HostType DEF TypeInv, TypeOK
  <1>1. ASSUME ProcessQueue(w), UNCHANGED cur
        PROVE  /\ processing' \in [Instances -> BOOLEAN]
               /\ pc' \in [Workers -> WorkerState]
               /\ \A v \in Workers :
                    pc'[v] \in {"send"} \cup Unrecorded => cur'[v] \in Deliveries
    BY <1>1 DEF ProcessQueue, WorkerState, Unrecorded
  <1>2. CASE IntervalTick(w)
    BY <1>1, <1>2 DEF IntervalTick, dbVars, callVars, histVars
  <1>3. CASE ImmediateRuns(w)
    BY <1>1, <1>3 DEF ImmediateRuns, dbVars, callVars, histVars
  <1> QED
    BY <1>2, <1>3

\* updateDeliveryStatus keeps the columns' types, with or without a row.
LEMMA UpdateType ==
  ASSUME TypeOK, NEW d \in Deliveries, NEW new \in Status,
         UpdateDeliveryStatus(d, new)
  PROVE  /\ status' \in [Deliveries -> Status]
         /\ attempts' \in [Deliveries -> Nat]
         /\ due' \in [Deliveries -> BOOLEAN]
         /\ UNCHANGED <<config, owner, born>>
  <1> USE DEF TypeOK
  <1>1. CASE status[d] = "none"
    BY <1>1 DEF UpdateDeliveryStatus, dbVars
  <1>2. CASE status[d] # "none"
    <2>1. /\ status' = [status EXCEPT ![d] = new]
          /\ attempts' = [attempts EXCEPT ![d] = @ + 1]
          /\ UNCHANGED <<config, owner, born>>
      BY <1>2 DEF UpdateDeliveryStatus
    <2>2. due' = [due EXCEPT ![d] = FALSE] \/ due' = due
      BY <1>2 DEF UpdateDeliveryStatus
    <2>3. due' \in [Deliveries -> BOOLEAN]
      BY <2>2
    <2>4. attempts' \in [Deliveries -> Nat]
      BY <2>1
    <2>5. status' \in [Deliveries -> Status]
      BY <2>1
    <2> QED
      BY <2>1, <2>3, <2>4, <2>5
  <1> QED
    BY <1>1, <1>2

LEMMA TypeRunStep ==
  ASSUME TypeInv, NEW w \in Workers, RunStep(w)
  PROVE  TypeInv'
  <1> USE HostType DEF TypeInv, TypeOK, WorkerState, Unrecorded
  <1>1. CASE Scan(w)
    BY <1>1 DEF Scan, PendingRetries, dbVars, nodeVars, callVars, histVars
  <1>2. ASSUME NEW d \in Deliveries, VisitRetry(w, d)
        PROVE  TypeInv'
    BY <1>2 DEF VisitRetry, dbVars, nodeVars, callVars, histVars
  <1>3. CASE ShiftItem(w)
    <2>1. /\ Head(queue[w[1]]) \in Deliveries
          /\ Tail(queue[w[1]]) \in Seq(Deliveries)
      BY <1>3 DEF ShiftItem
    <2> QED
      BY <1>3, <2>1 DEF ShiftItem, dbVars, callVars, histVars
  <1>4. CASE FinishRun(w)
    BY <1>4 DEF FinishRun, dbVars, callVars, histVars
  <1>5. ASSUME NEW success \in BOOLEAN, SendWebhook(w, success)
        PROVE  TypeInv'
    BY <1>5 DEF SendWebhook, dbVars, nodeVars, callVars
  <1>6. CASE ReadAttempts(w)
    BY <1>6 DEF ReadAttempts, dbVars, nodeVars, callVars, histVars
  <1>7. CASE RecordOutcome(w)
    <2>1. Outcome(pc[w]) \in Status
      BY <1>7 DEF RecordOutcome, Outcome, Status
    <2>2. /\ status' \in [Deliveries -> Status]
          /\ attempts' \in [Deliveries -> Nat]
          /\ due' \in [Deliveries -> BOOLEAN]
          /\ UNCHANGED <<config, owner, born>>
      <3>1. cur[w] \in Deliveries /\ UpdateDeliveryStatus(cur[w], Outcome(pc[w]))
        BY <1>7 DEF RecordOutcome
      <3> QED
        BY <2>1, <3>1, UpdateType
    <2>3. /\ pc' \in [Workers -> WorkerState]
          /\ \A v \in Workers :
                pc'[v] \in {"send"} \cup Unrecorded => cur'[v] \in Deliveries
      <3>1. pc' = [pc EXCEPT ![w] = "next"] /\ cur' = cur
        BY <1>7 DEF RecordOutcome
      <3> QED
        BY <3>1
    <2>4. UNCHANGED <<nodeVars, batch, cur, callVars, histVars>>
      BY <1>7 DEF RecordOutcome
    <2> QED
      BY <2>2, <2>3, <2>4 DEF nodeVars, callVars, histVars
  <1>8. CASE RunFault(w)
    BY <1>8 DEF RunFault, dbVars, nodeVars, callVars, histVars
  <1> QED
    BY <1>1, <1>2, <1>3, <1>4, <1>5, <1>6, <1>7, <1>8 DEF RunStep

LEMMA TypeInstance ==
  ASSUME TypeInv, NEW i \in Instances, ImmediateReturns(i) \/ Lifecycle(i)
  PROVE  TypeInv'
  <1> USE DEF TypeInv, TypeOK, LifeState
  <1>1. CASE ImmediateReturns(i)
    BY <1>1 DEF ImmediateReturns, dbVars, workVars, callVars, histVars
  <1>2. CASE Start(i)
    BY <1>2 DEF Start, dbVars, workVars, callVars, histVars
  <1>3. CASE Exit(i)
    BY <1>3 DEF Exit, WorkerState, CallState, Unrecorded, dbVars, histVars
  <1> QED
    BY <1>1, <1>2, <1>3 DEF Lifecycle

LEMMA TypeBackoff ==
  ASSUME TypeInv, NEW d \in Deliveries, BackoffElapses(d)
  PROVE  TypeInv'
  BY DEF TypeInv, TypeOK, BackoffElapses, nodeVars, workVars, callVars, histVars

LEMMA TypeStep == TypeInv /\ [Next]_vars => TypeInv'
  <1> SUFFICES ASSUME TypeInv, [Next]_vars PROVE TypeInv'
    OBVIOUS
  <1>1. CASE UNCHANGED vars
    BY <1>1 DEF TypeInv, TypeOK, vars, dbVars, nodeVars, workVars, callVars, histVars
  <1>2. CASE Next
    BY <1>2, TypeManage, TypeCallStarts, TypeCallStep, TypeTrigger, TypeRunStep,
       TypeInstance, TypeBackoff DEF Next
  <1> QED
    BY <1>1, <1>2

\* Every variable of the queue keeps its type, whatever the number of
\* processes and the faults.
THEOREM TypeCorrect == Spec => []TypeOK
  <1>1. TypeInv => TypeOK
    BY DEF TypeInv
  <1> QED
    BY TypeInit, TypeStep, <1>1, PTL DEF Spec

-----------------------------------------------------------------------------
(***************************************************************************)
(* One run per instance.  Only processQueue's guard and its end move an    *)
(* invocation between idle and busy.                                       *)
(***************************************************************************)

\* A step outside the runs: it leaves their invocations and counts alone, and
\* changes a status only by creating a row or by removing rows.
Aside ==
    /\ UNCHANGED <<processing, workVars, attempts, histVars>>
    /\ \A d \in Deliveries :
        \/ status'[d] \in {status[d], "none"}
        \/ d \in Unused /\ status'[d] = "pending"

LEMMA AsideManage == TypeInv /\ Manage => Aside
  BY DEF Manage, CreateConfig, SetEnabled, DeleteConfig, Aside, nodeVars, TypeInv, TypeOK

LEMMA AsideCallStarts == CallStarts => Aside
  BY DEF CallStarts, Enqueue, Aside, dbVars, nodeVars

LEMMA AsideCallStep ==
  ASSUME TypeInv, NEW c \in Calls, CallStep(c)
  PROVE  Aside
  <1>1. ASSUME NEW k \in Configs, NEW d \in Deliveries, InsertDelivery(c, k, d)
        PROVE  Aside
    BY <1>1 DEF InsertDelivery, Aside, nodeVars, TypeInv, TypeOK
  <1> QED
    BY <1>1 DEF CallStep, InsertFails, PushDelivery, SelectFails, Aside, dbVars, nodeVars

LEMMA AsideInstance ==
  ASSUME NEW i \in Instances, ImmediateReturns(i) \/ Start(i)
  PROVE  Aside
  BY DEF ImmediateReturns, Start, Aside, dbVars

LEMMA AsideBackoff == ASSUME NEW d \in Deliveries, BackoffElapses(d) PROVE Aside
  BY DEF BackoffElapses, Aside, nodeVars

LEMMA AsideStuttering == UNCHANGED vars => Aside
  BY DEF vars, dbVars, nodeVars, Aside

\* A step is aside, starts a run, advances a run, or ends a process.
LEMMA StepKinds ==
  ASSUME TypeInv, [Next]_vars
  PROVE  \/ Aside
         \/ \E w \in Workers : IntervalTick(w) \/ ImmediateRuns(w)
         \/ \E w \in Workers : RunStep(w)
         \/ \E i \in Instances : Exit(i)
  BY AsideManage, AsideCallStarts, AsideCallStep, AsideInstance, AsideBackoff,
     AsideStuttering DEF Next, Lifecycle

LEMMA OneRunInit == Init => OneRunPerInstance
  BY HostType DEF Init, OneRunPerInstance

LEMMA OneRunTrigger ==
  ASSUME TypeInv, OneRunPerInstance, NEW w \in Workers, IntervalTick(w) \/ ImmediateRuns(w)
  PROVE  OneRunPerInstance'
  <1>1. /\ pc' = [pc EXCEPT ![w] = "scan"]
        /\ processing' = [processing EXCEPT ![w[1]] = TRUE]
        /\ ~processing[w[1]]
    BY DEF IntervalTick, ImmediateRuns, ProcessQueue
  <1>2. \A v \in Workers : v[1] = w[1] => pc[v] = "idle"
    BY <1>1, HostType DEF OneRunPerInstance
  <1> QED
    BY <1>1, <1>2, HostType DEF OneRunPerInstance, TypeInv, TypeOK

LEMMA OneRunStep ==
  ASSUME TypeInv, OneRunPerInstance, NEW w \in Workers, RunStep(w)
  PROVE  OneRunPerInstance'
  <1> USE HostType DEF TypeInv, TypeOK
  <1>1. CASE FinishRun(w)
    <2>1. /\ pc' = [pc EXCEPT ![w] = "idle"]
          /\ processing' = [processing EXCEPT ![w[1]] = FALSE]
          /\ pc[w] # "idle"
      BY <1>1 DEF FinishRun
    <2> QED
      BY <2>1 DEF OneRunPerInstance
  <1>2. CASE ~FinishRun(w)
    <2>1. /\ pc[w] # "idle"
          /\ UNCHANGED processing
          /\ \E step \in WorkerState \ {"idle"} : pc' = [pc EXCEPT ![w] = step]
      <3>1. CASE Scan(w)
        BY <3>1 DEF Scan, WorkerState, nodeVars
      <3>2. ASSUME NEW d \in Deliveries, VisitRetry(w, d)
            PROVE  <2>1!:
        BY <3>2 DEF VisitRetry, WorkerState, nodeVars
      <3>3. CASE ShiftItem(w)
        BY <3>3 DEF ShiftItem, WorkerState
      <3>4. ASSUME NEW success \in BOOLEAN, SendWebhook(w, success)
            PROVE  <2>1!:
        BY <3>4 DEF SendWebhook, WorkerState, nodeVars
      <3>5. CASE ReadAttempts(w)
        BY <3>5 DEF ReadAttempts, WorkerState, nodeVars
      <3>6. CASE RecordOutcome(w)
        BY <3>6 DEF RecordOutcome, WorkerState, nodeVars
      <3>7. CASE RunFault(w)
        BY <3>7 DEF RunFault, Unrecorded, WorkerState, nodeVars
      <3> QED
        BY <1>2, <3>1, <3>2, <3>3, <3>4, <3>5, <3>6, <3>7 DEF RunStep
    <2>2. \A v \in Workers : pc'[v] = "idle" <=> pc[v] = "idle"
      BY <2>1 DEF WorkerState
    <2> QED
      BY <2>1, <2>2 DEF OneRunPerInstance
  <1> QED
    BY <1>1, <1>2

LEMMA OneRunExit ==
  ASSUME TypeInv, OneRunPerInstance, NEW i \in Instances, Exit(i)
  PROVE  OneRunPerInstance'
  <1>1. /\ processing' = [processing EXCEPT ![i] = FALSE]
        /\ pc' = [w \in Workers |-> IF w[1] = i THEN "idle" ELSE pc[w]]
    BY DEF Exit
  <1>2. \A w \in Workers : pc'[w] # "idle" <=> w[1] # i /\ pc[w] # "idle"
    BY <1>1
  <1>3. \A j \in Instances : processing'[j] <=> j # i /\ processing[j]
    BY <1>1 DEF TypeInv, TypeOK
  <1> QED
    BY <1>2, <1>3 DEF OneRunPerInstance

\* An instance has at most one invocation of processQueue past its guard, and
\* `processing' is up exactly while it has one: see OneRunPerInstance.
THEOREM OneRunCorrect == Spec => []OneRunPerInstance
  <1>1. TypeInv /\ OneRunPerInstance /\ [Next]_vars => OneRunPerInstance'
    <2> SUFFICES ASSUME TypeInv, OneRunPerInstance, [Next]_vars
                 PROVE  OneRunPerInstance'
      OBVIOUS
    <2>1. CASE Aside
      BY <2>1 DEF Aside, workVars, OneRunPerInstance
    <2> QED
      BY <2>1, StepKinds, OneRunTrigger, OneRunStep, OneRunExit
  <1> QED
    BY TypeInit, TypeStep, OneRunInit, <1>1, PTL DEF Spec

-----------------------------------------------------------------------------
(***************************************************************************)
(* Every delivery the code holds was created: an id is drawn once, and the *)
(* queue, the batches and the steps under way only hold ids drawn before.  *)
(***************************************************************************)

KnownInv ==
    /\ \A d \in Unused : status[d] = "none"
    /\ \A w \in Workers : batch[w] \subseteq Known /\ cur[w] \in Known \cup {NoDelivery}
    /\ \A i \in Instances : queue[i] \in Seq(Known)
    /\ \A c \in Calls : made[c] \in Known \cup {NoDelivery}

LEMMA KnownInit == Init => KnownInv
  BY DEF Init, KnownInv, Unused, Known

LEMMA KnownManage == TypeInv /\ KnownInv /\ Manage => KnownInv'
  <1> SUFFICES ASSUME TypeInv, KnownInv, Manage PROVE KnownInv'
    OBVIOUS
  <1>1. /\ UNCHANGED <<born, queue, batch, cur, made>>
        /\ \A d \in Deliveries : status[d] = "none" => status'[d] = "none"
    BY DEF Manage, CreateConfig, SetEnabled, DeleteConfig, nodeVars, workVars, callVars
  <1> QED
    BY <1>1 DEF KnownInv, Known, Unused

LEMMA KnownCallStarts == TypeInv /\ KnownInv /\ CallStarts => KnownInv'
  BY DEF CallStarts, Enqueue, dbVars, nodeVars, workVars, KnownInv, Known, Unused

LEMMA KnownCallStep ==
  ASSUME TypeInv, KnownInv, NEW c \in Calls, CallStep(c)
  PROVE  KnownInv'
  <1>1. ASSUME NEW k \in Configs, NEW d \in Deliveries, InsertDelivery(c, k, d)
        PROVE  KnownInv'
    <2>1. /\ born' = [born EXCEPT ![d] = Cardinality(Known) + 1]
          /\ status' = [status EXCEPT ![d] = "pending"]
          /\ made' = [made EXCEPT ![c] = d]
          /\ UNCHANGED <<queue, batch, cur>>
      BY <1>1 DEF InsertDelivery, nodeVars, workVars
    <2>2. Cardinality(Known) \in Nat
      BY DeliveriesAssumption, FS_Difference, FS_CardinalityType DEF Known
    <2>3. Known' = Known \cup {d} /\ Unused' = Unused \ {d}
      <3> DEFINE rank == Cardinality(Known) + 1
      <3>1. rank # 0
        BY <2>2
      <3>2. born' = [born EXCEPT ![d] = rank]
        BY <2>1
      <3> HIDE DEF rank
      <3>3. \A e \in Deliveries : born'[e] = 0 <=> born[e] = 0 /\ e # d
        BY <3>1, <3>2 DEF TypeInv, TypeOK
      <3> QED
        BY <3>3 DEF Known, Unused
    <2>4. \A i \in Instances : queue'[i] \in Seq(Known')
      BY <2>1, <2>3, SeqMonotonic DEF KnownInv
    <2>5. \A e \in Unused' : status'[e] = "none"
      BY <2>1, <2>3 DEF KnownInv, TypeInv, TypeOK
    <2>6. \A w \in Workers : batch'[w] \subseteq Known' /\ cur'[w] \in Known' \cup {NoDelivery}
      BY <2>1, <2>3 DEF KnownInv
    <2>7. \A b \in Calls : made'[b] \in Known' \cup {NoDelivery}
      BY <2>1, <2>3 DEF KnownInv, TypeInv, TypeOK
    <2> QED
      BY <2>4, <2>5, <2>6, <2>7 DEF KnownInv
  <1>2. CASE InsertFails(c) \/ SelectFails(c)
    <2>1. /\ UNCHANGED <<dbVars, nodeVars, workVars>>
          /\ made' = [made EXCEPT ![c] = NoDelivery]
      BY <1>2 DEF InsertFails, SelectFails, EndCall
    <2> QED
      BY <2>1 DEF dbVars, nodeVars, workVars, KnownInv, Known, Unused, TypeInv, TypeOK
  <1>3. CASE PushDelivery(c)
    <2>1. /\ UNCHANGED <<dbVars, workVars>>
          /\ queue' = [queue EXCEPT ![c[1]] = Append(@, made[c])]
          /\ made' = [made EXCEPT ![c] = NoDelivery]
          /\ made[c] \in Deliveries
      BY <1>3 DEF PushDelivery, EndCall, TypeInv
    <2>2. Known' = Known /\ Unused' = Unused
      BY <2>1 DEF Known, Unused, dbVars
    <2>3. made[c] \in Known
      BY <2>1, NoDeliveryAssumption DEF KnownInv
    <2>4. \A i \in Instances : queue'[i] \in Seq(Known)
      BY <2>1, <2>3, HostType DEF KnownInv, TypeInv, TypeOK
    <2> QED
      BY <2>1, <2>2, <2>4 DEF KnownInv, dbVars, workVars, TypeInv, TypeOK
  <1> QED
    BY <1>1, <1>2, <1>3 DEF CallStep

LEMMA KnownTrigger ==
  ASSUME TypeInv, KnownInv, NEW w \in Workers, IntervalTick(w) \/ ImmediateRuns(w)
  PROVE  KnownInv'
  BY DEF IntervalTick, ImmediateRuns, dbVars, callVars, KnownInv, Known, Unused

\* updateDeliveryStatus only ever changes a row that exists.
LEMMA UpdateKeepsAbsent ==
  ASSUME TypeOK, NEW d \in Deliveries, NEW new \in Status,
         UpdateDeliveryStatus(d, new)
  PROVE  \A e \in Deliveries : status[e] = "none" => status'[e] = "none"
  BY DEF UpdateDeliveryStatus, dbVars, TypeOK

LEMMA KnownRunStep ==
  ASSUME TypeInv, KnownInv, NEW w \in Workers, RunStep(w)
  PROVE  KnownInv'
  <1> USE DEF TypeInv, TypeOK
  <1>1. CASE Scan(w)
    <2>1. PendingRetries \subseteq Known
      BY DEF PendingRetries, Eligible, KnownInv, Known
    <2>2. /\ batch' = [batch EXCEPT ![w] = PendingRetries]
          /\ UNCHANGED <<status, born, queue, cur, made>>
      BY <1>1 DEF Scan, dbVars, nodeVars, callVars
    <2> QED
      BY <2>1, <2>2 DEF KnownInv, Known, Unused
  <1>2. ASSUME NEW d \in Deliveries, VisitRetry(w, d)
        PROVE  KnownInv'
    <2>1. /\ d \in batch[w]
          /\ batch' = [batch EXCEPT ![w] = @ \ {d}]
          /\ cur' = [cur EXCEPT ![w] = d] \/ cur' = cur
          /\ UNCHANGED <<status, born, queue, made>>
      BY <1>2 DEF VisitRetry, dbVars, nodeVars, callVars
    <2> QED
      BY <2>1 DEF KnownInv, Known, Unused
  <1>3. CASE ShiftItem(w)
    <2>1. /\ w[1] \in Instances
          /\ queue[w[1]] # <<>>
          /\ cur' = [cur EXCEPT ![w] = Head(queue[w[1]])]
          /\ queue' = [queue EXCEPT ![w[1]] = Tail(@)]
          /\ UNCHANGED <<status, born, batch, made>>
      BY <1>3, HostType DEF ShiftItem, dbVars, callVars
    <2>2. Head(queue[w[1]]) \in Known /\ Tail(queue[w[1]]) \in Seq(Known)
      BY <2>1 DEF KnownInv
    <2>3. \A i \in Instances : queue'[i] \in Seq(Known)
      BY <2>1, <2>2 DEF KnownInv
    <2>4. Known' = Known /\ Unused' = Unused
      BY <2>1 DEF Known, Unused
    <2> QED
      BY <2>1, <2>2, <2>3, <2>4 DEF KnownInv
  <1>4. CASE FinishRun(w)
    BY <1>4 DEF FinishRun, dbVars, callVars, KnownInv, Known, Unused
  <1>5. CASE \/ \E success \in BOOLEAN : SendWebhook(w, success)
             \/ ReadAttempts(w)
    BY <1>5 DEF SendWebhook, ReadAttempts, dbVars, nodeVars, callVars, KnownInv, Known, Unused
  <1>6. CASE RecordOutcome(w)
    <2>1. /\ cur[w] \in Deliveries
          /\ Outcome(pc[w]) \in Status
          /\ UpdateDeliveryStatus(cur[w], Outcome(pc[w]))
          /\ UNCHANGED <<queue, batch, cur, made>>
      BY <1>6 DEF RecordOutcome, Outcome, Status, Unrecorded, nodeVars, callVars
    <2>2. born' = born
      BY <2>1, UpdateType
    <2>3. \A d \in Deliveries : status[d] = "none" => status'[d] = "none"
      BY <2>1, UpdateKeepsAbsent
    <2> QED
      BY <2>1, <2>2, <2>3 DEF KnownInv, Known, Unused
  <1>7. CASE RunFault(w)
    BY <1>7 DEF RunFault, dbVars, nodeVars, callVars, KnownInv, Known, Unused
  <1> QED
    BY <1>1, <1>2, <1>3, <1>4, <1>5, <1>6, <1>7 DEF RunStep

LEMMA KnownInstance ==
  ASSUME TypeInv, KnownInv, NEW i \in Instances, ImmediateReturns(i) \/ Lifecycle(i)
  PROVE  KnownInv'
  <1>1. CASE ImmediateReturns(i) \/ Start(i)
    BY <1>1 DEF ImmediateReturns, Start, dbVars, workVars, callVars, KnownInv, Known, Unused
  <1>2. CASE Exit(i)
    <2>1. /\ UNCHANGED <<status, born>>
          /\ queue' = [queue EXCEPT ![i] = <<>>]
          /\ batch' = [w \in Workers |-> IF w[1] = i THEN {} ELSE batch[w]]
          /\ cur' = [w \in Workers |-> IF w[1] = i THEN NoDelivery ELSE cur[w]]
          /\ made' = [c \in Calls |-> IF c[1] = i THEN NoDelivery ELSE made[c]]
      BY <1>2 DEF Exit, dbVars
    <2>2. Known' = Known /\ Unused' = Unused
      BY <2>1 DEF Known, Unused
    <2>3. \A j \in Instances : queue'[j] \in Seq(Known)
      BY <2>1 DEF KnownInv, TypeInv, TypeOK
    <2> QED
      BY <2>1, <2>2, <2>3 DEF KnownInv
  <1> QED
    BY <1>1, <1>2 DEF Lifecycle

LEMMA KnownStep == TypeInv /\ KnownInv /\ [Next]_vars => KnownInv'
  <1> SUFFICES ASSUME TypeInv, KnownInv, [Next]_vars PROVE KnownInv'
    OBVIOUS
  <1>1. CASE UNCHANGED vars
    BY <1>1 DEF vars, dbVars, nodeVars, workVars, callVars, KnownInv, Known, Unused
  <1>2. ASSUME NEW d \in Deliveries, BackoffElapses(d) PROVE KnownInv'
    BY <1>2 DEF BackoffElapses, nodeVars, workVars, callVars, KnownInv, Known, Unused
  <1>3. CASE Next
    BY <1>2, <1>3, KnownManage, KnownCallStarts, KnownCallStep, KnownTrigger,
       KnownRunStep, KnownInstance DEF Next
  <1> QED
    BY <1>1, <1>3

-----------------------------------------------------------------------------
(***************************************************************************)
(* What a row claims, and what an invocation is about to write in it, is   *)
(* backed by the HTTP exchanges.                                           *)
(***************************************************************************)

SettledInv ==
    /\ SuccessIsAcknowledged
    /\ FailedOnlyAtLimit
    /\ \A d \in Deliveries : acks[d] <= posts[d]
    /\ \A w \in Workers :
        /\ pc[w] = "ack" => acks[cur[w]] >= 1
        /\ pc[w] \in {"nack", "retry", "fail"} => acks[cur[w]] < posts[cur[w]]
        /\ pc[w] = "fail" => status[cur[w]] = "none" \/ attempts[cur[w]] + 1 >= MaxAttempts

LEMMA SettledInit == Init => SettledInv
  BY DEF Init, SettledInv, SuccessIsAcknowledged, FailedOnlyAtLimit

LEMMA SettledAside ==
  ASSUME TypeInv, KnownInv, SettledInv, Aside
  PROVE  SettledInv'
  <1>1. \A w \in Workers : pc[w] \in Unrecorded => cur[w] \in Deliveries /\ cur[w] \notin Unused
    BY NoDeliveryAssumption DEF TypeInv, KnownInv, Known
  <1> QED
    BY <1>1 DEF Aside, SettledInv, SuccessIsAcknowledged, FailedOnlyAtLimit, workVars,
                histVars, Unrecorded

LEMMA SettledTrigger ==
  ASSUME SettledInv, TypeInv, NEW w \in Workers, IntervalTick(w) \/ ImmediateRuns(w)
  PROVE  SettledInv'
  <1>1. /\ pc' = [pc EXCEPT ![w] = "scan"]
        /\ UNCHANGED <<status, attempts, cur, posts, acks>>
    BY DEF IntervalTick, ImmediateRuns, ProcessQueue, dbVars, histVars
  <1> QED
    BY <1>1 DEF SettledInv, SuccessIsAcknowledged, FailedOnlyAtLimit, TypeInv, TypeOK

LEMMA SettledExit ==
  ASSUME SettledInv, NEW i \in Instances, Exit(i)
  PROVE  SettledInv'
  <1>1. /\ pc' = [w \in Workers |-> IF w[1] = i THEN "idle" ELSE pc[w]]
        /\ cur' = [w \in Workers |-> IF w[1] = i THEN NoDelivery ELSE cur[w]]
        /\ UNCHANGED <<status, attempts, posts, acks>>
    BY DEF Exit, dbVars, histVars
  <1> QED
    BY <1>1 DEF SettledInv, SuccessIsAcknowledged, FailedOnlyAtLimit

LEMMA SettledSend ==
  ASSUME TypeInv, SettledInv, NEW w \in Workers, NEW success \in BOOLEAN,
         SendWebhook(w, success)
  PROVE  SettledInv'
  <1> DEFINE d == cur[w]
  <1>1. /\ d \in Deliveries
        /\ posts' = [posts EXCEPT ![d] = @ + 1]
        /\ acks' = [acks EXCEPT ![d] = IF success THEN @ + 1 ELSE @]
        /\ pc' = [pc EXCEPT ![w] = IF success THEN "ack" ELSE "nack"]
        /\ UNCHANGED <<status, attempts, cur>>
    BY DEF SendWebhook, dbVars, TypeInv, TypeOK
  <1>2. \A e \in Deliveries :
            /\ acks'[e] = IF e = d /\ success THEN acks[e] + 1 ELSE acks[e]
            /\ posts'[e] = IF e = d THEN posts[e] + 1 ELSE posts[e]
    BY <1>1 DEF TypeInv, TypeOK
  <1>3. \A e \in Deliveries : acks[e] \in Nat /\ posts[e] \in Nat /\ acks[e] <= posts[e]
    BY DEF TypeInv, TypeOK, SettledInv
  <1>4. \A e \in Deliveries :
            /\ acks'[e] \in Nat
            /\ acks'[e] <= posts'[e]
            /\ acks[e] <= acks'[e]
            /\ acks[e] < posts[e] => acks'[e] < posts'[e]
    BY <1>2, <1>3
  <1>5. /\ success => acks'[d] >= 1
        /\ ~success => acks'[d] < posts'[d]
    BY <1>1, <1>2, <1>3
  <1>6. ASSUME NEW v \in Workers
        PROVE  /\ pc'[v] = "ack" => acks'[cur'[v]] >= 1
               /\ pc'[v] \in {"nack", "retry", "fail"} => acks'[cur'[v]] < posts'[cur'[v]]
               /\ pc'[v] = "fail" => \/ status'[cur'[v]] = "none"
                                     \/ attempts'[cur'[v]] + 1 >= MaxAttempts
    <2>1. CASE v = w
      BY <1>1, <1>5, <2>1 DEF TypeInv, TypeOK
    <2>2. CASE v # w
      <3>1. pc'[v] = pc[v] /\ cur'[v] = cur[v]
        BY <1>1, <2>2
      <3>2. pc[v] \in Unrecorded => acks[cur[v]] \in Nat /\ acks'[cur[v]] \in Nat
        BY <1>3, <1>4 DEF TypeInv
      <3> QED
        BY <1>1, <1>4, <3>1, <3>2 DEF SettledInv, TypeInv, Unrecorded
    <2> QED
      BY <2>1, <2>2
  <1>7. \A e \in Deliveries : status'[e] = "success" => acks'[e] >= 1
    BY <1>1, <1>2, <1>3, <1>4 DEF SettledInv, SuccessIsAcknowledged
  <1> QED
    BY <1>1, <1>4, <1>6, <1>7 DEF SettledInv, SuccessIsAcknowledged, FailedOnlyAtLimit

LEMMA SettledRecord ==
  ASSUME TypeInv, SettledInv, NEW w \in Workers, RecordOutcome(w)
  PROVE  SettledInv'
  <1> DEFINE d == cur[w]
             new == Outcome(pc[w])
  <1>1. /\ pc[w] \in {"ack", "retry", "fail"}
        /\ d \in Deliveries
        /\ UpdateDeliveryStatus(d, new)
        /\ pc' = [pc EXCEPT ![w] = "next"]
        /\ UNCHANGED <<cur, posts, acks>>
    BY DEF RecordOutcome, TypeInv, Unrecorded, histVars
  <1>2. CASE status[d] = "none"
    <2>1. UNCHANGED <<status, attempts>>
      BY <1>1, <1>2 DEF UpdateDeliveryStatus, dbVars
    <2> QED
      BY <1>1, <2>1 DEF SettledInv, SuccessIsAcknowledged, FailedOnlyAtLimit, TypeInv, TypeOK
  <1>3. CASE status[d] # "none"
    <2>1. /\ status' = [status EXCEPT ![d] = new]
          /\ attempts' = [attempts EXCEPT ![d] = @ + 1]
      BY <1>1, <1>3 DEF UpdateDeliveryStatus
    <2>2. /\ new = "success" => acks[d] >= 1
          /\ new = "failed" => attempts[d] + 1 >= MaxAttempts
      BY <1>1, <1>3 DEF Outcome, SettledInv
    <2>3. \A e \in Deliveries : attempts[e] \in Nat /\ attempts'[e] >= attempts[e]
      BY <2>1 DEF TypeInv, TypeOK
    <2>4. ASSUME NEW e \in Deliveries
          PROVE  /\ status'[e] = "success" => acks'[e] >= 1
                 /\ status'[e] = "failed" => attempts'[e] >= MaxAttempts
      BY <1>1, <2>1, <2>2 DEF SettledInv, SuccessIsAcknowledged, FailedOnlyAtLimit,
                              TypeInv, TypeOK
    <2>5. ASSUME NEW v \in Workers, pc'[v] = "fail"
          PROVE  status'[cur'[v]] = "none" \/ attempts'[cur'[v]] + 1 >= MaxAttempts
      <3>1. pc[v] = "fail" /\ cur'[v] = cur[v] /\ cur[v] \in Deliveries
        BY <1>1, <2>5 DEF TypeInv, TypeOK, Unrecorded
      <3>2. CASE cur[v] # d /\ status[cur[v]] = "none"
        BY <2>1, <3>1, <3>2 DEF TypeInv, TypeOK
      <3>3. CASE attempts[cur[v]] + 1 >= MaxAttempts
        <4>1. /\ attempts[cur[v]] \in Nat
              /\ attempts'[cur[v]] \in Nat
              /\ attempts'[cur[v]] >= attempts[cur[v]]
          BY <2>1, <2>3, <3>1 DEF TypeInv, TypeOK
        <4> QED
          BY <3>1, <3>3, <4>1, MaxAttemptsAssumption
      <3> QED
        BY <1>3, <3>1, <3>2, <3>3 DEF SettledInv
    <2>6. ASSUME NEW v \in Workers
          PROVE  /\ pc'[v] = "ack" => acks'[cur'[v]] >= 1
                 /\ pc'[v] \in {"nack", "retry", "fail"} => acks'[cur'[v]] < posts'[cur'[v]]
      BY <1>1 DEF SettledInv, TypeInv, TypeOK
    <2> QED
      BY <1>1, <2>4, <2>5, <2>6 DEF SettledInv, SuccessIsAcknowledged, FailedOnlyAtLimit
  <1> QED
    BY <1>2, <1>3

LEMMA SettledRunStep ==
  ASSUME TypeInv, SettledInv, NEW w \in Workers, RunStep(w)
  PROVE  SettledInv'
  <1> DEFINE Elsewhere ==
        /\ UNCHANGED <<status, attempts, posts, acks>>
        /\ \A v \in Workers \ {w} : pc'[v] = pc[v] /\ cur'[v] = cur[v]
        /\ pc'[w] \notin Unrecorded
  <1>1. ASSUME Elsewhere PROVE SettledInv'
    BY <1>1 DEF SettledInv, SuccessIsAcknowledged, FailedOnlyAtLimit, Unrecorded
  <1>2. CASE \/ Scan(w)
             \/ \E d \in Deliveries : VisitRetry(w, d)
             \/ ShiftItem(w)
             \/ FinishRun(w)
             \/ RunFault(w)
    <2>1. /\ UNCHANGED <<status, attempts, posts, acks>>
          /\ \E step \in WorkerState \ Unrecorded, d \in Deliveries \cup {NoDelivery} :
                /\ pc' = [pc EXCEPT ![w] = step]
                /\ cur' = [cur EXCEPT ![w] = d]
      <3> USE DEF TypeInv, TypeOK, WorkerState, Unrecorded, dbVars, histVars
      <3>1. CASE Scan(w)
        BY <3>1 DEF Scan
      <3>2. ASSUME NEW d \in Deliveries, VisitRetry(w, d)
            PROVE  <2>1!:
        BY <3>2 DEF VisitRetry
      <3>3. CASE ShiftItem(w)
        <4>1. Head(queue[w[1]]) \in Deliveries
          BY <3>3, HostType DEF ShiftItem
        <4> QED
          BY <3>3, <4>1 DEF ShiftItem
      <3>4. CASE FinishRun(w)
        BY <3>4 DEF FinishRun
      <3>5. CASE RunFault(w)
        BY <3>5 DEF RunFault
      <3> QED
        BY <1>2, <3>1, <3>2, <3>3, <3>4, <3>5
    <2> QED
      BY <1>1, <2>1 DEF TypeInv, TypeOK
  <1>3. CASE ReadAttempts(w)
    <2>1. /\ pc[w] = "nack"
          /\ pc' = [pc EXCEPT ![w] =
                       IF status[cur[w]] # "none" /\ attempts[cur[w]] + 1 < MaxAttempts
                       THEN "retry" ELSE "fail"]
          /\ UNCHANGED <<status, attempts, cur, posts, acks>>
      BY <1>3 DEF ReadAttempts, dbVars, histVars
    <2>2. cur[w] \in Deliveries /\ attempts[cur[w]] \in Nat
      BY <2>1 DEF TypeInv, TypeOK, Unrecorded
    <2> QED
      BY <2>1, <2>2, MaxAttemptsAssumption
         DEF SettledInv, SuccessIsAcknowledged, FailedOnlyAtLimit, TypeInv, TypeOK
  <1> QED
    BY <1>2, <1>3, SettledSend, SettledRecord DEF RunStep

LEMMA SettledStep == TypeInv /\ KnownInv /\ SettledInv /\ [Next]_vars => SettledInv'
  BY StepKinds, SettledAside, SettledTrigger, SettledRunStep, SettledExit

\* A row never says `success' or `failed' without the answer or the used-up
\* attempts behind it, whatever replicas, faults and crashes do: see
\* SettledIsHonest.
THEOREM SettledRowsAreHonest == Spec => []SettledIsHonest
  <1>1. SettledInv => SettledIsHonest
    BY DEF SettledInv, SettledIsHonest
  <1> QED
    BY TypeInit, TypeStep, KnownInit, KnownStep, SettledInit, SettledStep, <1>1, PTL
       DEF Spec

\* In particular, a row that says `success' was answered with 2xx.
COROLLARY SuccessesAreAcknowledged == Spec => []SuccessIsAcknowledged
  <1>1. SettledIsHonest => SuccessIsAcknowledged
    BY DEF SettledIsHonest
  <1> QED
    BY SettledRowsAreHonest, <1>1, PTL

-----------------------------------------------------------------------------
(***************************************************************************)
(* The attempts column counts no request that was not made.                *)
(***************************************************************************)

LEMMA UnsettledFinite ==
  ASSUME NEW d \in Deliveries
  PROVE  IsFiniteSet(Unsettled(d)) /\ Cardinality(Unsettled(d)) \in Nat
  <1>1. IsFiniteSet(Workers)
    BY InstancesAssumption, SlotsAssumption, FS_Product DEF Workers
  <1> QED
    BY <1>1, FS_Subset, FS_CardinalityType DEF Unsettled

\* A step that adds no unsettled invocation and leaves the counts alone.
LEMMA BackedByFewer ==
  ASSUME AttemptsBackedByPosts, TypeInv, UNCHANGED <<attempts, posts>>,
         \A d \in Deliveries : Unsettled(d)' \subseteq Unsettled(d)
  PROVE  AttemptsBackedByPosts'
  <1> SUFFICES ASSUME NEW d \in Deliveries
               PROVE  attempts'[d] + Cardinality(Unsettled(d)') <= posts'[d]
    BY DEF AttemptsBackedByPosts
  <1>1. /\ Cardinality(Unsettled(d)') \in Nat
        /\ Cardinality(Unsettled(d)') <= Cardinality(Unsettled(d))
    BY UnsettledFinite, FS_Subset, FS_CardinalityType
  <1>2. attempts[d] + Cardinality(Unsettled(d)) <= posts[d]
    BY DEF AttemptsBackedByPosts
  <1>3. attempts[d] \in Nat /\ posts[d] \in Nat /\ Cardinality(Unsettled(d)) \in Nat
    BY UnsettledFinite DEF TypeInv, TypeOK
  <1> QED
    BY <1>1, <1>2, <1>3

LEMMA BackedInit == Init => AttemptsBackedByPosts
  <1> SUFFICES ASSUME Init, NEW d \in Deliveries
               PROVE  attempts[d] + Cardinality(Unsettled(d)) <= posts[d]
    BY DEF AttemptsBackedByPosts
  <1>1. Unsettled(d) = {}
    BY DEF Init, Unsettled, Unrecorded
  <1> QED
    BY <1>1, FS_EmptySet DEF Init

LEMMA BackedAside ==
  ASSUME TypeInv, AttemptsBackedByPosts, Aside
  PROVE  AttemptsBackedByPosts'
  BY BackedByFewer DEF Aside, workVars, histVars, Unsettled

LEMMA BackedTrigger ==
  ASSUME TypeInv, AttemptsBackedByPosts, NEW w \in Workers, IntervalTick(w) \/ ImmediateRuns(w)
  PROVE  AttemptsBackedByPosts'
  <1>1. /\ pc' = [pc EXCEPT ![w] = "scan"]
        /\ UNCHANGED <<attempts, cur, posts>>
    BY DEF IntervalTick, ImmediateRuns, ProcessQueue, dbVars, histVars
  <1>2. \A d \in Deliveries : Unsettled(d)' \subseteq Unsettled(d)
    BY <1>1 DEF Unsettled, Unrecorded, TypeInv, TypeOK
  <1> QED
    BY <1>1, <1>2, BackedByFewer

LEMMA BackedExit ==
  ASSUME TypeInv, AttemptsBackedByPosts, NEW i \in Instances, Exit(i)
  PROVE  AttemptsBackedByPosts'
  <1>1. /\ pc' = [w \in Workers |-> IF w[1] = i THEN "idle" ELSE pc[w]]
        /\ cur' = [w \in Workers |-> IF w[1] = i THEN NoDelivery ELSE cur[w]]
        /\ UNCHANGED <<attempts, posts>>
    BY DEF Exit, dbVars, histVars
  <1>2. \A d \in Deliveries : Unsettled(d)' \subseteq Unsettled(d)
    BY <1>1 DEF Unsettled, Unrecorded
  <1> QED
    BY <1>1, <1>2, BackedByFewer

LEMMA BackedSend ==
  ASSUME TypeInv, AttemptsBackedByPosts, NEW w \in Workers, NEW success \in BOOLEAN,
         SendWebhook(w, success)
  PROVE  AttemptsBackedByPosts'
  <1> SUFFICES ASSUME NEW d \in Deliveries
               PROVE  attempts'[d] + Cardinality(Unsettled(d)') <= posts'[d]
    BY DEF AttemptsBackedByPosts
  <1>1. /\ pc[w] = "send"
        /\ cur[w] \in Deliveries
        /\ \E step \in {"ack", "nack"} : pc' = [pc EXCEPT ![w] = step]
        /\ posts' = [posts EXCEPT ![cur[w]] = @ + 1]
        /\ UNCHANGED <<attempts, cur>>
    BY DEF SendWebhook, dbVars, TypeInv
  <1>2. /\ attempts[d] + Cardinality(Unsettled(d)) <= posts[d]
        /\ attempts[d] \in Nat /\ posts[d] \in Nat
        /\ Cardinality(Unsettled(d)) \in Nat
    BY UnsettledFinite DEF AttemptsBackedByPosts, TypeInv, TypeOK
  <1>3. CASE cur[w] = d
    <2>1. Unsettled(d)' = Unsettled(d) \cup {w} /\ w \notin Unsettled(d)
      BY <1>1, <1>3 DEF Unsettled, Unrecorded, TypeInv, TypeOK
    <2>2. Cardinality(Unsettled(d)') = Cardinality(Unsettled(d)) + 1
      BY <2>1, UnsettledFinite, FS_AddElement
    <2>3. posts'[d] = posts[d] + 1 /\ attempts'[d] = attempts[d]
      BY <1>1, <1>3 DEF TypeInv, TypeOK
    <2> QED
      BY <1>2, <2>2, <2>3
  <1>4. CASE cur[w] # d
    <2>1. Unsettled(d)' = Unsettled(d)
      BY <1>1, <1>4 DEF Unsettled, TypeInv, TypeOK
    <2>2. posts'[d] = posts[d] /\ attempts'[d] = attempts[d]
      BY <1>1, <1>4 DEF TypeInv, TypeOK
    <2> QED
      BY <1>2, <2>1, <2>2
  <1> QED
    BY <1>3, <1>4

LEMMA BackedRecord ==
  ASSUME TypeInv, AttemptsBackedByPosts, NEW w \in Workers, RecordOutcome(w)
  PROVE  AttemptsBackedByPosts'
  <1> SUFFICES ASSUME NEW d \in Deliveries
               PROVE  attempts'[d] + Cardinality(Unsettled(d)') <= posts'[d]
    BY DEF AttemptsBackedByPosts
  <1>1. /\ pc[w] \in Unrecorded
        /\ cur[w] \in Deliveries
        /\ pc' = [pc EXCEPT ![w] = "next"]
        /\ attempts' \in {attempts, [attempts EXCEPT ![cur[w]] = @ + 1]}
        /\ UNCHANGED <<cur, posts>>
    BY DEF RecordOutcome, UpdateDeliveryStatus, Unrecorded, dbVars, histVars, TypeInv
  <1>2. /\ attempts[d] + Cardinality(Unsettled(d)) <= posts[d]
        /\ attempts[d] \in Nat /\ posts[d] \in Nat
        /\ Cardinality(Unsettled(d)) \in Nat
    BY UnsettledFinite DEF AttemptsBackedByPosts, TypeInv, TypeOK
  <1>3. CASE cur[w] = d
    <2>1. Unsettled(d)' = Unsettled(d) \ {w} /\ w \in Unsettled(d)
      BY <1>1, <1>3 DEF Unsettled, Unrecorded, TypeInv, TypeOK
    <2>2. Cardinality(Unsettled(d)') = Cardinality(Unsettled(d)) - 1
      BY <2>1, UnsettledFinite, FS_RemoveElement
    <2>3. attempts'[d] \in {attempts[d], attempts[d] + 1} /\ posts'[d] = posts[d]
      BY <1>1, <1>3 DEF TypeInv, TypeOK
    <2> QED
      BY <1>2, <2>2, <2>3
  <1>4. CASE cur[w] # d
    <2>1. Unsettled(d)' = Unsettled(d)
      BY <1>1, <1>4 DEF Unsettled, TypeInv, TypeOK
    <2>2. posts'[d] = posts[d] /\ attempts'[d] = attempts[d]
      BY <1>1, <1>4 DEF TypeInv, TypeOK
    <2> QED
      BY <1>2, <2>1, <2>2
  <1> QED
    BY <1>3, <1>4

LEMMA BackedRunStep ==
  ASSUME TypeInv, AttemptsBackedByPosts, NEW w \in Workers, RunStep(w)
  PROVE  AttemptsBackedByPosts'
  <1>1. CASE \/ Scan(w)
             \/ \E d \in Deliveries : VisitRetry(w, d)
             \/ ShiftItem(w)
             \/ FinishRun(w)
             \/ RunFault(w)
    <2>1. /\ UNCHANGED <<attempts, posts>>
          /\ \A v \in Workers \ {w} : pc'[v] = pc[v] /\ cur'[v] = cur[v]
          /\ pc'[w] \notin Unrecorded
      BY <1>1 DEF Scan, VisitRetry, ShiftItem, FinishRun, RunFault, Unrecorded, dbVars,
                  histVars, TypeInv, TypeOK
    <2>2. \A d \in Deliveries : Unsettled(d)' \subseteq Unsettled(d)
      BY <2>1 DEF Unsettled
    <2> QED
      BY <2>1, <2>2, BackedByFewer
  <1>2. CASE ReadAttempts(w)
    <2>1. /\ pc[w] \in Unrecorded
          /\ \A v \in Workers \ {w} : pc'[v] = pc[v]
          /\ UNCHANGED <<attempts, posts, cur>>
      BY <1>2 DEF ReadAttempts, Unrecorded, dbVars, histVars, TypeInv, TypeOK
    <2>2. \A d \in Deliveries : Unsettled(d)' \subseteq Unsettled(d)
      BY <2>1 DEF Unsettled
    <2> QED
      BY <2>1, <2>2, BackedByFewer
  <1> QED
    BY <1>1, <1>2, BackedSend, BackedRecord DEF RunStep

LEMMA BackedStep == TypeInv /\ AttemptsBackedByPosts /\ [Next]_vars => AttemptsBackedByPosts'
  BY StepKinds, BackedAside, BackedTrigger, BackedRunStep, BackedExit

\* What the attempts column counts, with what invocations have still to record,
\* never exceeds the requests made: see AttemptsBackedByPosts.
THEOREM AttemptsAreBacked == Spec => []AttemptsBackedByPosts
  BY TypeInit, TypeStep, BackedInit, BackedStep, PTL DEF Spec

-----------------------------------------------------------------------------
(***************************************************************************)
(* The queue implements WebhookDelivery: sends map to Post, the UPDATE to  *)
(* Record, the INSERT to Create, the cascade to Remove, and every other    *)
(* step to a stutter.                                                      *)
(***************************************************************************)

AccountInv == TypeInv /\ KnownInv /\ SettledInv /\ AttemptsBackedByPosts

LEMMA AccountInit == Init => AccountInv
  BY TypeInit, KnownInit, SettledInit, BackedInit DEF AccountInv

LEMMA AccountStep == AccountInv /\ [Next]_vars => AccountInv'
  BY TypeStep, KnownStep, SettledStep, BackedStep DEF AccountInv

LEMMA DeliveryInit == Init => Delivery!Init
  BY DEF Init, Delivery!Init, Known, Unused

\* What the abstract specification sees of a step that only works elsewhere.
LEMMA DeliveryStutters ==
  ASSUME UNCHANGED <<status, attempts, born, posts, acks>>
  PROVE  UNCHANGED Delivery!vars
  BY DEF Delivery!vars, Known, Unused

LEMMA CreateMaps ==
  ASSUME AccountInv, NEW c \in Calls, NEW k \in Configs, NEW d \in Deliveries,
         InsertDelivery(c, k, d)
  PROVE  Delivery!Create(d)
  <1>1. /\ d \in Unused
        /\ born' = [born EXCEPT ![d] = Cardinality(Known) + 1]
        /\ status' = [status EXCEPT ![d] = "pending"]
        /\ UNCHANGED <<attempts, posts, acks>>
    BY DEF InsertDelivery, histVars
  <1>2. Cardinality(Known) \in Nat
    BY DeliveriesAssumption, FS_Difference, FS_CardinalityType DEF Known
  <1>3. \A e \in Deliveries : born'[e] = 0 <=> born[e] = 0 /\ e # d
    <2> DEFINE rank == Cardinality(Known) + 1
    <2>1. rank # 0
      BY <1>2
    <2>2. born' = [born EXCEPT ![d] = rank]
      BY <1>1
    <2> HIDE DEF rank
    <2> QED
      BY <2>1, <2>2 DEF AccountInv, TypeInv, TypeOK
  <1>4. Known' = Known \cup {d}
    BY <1>3 DEF Known, Unused
  <1>5. d \notin Known
    BY <1>1 DEF Known
  <1> QED
    BY <1>1, <1>4, <1>5 DEF Delivery!Create

LEMMA RemoveMaps ==
  ASSUME NEW k \in Configs, DeleteConfig(k)
  PROVE  Delivery!Remove({d \in Deliveries : owner[d] = k})
  BY DEF DeleteConfig, histVars, Delivery!Remove, Known, Unused

LEMMA PostMaps ==
  ASSUME AccountInv, NEW w \in Workers, NEW success \in BOOLEAN, SendWebhook(w, success)
  PROVE  cur[w] \in Deliveries /\ Delivery!Post(cur[w], success)
  <1>1. cur[w] \in Known
    BY NoDeliveryAssumption DEF SendWebhook, AccountInv, TypeInv, KnownInv
  <1> QED
    BY <1>1 DEF SendWebhook, dbVars, Delivery!Post, Known, Unused

LEMMA RecordMaps ==
  ASSUME AccountInv, NEW w \in Workers, RecordOutcome(w), status[cur[w]] # "none"
  PROVE  /\ cur[w] \in Deliveries
         /\ Outcome(pc[w]) \in {"success", "retrying", "failed"}
         /\ Delivery!Record(cur[w], Outcome(pc[w]))
  <1> DEFINE d == cur[w]
  <1>1. /\ pc[w] \in {"ack", "retry", "fail"}
        /\ d \in Deliveries
        /\ status' = [status EXCEPT ![d] = Outcome(pc[w])]
        /\ attempts' = [attempts EXCEPT ![d] = @ + 1]
        /\ UNCHANGED <<born, posts, acks>>
    BY DEF RecordOutcome, UpdateDeliveryStatus, histVars, AccountInv, TypeInv, Unrecorded
  <1>2. attempts[d] < posts[d]
    <2>1. w \in Unsettled(d)
      BY <1>1 DEF Unsettled, Unrecorded
    <2>2. Cardinality(Unsettled(d)) \in Nat /\ Cardinality(Unsettled(d)) # 0
      BY <1>1, <2>1, UnsettledFinite, FS_EmptySet
    <2> QED
      BY <1>1, <2>2 DEF AccountInv, AttemptsBackedByPosts, TypeInv, TypeOK
  <1>3. Delivery!Justified(d, Outcome(pc[w]))
    BY <1>1 DEF Delivery!Justified, Outcome, AccountInv, SettledInv
  <1>4. Known' = Known
    BY <1>1 DEF Known, Unused
  <1> QED
    BY <1>1, <1>2, <1>3, <1>4 DEF Delivery!Record, Outcome

LEMMA DeliveryStep ==
  ASSUME AccountInv, [Next]_vars
  PROVE  [Delivery!Next]_(Delivery!vars)
  <1> DEFINE Still == UNCHANGED <<status, attempts, born, posts, acks>>
             Maps == Still \/ Delivery!Next
  <1>1. ASSUME UNCHANGED vars PROVE Maps
    BY <1>1 DEF vars, dbVars, histVars
  <1>2. ASSUME Manage PROVE Maps
    <2>1. ASSUME NEW k \in Configs, DeleteConfig(k) PROVE Maps
      BY <2>1, RemoveMaps DEF Delivery!Next
    <2> QED
      BY <1>2, <2>1 DEF Manage, CreateConfig, SetEnabled, histVars
  <1>3. ASSUME CallStarts PROVE Maps
    BY <1>3 DEF CallStarts, Enqueue, dbVars, histVars
  <1>4. ASSUME NEW c \in Calls, CallStep(c) PROVE Maps
    <2>1. ASSUME NEW k \in Configs, NEW d \in Deliveries, InsertDelivery(c, k, d)
          PROVE  Maps
      BY <2>1, CreateMaps DEF Delivery!Next
    <2> QED
      BY <1>4, <2>1 DEF CallStep, InsertFails, PushDelivery, SelectFails, dbVars, histVars
  <1>5. ASSUME NEW w \in Workers, IntervalTick(w) \/ ImmediateRuns(w) PROVE Maps
    BY <1>5 DEF IntervalTick, ImmediateRuns, dbVars, histVars
  <1>6. ASSUME NEW w \in Workers, RunStep(w) PROVE Maps
    <2>1. ASSUME NEW success \in BOOLEAN, SendWebhook(w, success) PROVE Maps
      BY <2>1, PostMaps DEF Delivery!Next
    <2>2. CASE RecordOutcome(w) /\ status[cur[w]] # "none"
      BY <2>2, RecordMaps DEF Delivery!Next
    <2>3. CASE RecordOutcome(w) /\ status[cur[w]] = "none"
      BY <2>3 DEF RecordOutcome, UpdateDeliveryStatus, dbVars, histVars
    <2> QED
      BY <1>6, <2>1, <2>2, <2>3 DEF RunStep, Scan, VisitRetry, ShiftItem, FinishRun,
         ReadAttempts, RunFault, dbVars, histVars
  <1>7. ASSUME NEW i \in Instances, ImmediateReturns(i) \/ Lifecycle(i) PROVE Maps
    BY <1>7 DEF ImmediateReturns, Lifecycle, Start, Exit, dbVars, histVars
  <1>8. ASSUME NEW d \in Deliveries, BackoffElapses(d) PROVE Maps
    BY <1>8 DEF BackoffElapses, histVars
  <1>9. Maps => [Delivery!Next]_(Delivery!vars)
    BY DeliveryStutters
  <1> HIDE DEF Maps
  <1> QED
    BY <1>1, <1>2, <1>3, <1>4, <1>5, <1>6, <1>7, <1>8, <1>9 DEF Next

\* The queue of all processes together implements the abstract account of a
\* delivery: see HonestAccount.
THEOREM QueueImplementsDelivery == Spec => HonestAccount
  <1>1. AccountInv /\ [Next]_vars => [Delivery!Next]_(Delivery!vars)
    BY DeliveryStep
  <1> QED
    BY AccountInit, AccountStep, DeliveryInit, <1>1, PTL DEF Spec, HonestAccount, Delivery!Spec

-----------------------------------------------------------------------------
(***************************************************************************)
(* A delivery is pushed once: an id is drawn by one call, which alone      *)
(* knows it until it has pushed it, and the queue only loses items else.   *)
(***************************************************************************)

MadeOnce == \A b, c \in Calls : made[b] # NoDelivery /\ made[b] = made[c] => b = c

QueuedInv == QueuedOnce /\ MadeOnce

LEMMA QueuedInit == Init => QueuedInv
  BY HostType DEF Init, QueuedInv, QueuedOnce, MadeOnce

\* A step that adds nothing to a queue and draws no id.
LEMMA QueuesShrink ==
  ASSUME TypeInv, QueuedInv,
         \A i \in Instances : \/ queue'[i] \in {queue[i], <<>>}
                              \/ queue[i] # <<>> /\ queue'[i] = Tail(queue[i]),
         \A c \in Calls : made'[c] \in {made[c], NoDelivery}
  PROVE  QueuedInv'
  <1> DEFINE shift(i) == IF queue'[i] = queue[i] THEN 0 ELSE 1
  <1>1. ASSUME NEW i \in Instances, NEW m \in DOMAIN queue'[i]
        PROVE  /\ m \in Int
               /\ m + shift(i) \in DOMAIN queue[i]
               /\ queue'[i][m] = queue[i][m + shift(i)]
               /\ queue'[i][m] \in Deliveries
    <2>1. queue[i] \in Seq(Deliveries)
      BY DEF TypeInv, TypeOK
    <2>2. CASE queue'[i] = queue[i]
      <3>1. shift(i) = 0 /\ m \in 1..Len(queue[i]) /\ Len(queue[i]) \in Nat
        BY <2>1, <2>2
      <3> HIDE DEF shift
      <3> QED
        BY <2>1, <2>2, <3>1
    <2>3. CASE queue'[i] # queue[i]
      <3>1. queue[i] # <<>> /\ queue'[i] = Tail(queue[i])
        BY <2>3
      <3>2. /\ queue'[i] \in Seq(Deliveries)
            /\ Len(queue'[i]) = Len(queue[i]) - 1
            /\ \A n \in 1..Len(queue'[i]) : queue'[i][n] = queue[i][n + 1]
        BY <2>1, <3>1, HeadTailProperties
      <3>3. m \in 1..Len(queue'[i]) /\ Len(queue[i]) \in Nat
        BY <2>1, <3>2
      <3>4. shift(i) = 1
        BY <2>3
      <3> HIDE DEF shift
      <3> QED
        BY <2>1, <3>2, <3>3, <3>4
    <2> QED
      BY <2>2, <2>3
  <1>2. ASSUME NEW i \in Instances, NEW j \in Instances,
               NEW m \in DOMAIN queue'[i], NEW n \in DOMAIN queue'[j], queue'[i][m] = queue'[j][n]
        PROVE  i = j /\ m = n
    <2>1. i = j /\ m + shift(i) = n + shift(j)
      BY <1>1, <1>2 DEF QueuedInv, QueuedOnce
    <2>2. m \in Int /\ n \in Int /\ shift(i) \in Int
      BY <1>1
    <2> HIDE DEF shift
    <2> QED
      BY <2>1, <2>2
  <1>3. ASSUME NEW c \in Calls, NEW i \in Instances, NEW m \in DOMAIN queue'[i]
        PROVE  queue'[i][m] # made'[c]
    BY <1>1, NoDeliveryAssumption DEF QueuedInv, QueuedOnce
  <1>4. MadeOnce'
    BY DEF QueuedInv, MadeOnce
  <1> QED
    BY <1>2, <1>3, <1>4 DEF QueuedInv, QueuedOnce

LEMMA QueuedCallStep ==
  ASSUME TypeInv, KnownInv, QueuedInv, NEW c \in Calls, CallStep(c)
  PROVE  QueuedInv'
  <1>1. ASSUME NEW k \in Configs, NEW d \in Deliveries, InsertDelivery(c, k, d)
        PROVE  QueuedInv'
    <2>1. d \in Unused /\ made' = [made EXCEPT ![c] = d] /\ UNCHANGED queue
      BY <1>1 DEF InsertDelivery, nodeVars
    <2>2. \A i \in Instances : \A m \in DOMAIN queue[i] : queue[i][m] \in Known
      BY DEF KnownInv
    <2>3. d \notin Known /\ d # NoDelivery
      BY <2>1, NoDeliveryAssumption DEF Known
    <2>4. \A b \in Calls : made'[b] = IF b = c THEN d ELSE made[b]
      BY <2>1 DEF TypeInv, TypeOK
    <2>5. \A b \in Calls : made[b] # d
      BY <2>3 DEF KnownInv
    <2> QED
      BY <2>1, <2>2, <2>3, <2>4, <2>5 DEF QueuedInv, QueuedOnce, MadeOnce
  <1>2. CASE InsertFails(c) \/ SelectFails(c)
    <2>1. UNCHANGED queue /\ made' = [made EXCEPT ![c] = NoDelivery]
      BY <1>2 DEF InsertFails, SelectFails, EndCall, nodeVars
    <2>2. \A b \in Calls : made'[b] \in {made[b], NoDelivery}
      BY <2>1 DEF TypeInv, TypeOK
    <2> QED
      BY <2>1, <2>2, QueuesShrink
  <1>3. CASE PushDelivery(c)
    <2> DEFINE h == c[1]
    <2>1. /\ h \in Instances
          /\ made[c] \in Deliveries
          /\ queue' = [queue EXCEPT ![h] = Append(@, made[c])]
          /\ made' = [made EXCEPT ![c] = NoDelivery]
      BY <1>3, HostType DEF PushDelivery, EndCall, TypeInv
    <2>2. \A i \in Instances : queue[i] \in Seq(Deliveries)
      BY DEF TypeInv, TypeOK
    <2>3. ASSUME NEW i \in Instances, NEW m \in DOMAIN queue'[i]
          PROVE  \/ m \in DOMAIN queue[i] /\ queue'[i][m] = queue[i][m]
                 \/ i = h /\ m = Len(queue[h]) + 1 /\ queue'[i][m] = made[c]
      <3>1. CASE i # h
        BY <2>1, <3>1 DEF TypeInv, TypeOK
      <3>2. CASE i = h
        <4>1. queue'[i] = Append(queue[h], made[c]) /\ queue[h] \in Seq(Deliveries)
          BY <2>1, <2>2, <3>2 DEF TypeInv, TypeOK
        <4>2. m \in 1..(Len(queue[h]) + 1) /\ Len(queue[h]) \in Nat
          BY <2>1, <4>1, AppendProperties
        <4> QED
          BY <2>1, <3>2, <4>1, <4>2, AppendProperties
      <3> QED
        BY <3>1, <3>2
    <2>4. \A i \in Instances : \A m \in DOMAIN queue[i] : queue[i][m] # made[c]
      BY DEF QueuedInv, QueuedOnce
    <2>5. \A b \in Calls : made'[b] = IF b = c THEN NoDelivery ELSE made[b]
      BY <2>1 DEF TypeInv, TypeOK
    <2>6. ASSUME NEW i \in Instances, NEW j \in Instances,
                 NEW m \in DOMAIN queue'[i], NEW n \in DOMAIN queue'[j], queue'[i][m] = queue'[j][n]
          PROVE  i = j /\ m = n
      BY <2>3, <2>4, <2>6 DEF QueuedInv, QueuedOnce
    <2>7. ASSUME NEW b \in Calls, NEW i \in Instances, NEW m \in DOMAIN queue'[i]
          PROVE  queue'[i][m] # made'[b]
      <3>1. queue'[i][m] \in Deliveries
        BY <2>1, <2>2, <2>3
      <3>2. CASE b = c
        BY <2>5, <3>1, <3>2, NoDeliveryAssumption
      <3>3. CASE b # c
        <4>1. made'[b] = made[b]
          BY <2>5, <3>3
        <4>2. CASE m \in DOMAIN queue[i] /\ queue'[i][m] = queue[i][m]
          BY <4>1, <4>2 DEF QueuedInv, QueuedOnce
        <4>3. CASE queue'[i][m] = made[c]
          BY <2>1, <3>3, <4>1, <4>3, NoDeliveryAssumption DEF QueuedInv, MadeOnce
        <4> QED
          BY <2>3, <4>2, <4>3
      <3> QED
        BY <3>2, <3>3
    <2>8. MadeOnce'
      BY <2>5 DEF QueuedInv, MadeOnce
    <2> QED
      BY <2>6, <2>7, <2>8 DEF QueuedInv, QueuedOnce
  <1> QED
    BY <1>1, <1>2, <1>3 DEF CallStep

LEMMA QueuedRunStep ==
  ASSUME TypeInv, QueuedInv, NEW w \in Workers, RunStep(w)
  PROVE  QueuedInv'
  <1>1. CASE ShiftItem(w)
    <2>1. /\ queue[w[1]] # <<>>
          /\ queue' = [queue EXCEPT ![w[1]] = Tail(@)]
          /\ UNCHANGED made
      BY <1>1 DEF ShiftItem, callVars
    <2>2. \A i \in Instances : \/ queue'[i] \in {queue[i], <<>>}
                               \/ queue[i] # <<>> /\ queue'[i] = Tail(queue[i])
      BY <2>1, HostType DEF TypeInv, TypeOK
    <2> QED
      BY <2>1, <2>2, QueuesShrink
  <1>2. CASE ~ShiftItem(w)
    <2>1. UNCHANGED <<queue, made>>
      BY <1>2 DEF RunStep, Scan, VisitRetry, FinishRun, SendWebhook, ReadAttempts, RecordOutcome,
                  RunFault, nodeVars, callVars
    <2> QED
      BY <2>1, QueuesShrink
  <1> QED
    BY <1>1, <1>2

LEMMA QueuedStep == TypeInv /\ KnownInv /\ QueuedInv /\ [Next]_vars => QueuedInv'
  <1> SUFFICES ASSUME TypeInv, KnownInv, QueuedInv, [Next]_vars PROVE QueuedInv'
    OBVIOUS
  <1>1. ASSUME UNCHANGED <<queue, made>> PROVE QueuedInv'
    BY <1>1, QueuesShrink
  <1>2. CASE Manage
    BY <1>1, <1>2 DEF Manage, CreateConfig, SetEnabled, DeleteConfig, nodeVars, callVars
  <1>3. CASE CallStarts
    BY <1>1, <1>3 DEF CallStarts, Enqueue, nodeVars
  <1>4. ASSUME NEW w \in Workers, IntervalTick(w) \/ ImmediateRuns(w) PROVE QueuedInv'
    BY <1>1, <1>4 DEF IntervalTick, ImmediateRuns, callVars
  <1>5. ASSUME NEW i \in Instances, ImmediateReturns(i) \/ Start(i) PROVE QueuedInv'
    BY <1>1, <1>5 DEF ImmediateReturns, Start, callVars
  <1>6. ASSUME NEW i \in Instances, Exit(i) PROVE QueuedInv'
    <2>1. /\ queue' = [queue EXCEPT ![i] = <<>>]
          /\ made' = [c \in Calls |-> IF c[1] = i THEN NoDelivery ELSE made[c]]
      BY <1>6 DEF Exit
    <2>2. \A j \in Instances : queue'[j] \in {queue[j], <<>>}
      BY <2>1 DEF TypeInv, TypeOK
    <2> QED
      BY <2>1, <2>2, QueuesShrink
  <1>7. ASSUME NEW d \in Deliveries, BackoffElapses(d) PROVE QueuedInv'
    BY <1>1, <1>7 DEF BackoffElapses, nodeVars, callVars
  <1>8. CASE UNCHANGED vars
    BY <1>1, <1>8 DEF vars, nodeVars, callVars
  <1> QED
    BY <1>2, <1>3, <1>4, <1>5, <1>6, <1>7, <1>8, QueuedCallStep, QueuedRunStep DEF Next, Lifecycle

\* No delivery is in the in-memory queues of all processes twice, nor there
\* while its enqueue call has yet to push it: see QueuedOnce.
THEOREM ItemsAreQueuedOnce == Spec => []QueuedOnce
  <1>1. QueuedInv => QueuedOnce
    BY DEF QueuedInv
  <1> QED
    BY TypeInit, TypeStep, KnownInit, KnownStep, QueuedInit, QueuedStep, <1>1, PTL DEF Spec

-----------------------------------------------------------------------------
(***************************************************************************)
(* A single process.  Its one run is the only one to record outcomes, so   *)
(* what it read of a row is still so when it writes.                       *)
(***************************************************************************)

OneInstance == \A i, j \in Instances : i = j

FreshInv ==
    /\ NoStrandedRow
    /\ RetryBatchIsFresh
    /\ \A d \in Unused : attempts[d] = 0
    /\ \A w \in Workers :
        /\ pc[w] = "idle" => batch[w] = {}
        /\ pc[w] \in {"send"} \cup Unrecorded => cur[w] \notin batch[w]
        /\ pc[w] = "retry" => status[cur[w]] = "none" \/ attempts[cur[w]] + 1 < MaxAttempts

LEMMA FreshInit == Init => FreshInv
  <1> SUFFICES ASSUME Init PROVE FreshInv
    OBVIOUS
  <1>1. /\ \A d \in Deliveries : status[d] = "none" /\ attempts[d] = 0
        /\ \A w \in Workers : pc[w] = "idle" /\ batch[w] = {}
    BY DEF Init
  <1> QED
    BY <1>1 DEF FreshInv, NoStrandedRow, RetryBatchIsFresh, Unrecorded, Unused

\* An id stays used, and only rows that are there count attempts.
LEMMA UnusedStay ==
  ASSUME TypeInv, KnownInv, [Next]_vars, \A d \in Unused : attempts[d] = 0
  PROVE  \A d \in Unused' : attempts'[d] = 0
  <1>1. ASSUME UNCHANGED <<born, attempts>> PROVE \A d \in Unused' : attempts'[d] = 0
    BY <1>1 DEF Unused
  <1>2. CASE Manage
    BY <1>1, <1>2 DEF Manage, CreateConfig, SetEnabled, DeleteConfig
  <1>3. CASE CallStarts
    BY <1>1, <1>3 DEF CallStarts, Enqueue, dbVars
  <1>4. ASSUME NEW c \in Calls, CallStep(c) PROVE \A d \in Unused' : attempts'[d] = 0
    <2>1. ASSUME NEW k \in Configs, NEW d \in Deliveries, InsertDelivery(c, k, d)
          PROVE  \A e \in Unused' : attempts'[e] = 0
      <3>1. /\ born' = [born EXCEPT ![d] = Cardinality(Known) + 1]
            /\ UNCHANGED attempts
            /\ d \in Unused
        BY <2>1 DEF InsertDelivery
      <3>2. \A e \in Deliveries : e # d => born'[e] = born[e]
        BY <3>1 DEF TypeInv, TypeOK
      <3> QED
        BY <3>1, <3>2 DEF Unused
    <2> QED
      BY <1>1, <1>4, <2>1 DEF CallStep, InsertFails, PushDelivery, SelectFails, dbVars
  <1>5. ASSUME NEW w \in Workers, IntervalTick(w) \/ ImmediateRuns(w)
        PROVE  \A d \in Unused' : attempts'[d] = 0
    BY <1>1, <1>5 DEF IntervalTick, ImmediateRuns, dbVars
  <1>6. ASSUME NEW w \in Workers, RunStep(w) PROVE \A d \in Unused' : attempts'[d] = 0
    <2>1. CASE RecordOutcome(w)
      <3>1. cur[w] \in Deliveries /\ UpdateDeliveryStatus(cur[w], Outcome(pc[w]))
        BY <2>1 DEF RecordOutcome, TypeInv, Unrecorded
      <3>2. CASE status[cur[w]] = "none"
        BY <1>1, <3>1, <3>2 DEF UpdateDeliveryStatus, dbVars
      <3>3. CASE status[cur[w]] # "none"
        <4>1. attempts' = [attempts EXCEPT ![cur[w]] = @ + 1] /\ UNCHANGED born
          BY <3>1, <3>3 DEF UpdateDeliveryStatus
        <4>2. cur[w] \notin Unused
          BY <3>3 DEF KnownInv
        <4> QED
          BY <4>1, <4>2 DEF Unused, TypeInv, TypeOK
      <3> QED
        BY <3>2, <3>3
    <2>2. CASE ~RecordOutcome(w)
      <3>1. UNCHANGED dbVars
        BY <1>6, <2>2 DEF RunStep, Scan, VisitRetry, ShiftItem, FinishRun, SendWebhook, ReadAttempts,
                          RunFault
      <3> QED
        BY <1>1, <3>1 DEF dbVars
    <2> QED
      BY <2>1, <2>2
  <1>7. ASSUME NEW i \in Instances, ImmediateReturns(i) \/ Lifecycle(i)
        PROVE  \A d \in Unused' : attempts'[d] = 0
    BY <1>1, <1>7 DEF ImmediateReturns, Lifecycle, Start, Exit, dbVars
  <1>8. ASSUME NEW d \in Deliveries, BackoffElapses(d) PROVE \A e \in Unused' : attempts'[e] = 0
    BY <1>1, <1>8 DEF BackoffElapses
  <1>9. CASE UNCHANGED vars
    BY <1>1, <1>9 DEF vars, dbVars
  <1> QED
    BY <1>2, <1>3, <1>4, <1>5, <1>6, <1>7, <1>8, <1>9 DEF Next

LEMMA FreshAside ==
  ASSUME TypeInv, KnownInv, FreshInv, Aside, \A d \in Unused' : attempts'[d] = 0
  PROVE  FreshInv'
  <1>1. \A d \in Unused : attempts[d] < MaxAttempts
    BY MaxAttemptsAssumption DEF FreshInv
  <1>2. \A d \in Deliveries : \/ status'[d] \in {status[d], "none"}
                              \/ status'[d] = "pending" /\ attempts[d] < MaxAttempts
    BY <1>1 DEF Aside
  <1>3. UNCHANGED <<attempts, pc, batch, cur>>
    BY DEF Aside, workVars
  <1>4. NoStrandedRow'
    BY <1>2, <1>3 DEF FreshInv, NoStrandedRow
  <1>5. RetryBatchIsFresh'
    <2> SUFFICES ASSUME NEW w \in Workers, NEW d \in batch[w]
                 PROVE  status'[d] \in {"pending", "retrying", "none"} /\ attempts[d] < MaxAttempts
      BY <1>3 DEF RetryBatchIsFresh
    <2>1. d \in Deliveries
      BY DEF TypeInv, TypeOK
    <2> QED
      BY <1>2, <2>1 DEF FreshInv, RetryBatchIsFresh
  <1>6. ASSUME NEW w \in Workers, pc[w] = "retry"
        PROVE  status'[cur[w]] = "none" \/ attempts[cur[w]] + 1 < MaxAttempts
    <2>1. cur[w] \in Deliveries
      BY <1>6 DEF TypeInv, Unrecorded
    <2>2. cur[w] \notin Unused
      BY <2>1, NoDeliveryAssumption DEF KnownInv, Known
    <2> QED
      BY <1>6, <2>1, <2>2 DEF FreshInv, Aside
  <1> QED
    BY <1>3, <1>4, <1>5, <1>6 DEF FreshInv


\* A run step alone: with one instance the other invocations are idle.
LEMMA OthersIdle ==
  ASSUME OneInstance, OneRunPerInstance, NEW w \in Workers, pc[w] # "idle"
  PROVE  \A v \in Workers : v # w => pc[v] = "idle"
  BY HostType DEF OneInstance, OneRunPerInstance

LEMMA FreshRunStep ==
  ASSUME OneInstance, TypeInv, KnownInv, OneRunPerInstance, FreshInv,
         \A d \in Unused' : attempts'[d] = 0, NEW w \in Workers, RunStep(w)
  PROVE  FreshInv'
  <1>1. pc[w] # "idle"
    BY DEF RunStep, Scan, VisitRetry, ShiftItem, FinishRun, SendWebhook, ReadAttempts,
           RecordOutcome, RunFault, Unrecorded
  <1>2. \A v \in Workers \ {w} : pc[v] = "idle" /\ batch[v] = {}
    BY <1>1, OthersIdle DEF FreshInv
  <1> DEFINE Own ==
        /\ pc'[w] = "idle" => batch'[w] = {}
        /\ pc'[w] \in {"send"} \cup Unrecorded => cur'[w] \notin batch'[w]
        /\ pc'[w] = "retry" => status'[cur'[w]] = "none" \/ attempts'[cur'[w]] + 1 < MaxAttempts
        /\ \A d \in batch'[w] : /\ status'[d] \in {"pending", "retrying", "none"}
                                /\ attempts'[d] < MaxAttempts
  <1>3. ASSUME Own, NoStrandedRow',
               \A v \in Workers \ {w} : pc'[v] = pc[v] /\ batch'[v] = batch[v]
        PROVE  FreshInv'
    BY <1>2, <1>3 DEF FreshInv, RetryBatchIsFresh, Unrecorded
  <1> USE DEF TypeInv, TypeOK
  <1>4. ASSUME UNCHANGED <<status, attempts>>
        PROVE  NoStrandedRow'
    BY <1>4 DEF FreshInv, NoStrandedRow
  <1>5. \A d \in batch[w] : /\ d \in Deliveries
                            /\ status[d] \in {"pending", "retrying", "none"}
                            /\ attempts[d] < MaxAttempts
    BY DEF FreshInv, RetryBatchIsFresh
  <1>6. CASE Scan(w)
    <2>1. /\ batch' = [batch EXCEPT ![w] = PendingRetries]
          /\ pc' = [pc EXCEPT ![w] = "next"]
          /\ UNCHANGED <<status, attempts>>
      BY <1>6 DEF Scan, dbVars
    <2>2. \A d \in PendingRetries : status[d] \in {"pending", "retrying"} /\ attempts[d] < MaxAttempts
      BY DEF PendingRetries, Eligible
    <2> QED
      BY <1>3, <1>4, <2>1, <2>2 DEF Unrecorded
  <1>7. ASSUME NEW d \in Deliveries, VisitRetry(w, d)
        PROVE  FreshInv'
    <2>1. /\ batch' = [batch EXCEPT ![w] = @ \ {d}]
          /\ \/ pc' = [pc EXCEPT ![w] = "send"] /\ cur' = [cur EXCEPT ![w] = d]
             \/ pc[w] = "next" /\ UNCHANGED <<pc, cur>>
          /\ UNCHANGED <<status, attempts>>
      BY <1>7 DEF VisitRetry, dbVars
    <2>2. pc'[w] \in {"send", "next"} /\ (pc'[w] = "send" => cur'[w] = d)
      BY <2>1
    <2>3. batch'[w] = batch[w] \ {d}
      BY <2>1
    <2>4. \A v \in Workers \ {w} : pc'[v] = pc[v] /\ batch'[v] = batch[v]
      BY <2>1
    <2> QED
      BY <1>3, <1>4, <1>5, <2>1, <2>2, <2>3, <2>4 DEF Unrecorded
  <1>8. CASE ShiftItem(w)
    <2>1. /\ batch[w] = {}
          /\ pc' = [pc EXCEPT ![w] = "send"]
          /\ UNCHANGED <<status, attempts, batch>>
      BY <1>8 DEF ShiftItem, dbVars
    <2> QED
      BY <1>3, <1>4, <2>1
  <1>9. CASE FinishRun(w)
    <2>1. /\ batch[w] = {}
          /\ pc' = [pc EXCEPT ![w] = "idle"]
          /\ UNCHANGED <<status, attempts, batch>>
      BY <1>9 DEF FinishRun, dbVars
    <2> QED
      BY <1>3, <1>4, <2>1
  <1>10. ASSUME NEW success \in BOOLEAN, SendWebhook(w, success)
         PROVE  FreshInv'
    <2>1. /\ pc[w] = "send"
          /\ pc' = [pc EXCEPT ![w] = IF success THEN "ack" ELSE "nack"]
          /\ UNCHANGED <<status, attempts, batch, cur>>
      BY <1>10 DEF SendWebhook, dbVars
    <2>2. cur[w] \notin batch[w]
      BY <2>1 DEF FreshInv
    <2> QED
      BY <1>3, <1>4, <1>5, <2>1, <2>2
  <1>11. CASE ReadAttempts(w)
    <2>1. /\ pc[w] = "nack"
          /\ pc' = [pc EXCEPT ![w] =
                       IF status[cur[w]] # "none" /\ attempts[cur[w]] + 1 < MaxAttempts
                       THEN "retry" ELSE "fail"]
          /\ UNCHANGED <<status, attempts, batch, cur>>
      BY <1>11 DEF ReadAttempts, dbVars
    <2>2. cur[w] \notin batch[w]
      BY <2>1 DEF FreshInv, Unrecorded
    <2>3. pc'[w] \in {"retry", "fail"} /\ (pc'[w] = "retry" => attempts[cur[w]] + 1 < MaxAttempts)
      BY <2>1
    <2> QED
      BY <1>3, <1>4, <1>5, <2>1, <2>2, <2>3
  <1>12. CASE RecordOutcome(w)
    <2>1. /\ pc[w] \in {"ack", "retry", "fail"}
          /\ cur[w] \in Deliveries
          /\ cur[w] \notin batch[w]
          /\ UpdateDeliveryStatus(cur[w], Outcome(pc[w]))
          /\ pc' = [pc EXCEPT ![w] = "next"]
          /\ UNCHANGED <<batch, cur>>
      BY <1>12 DEF RecordOutcome, FreshInv, Unrecorded
    <2>2. CASE status[cur[w]] = "none"
      <3>1. UNCHANGED <<status, attempts>>
        BY <2>1, <2>2 DEF UpdateDeliveryStatus, dbVars
      <3> QED
        BY <1>3, <1>4, <1>5, <2>1, <3>1 DEF Unrecorded
    <2>3. CASE status[cur[w]] # "none"
      <3>1. /\ status' = [status EXCEPT ![cur[w]] = Outcome(pc[w])]
            /\ attempts' = [attempts EXCEPT ![cur[w]] = @ + 1]
        BY <2>1, <2>3 DEF UpdateDeliveryStatus
      <3>2. \A d \in Deliveries : d # cur[w] => status'[d] = status[d] /\ attempts'[d] = attempts[d]
        BY <3>1
      <3>3. /\ status'[cur[w]] = Outcome(pc[w])
            /\ attempts'[cur[w]] = attempts[cur[w]] + 1
        BY <2>1, <3>1
      <3>4. Outcome(pc[w]) \in {"pending", "retrying"} => attempts[cur[w]] + 1 < MaxAttempts
        BY <2>1, <2>3 DEF Outcome, FreshInv
      <3>5. NoStrandedRow'
        BY <3>2, <3>3, <3>4 DEF FreshInv, NoStrandedRow
      <3>6. \A d \in batch'[w] : /\ status'[d] \in {"pending", "retrying", "none"}
                                 /\ attempts'[d] < MaxAttempts
        BY <1>5, <2>1, <3>2
      <3> QED
        BY <1>3, <2>1, <3>5, <3>6 DEF Unrecorded
    <2> QED
      BY <2>2, <2>3
  <1>13. CASE RunFault(w)
    <2>1. /\ batch' = [batch EXCEPT ![w] = IF pc[w] \in {"scan", "next"} THEN {} ELSE @]
          /\ pc' = [pc EXCEPT ![w] = "next"]
          /\ UNCHANGED <<status, attempts>>
      BY <1>13 DEF RunFault, dbVars
    <2>2. batch'[w] \subseteq batch[w]
      BY <2>1
    <2>3. \A v \in Workers \ {w} : pc'[v] = pc[v] /\ batch'[v] = batch[v]
      BY <2>1
    <2> QED
      BY <1>3, <1>4, <1>5, <2>1, <2>2, <2>3 DEF Unrecorded
  <1> QED
    BY <1>6, <1>7, <1>8, <1>9, <1>10, <1>11, <1>12, <1>13 DEF RunStep

LEMMA FreshStep ==
  ASSUME OneInstance, TypeInv, KnownInv, OneRunPerInstance, FreshInv, [Next]_vars
  PROVE  FreshInv'
  <1>1. \A d \in Unused' : attempts'[d] = 0
    BY UnusedStay DEF FreshInv
  <1>2. CASE Aside
    BY <1>1, <1>2, FreshAside
  <1>3. ASSUME NEW w \in Workers, IntervalTick(w) \/ ImmediateRuns(w) PROVE FreshInv'
    <2>1. /\ pc' = [pc EXCEPT ![w] = "scan"]
          /\ UNCHANGED <<status, attempts, batch, cur>>
      BY <1>3 DEF IntervalTick, ImmediateRuns, ProcessQueue, dbVars
    <2> QED
      BY <1>1, <2>1 DEF FreshInv, NoStrandedRow, RetryBatchIsFresh, Unrecorded, TypeInv, TypeOK
  <1>4. ASSUME NEW i \in Instances, Exit(i) PROVE FreshInv'
    <2>1. /\ pc' = [w \in Workers |-> IF w[1] = i THEN "idle" ELSE pc[w]]
          /\ batch' = [w \in Workers |-> IF w[1] = i THEN {} ELSE batch[w]]
          /\ cur' = [w \in Workers |-> IF w[1] = i THEN NoDelivery ELSE cur[w]]
          /\ UNCHANGED <<status, attempts>>
      BY <1>4 DEF Exit, dbVars
    <2> QED
      BY <1>1, <2>1 DEF FreshInv, NoStrandedRow, RetryBatchIsFresh, Unrecorded
  <1> QED
    BY <1>1, <1>2, <1>3, <1>4, StepKinds, FreshRunStep

\* In a single process, a row still to be retried is one the retry query can
\* find, and the rows a run has yet to retry have not been settled since its
\* query: see NoStrandedRow and RetryBatchIsFresh.
THEOREM SingleProcessRetries == Spec => [](OneInstance => NoStrandedRow /\ RetryBatchIsFresh)
  <1>1. TypeInv /\ KnownInv /\ OneRunPerInstance /\ (OneInstance => FreshInv) /\ [Next]_vars
           => (OneInstance => FreshInv)'
    BY FreshStep DEF OneInstance
  <1>2. Init => (OneInstance => FreshInv)
    BY FreshInit
  <1>3. (OneInstance => FreshInv) => (OneInstance => NoStrandedRow /\ RetryBatchIsFresh)
    BY DEF FreshInv
  <1> QED
    BY TypeInit, TypeStep, KnownInit, KnownStep, OneRunCorrect, <1>1, <1>2, <1>3, PTL DEF Spec

\* In a single process every row still to be retried is one that the retry
\* query can find: see NoStrandedRow.
THEOREM NoRowStranded == Spec => [](OneInstance => NoStrandedRow)
  BY SingleProcessRetries, PTL

-----------------------------------------------------------------------------
(***************************************************************************)
(* How far the attempts of a delivery overrun its limit.  A delivery is    *)
(* sent because a run took it from the retry query, while its attempts     *)
(* were within the limit, or from a queue, once.  Each process carries it  *)
(* in one run, so at most so many sends, and the item, follow the last     *)
(* attempt within the limit.                                               *)
(***************************************************************************)

\* The queue item of the delivery is still to be taken up.
Waiting(d) ==
    \/ \E c \in Calls : made[c] = d
    \/ \E i \in Instances : \E m \in DOMAIN queue[i] : queue[i][m] = d

\* The runs that will send the delivery, or have yet to record that they did.
Carriers(d) ==
    {w \in Workers : d \in batch[w] \/ (cur[w] = d /\ pc[w] \in {"send"} \cup Unrecorded)}

ItemLeft(d) == IF Waiting(d) THEN 1 ELSE 0

CarriedOnce ==
    \A w \in Workers :
        /\ pc[w] = "idle" => batch[w] = {}
        /\ pc[w] \in {"send"} \cup Unrecorded => cur[w] \notin batch[w]

CarryInv ==
    /\ CarriedOnce
    /\ \A d \in Unused : attempts[d] = 0
    /\ \A d \in Deliveries :
        attempts[d] + Cardinality(Carriers(d)) + ItemLeft(d) <= MaxAttempts + Cardinality(Instances)

LEMMA ItemLeftNat == \A d \in Deliveries : ItemLeft(d) \in {0, 1} /\ (Waiting(d) <=> ItemLeft(d) = 1)
  BY DEF ItemLeft

\* Only createDelivery makes an item, and only for an id that was not in use.
LEMMA WaitingStep ==
  ASSUME TypeInv, [Next]_vars, NEW d \in Deliveries \ Unused, Waiting(d)'
  PROVE  Waiting(d)
  <1>1. ASSUME \A i \in Instances : \/ queue'[i] \in {queue[i], <<>>}
                                    \/ queue[i] # <<>> /\ queue'[i] = Tail(queue[i]),
               \A c \in Calls : made'[c] \in {made[c], NoDelivery}
        PROVE  Waiting(d)
    <2>1. CASE \E c \in Calls : made'[c] = d
      BY <1>1, <2>1, NoDeliveryAssumption DEF Waiting
    <2>2. ASSUME NEW i \in Instances, NEW m \in DOMAIN queue'[i], queue'[i][m] = d PROVE Waiting(d)
      <3>1. queue[i] \in Seq(Deliveries)
        BY DEF TypeInv, TypeOK
      <3>2. CASE queue'[i] = queue[i]
        BY <2>2, <3>2 DEF Waiting
      <3>3. CASE queue'[i] = <<>>
        BY <2>2, <3>3
      <3>4. CASE queue[i] # <<>> /\ queue'[i] = Tail(queue[i])
        <4>1. /\ Len(queue'[i]) = Len(queue[i]) - 1
              /\ \A n \in 1..Len(queue'[i]) : queue'[i][n] = queue[i][n + 1]
              /\ queue'[i] \in Seq(Deliveries)
          BY <3>1, <3>4, HeadTailProperties
        <4>2. m \in 1..Len(queue'[i]) /\ Len(queue[i]) \in Nat
          BY <3>1, <4>1
        <4>3. m + 1 \in DOMAIN queue[i] /\ queue[i][m + 1] = d
          BY <2>2, <3>1, <4>1, <4>2
        <4> QED
          BY <4>3 DEF Waiting
      <3> QED
        BY <1>1, <3>2, <3>3, <3>4
    <2> QED
      BY <2>1, <2>2 DEF Waiting
  <1>2. CASE UNCHANGED <<queue, made>>
    BY <1>2 DEF Waiting
  <1>3. CASE Manage
    BY <1>2, <1>3 DEF Manage, CreateConfig, SetEnabled, DeleteConfig, nodeVars, callVars
  <1>4. CASE CallStarts
    BY <1>2, <1>4 DEF CallStarts, Enqueue, nodeVars
  <1>5. ASSUME NEW w \in Workers, IntervalTick(w) \/ ImmediateRuns(w) PROVE Waiting(d)
    BY <1>2, <1>5 DEF IntervalTick, ImmediateRuns, callVars
  <1>6. ASSUME NEW i \in Instances, ImmediateReturns(i) \/ Start(i) PROVE Waiting(d)
    BY <1>2, <1>6 DEF ImmediateReturns, Start, callVars
  <1>7. ASSUME NEW i \in Instances, Exit(i) PROVE Waiting(d)
    <2>1. /\ queue' = [queue EXCEPT ![i] = <<>>]
          /\ made' = [c \in Calls |-> IF c[1] = i THEN NoDelivery ELSE made[c]]
      BY <1>7 DEF Exit
    <2>2. \A j \in Instances : queue'[j] \in {queue[j], <<>>}
      BY <2>1 DEF TypeInv, TypeOK
    <2> QED
      BY <1>1, <2>1, <2>2
  <1>8. ASSUME NEW e \in Deliveries, BackoffElapses(e) PROVE Waiting(d)
    BY <1>2, <1>8 DEF BackoffElapses, nodeVars, callVars
  <1>9. CASE UNCHANGED vars
    BY <1>2, <1>9 DEF vars, nodeVars, callVars
  <1>10. ASSUME NEW w \in Workers, RunStep(w) PROVE Waiting(d)
    <2>1. CASE ShiftItem(w)
      <3>1. /\ queue[w[1]] # <<>>
            /\ queue' = [queue EXCEPT ![w[1]] = Tail(@)]
            /\ UNCHANGED made
        BY <2>1 DEF ShiftItem, callVars
      <3>2. \A i \in Instances : \/ queue'[i] \in {queue[i], <<>>}
                                 \/ queue[i] # <<>> /\ queue'[i] = Tail(queue[i])
        BY <3>1, HostType DEF TypeInv, TypeOK
      <3> QED
        BY <1>1, <3>1, <3>2
    <2>2. CASE ~ShiftItem(w)
      BY <1>2, <1>10, <2>2 DEF RunStep, Scan, VisitRetry, FinishRun, SendWebhook, ReadAttempts,
                               RecordOutcome, RunFault, nodeVars, callVars
    <2> QED
      BY <2>1, <2>2
  <1>11. ASSUME NEW c \in Calls, CallStep(c) PROVE Waiting(d)
    <2>1. ASSUME NEW k \in Configs, NEW e \in Deliveries, InsertDelivery(c, k, e) PROVE Waiting(d)
      <3>1. e \in Unused /\ made' = [made EXCEPT ![c] = e] /\ UNCHANGED queue
        BY <2>1 DEF InsertDelivery, nodeVars
      <3>2. \A b \in Calls : made'[b] = IF b = c THEN e ELSE made[b]
        BY <3>1 DEF TypeInv, TypeOK
      <3> QED
        BY <3>1, <3>2 DEF Waiting
    <2>2. CASE InsertFails(c) \/ SelectFails(c)
      <3>1. UNCHANGED queue /\ made' = [made EXCEPT ![c] = NoDelivery]
        BY <2>2 DEF InsertFails, SelectFails, EndCall, nodeVars
      <3>2. \A b \in Calls : made'[b] \in {made[b], NoDelivery}
        BY <3>1 DEF TypeInv, TypeOK
      <3> QED
        BY <1>1, <3>1, <3>2
    <2>3. CASE PushDelivery(c)
      <3> DEFINE h == c[1]
      <3>1. /\ h \in Instances
            /\ made[c] \in Deliveries
            /\ queue' = [queue EXCEPT ![h] = Append(@, made[c])]
            /\ made' = [made EXCEPT ![c] = NoDelivery]
        BY <2>3, HostType DEF PushDelivery, EndCall, TypeInv
      <3>2. \A b \in Calls : made'[b] \in {made[b], NoDelivery}
        BY <3>1 DEF TypeInv, TypeOK
      <3>3. CASE \E b \in Calls : made'[b] = d
        BY <3>2, <3>3, NoDeliveryAssumption DEF Waiting
      <3>4. ASSUME NEW i \in Instances, NEW m \in DOMAIN queue'[i], queue'[i][m] = d PROVE Waiting(d)
        <4>1. queue[h] \in Seq(Deliveries)
          BY <3>1 DEF TypeInv, TypeOK
        <4>2. CASE i # h
          BY <3>1, <3>4, <4>2 DEF Waiting, TypeInv, TypeOK
        <4>3. CASE i = h
          <5>1. queue'[i] = Append(queue[h], made[c])
            BY <3>1, <4>3 DEF TypeInv, TypeOK
          <5>2. m \in 1..(Len(queue[h]) + 1) /\ Len(queue[h]) \in Nat
            BY <3>1, <3>4, <4>1, <5>1, AppendProperties
          <5>3. CASE m \in 1..Len(queue[h])
            <6>1. queue[h][m] = d /\ m \in DOMAIN queue[h]
              BY <3>1, <3>4, <4>1, <5>1, <5>3, AppendProperties
            <6> QED
              BY <3>1, <6>1 DEF Waiting
          <5>4. CASE m = Len(queue[h]) + 1
            <6>1. made[c] = d
              BY <3>1, <3>4, <4>1, <5>1, <5>4, AppendProperties
            <6> QED
              BY <6>1 DEF Waiting
          <5> QED
            BY <5>2, <5>3, <5>4
        <4> QED
          BY <4>2, <4>3
      <3> QED
        BY <3>3, <3>4 DEF Waiting
    <2> QED
      BY <1>11, <2>1, <2>2, <2>3 DEF CallStep
  <1> QED
    BY <1>3, <1>4, <1>5, <1>6, <1>7, <1>8, <1>9, <1>10, <1>11 DEF Next, Lifecycle

\* The item that a run takes up was waiting, and no longer is.
LEMMA WaitingShift ==
  ASSUME TypeInv, QueuedInv, NEW w \in Workers, ShiftItem(w), NEW d \in Deliveries, cur'[w] = d
  PROVE  Waiting(d) /\ ~Waiting(d)'
  <1> DEFINE i == w[1]
  <1>1. /\ queue[i] # <<>>
        /\ queue' = [queue EXCEPT ![i] = Tail(@)]
        /\ Head(queue[i]) = d
        /\ UNCHANGED made
    BY DEF ShiftItem, callVars, TypeInv, TypeOK
  <1>2. i \in Instances /\ queue[i] \in Seq(Deliveries)
    BY HostType DEF TypeInv, TypeOK
  <1>3. /\ d = queue[i][1] /\ 1 \in DOMAIN queue[i]
        /\ Tail(queue[i]) \in Seq(Deliveries)
        /\ Len(Tail(queue[i])) = Len(queue[i]) - 1
        /\ \A n \in 1..Len(Tail(queue[i])) : Tail(queue[i])[n] = queue[i][n + 1]
    BY <1>1, <1>2, HeadTailProperties
  <1>4. Waiting(d)
    BY <1>2, <1>3 DEF Waiting
  <1>5. \A c \in Calls : made'[c] # d
    BY <1>1, <1>2, <1>3 DEF QueuedInv, QueuedOnce
  <1>6. ASSUME NEW j \in Instances, NEW m \in DOMAIN queue'[j], queue'[j][m] = d PROVE FALSE
    <2>1. CASE j # i
      <3>1. queue'[j] = queue[j]
        BY <1>1, <2>1 DEF TypeInv, TypeOK
      <3> QED
        BY <1>2, <1>3, <1>6, <2>1, <3>1 DEF QueuedInv, QueuedOnce
    <2>2. CASE j = i
      <3>1. queue'[j] = Tail(queue[i])
        BY <1>1, <1>2, <2>2 DEF TypeInv, TypeOK
      <3>2. m \in 1..Len(Tail(queue[i])) /\ Len(queue[i]) \in Nat
        BY <1>2, <1>3, <1>6, <3>1
      <3>3. queue[i][m + 1] = d /\ m + 1 \in DOMAIN queue[i]
        BY <1>2, <1>3, <1>6, <3>1, <3>2
      <3>4. m + 1 = 1
        BY <1>2, <1>3, <3>3 DEF QueuedInv, QueuedOnce
      <3> QED
        BY <3>2, <3>4
    <2> QED
      BY <2>1, <2>2
  <1>7. ~Waiting(d)'
    BY <1>5, <1>6 DEF Waiting
  <1> QED
    BY <1>4, <1>7

LEMMA OnePerInstance ==
  ASSUME NEW S \in SUBSET Workers, \A v, w \in S : v[1] = w[1] => v = w
  PROVE  Cardinality(S) \in Nat /\ Cardinality(S) <= Cardinality(Instances)
  <1> DEFINE f == [w \in S |-> w[1]]
  <1>1. f \in Injection(S, Instances)
    BY HostType DEF Injection, IsInjective
  <1> HIDE DEF f
  <1> QED
    BY <1>1, InstancesAssumption, FS_Injection, FS_CardinalityType

LEMMA CarriersFinite ==
  ASSUME NEW S \in SUBSET Workers
  PROVE  IsFiniteSet(S) /\ Cardinality(S) \in Nat
  BY InstancesAssumption, SlotsAssumption, FS_Product, FS_Subset, FS_CardinalityType DEF Workers

LEMMA CarriedInit == Init => CarriedOnce
  <1> SUFFICES ASSUME Init PROVE CarriedOnce
    OBVIOUS
  <1>1. \A w \in Workers : pc[w] = "idle" /\ batch[w] = {}
    BY DEF Init
  <1> QED
    BY <1>1 DEF CarriedOnce, Unrecorded

LEMMA CarriedStep ==
  ASSUME TypeInv, CarriedOnce, [Next]_vars
  PROVE  CarriedOnce'
  <1>1. CASE Aside
    BY <1>1 DEF Aside, workVars, CarriedOnce
  <1>2. ASSUME NEW w \in Workers, IntervalTick(w) \/ ImmediateRuns(w) PROVE CarriedOnce'
    <2>1. pc' = [pc EXCEPT ![w] = "scan"] /\ UNCHANGED <<batch, cur>>
      BY <1>2 DEF IntervalTick, ImmediateRuns, ProcessQueue
    <2> QED
      BY <2>1 DEF CarriedOnce, Unrecorded, TypeInv, TypeOK
  <1>3. ASSUME NEW i \in Instances, Exit(i) PROVE CarriedOnce'
    <2>1. /\ pc' = [w \in Workers |-> IF w[1] = i THEN "idle" ELSE pc[w]]
          /\ batch' = [w \in Workers |-> IF w[1] = i THEN {} ELSE batch[w]]
          /\ cur' = [w \in Workers |-> IF w[1] = i THEN NoDelivery ELSE cur[w]]
      BY <1>3 DEF Exit
    <2> QED
      BY <2>1 DEF CarriedOnce, Unrecorded
  <1>4. ASSUME NEW w \in Workers, RunStep(w) PROVE CarriedOnce'
    <2> DEFINE Own ==
          /\ pc'[w] = "idle" => batch'[w] = {}
          /\ pc'[w] \in {"send"} \cup Unrecorded => cur'[w] \notin batch'[w]
    <2> USE DEF TypeInv, TypeOK
    <2>1. ASSUME Own, \A v \in Workers \ {w} : pc'[v] = pc[v] /\ batch'[v] = batch[v] /\ cur'[v] = cur[v]
          PROVE  CarriedOnce'
      BY <2>1 DEF CarriedOnce
    <2>2. CASE Scan(w)
      BY <2>1, <2>2 DEF Scan, Unrecorded
    <2>3. ASSUME NEW d \in Deliveries, VisitRetry(w, d) PROVE CarriedOnce'
      <3>1. /\ batch' = [batch EXCEPT ![w] = @ \ {d}]
            /\ \/ pc' = [pc EXCEPT ![w] = "send"] /\ cur' = [cur EXCEPT ![w] = d]
               \/ pc[w] = "next" /\ UNCHANGED <<pc, cur>>
        BY <2>3 DEF VisitRetry
      <3> QED
        BY <2>1, <3>1 DEF Unrecorded
    <2>4. CASE ShiftItem(w)
      BY <2>1, <2>4 DEF ShiftItem, Unrecorded
    <2>5. CASE FinishRun(w)
      BY <2>1, <2>5 DEF FinishRun, Unrecorded
    <2>6. ASSUME NEW success \in BOOLEAN, SendWebhook(w, success) PROVE CarriedOnce'
      BY <2>1, <2>6 DEF SendWebhook, Unrecorded, CarriedOnce
    <2>7. CASE ReadAttempts(w)
      BY <2>1, <2>7 DEF ReadAttempts, Unrecorded, CarriedOnce
    <2>8. CASE RecordOutcome(w)
      BY <2>1, <2>8 DEF RecordOutcome, Unrecorded
    <2>9. CASE RunFault(w)
      BY <2>1, <2>9 DEF RunFault, Unrecorded
    <2> QED
      BY <1>4, <2>2, <2>3, <2>4, <2>5, <2>6, <2>7, <2>8, <2>9 DEF RunStep
  <1> QED
    BY <1>1, <1>2, <1>3, <1>4, StepKinds

\* A delivery within its limit, however many carry it.
LEMMA CarryWithin ==
  ASSUME NEW d \in Deliveries, NEW n \in Nat, n < MaxAttempts,
         NEW S \in SUBSET Workers, \A v, w \in S : v[1] = w[1] => v = w, NEW x \in {0, 1}
  PROVE  n + Cardinality(S) + x <= MaxAttempts + Cardinality(Instances)
  BY OnePerInstance, InstancesAssumption, FS_CardinalityType, MaxAttemptsAssumption

LEMMA CarryInit == Init => CarryInv
  <1> SUFFICES ASSUME Init PROVE CarryInv
    OBVIOUS
  <1>1. \A d \in Deliveries : attempts[d] = 0 /\ 0 < MaxAttempts /\ Carriers(d) = {}
    <2>1. \A w \in Workers : pc[w] = "idle" /\ batch[w] = {}
      BY DEF Init
    <2> QED
      BY <2>1, MaxAttemptsAssumption DEF Init, Carriers, Unrecorded
  <1>2. \A d \in Deliveries :
          attempts[d] + Cardinality(Carriers(d)) + ItemLeft(d) <= MaxAttempts + Cardinality(Instances)
    BY <1>1, CarryWithin, ItemLeftNat
  <1> QED
    BY <1>1, <1>2, CarriedInit DEF CarryInv, Unused

\* The ways a step may treat one delivery.
LEMMA CarryOne ==
  ASSUME TypeInv, TypeInv', CarryInv, CarriedOnce', OneRunPerInstance', NEW d \in Deliveries,
         \/ attempts'[d] < MaxAttempts
         \/ /\ attempts'[d] = attempts[d]
            /\ Carriers(d)' \subseteq Carriers(d)
            /\ Waiting(d)' => Waiting(d)
         \/ /\ attempts'[d] = attempts[d]
            /\ \E w \in Workers : Carriers(d)' \subseteq Carriers(d) \cup {w}
            /\ Waiting(d) /\ ~Waiting(d)'
         \/ /\ attempts'[d] = attempts[d] + 1
            /\ \E w \in Carriers(d) : Carriers(d)' = Carriers(d) \ {w}
            /\ Waiting(d)' => Waiting(d)
  PROVE  (attempts[d] + Cardinality(Carriers(d)) + ItemLeft(d)
            <= MaxAttempts + Cardinality(Instances))'
  <1>1. /\ Carriers(d) \in SUBSET Workers /\ Carriers(d)' \in SUBSET Workers
        /\ attempts[d] \in Nat /\ attempts'[d] \in Nat
    BY DEF Carriers, TypeInv, TypeOK
  <1>2. /\ IsFiniteSet(Carriers(d)) /\ Cardinality(Carriers(d)) \in Nat
        /\ IsFiniteSet(Carriers(d)') /\ Cardinality(Carriers(d)') \in Nat
    BY <1>1, CarriersFinite
  <1>3. /\ Cardinality(Instances) \in Nat /\ MaxAttempts \in Nat
        /\ attempts[d] + Cardinality(Carriers(d)) + ItemLeft(d) <= MaxAttempts + Cardinality(Instances)
    BY InstancesAssumption, FS_CardinalityType, MaxAttemptsAssumption DEF CarryInv
  <1>4. /\ ItemLeft(d) \in {0, 1} /\ ItemLeft(d)' \in {0, 1}
        /\ Waiting(d) <=> ItemLeft(d) = 1
        /\ Waiting(d)' <=> ItemLeft(d)' = 1
    BY DEF ItemLeft
  <1>5. CASE attempts'[d] < MaxAttempts
    <2>1. \A w \in Carriers(d)' : pc'[w] # "idle"
      BY DEF Carriers, CarriedOnce, Unrecorded
    <2>2. \A v, w \in Carriers(d)' : v[1] = w[1] => v = w
      BY <1>1, <2>1 DEF OneRunPerInstance
    <2> QED
      BY <1>1, <1>4, <1>5, <2>2, CarryWithin
  <1>6. CASE /\ attempts'[d] = attempts[d]
             /\ Carriers(d)' \subseteq Carriers(d)
             /\ Waiting(d)' => Waiting(d)
    <2>1. Cardinality(Carriers(d)') <= Cardinality(Carriers(d))
      BY <1>2, <1>6, FS_Subset
    <2> QED
      BY <1>1, <1>2, <1>3, <1>4, <1>6, <2>1
  <1>7. CASE /\ attempts'[d] = attempts[d]
             /\ \E w \in Workers : Carriers(d)' \subseteq Carriers(d) \cup {w}
             /\ Waiting(d) /\ ~Waiting(d)'
    <2>1. PICK w \in Workers : Carriers(d)' \subseteq Carriers(d) \cup {w}
      BY <1>7
    <2>2. /\ IsFiniteSet(Carriers(d) \cup {w})
          /\ Cardinality(Carriers(d) \cup {w}) \in {Cardinality(Carriers(d)), Cardinality(Carriers(d)) + 1}
      BY <1>2, FS_AddElement
    <2>3. Cardinality(Carriers(d)') <= Cardinality(Carriers(d) \cup {w})
      BY <2>1, <2>2, FS_Subset
    <2> QED
      BY <1>1, <1>2, <1>3, <1>4, <1>7, <2>2, <2>3
  <1>8. CASE /\ attempts'[d] = attempts[d] + 1
             /\ \E w \in Carriers(d) : Carriers(d)' = Carriers(d) \ {w}
             /\ Waiting(d)' => Waiting(d)
    <2>1. Cardinality(Carriers(d)') = Cardinality(Carriers(d)) - 1
      BY <1>2, <1>8, FS_RemoveElement
    <2> QED
      BY <1>1, <1>2, <1>3, <1>4, <1>8, <2>1
  <1> QED
    BY <1>5, <1>6, <1>7, <1>8

LEMMA CarryRunStep ==
  ASSUME TypeInv, TypeInv', KnownInv, QueuedInv, CarryInv, CarriedOnce', OneRunPerInstance',
         NEW d \in Deliveries, d \notin Unused, Waiting(d)' => Waiting(d),
         NEW w \in Workers, RunStep(w)
  PROVE  (attempts[d] + Cardinality(Carriers(d)) + ItemLeft(d)
            <= MaxAttempts + Cardinality(Instances))'
  <1> USE DEF TypeInv, TypeOK
  <1>1. ASSUME UNCHANGED attempts,
               \A v \in Workers \ {w} : pc'[v] = pc[v] /\ batch'[v] = batch[v] /\ cur'[v] = cur[v],
               w \in Carriers(d)' => w \in Carriers(d)
        PROVE  (attempts[d] + Cardinality(Carriers(d)) + ItemLeft(d)
                  <= MaxAttempts + Cardinality(Instances))'
    <2>1. Carriers(d)' \subseteq Carriers(d)
      BY <1>1 DEF Carriers
    <2> QED
      BY <1>1, <2>1, CarryOne
  <1>2. CASE Scan(w)
    <2>1. /\ batch' = [batch EXCEPT ![w] = PendingRetries]
          /\ pc' = [pc EXCEPT ![w] = "next"]
          /\ UNCHANGED <<attempts, cur>>
      BY <1>2 DEF Scan, dbVars
    <2>2. CASE d \in PendingRetries
      BY <2>1, <2>2, CarryOne DEF PendingRetries, Eligible
    <2>3. CASE d \notin PendingRetries
      <3>1. w \notin Carriers(d)'
        BY <2>1, <2>3 DEF Carriers, Unrecorded
      <3> QED
        BY <1>1, <2>1, <3>1
    <2> QED
      BY <2>2, <2>3
  <1>3. ASSUME NEW e \in Deliveries, VisitRetry(w, e)
        PROVE  (attempts[d] + Cardinality(Carriers(d)) + ItemLeft(d)
                  <= MaxAttempts + Cardinality(Instances))'
    <2>1. /\ e \in batch[w]
          /\ batch' = [batch EXCEPT ![w] = @ \ {e}]
          /\ \/ pc' = [pc EXCEPT ![w] = "send"] /\ cur' = [cur EXCEPT ![w] = e]
             \/ pc[w] = "next" /\ UNCHANGED <<pc, cur>>
          /\ UNCHANGED attempts
      BY <1>3 DEF VisitRetry, dbVars
    <2>2. w \in Carriers(d)' => w \in Carriers(d)
      BY <2>1 DEF Carriers, Unrecorded
    <2> QED
      BY <1>1, <2>1, <2>2
  <1>4. CASE ShiftItem(w)
    <2>1. /\ pc' = [pc EXCEPT ![w] = "send"]
          /\ UNCHANGED <<attempts, batch>>
          /\ batch[w] = {}
          /\ \A v \in Workers \ {w} : cur'[v] = cur[v]
      BY <1>4 DEF ShiftItem, dbVars
    <2>2. CASE cur'[w] = d
      <3>1. Waiting(d) /\ ~Waiting(d)'
        BY <1>4, <2>2, WaitingShift
      <3>2. Carriers(d)' \subseteq Carriers(d) \cup {w}
        BY <2>1 DEF Carriers
      <3> QED
        BY <2>1, <3>1, <3>2, CarryOne
    <2>3. CASE cur'[w] # d
      <3>1. w \notin Carriers(d)'
        BY <2>1, <2>3 DEF Carriers
      <3> QED
        BY <1>1, <2>1, <3>1
    <2> QED
      BY <2>2, <2>3
  <1>5. CASE FinishRun(w)
    <2>1. /\ pc' = [pc EXCEPT ![w] = "idle"]
          /\ UNCHANGED <<attempts, batch>>
          /\ batch[w] = {}
          /\ \A v \in Workers \ {w} : cur'[v] = cur[v]
      BY <1>5 DEF FinishRun, dbVars
    <2>2. w \notin Carriers(d)'
      BY <2>1 DEF Carriers, Unrecorded
    <2> QED
      BY <1>1, <2>1, <2>2
  <1>6. ASSUME NEW success \in BOOLEAN, SendWebhook(w, success)
        PROVE  (attempts[d] + Cardinality(Carriers(d)) + ItemLeft(d)
                  <= MaxAttempts + Cardinality(Instances))'
    <2>1. /\ pc[w] = "send"
          /\ \A v \in Workers \ {w} : pc'[v] = pc[v]
          /\ UNCHANGED <<attempts, batch, cur>>
      BY <1>6 DEF SendWebhook, dbVars
    <2>2. w \in Carriers(d)' => w \in Carriers(d)
      BY <2>1 DEF Carriers
    <2> QED
      BY <1>1, <2>1, <2>2
  <1>7. CASE ReadAttempts(w)
    <2>1. /\ pc[w] = "nack"
          /\ \A v \in Workers \ {w} : pc'[v] = pc[v]
          /\ UNCHANGED <<attempts, batch, cur>>
      BY <1>7 DEF ReadAttempts, dbVars
    <2>2. w \in Carriers(d)' => w \in Carriers(d)
      BY <2>1 DEF Carriers, Unrecorded
    <2> QED
      BY <1>1, <2>1, <2>2
  <1>8. CASE RecordOutcome(w)
    <2>1. /\ pc[w] \in Unrecorded
          /\ pc' = [pc EXCEPT ![w] = "next"]
          /\ UNCHANGED <<batch, cur>>
          /\ attempts' \in {attempts, [attempts EXCEPT ![cur[w]] = @ + 1]}
          /\ cur[w] \in Deliveries
      BY <1>8 DEF RecordOutcome, UpdateDeliveryStatus, Unrecorded, dbVars
    <2>2. cur[w] \notin batch[w]
      BY <2>1 DEF CarryInv, CarriedOnce
    <2>3. CASE attempts'[d] # attempts[d]
      <3>1. cur[w] = d /\ attempts'[d] = attempts[d] + 1
        BY <2>1, <2>3
      <3>2. w \in Carriers(d) /\ Carriers(d)' = Carriers(d) \ {w}
        BY <2>1, <2>2, <3>1 DEF Carriers, Unrecorded
      <3> QED
        BY <3>1, <3>2, CarryOne
    <2>4. CASE attempts'[d] = attempts[d]
      <3>1. Carriers(d)' \subseteq Carriers(d)
        BY <2>1 DEF Carriers, Unrecorded
      <3> QED
        BY <2>4, <3>1, CarryOne
    <2> QED
      BY <2>3, <2>4
  <1>9. CASE RunFault(w)
    <2>1. /\ batch' = [batch EXCEPT ![w] = IF pc[w] \in {"scan", "next"} THEN {} ELSE @]
          /\ pc' = [pc EXCEPT ![w] = "next"]
          /\ UNCHANGED <<attempts, cur>>
      BY <1>9 DEF RunFault, dbVars
    <2>2. w \in Carriers(d)' => w \in Carriers(d)
      BY <2>1 DEF Carriers, Unrecorded
    <2> QED
      BY <1>1, <2>1, <2>2
  <1> QED
    BY <1>2, <1>3, <1>4, <1>5, <1>6, <1>7, <1>8, <1>9 DEF RunStep

\* An id not in use yet has made no attempt, whatever the step.
LEMMA UnusedAttempts ==
  ASSUME TypeInv, KnownInv, CarryInv, [Next]_vars, NEW d \in Unused
  PROVE  attempts'[d] = 0
  <1>1. d \in Deliveries /\ attempts[d] = 0 /\ status[d] = "none"
    BY DEF CarryInv, Unused, KnownInv
  <1>2. CASE Aside
    BY <1>1, <1>2 DEF Aside
  <1>3. ASSUME NEW w \in Workers, IntervalTick(w) \/ ImmediateRuns(w) PROVE attempts'[d] = 0
    BY <1>1, <1>3 DEF IntervalTick, ImmediateRuns, dbVars
  <1>4. ASSUME NEW i \in Instances, Exit(i) PROVE attempts'[d] = 0
    BY <1>1, <1>4 DEF Exit, dbVars
  <1>5. ASSUME NEW w \in Workers, RunStep(w) PROVE attempts'[d] = 0
    <2>1. CASE RecordOutcome(w)
      <3>1. CASE status[cur[w]] = "none"
        BY <1>1, <2>1, <3>1 DEF RecordOutcome, UpdateDeliveryStatus, dbVars
      <3>2. CASE status[cur[w]] # "none"
        <4>1. attempts' = [attempts EXCEPT ![cur[w]] = @ + 1]
          BY <2>1, <3>2 DEF RecordOutcome, UpdateDeliveryStatus
        <4> QED
          BY <1>1, <3>2, <4>1 DEF TypeInv, TypeOK
      <3> QED
        BY <3>1, <3>2
    <2>2. CASE ~RecordOutcome(w)
      BY <1>1, <1>5, <2>2 DEF RunStep, Scan, VisitRetry, ShiftItem, FinishRun, SendWebhook, ReadAttempts,
                              RunFault, dbVars
    <2> QED
      BY <2>1, <2>2
  <1> QED
    BY <1>2, <1>3, <1>4, <1>5, StepKinds

LEMMA CarryStep ==
  ASSUME TypeInv, TypeInv', KnownInv, QueuedInv, OneRunPerInstance', CarryInv, [Next]_vars
  PROVE  CarryInv'
  <1>1. CarriedOnce'
    BY CarriedStep DEF CarryInv
  <1>2. \A d \in Unused' : attempts'[d] = 0
    BY UnusedStay DEF CarryInv
  <1>3. ASSUME NEW d \in Deliveries
        PROVE  (attempts[d] + Cardinality(Carriers(d)) + ItemLeft(d)
                  <= MaxAttempts + Cardinality(Instances))'
    <2>1. CASE d \in Unused
      <3>1. attempts'[d] < MaxAttempts
        BY <2>1, UnusedAttempts, MaxAttemptsAssumption
      <3> QED
        BY <1>1, <3>1, CarryOne
    <2>2. CASE d \notin Unused
      <3>1. Waiting(d)' => Waiting(d)
        BY <2>2, WaitingStep
      <3>2. ASSUME UNCHANGED attempts, Carriers(d)' \subseteq Carriers(d)
            PROVE  (attempts[d] + Cardinality(Carriers(d)) + ItemLeft(d)
                      <= MaxAttempts + Cardinality(Instances))'
        BY <1>1, <3>1, <3>2, CarryOne
      <3>3. CASE Aside
        BY <3>2, <3>3 DEF Aside, workVars, Carriers
      <3>4. ASSUME NEW w \in Workers, IntervalTick(w) \/ ImmediateRuns(w)
            PROVE  Carriers(d)' \subseteq Carriers(d) /\ UNCHANGED attempts
        <4>1. pc' = [pc EXCEPT ![w] = "scan"] /\ UNCHANGED <<attempts, batch, cur>>
          BY <3>4 DEF IntervalTick, ImmediateRuns, ProcessQueue, dbVars
        <4> QED
          BY <4>1 DEF Carriers, Unrecorded, TypeInv, TypeOK
      <3>5. ASSUME NEW i \in Instances, Exit(i)
            PROVE  Carriers(d)' \subseteq Carriers(d) /\ UNCHANGED attempts
        <4>1. /\ pc' = [w \in Workers |-> IF w[1] = i THEN "idle" ELSE pc[w]]
              /\ batch' = [w \in Workers |-> IF w[1] = i THEN {} ELSE batch[w]]
              /\ cur' = [w \in Workers |-> IF w[1] = i THEN NoDelivery ELSE cur[w]]
              /\ UNCHANGED attempts
          BY <3>5 DEF Exit, dbVars
        <4> QED
          BY <4>1 DEF Carriers, Unrecorded
      <3> QED
        BY <1>1, <2>2, <3>1, <3>2, <3>3, <3>4, <3>5, StepKinds, CarryRunStep
    <2> QED
      BY <2>1, <2>2
  <1> QED
    BY <1>1, <1>2, <1>3 DEF CarryInv

\* docs/WEBHOOKS.md promises at most max_attempts attempts.  The code makes more
\* (see AttemptsWithinLimit), but at most one more per process, whatever the
\* faults, crashes and interleavings: see OverrunBounded.
THEOREM OverrunIsBounded == Spec => []OverrunBounded
  <1>1. TypeInv /\ CarryInv => OverrunBounded
    <2> SUFFICES ASSUME TypeInv, CarryInv, NEW d \in Deliveries
                 PROVE  attempts[d] <= MaxAttempts + Cardinality(Instances)
      BY DEF OverrunBounded
    <2>1. attempts[d] \in Nat
      BY DEF TypeInv, TypeOK
    <2>2. ItemLeft(d) \in Nat
      BY DEF ItemLeft
    <2>3. MaxAttempts \in Nat /\ Cardinality(Instances) \in Nat
      BY InstancesAssumption, FS_CardinalityType, MaxAttemptsAssumption
    <2>4. Carriers(d) \in SUBSET Workers
      BY DEF Carriers
    <2>5. Cardinality(Carriers(d)) \in Nat
      BY <2>4, CarriersFinite
    <2>6. attempts[d] + Cardinality(Carriers(d)) + ItemLeft(d) <= MaxAttempts + Cardinality(Instances)
      BY DEF CarryInv
    <2> QED
      BY <2>1, <2>2, <2>3, <2>5, <2>6
  <1>2. TypeInv /\ TypeInv' /\ KnownInv /\ QueuedInv /\ OneRunPerInstance' /\ CarryInv /\ [Next]_vars
          => CarryInv'
    BY CarryStep
  <1> QED
    BY TypeInit, TypeStep, KnownInit, KnownStep, QueuedInit, QueuedStep, OneRunCorrect, CarryInit,
       <1>1, <1>2, PTL DEF Spec

-----------------------------------------------------------------------------
(***************************************************************************)
(* How often an endpoint may acknowledge a delivery, in a single process   *)
(* without faults: the row is sent until an acknowledgement settles it,    *)
(* and the queue item once more, whatever the row says by then.            *)
(***************************************************************************)

\* A known delivery without a row went with its configuration.
GoneInv == \A d \in Known : status[d] = "none" => config[owner[d]] = "deleted"

LEMMA GoneInit == Init => GoneInv
  BY DEF Init, GoneInv, Known, Unused

LEMMA GoneStep == TypeInv /\ GoneInv /\ [Next]_vars => GoneInv'
  <1> SUFFICES ASSUME TypeInv, GoneInv, [Next]_vars PROVE GoneInv'
    OBVIOUS
  <1> USE DEF TypeInv, TypeOK
  <1>1. ASSUME UNCHANGED <<config, owner, born>>,
               \A d \in Deliveries : status'[d] = "none" => status[d] = "none"
        PROVE  GoneInv'
    BY <1>1 DEF GoneInv, Known, Unused
  <1>2. CASE Manage
    <2>1. ASSUME NEW k \in Configs, CreateConfig(k) PROVE GoneInv'
      BY <2>1 DEF CreateConfig, GoneInv, Known, Unused
    <2>2. ASSUME NEW k \in Configs, NEW state \in {"on", "off"}, SetEnabled(k, state) PROVE GoneInv'
      BY <2>2 DEF SetEnabled, GoneInv, Known, Unused
    <2>3. ASSUME NEW k \in Configs, DeleteConfig(k) PROVE GoneInv'
      <3>1. /\ config' = [config EXCEPT ![k] = "deleted"]
            /\ status' = [d \in Deliveries |-> IF owner[d] = k THEN "none" ELSE status[d]]
            /\ UNCHANGED <<owner, born>>
        BY <2>3 DEF DeleteConfig
      <3>2. \A j \in Configs : config[j] = "deleted" => config'[j] = "deleted"
        BY <3>1
      <3>3. config'[k] = "deleted"
        BY <3>1
      <3>4. ASSUME NEW d \in Known, status'[d] = "none" PROVE config'[owner[d]] = "deleted"
        <4>1. CASE owner[d] = k
          BY <3>3, <4>1
        <4>2. CASE owner[d] # k
          <5>1. config[owner[d]] = "deleted"
            BY <3>1, <3>4, <4>2 DEF GoneInv, Known
          <5> QED
            BY <3>1, <4>2, <5>1
        <4> QED
          BY <4>1, <4>2
      <3> QED
        BY <3>1, <3>4 DEF GoneInv, Known, Unused
    <2> QED
      BY <1>2, <2>1, <2>2, <2>3 DEF Manage
  <1>3. CASE CallStarts
    BY <1>1, <1>3 DEF CallStarts, Enqueue, dbVars
  <1>4. ASSUME NEW c \in Calls, CallStep(c) PROVE GoneInv'
    <2>1. ASSUME NEW k \in Configs, NEW d \in Deliveries, InsertDelivery(c, k, d) PROVE GoneInv'
      <3>1. /\ status' = [status EXCEPT ![d] = "pending"]
            /\ owner' = [owner EXCEPT ![d] = k]
            /\ born' = [born EXCEPT ![d] = Cardinality(Known) + 1]
            /\ UNCHANGED config
        BY <2>1 DEF InsertDelivery
      <3>2. status'[d] = "pending"
        BY <3>1
      <3>3. \A e \in Deliveries : e # d => /\ status'[e] = status[e] /\ owner'[e] = owner[e]
                                           /\ born'[e] = born[e]
        BY <3>1
      <3> QED
        BY <3>1, <3>2, <3>3 DEF GoneInv, Known, Unused
    <2> QED
      BY <1>1, <1>4, <2>1 DEF CallStep, InsertFails, PushDelivery, SelectFails, dbVars
  <1>5. ASSUME NEW w \in Workers, IntervalTick(w) \/ ImmediateRuns(w) PROVE GoneInv'
    BY <1>1, <1>5 DEF IntervalTick, ImmediateRuns, dbVars
  <1>6. ASSUME NEW w \in Workers, RunStep(w) PROVE GoneInv'
    <2>1. CASE RecordOutcome(w)
      <3>1. CASE status[cur[w]] = "none"
        BY <1>1, <2>1, <3>1 DEF RecordOutcome, UpdateDeliveryStatus, dbVars
      <3>2. CASE status[cur[w]] # "none"
        <4>1. /\ status' = [status EXCEPT ![cur[w]] = Outcome(pc[w])]
              /\ UNCHANGED <<config, owner, born>>
          BY <2>1, <3>2 DEF RecordOutcome, UpdateDeliveryStatus
        <4>2. Outcome(pc[w]) # "none"
          BY <2>1 DEF RecordOutcome, Outcome
        <4> QED
          BY <1>1, <4>1, <4>2
      <3> QED
        BY <3>1, <3>2
    <2>2. CASE ~RecordOutcome(w)
      BY <1>1, <1>6, <2>2 DEF RunStep, Scan, VisitRetry, ShiftItem, FinishRun, SendWebhook, ReadAttempts,
                              RunFault, dbVars
    <2> QED
      BY <2>1, <2>2
  <1>7. ASSUME NEW i \in Instances, ImmediateReturns(i) \/ Lifecycle(i) PROVE GoneInv'
    BY <1>1, <1>7 DEF ImmediateReturns, Lifecycle, Start, Exit, dbVars
  <1>8. ASSUME NEW d \in Deliveries, BackoffElapses(d) PROVE GoneInv'
    BY <1>1, <1>8 DEF BackoffElapses
  <1>9. CASE UNCHANGED vars
    BY <1>1, <1>9 DEF vars, dbVars
  <1> QED
    BY <1>2, <1>3, <1>4, <1>5, <1>6, <1>7, <1>8, <1>9 DEF Next

\* The retry query, or a later attempt to record, may still find the row.
Open(d) == status[d] \in {"pending", "retrying", "failed"}

\* Its acknowledgement is yet to be recorded.
Acking(d) == \E w \in Workers : pc[w] = "ack" /\ cur[w] = d

AckInv ==
    /\ \A d \in Unused : acks[d] = 0
    /\ \A d \in Deliveries :
        /\ acks[d] + ItemLeft(d) <= 2
        /\ Open(d) /\ ~Acking(d) => acks[d] + ItemLeft(d) <= 1
    /\ \A w \in Workers :
        pc[w] \in {"send", "nack", "retry", "fail"} => acks[cur[w]] + ItemLeft(cur[w]) <= 1

LEMMA AckInit == Init => AckInv
  <1> SUFFICES ASSUME Init PROVE AckInv
    OBVIOUS
  <1>1. /\ \A d \in Deliveries : acks[d] = 0
        /\ \A w \in Workers : pc[w] = "idle"
    BY DEF Init
  <1> QED
    BY <1>1, ItemLeftNat DEF AckInv, Unused

\* Ids are not freed, and one not in use yet is not acknowledged.
LEMMA AckUnused ==
  ASSUME TypeInv, KnownInv, AckInv, [Next]_vars, NEW d \in Unused
  PROVE  d \in Deliveries /\ acks'[d] = 0 /\ acks[d] = 0
  <1>1. d \in Deliveries /\ acks[d] = 0 /\ d # NoDelivery
    BY NoDeliveryAssumption DEF AckInv, Unused
  <1>2. ASSUME NEW w \in Workers, RunStep(w) PROVE acks'[d] = 0
    <2>1. ASSUME NEW success \in BOOLEAN, SendWebhook(w, success) PROVE acks'[d] = 0
      <3>1. acks' \in {acks, [acks EXCEPT ![cur[w]] = @ + 1]}
        BY <2>1 DEF SendWebhook
      <3>2. cur[w] # d
        BY <1>1 DEF KnownInv, Known
      <3> QED
        BY <1>1, <3>1, <3>2 DEF TypeInv, TypeOK
    <2> QED
      BY <1>1, <1>2, <2>1 DEF RunStep, Scan, VisitRetry, ShiftItem, FinishRun, ReadAttempts,
                              RecordOutcome, RunFault, histVars
  <1>3. CASE Aside
    BY <1>1, <1>3 DEF Aside, histVars
  <1>4. ASSUME NEW w \in Workers, IntervalTick(w) \/ ImmediateRuns(w) PROVE acks'[d] = 0
    BY <1>1, <1>4 DEF IntervalTick, ImmediateRuns, histVars
  <1>5. ASSUME NEW i \in Instances, Exit(i) PROVE acks'[d] = 0
    BY <1>1, <1>5 DEF Exit, histVars
  <1> QED
    BY <1>1, <1>2, <1>3, <1>4, <1>5, StepKinds

LEMMA UnusedShrink ==
  ASSUME TypeInv, [Next]_vars
  PROVE  Unused' \subseteq Unused
  <1>1. ASSUME UNCHANGED born PROVE Unused' \subseteq Unused
    BY <1>1 DEF Unused
  <1>2. CASE Manage
    BY <1>1, <1>2 DEF Manage, CreateConfig, SetEnabled, DeleteConfig
  <1>3. CASE CallStarts
    BY <1>1, <1>3 DEF CallStarts, Enqueue, dbVars
  <1>4. ASSUME NEW c \in Calls, CallStep(c) PROVE Unused' \subseteq Unused
    <2>1. ASSUME NEW k \in Configs, NEW d \in Deliveries, InsertDelivery(c, k, d)
          PROVE  Unused' \subseteq Unused
      BY <2>1 DEF InsertDelivery, Unused, TypeInv, TypeOK
    <2> QED
      BY <1>1, <1>4, <2>1 DEF CallStep, InsertFails, PushDelivery, SelectFails, dbVars
  <1>5. ASSUME NEW w \in Workers, IntervalTick(w) \/ ImmediateRuns(w) PROVE Unused' \subseteq Unused
    BY <1>1, <1>5 DEF IntervalTick, ImmediateRuns, dbVars
  <1>6. ASSUME NEW w \in Workers, RunStep(w) PROVE Unused' \subseteq Unused
    BY <1>1, <1>6 DEF RunStep, Scan, VisitRetry, ShiftItem, FinishRun, SendWebhook, ReadAttempts,
                      RecordOutcome, UpdateDeliveryStatus, RunFault, dbVars
  <1>7. ASSUME NEW i \in Instances, ImmediateReturns(i) \/ Lifecycle(i) PROVE Unused' \subseteq Unused
    BY <1>1, <1>7 DEF ImmediateReturns, Lifecycle, Start, Exit, dbVars
  <1>8. ASSUME NEW d \in Deliveries, BackoffElapses(d) PROVE Unused' \subseteq Unused
    BY <1>1, <1>8 DEF BackoffElapses
  <1>9. CASE UNCHANGED vars
    BY <1>1, <1>9 DEF vars, dbVars
  <1> QED
    BY <1>2, <1>3, <1>4, <1>5, <1>6, <1>7, <1>8, <1>9 DEF Next

\* What a step has to show of one delivery while w is the only run.
LEMMA AckOwnRun ==
  ASSUME TypeInv, KnownInv, AckInv, [Next]_vars, NEW w \in Workers,
         \A v \in Workers \ {w} : pc'[v] = "idle",
         \A d \in Deliveries \ Unused :
            /\ acks'[d] + ItemLeft(d)' <= 2
            /\ Open(d)' /\ ~(pc'[w] = "ack" /\ cur'[w] = d) => acks'[d] + ItemLeft(d)' <= 1
            /\ pc'[w] \in {"send", "nack", "retry", "fail"} /\ cur'[w] = d => acks'[d] + ItemLeft(d)' <= 1,
         TypeInv'
  PROVE  AckInv'
  <1>1. \A d \in Unused : d \in Deliveries /\ acks'[d] = 0 /\ ItemLeft(d)' \in {0, 1}
    BY AckUnused DEF ItemLeft
  <1>2. \A d \in Deliveries :
          /\ acks'[d] + ItemLeft(d)' <= 2
          /\ Open(d)' /\ ~Acking(d)' => acks'[d] + ItemLeft(d)' <= 1
          /\ pc'[w] \in {"send", "nack", "retry", "fail"} /\ cur'[w] = d => acks'[d] + ItemLeft(d)' <= 1
    <2> SUFFICES ASSUME NEW d \in Deliveries
                 PROVE  /\ acks'[d] + ItemLeft(d)' <= 2
                        /\ Open(d)' /\ ~Acking(d)' => acks'[d] + ItemLeft(d)' <= 1
                        /\ pc'[w] \in {"send", "nack", "retry", "fail"} /\ cur'[w] = d
                              => acks'[d] + ItemLeft(d)' <= 1
      OBVIOUS
    <2>1. CASE d \in Unused
      BY <1>1, <2>1
    <2>2. CASE d \notin Unused
      <3>1. ~Acking(d)' => ~(pc'[w] = "ack" /\ cur'[w] = d)
        BY DEF Acking
      <3> QED
        BY <2>2, <3>1
    <2> QED
      BY <2>1, <2>2
  <1>3. \A v \in Workers : pc'[v] \in {"send", "nack", "retry", "fail"} => v = w /\ cur'[v] \in Deliveries
    BY DEF TypeInv, Unrecorded
  <1>4. \A d \in Unused' : acks'[d] = 0
    BY <1>1, UnusedShrink
  <1>5. \A v \in Workers : pc'[v] \in {"send", "nack", "retry", "fail"}
           => acks'[cur'[v]] + ItemLeft(cur[v])' <= 1
    BY <1>2, <1>3
  <1> QED
    BY <1>2, <1>4, <1>5 DEF AckInv

LEMMA AckRunStep ==
  ASSUME OneInstance, ~DbMayFail, TypeInv, TypeInv', KnownInv, OneRunPerInstance, QueuedInv, FreshInv,
         GoneInv, AckInv, [Next]_vars, NEW w \in Workers, RunStep(w)
  PROVE  AckInv'
  <1>1. pc[w] # "idle" /\ \A v \in Workers \ {w} : pc'[v] = pc[v]
    BY DEF RunStep, Scan, VisitRetry, ShiftItem, FinishRun, SendWebhook, ReadAttempts,
           RecordOutcome, RunFault, Unrecorded, TypeInv, TypeOK
  <1>2. \A v \in Workers \ {w} : pc[v] = "idle" /\ pc'[v] = "idle"
    BY <1>1, OthersIdle
  <1> DEFINE Kept(d) ==
        /\ acks'[d] + ItemLeft(d)' <= 2
        /\ Open(d)' /\ ~(pc'[w] = "ack" /\ cur'[w] = d) => acks'[d] + ItemLeft(d)' <= 1
        /\ pc'[w] \in {"send", "nack", "retry", "fail"} /\ cur'[w] = d => acks'[d] + ItemLeft(d)' <= 1
  <1>3. SUFFICES ASSUME NEW d \in Deliveries \ Unused PROVE Kept(d)
    BY <1>2, AckOwnRun
  <1>4. /\ ItemLeft(d)' \in {0, 1} /\ ItemLeft(d) \in {0, 1}
        /\ ItemLeft(d)' <= ItemLeft(d)
    BY WaitingStep DEF ItemLeft
  <1>5. acks[d] \in Nat /\ acks'[d] \in Nat
    BY DEF TypeInv, TypeOK
  <1>6. /\ acks[d] + ItemLeft(d) <= 2
        /\ Open(d) /\ ~(pc[w] = "ack" /\ cur[w] = d) => acks[d] + ItemLeft(d) <= 1
        /\ pc[w] \in {"send", "nack", "retry", "fail"} /\ cur[w] = d => acks[d] + ItemLeft(d) <= 1
    BY <1>2 DEF AckInv, Acking
  <1> USE DEF TypeInv, TypeOK
  <1> HIDE DEF Kept
  \* A step that neither acknowledges nor writes this row.
  <1>7. ASSUME acks'[d] = acks[d], Open(d)' <=> Open(d), pc[w] = "ack" => cur[w] # d,
               pc'[w] \in {"send", "nack", "retry", "fail"} /\ cur'[w] = d
                  => acks[d] + ItemLeft(d)' <= 1
        PROVE  Kept(d)
    BY <1>4, <1>5, <1>6, <1>7 DEF Kept
  <1>8. CASE Scan(w) \/ FinishRun(w)
    <2>1. /\ pc[w] # "ack" /\ pc'[w] \in {"next", "idle"}
          /\ UNCHANGED <<acks, status>>
      BY <1>8 DEF Scan, FinishRun, dbVars, histVars
    <2> QED
      BY <1>7, <2>1 DEF Open
  <1>9. ASSUME NEW e \in Deliveries, VisitRetry(w, e) PROVE Kept(d)
    <2>1. /\ pc[w] = "next" /\ e \in batch[w]
          /\ UNCHANGED <<acks, status>>
          /\ \/ /\ config[owner[e]] = "on"
                /\ pc'[w] = "send" /\ cur'[w] = e
             \/ pc'[w] = "next"
      BY <1>9 DEF VisitRetry, dbVars, histVars
    <2>2. config[owner[e]] = "on" => Open(e)
      BY <2>1 DEF KnownInv, GoneInv, FreshInv, RetryBatchIsFresh, Open
    <2> QED
      BY <1>4, <1>5, <1>6, <1>7, <2>1, <2>2 DEF Open
  <1>10. CASE ShiftItem(w)
    <2>1. /\ pc[w] = "next"
          /\ UNCHANGED <<acks, status>>
      BY <1>10 DEF ShiftItem, dbVars, histVars
    <2>2. cur'[w] = d => ItemLeft(d) = 1 /\ ItemLeft(d)' = 0
      BY <1>10, WaitingShift DEF ItemLeft
    <2> QED
      BY <1>4, <1>5, <1>6, <1>7, <2>1, <2>2 DEF Open
  <1>11. ASSUME NEW success \in BOOLEAN, SendWebhook(w, success) PROVE Kept(d)
    <2>1. /\ pc[w] = "send"
          /\ UNCHANGED <<status, cur>>
          /\ \/ /\ acks' = [acks EXCEPT ![cur[w]] = @ + 1]
                /\ pc'[w] = "ack"
             \/ /\ acks' = acks
                /\ pc'[w] = "nack"
      BY <1>11 DEF SendWebhook, dbVars
    <2>2. CASE cur[w] = d /\ pc'[w] = "ack"
      <3>1. acks'[d] = acks[d] + 1 /\ cur'[w] = d
        BY <2>1, <2>2
      <3> QED
        BY <1>4, <1>5, <1>6, <2>1, <2>2, <3>1 DEF Kept
    <2>3. CASE ~(cur[w] = d /\ pc'[w] = "ack")
      <3>1. acks'[d] = acks[d] /\ (Open(d)' <=> Open(d)) /\ cur'[w] = cur[w]
        BY <2>1, <2>3 DEF Open
      <3> QED
        BY <1>4, <1>5, <1>6, <1>7, <2>1, <3>1
    <2> QED
      BY <2>2, <2>3
  <1>12. CASE ReadAttempts(w)
    <2>1. /\ pc[w] = "nack" /\ pc'[w] \in {"retry", "fail"}
          /\ UNCHANGED <<status, cur, acks>>
      BY <1>12 DEF ReadAttempts, dbVars, histVars
    <2> QED
      BY <1>4, <1>5, <1>6, <1>7, <2>1 DEF Open
  <1>13. CASE RecordOutcome(w)
    <2>1. /\ pc[w] \in {"ack", "retry", "fail"} /\ pc'[w] = "next"
          /\ UpdateDeliveryStatus(cur[w], Outcome(pc[w]))
          /\ UNCHANGED <<cur, acks>>
      BY <1>13 DEF RecordOutcome, histVars
    <2>2. status' \in {status, [status EXCEPT ![cur[w]] = Outcome(pc[w])]}
      BY <2>1 DEF UpdateDeliveryStatus, dbVars
    <2>3. CASE cur[w] # d
      <3>1. status'[d] = status[d]
        BY <2>2, <2>3
      <3> QED
        BY <1>7, <2>1, <2>3, <3>1 DEF Open
    <2>4. CASE cur[w] = d /\ pc[w] = "ack"
      <3>1. status'[d] \in {"none", "success"}
        BY <2>1, <2>4 DEF UpdateDeliveryStatus, dbVars, Outcome
      <3>2. ~Open(d)' /\ acks'[d] = acks[d]
        BY <2>1, <3>1 DEF Open
      <3> QED
        BY <1>4, <1>5, <1>6, <2>1, <3>2 DEF Kept
    <2>5. CASE cur[w] = d /\ pc[w] \in {"retry", "fail"}
      <3>1. acks[d] + ItemLeft(d) <= 1 /\ acks'[d] = acks[d]
        BY <1>6, <2>1, <2>5
      <3> QED
        BY <1>4, <1>5, <2>1, <3>1 DEF Kept
    <2> QED
      BY <2>1, <2>3, <2>4, <2>5
  <1>14. ~RunFault(w)
    BY DEF RunFault
  <1> QED
    BY <1>8, <1>9, <1>10, <1>11, <1>12, <1>13, <1>14 DEF RunStep

LEMMA AckStep ==
  ASSUME OneInstance, ~DbMayFail, ~MayCrash, TypeInv, TypeInv', KnownInv, OneRunPerInstance, QueuedInv,
         FreshInv, GoneInv, AckInv, [Next]_vars
  PROVE  AckInv'
  <1>1. ASSUME UNCHANGED <<acks, cur>>,
               \A w \in Workers : pc'[w] = pc[w] \/ (pc[w] = "idle" /\ pc'[w] = "scan"),
               \A d \in Deliveries \ Unused : status'[d] \in {status[d], "none"}
        PROVE  AckInv'
    <2>1. \A d \in Unused : d \in Deliveries /\ acks'[d] = 0 /\ ItemLeft(d)' \in {0, 1}
      BY AckUnused DEF ItemLeft
    <2>2. \A d \in Deliveries \ Unused : /\ ItemLeft(d) \in {0, 1} /\ ItemLeft(d)' \in {0, 1}
                                         /\ ItemLeft(d)' <= ItemLeft(d)
      BY WaitingStep DEF ItemLeft
    <2>3. \A d \in Deliveries : acks[d] \in Nat /\ acks'[d] = acks[d]
      BY <1>1 DEF TypeInv, TypeOK
    <2>4. \A d \in Deliveries : (Acking(d) => Acking(d)')
      BY <1>1 DEF Acking
    <2>5. \A d \in Deliveries \ Unused : (Open(d)' => Open(d))
      BY <1>1 DEF Open
    <2>6. ASSUME NEW d \in Deliveries
          PROVE  /\ acks'[d] + ItemLeft(d)' <= 2
                 /\ Open(d)' /\ ~Acking(d)' => acks'[d] + ItemLeft(d)' <= 1
      <3>1. CASE d \in Unused
        BY <2>1, <3>1
      <3>2. CASE d \notin Unused
        BY <2>2, <2>3, <2>4, <2>5, <3>2 DEF AckInv
      <3> QED
        BY <3>1, <3>2
    <2>7. ASSUME NEW w \in Workers, pc'[w] \in {"send", "nack", "retry", "fail"}
          PROVE  acks'[cur'[w]] + ItemLeft(cur[w])' <= 1
      <3>1. pc[w] \in {"send", "nack", "retry", "fail"} /\ cur[w] \in Deliveries \ Unused /\ cur'[w] = cur[w]
        BY <1>1, <2>7, NoDeliveryAssumption DEF TypeInv, Unrecorded, KnownInv, Known
      <3>2. acks[cur[w]] + ItemLeft(cur[w]) <= 1
        BY <3>1 DEF AckInv
      <3>3. ItemLeft(cur[w])' <= ItemLeft(cur[w]) /\ ItemLeft(cur[w]) \in {0, 1} /\ ItemLeft(cur[w])' \in {0, 1}
        BY <1>1, <3>1, WaitingStep DEF ItemLeft
      <3> QED
        BY <2>3, <3>1, <3>2, <3>3
    <2>8. \A d \in Unused' : acks'[d] = 0
      BY <2>1, UnusedShrink
    <2> QED
      BY <2>6, <2>7, <2>8 DEF AckInv
  <1>2. CASE Aside
    BY <1>1, <1>2 DEF Aside, workVars, histVars
  <1>3. ASSUME NEW w \in Workers, IntervalTick(w) \/ ImmediateRuns(w) PROVE AckInv'
    <2>1. /\ pc' = [pc EXCEPT ![w] = "scan"] /\ pc[w] = "idle"
          /\ UNCHANGED <<acks, cur, status>>
      BY <1>3 DEF IntervalTick, ImmediateRuns, ProcessQueue, dbVars, histVars
    <2>2. \A v \in Workers : pc'[v] = pc[v] \/ (pc[v] = "idle" /\ pc'[v] = "scan")
      BY <2>1 DEF TypeInv, TypeOK
    <2> QED
      BY <1>1, <2>1, <2>2
  <1>4. \A i \in Instances : ~Exit(i)
    BY DEF Exit
  <1> QED
    BY <1>2, <1>3, <1>4, StepKinds, AckRunStep

\* In a single process without failing statements and crashes an endpoint
\* acknowledges no delivery a third time: see AcknowledgedAtMostTwice.
THEOREM SingleProcessAcknowledges ==
    Spec => [](OneInstance /\ ~DbMayFail /\ ~MayCrash => AcknowledgedAtMostTwice)
  <1> DEFINE Calm == OneInstance /\ ~DbMayFail /\ ~MayCrash
  <1>1. TypeInv /\ AckInv => AcknowledgedAtMostTwice
    <2> SUFFICES ASSUME TypeInv, AckInv, NEW d \in Deliveries PROVE acks[d] <= 2
      BY DEF AcknowledgedAtMostTwice
    <2>1. acks[d] \in Nat
      BY DEF TypeInv, TypeOK
    <2>2. ItemLeft(d) \in {0, 1} /\ acks[d] + ItemLeft(d) <= 2
      BY ItemLeftNat DEF AckInv
    <2> QED
      BY <2>1, <2>2
  <1>2. TypeInv /\ KnownInv /\ OneRunPerInstance /\ (OneInstance => FreshInv) /\ [Next]_vars
           => (OneInstance => FreshInv)'
    BY FreshStep DEF OneInstance
  <1>3. Init => (OneInstance => FreshInv)
    BY FreshInit
  <1>4. TypeInv /\ TypeInv' /\ KnownInv /\ OneRunPerInstance /\ QueuedInv /\ (OneInstance => FreshInv)
           /\ GoneInv /\ (Calm => AckInv) /\ [Next]_vars
           => (Calm => AckInv)'
    BY AckStep DEF OneInstance
  <1>5. Init => (Calm => AckInv)
    BY AckInit
  <1>6. TypeInv /\ (Calm => AckInv) => (OneInstance /\ ~DbMayFail /\ ~MayCrash => AcknowledgedAtMostTwice)
    BY <1>1
  <1> QED
    BY TypeInit, TypeStep, KnownInit, KnownStep, QueuedInit, QueuedStep, GoneInit, GoneStep, OneRunCorrect,
       <1>2, <1>3, <1>4, <1>5, <1>6, PTL DEF Spec
=============================================================================
