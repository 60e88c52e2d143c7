---------------------------- MODULE WebhookQueue ----------------------------
(***************************************************************************)
(* The webhook delivery queue: src/shared/webhooks/webhookQueue.ts over    *)
(* the tables of webhookService.ts.                                        *)
(*                                                                         *)
(* Every gateway instance is one Node process with its own in-memory       *)
(* queue, its own `processing' flag and its own 5 s interval; all of them  *)
(* share the tables webhook_configs and webhook_deliveries.  A step of the *)
(* model runs from one await to the next.  What runs concurrently:         *)
(*   - calls of enqueue() (request handlers), one per element of Calls;    *)
(*   - invocations of processQueue(), one per element of Workers: the code *)
(*     allows any number to be started and relies on `processing' to let   *)
(*     only one of an instance do the work;                                *)
(*   - the management routes, the clock, crashes and restarts.             *)
(***************************************************************************)
EXTENDS Naturals, Sequences, FiniteSets

CONSTANTS
    Instances,      \* gateway processes (k8s replicas)
    Slots,          \* concurrent invocations of processQueue per instance
    CallSlots,      \* concurrent invocations of enqueue per instance
    Configs,        \* ids of webhook_configs rows, never reused (nanoid)
    Deliveries,     \* ids of webhook_deliveries rows, never reused (nanoid)
    NoConfig,       \* no configuration
    NoDelivery,     \* no delivery
    MaxAttempts,    \* createDelivery's max_attempts (3)
    BatchLimit,     \* LIMIT of getPendingRetries (100)
    DbMayFail,      \* a statement may throw
    MayCrash,       \* a process may exit
    MayReconfigure  \* clients update and delete their configurations

ASSUME InstancesAssumption == IsFiniteSet(Instances)
ASSUME SlotsAssumption == IsFiniteSet(Slots)
ASSUME DeliveriesAssumption == IsFiniteSet(Deliveries)
ASSUME NoConfigAssumption == NoConfig \notin Configs
ASSUME NoDeliveryAssumption == NoDelivery \notin Deliveries
ASSUME MaxAttemptsAssumption == MaxAttempts \in Nat \ {0}
ASSUME BatchLimitAssumption == BatchLimit \in Nat \ {0}
ASSUME FlagsAssumption == {DbMayFail, MayCrash, MayReconfigure} \subseteq BOOLEAN

Workers == Instances \X Slots
Calls == Instances \X CallSlots

VARIABLES
    \* --- MySQL
    config,      \* [Configs -> ConfigState]
    status,      \* [Deliveries -> the row's status, "none" without a row]
    owner,       \* [Deliveries -> webhook_config_id]
    attempts,    \* [Deliveries -> attempts column]
    due,         \* [Deliveries -> next_retry_at IS NULL OR <= NOW()]
    born,        \* [Deliveries -> rank of created_at, 0 for an unused id]
    \* --- one Node process each
    life,        \* [Instances -> LifeState]
    queue,       \* [Instances -> Seq(Deliveries)], this.queue
    processing,  \* [Instances -> BOOLEAN], this.processing
    immediate,   \* [Instances -> BOOLEAN], setImmediate callbacks are pending
    \* --- invocations of processQueue
    pc,          \* [Workers -> WorkerState]
    batch,       \* [Workers -> rows of pendingRetries still to visit]
    cur,         \* [Workers -> delivery being processed]
    \* --- invocations of enqueue
    cpc,         \* [Calls -> CallState]
    todo,        \* [Calls -> configs without a delivery yet]
    made,        \* [Calls -> row inserted, not pushed yet]
    \* --- history
    posts,       \* [Deliveries -> HTTP requests sent]
    acks         \* [Deliveries -> 2xx answers received]

dbVars == <<config, status, owner, attempts, due, born>>
nodeVars == <<life, queue, processing, immediate>>
workVars == <<pc, batch, cur>>
callVars == <<cpc, todo, made>>
histVars == <<posts, acks>>
vars == <<dbVars, nodeVars, workVars, callVars, histVars>>

ConfigState == {"absent", "on", "off", "deleted"}
Status == {"none", "pending", "retrying", "success", "failed"}
LifeState == {"down", "up"}
WorkerState == {"idle", "scan", "next", "send", "ack", "nack", "retry", "fail"}
CallState == {"idle", "insert", "select"}

\* The worker has posted its delivery and not yet recorded the outcome.
Unrecorded == {"ack", "nack", "retry", "fail"}

Init ==
    /\ config = [k \in Configs |-> "absent"]
    /\ status = [d \in Deliveries |-> "none"]
    /\ owner = [d \in Deliveries |-> NoConfig]
    /\ attempts = [d \in Deliveries |-> 0]
    /\ due = [d \in Deliveries |-> FALSE]
    /\ born = [d \in Deliveries |-> 0]
    /\ life = [i \in Instances |-> "down"]
    /\ queue = [i \in Instances |-> <<>>]
    /\ processing = [i \in Instances |-> FALSE]
    /\ immediate = [i \in Instances |-> FALSE]
    /\ pc = [w \in Workers |-> "idle"]
    /\ batch = [w \in Workers |-> {}]
    /\ cur = [w \in Workers |-> NoDelivery]
    /\ cpc = [c \in Calls |-> "idle"]
    /\ todo = [c \in Calls |-> {}]
    /\ made = [c \in Calls |-> NoDelivery]
    /\ posts = [d \in Deliveries |-> 0]
    /\ acks = [d \in Deliveries |-> 0]

-----------------------------------------------------------------------------
(***************************************************************************)
(* Management routes: webhook_configs and its ON DELETE CASCADE.           *)
(***************************************************************************)

CreateConfig(k) ==
    /\ config[k] = "absent"
    /\ config' = [config EXCEPT ![k] = "on"]
    /\ UNCHANGED <<status, owner, attempts, due, born>>
    /\ UNCHANGED <<nodeVars, workVars, callVars, histVars>>

\* updateWebhookConfig with `enabled' in the update.
SetEnabled(k, state) ==
    /\ MayReconfigure
    /\ config[k] \in {"on", "off"}
    /\ config' = [config EXCEPT ![k] = state]
    /\ UNCHANGED <<status, owner, attempts, due, born>>
    /\ UNCHANGED <<nodeVars, workVars, callVars, histVars>>

\* The foreign key removes the deliveries with their configuration.
DeleteConfig(k) ==
    /\ MayReconfigure
    /\ config[k] \in {"on", "off"}
    /\ config' = [config EXCEPT ![k] = "deleted"]
    /\ status' = [d \in Deliveries |-> IF owner[d] = k THEN "none" ELSE status[d]]
    /\ UNCHANGED <<owner, attempts, due, born>>
    /\ UNCHANGED <<nodeVars, workVars, callVars, histVars>>

-----------------------------------------------------------------------------
(***************************************************************************)
(* enqueue(): list the configurations; for each INSERT and SELECT the      *)
(* delivery, push it; after the last one ask for a run.  Any exception     *)
(* ends the call and leaves what was already inserted and pushed.          *)
(***************************************************************************)

Unused == {d \in Deliveries : born[d] = 0}
Known == Deliveries \ Unused

EndCall(c) ==
    /\ cpc' = [cpc EXCEPT ![c] = "idle"]
    /\ todo' = [todo EXCEPT ![c] = {}]
    /\ made' = [made EXCEPT ![c] = NoDelivery]

\* `subscribed' is the set of configurations of the event's client that list
\* the event; with none of them enabled the call returns without an effect.
Enqueue(c, subscribed) ==
    /\ life[c[1]] = "up"
    /\ cpc[c] = "idle"
    /\ Unused # {}
    /\ LET active == {k \in subscribed : config[k] = "on"}
       IN  /\ active # {}
           /\ todo' = [todo EXCEPT ![c] = active]
    /\ cpc' = [cpc EXCEPT ![c] = "insert"]
    /\ UNCHANGED <<dbVars, nodeVars, workVars, made, histVars>>

InsertDelivery(c, k, d) ==
    /\ cpc[c] = "insert"
    /\ k \in todo[c]
    /\ d \in Unused
    /\ config[k] \in {"on", "off"}
    /\ status' = [status EXCEPT ![d] = "pending"]
    /\ owner' = [owner EXCEPT ![d] = k]
    /\ due' = [due EXCEPT ![d] = TRUE]
    /\ born' = [born EXCEPT ![d] = Cardinality(Known) + 1]
    /\ made' = [made EXCEPT ![c] = d]
    /\ todo' = [todo EXCEPT ![c] = @ \ {k}]
    /\ cpc' = [cpc EXCEPT ![c] = "select"]
    /\ UNCHANGED <<config, attempts, nodeVars, workVars, histVars>>

\* The INSERT throws: a fault, the configuration is gone (foreign key), or the
\* bound on ids is reached.
InsertFails(c) ==
    /\ cpc[c] = "insert"
    /\ \/ DbMayFail
       \/ \E k \in todo[c] : config[k] = "deleted"
       \/ Unused = {}
    /\ EndCall(c)
    /\ UNCHANGED <<dbVars, nodeVars, workVars, histVars>>

\* createDelivery's SELECT returned the row: push, and after the last
\* configuration schedule a run unless one is under way.
PushDelivery(c) ==
    LET i == c[1] IN
    /\ cpc[c] = "select"
    /\ status[made[c]] # "none"
    /\ queue' = [queue EXCEPT ![i] = Append(@, made[c])]
    /\ IF todo[c] = {}
       THEN /\ EndCall(c)
            /\ immediate' = [immediate EXCEPT ![i] = @ \/ ~processing[i]]
       ELSE /\ cpc' = [cpc EXCEPT ![c] = "insert"]
            /\ made' = [made EXCEPT ![c] = NoDelivery]
            /\ UNCHANGED <<todo, immediate>>
    /\ UNCHANGED <<dbVars, life, processing, workVars, histVars>>

\* The SELECT throws, or finds no row (deleted by the cascade) and the access
\* to delivery.id throws: the row, if any, stays without a queue item.
SelectFails(c) ==
    /\ cpc[c] = "select"
    /\ DbMayFail \/ status[made[c]] = "none"
    /\ EndCall(c)
    /\ UNCHANGED <<dbVars, nodeVars, workVars, histVars>>

-----------------------------------------------------------------------------
(***************************************************************************)
(* processQueue(): called by the interval, by setImmediate and by start(). *)
(***************************************************************************)

\* Mutant: the guard forgets the flag.
ProcessQueueUnguarded(w) ==
    LET i == w[1] IN
    /\ pc[w] = "idle"
    /\ queue[i] # <<>>
    /\ processing' = [processing EXCEPT ![i] = TRUE]
    /\ pc' = [pc EXCEPT ![w] = "scan"]

\* The synchronous head of processQueue: the guard and the flag.
ProcessQueue(w) ==
    LET i == w[1] IN
    /\ pc[w] = "idle"
    /\ ~processing[i]
    /\ queue[i] # <<>>
    /\ processing' = [processing EXCEPT ![i] = TRUE]
    /\ pc' = [pc EXCEPT ![w] = "scan"]

IntervalTick(w) ==
    /\ life[w[1]] = "up"
    /\ ProcessQueue(w)
    /\ UNCHANGED <<dbVars, life, queue, immediate, batch, cur, callVars, histVars>>

\* setImmediate callbacks not run yet count as one: with two, the second finds
\* the run the first one started.
ImmediateRuns(w) ==
    /\ immediate[w[1]]
    /\ ProcessQueue(w)
    /\ immediate' = [immediate EXCEPT ![w[1]] = FALSE]
    /\ UNCHANGED <<dbVars, life, queue, batch, cur, callVars, histVars>>

\* The callback finds nothing to do.
ImmediateReturns(i) ==
    /\ immediate[i]
    /\ processing[i] \/ queue[i] = <<>>
    /\ immediate' = [immediate EXCEPT ![i] = FALSE]
    /\ UNCHANGED <<dbVars, life, queue, processing, workVars, callVars, histVars>>

\* Mutant: the query forgets the status.
EligibleAnyStatus(d) ==
    /\ status[d] # "none"
    /\ attempts[d] < MaxAttempts
    /\ due[d]

\* getPendingRetries: the oldest BatchLimit rows that may be sent now.
Eligible(d) ==
    /\ status[d] \in {"pending", "retrying"}
    /\ attempts[d] < MaxAttempts
    /\ due[d]

PendingRetries ==
    {d \in Deliveries :
        /\ Eligible(d)
        /\ Cardinality({e \in Deliveries : Eligible(e) /\ born[e] < born[d]})
               < BatchLimit}

Scan(w) ==
    /\ pc[w] = "scan"
    /\ batch' = [batch EXCEPT ![w] = PendingRetries]
    /\ pc' = [pc EXCEPT ![w] = "next"]
    /\ UNCHANGED <<dbVars, nodeVars, cur, callVars, histVars>>

\* Mutant: retries are pushed on the queue instead of being sent at once.
VisitRetryByPushing(w, d) ==
    /\ pc[w] = "next"
    /\ d \in batch[w]
    /\ batch' = [batch EXCEPT ![w] = @ \ {d}]
    /\ queue' = [queue EXCEPT ![w[1]] = Append(@, d)]
    /\ UNCHANGED <<dbVars, life, processing, immediate, pc, cur, callVars, histVars>>

\* Mutant: a row is visited until its configuration is disabled.
VisitRetryAgain(w, d) ==
    /\ pc[w] = "next"
    /\ d \in batch[w]
    /\ config[owner[d]] = "on"
    /\ cur' = [cur EXCEPT ![w] = d]
    /\ pc' = [pc EXCEPT ![w] = "send"]
    /\ UNCHANGED <<dbVars, nodeVars, batch, callVars, histVars>>

\* processRetries: the next row in created_at order; its configuration is read
\* again and a missing or disabled one skips the row.
VisitRetry(w, d) ==
    /\ pc[w] = "next"
    /\ d \in batch[w]
    /\ \A e \in batch[w] : born[d] <= born[e]
    /\ batch' = [batch EXCEPT ![w] = @ \ {d}]
    /\ IF config[owner[d]] = "on"
       THEN /\ cur' = [cur EXCEPT ![w] = d]
            /\ pc' = [pc EXCEPT ![w] = "send"]
       ELSE UNCHANGED <<cur, pc>>
    /\ UNCHANGED <<dbVars, nodeVars, callVars, histVars>>

\* The while loop shifts the next item, which carries the configuration as it
\* was when it was pushed: nothing is read again.
ShiftItem(w) ==
    LET i == w[1] IN
    /\ pc[w] = "next"
    /\ batch[w] = {}
    /\ queue[i] # <<>>
    /\ cur' = [cur EXCEPT ![w] = Head(queue[i])]
    /\ queue' = [queue EXCEPT ![i] = Tail(@)]
    /\ pc' = [pc EXCEPT ![w] = "send"]
    /\ UNCHANGED <<dbVars, life, processing, immediate, batch, callVars, histVars>>

\* Mutant: the flag is not cleared.
FinishRunKeepsFlag(w) ==
    /\ pc[w] = "next"
    /\ batch[w] = {}
    /\ queue[w[1]] = <<>>
    /\ pc' = [pc EXCEPT ![w] = "idle"]
    /\ cur' = [cur EXCEPT ![w] = NoDelivery]
    /\ UNCHANGED <<dbVars, nodeVars, batch, callVars, histVars>>

\* The loop ends and `finally' clears the flag, with no await in between.
FinishRun(w) ==
    LET i == w[1] IN
    /\ pc[w] = "next"
    /\ batch[w] = {}
    /\ queue[i] = <<>>
    /\ processing' = [processing EXCEPT ![i] = FALSE]
    /\ pc' = [pc EXCEPT ![w] = "idle"]
    /\ cur' = [cur EXCEPT ![w] = NoDelivery]
    /\ UNCHANGED <<dbVars, life, queue, immediate, batch, callVars, histVars>>

-----------------------------------------------------------------------------
(***************************************************************************)
(* processWebhook(): POST, then record the outcome.                        *)
(***************************************************************************)

\* Mutant: any answer counts as a success.
SendWebhookAnyAnswer(w, success) ==
    LET d == cur[w] IN
    /\ pc[w] = "send"
    /\ posts' = [posts EXCEPT ![d] = @ + 1]
    /\ acks' = IF success THEN [acks EXCEPT ![d] = @ + 1] ELSE acks
    /\ pc' = [pc EXCEPT ![w] = "ack"]
    /\ UNCHANGED <<dbVars, nodeVars, batch, cur, callVars>>

\* sendWebhook: a 2xx answer is a success; any other status, a timeout or an
\* exception is a failure, whatever the endpoint did with the request.
SendWebhook(w, success) ==
    LET d == cur[w] IN
    /\ pc[w] = "send"
    /\ posts' = [posts EXCEPT ![d] = @ + 1]
    /\ acks' = IF success THEN [acks EXCEPT ![d] = @ + 1] ELSE acks
    /\ pc' = [pc EXCEPT ![w] = IF success THEN "ack" ELSE "nack"]
    /\ UNCHANGED <<dbVars, nodeVars, batch, cur, callVars>>

\* Mutant: the attempt being made is not counted.
ReadAttemptsLate(w) ==
    /\ pc[w] = "nack"
    /\ pc' = [pc EXCEPT ![w] =
                IF status[cur[w]] # "none" /\ attempts[cur[w]] < MaxAttempts
                THEN "retry" ELSE "fail"]
    /\ UNCHANGED <<dbVars, nodeVars, batch, cur, callVars, histVars>>

\* Mutant: the attempt being made is counted twice.
ReadAttemptsEarly(w) ==
    /\ pc[w] = "nack"
    /\ pc' = [pc EXCEPT ![w] =
                IF status[cur[w]] # "none" /\ attempts[cur[w]] + 2 < MaxAttempts
                THEN "retry" ELSE "fail"]
    /\ UNCHANGED <<dbVars, nodeVars, batch, cur, callVars, histVars>>

\* After a failure the row is read again to choose between a retry and the
\* end; a row that is gone counts as the end.
ReadAttempts(w) ==
    LET d == cur[w] IN
    /\ pc[w] = "nack"
    /\ pc' = [pc EXCEPT ![w] =
                IF status[d] # "none" /\ attempts[d] + 1 < MaxAttempts
                THEN "retry" ELSE "fail"]
    /\ UNCHANGED <<dbVars, nodeVars, batch, cur, callVars, histVars>>

\* updateDeliveryStatus: unconditional in the old status, counts an attempt,
\* writes next_retry_at only for a retry; no row, no effect.
UpdateDeliveryStatus(d, new) ==
    IF status[d] = "none"
    THEN UNCHANGED dbVars
    ELSE /\ status' = [status EXCEPT ![d] = new]
         /\ attempts' = [attempts EXCEPT ![d] = @ + 1]
         /\ due' = IF new = "retrying" THEN [due EXCEPT ![d] = FALSE] ELSE due
         /\ UNCHANGED <<config, owner, born>>

\* Mutant: a status outside the column's ENUM.
OutcomeOutsideEnum(step) == IF step = "retry" THEN "retry" ELSE "success"

Outcome(step) ==
    CASE step = "ack" -> "success"
      [] step = "retry" -> "retrying"
      [] step = "fail" -> "failed"

\* Mutant: the UPDATE is issued again when its answer is lost.
RecordOutcomeAgain(w) ==
    /\ pc[w] \in {"ack", "retry", "fail"}
    /\ UpdateDeliveryStatus(cur[w], Outcome(pc[w]))
    /\ \E step \in {pc[w], "next"} : pc' = [pc EXCEPT ![w] = step]
    /\ UNCHANGED <<nodeVars, batch, cur, callVars, histVars>>

RecordOutcome(w) ==
    /\ pc[w] \in {"ack", "retry", "fail"}
    /\ UpdateDeliveryStatus(cur[w], Outcome(pc[w]))
    /\ pc' = [pc EXCEPT ![w] = "next"]
    /\ UNCHANGED <<nodeVars, batch, cur, callVars, histVars>>

\* A statement of a run throws.  In processRetries the exception ends the
\* whole retry phase; in processWebhook it only abandons the delivery.
RunFault(w) ==
    /\ DbMayFail
    /\ pc[w] \in {"scan", "next"} \cup Unrecorded
    /\ pc[w] = "next" => batch[w] # {}
    /\ batch' = [batch EXCEPT ![w] = IF pc[w] \in {"scan", "next"} THEN {} ELSE @]
    /\ pc' = [pc EXCEPT ![w] = "next"]
    /\ UNCHANGED <<dbVars, nodeVars, cur, callVars, histVars>>

-----------------------------------------------------------------------------
(***************************************************************************)
(* The clock and the life of a process.                                    *)
(***************************************************************************)

\* NOW() passes next_retry_at.
BackoffElapses(d) ==
    /\ status[d] # "none"
    /\ ~due[d]
    /\ due' = [due EXCEPT ![d] = TRUE]
    /\ UNCHANGED <<config, status, owner, attempts, born>>
    /\ UNCHANGED <<nodeVars, workVars, callVars, histVars>>

\* start(): arm the interval; the immediate processQueue finds an empty queue.
Start(i) ==
    /\ life[i] = "down"
    /\ life' = [life EXCEPT ![i] = "up"]
    /\ UNCHANGED <<dbVars, queue, processing, immediate>>
    /\ UNCHANGED <<workVars, callVars, histVars>>

\* The process ends, by a crash or by the signal handler, which calls stop() and
\* process.exit(0) with no await in between.
Exit(i) ==
    /\ MayCrash
    /\ life[i] = "up"
    /\ life' = [life EXCEPT ![i] = "down"]
    /\ queue' = [queue EXCEPT ![i] = <<>>]
    /\ processing' = [processing EXCEPT ![i] = FALSE]
    /\ immediate' = [immediate EXCEPT ![i] = FALSE]
    /\ pc' = [w \in Workers |-> IF w[1] = i THEN "idle" ELSE pc[w]]
    /\ batch' = [w \in Workers |-> IF w[1] = i THEN {} ELSE batch[w]]
    /\ cur' = [w \in Workers |-> IF w[1] = i THEN NoDelivery ELSE cur[w]]
    /\ cpc' = [c \in Calls |-> IF c[1] = i THEN "idle" ELSE cpc[c]]
    /\ todo' = [c \in Calls |-> IF c[1] = i THEN {} ELSE todo[c]]
    /\ made' = [c \in Calls |-> IF c[1] = i THEN NoDelivery ELSE made[c]]
    /\ UNCHANGED <<dbVars, histVars>>

-----------------------------------------------------------------------------
Manage ==
    \E k \in Configs :
        \/ CreateConfig(k)
        \/ \E state \in {"on", "off"} : SetEnabled(k, state)
        \/ DeleteConfig(k)

CallStarts == \E c \in Calls, subscribed \in SUBSET Configs : Enqueue(c, subscribed)

CallStep(c) ==
    \/ \E k \in Configs, d \in Deliveries : InsertDelivery(c, k, d)
    \/ InsertFails(c)
    \/ PushDelivery(c)
    \/ SelectFails(c)

RunStep(w) ==
    \/ Scan(w)
    \/ \E d \in Deliveries : VisitRetry(w, d)
    \/ ShiftItem(w)
    \/ FinishRun(w)
    \/ \E success \in BOOLEAN : SendWebhook(w, success)
    \/ ReadAttempts(w)
    \/ RecordOutcome(w)
    \/ RunFault(w)

Lifecycle(i) == Start(i) \/ Exit(i)

Next ==
    \/ Manage
    \/ CallStarts
    \/ \E c \in Calls : CallStep(c)
    \/ \E w \in Workers : IntervalTick(w) \/ ImmediateRuns(w) \/ RunStep(w)
    \/ \E i \in Instances : ImmediateReturns(i) \/ Lifecycle(i)
    \/ \E d \in Deliveries : BackoffElapses(d)

Spec == Init /\ [][Next]_vars

\* Statements, HTTP exchanges and callbacks complete and timers fire; requests,
\* crashes and restarts are not forced.
Fairness ==
    /\ \A w \in Workers : WF_vars(RunStep(w))
    /\ \A c \in Calls : WF_vars(CallStep(c))
    /\ \A i \in Instances :
        /\ WF_vars(\E n \in Slots : IntervalTick(<<i, n>>))
        /\ WF_vars(\E n \in Slots : ImmediateRuns(<<i, n>>))
        /\ WF_vars(ImmediateReturns(i))
    /\ \A d \in Deliveries : WF_vars(BackoffElapses(d))

FairSpec == Spec /\ Fairness

-----------------------------------------------------------------------------
(***************************************************************************)
(* Properties.                                                             *)
(***************************************************************************)

\* The variables keep the types of the columns and fields they stand for.
TypeOK ==
    /\ config \in [Configs -> ConfigState]
    /\ status \in [Deliveries -> Status]
    /\ owner \in [Deliveries -> Configs \cup {NoConfig}]
    /\ attempts \in [Deliveries -> Nat]
    /\ due \in [Deliveries -> BOOLEAN]
    /\ born \in [Deliveries -> Nat]
    /\ life \in [Instances -> LifeState]
    /\ queue \in [Instances -> Seq(Deliveries)]
    /\ processing \in [Instances -> BOOLEAN]
    /\ immediate \in [Instances -> BOOLEAN]
    /\ pc \in [Workers -> WorkerState]
    /\ batch \in [Workers -> SUBSET Deliveries]
    /\ cur \in [Workers -> Deliveries \cup {NoDelivery}]
    /\ cpc \in [Calls -> CallState]
    /\ todo \in [Calls -> SUBSET Configs]
    /\ made \in [Calls -> Deliveries \cup {NoDelivery}]
    /\ posts \in [Deliveries -> Nat]
    /\ acks \in [Deliveries -> Nat]

\* The `processing' flag does its job across the awaits of a run: an instance
\* never has two invocations of processQueue past the guard, and the flag is
\* up exactly while one is (a flag left up would stop the queue for good).
OneRunPerInstance ==
    /\ \A w1, w2 \in Workers :
        w1[1] = w2[1] /\ pc[w1] # "idle" /\ pc[w2] # "idle" => w1 = w2
    /\ \A i \in Instances :
        processing[i] <=> \E w \in Workers : w[1] = i /\ pc[w] # "idle"

\* A delivery sits at most once in the in-memory queues of all processes, and
\* not at all while its enqueue call has yet to push it.
QueuedOnce ==
    /\ \A i, j \in Instances :
        \A m \in DOMAIN queue[i], n \in DOMAIN queue[j] :
            queue[i][m] = queue[j][n] => i = j /\ m = n
    /\ \A c \in Calls, i \in Instances :
        \A m \in DOMAIN queue[i] : queue[i][m] # made[c]

\* The attempts column never counts a request that was not made: what is
\* recorded and what is still to be recorded is covered by requests sent,
\* whatever the interleaving of queue items, retries and instances.
Unsettled(d) == {w \in Workers : cur[w] = d /\ pc[w] \in Unrecorded}
AttemptsBackedByPosts ==
    \A d \in Deliveries : attempts[d] + Cardinality(Unsettled(d)) <= posts[d]

\* A row says `success' only if the endpoint answered 2xx to that delivery.
SuccessIsAcknowledged ==
    \A d \in Deliveries : status[d] = "success" => acks[d] >= 1

\* A row says `failed' only when its attempts are used up, although the
\* decision is taken on a value read before the write.
FailedOnlyAtLimit ==
    \A d \in Deliveries : status[d] = "failed" => attempts[d] >= MaxAttempts

\* What a settled row says is so, though it is written long after it was decided.
SettledIsHonest == SuccessIsAcknowledged /\ FailedOnlyAtLimit

\* A row still to be retried is one getPendingRetries can find: it never waits
\* in `retrying' with its attempts used up.  (One instance.)
NoStrandedRow ==
    \A d \in Deliveries : status[d] \in {"pending", "retrying"} => attempts[d] < MaxAttempts

\* The rows a run has yet to retry, read in one query before the first of its
\* requests, have not been settled meanwhile.  (One instance.)
RetryBatchIsFresh ==
    \A w \in Workers : \A d \in batch[w] :
        status[d] \in {"pending", "retrying", "none"} /\ attempts[d] < MaxAttempts

\* Without faults, crashes or a second instance an endpoint acknowledges a
\* delivery at most twice: once for the row and once for the queue item.
AcknowledgedAtMostTwice == \A d \in Deliveries : acks[d] <= 2

\* The queue, its retries and its faults implement the account that
\* WebhookDelivery promises: every step creates, posts, records or removes as
\* that specification allows, or changes nothing it speaks of.
Delivery == INSTANCE WebhookDelivery WITH known <- Known
HonestAccount == Delivery!Spec

\* An item of the in-memory queue is taken up, or its process ends: pushing
\* while a run is finishing never leaves the item without a run to come.
QueueDrains ==
    \A i \in Instances, d \in Deliveries :
        (\E m \in DOMAIN queue[i] : queue[i][m] = d)
            ~> ~(\E m \in DOMAIN queue[i] : queue[i][m] = d)

\* docs/WEBHOOKS.md promises that an endpoint is not notified repeatedly: once
\* it has acknowledged a delivery, that delivery is not posted again.
NotPostedAfterAck ==
    [][\A d \in Deliveries : acks[d] >= 1 => posts'[d] = posts[d]]_vars

\* docs/WEBHOOKS.md promises retries: a row waiting for its retry, with its
\* configuration enabled, is eventually tried again.
RetryHappens ==
    \A d \in Deliveries, n \in 1 .. MaxAttempts :
        status[d] = "retrying" /\ attempts[d] = n
            ~> status[d] # "retrying" \/ attempts[d] # n \/ config[owner[d]] # "on"

\* docs/WEBHOOKS.md promises three attempts: the attempts of a delivery stay
\* within its max_attempts.
AttemptsWithinLimit == \A d \in Deliveries : attempts[d] <= MaxAttempts

\* What the code keeps of that promise: whatever the queue item, the retries and
\* the faults do to one another, each process adds at most one attempt too many.
OverrunBounded ==
    \A d \in Deliveries : attempts[d] <= MaxAttempts + Cardinality(Instances)
=============================================================================
