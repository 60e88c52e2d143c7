# A verification project for the API gateway

TLA+ specifications, TLC configurations and TLAPS proofs for the gateway in `src/`: an Express/TypeScript process that authenticates clients, meters their calls against a subscription tier, runs monthly jobs and notifies clients through webhooks. Several identical processes (`k8s/deployments/api-gateway.yaml:9` asks for three) share one MySQL database and nothing else. Paths below are relative to `src/`.

## The system

### Parts, their state and their operations

| Part | State | Operations | What makes it correct |
|---|---|---|---|
| Webhook queue (`src/shared/webhooks/webhookQueue.ts`, `webhookService.ts`) | in memory: `queue`, `processing`, the interval; tables `webhook_configs`, `webhook_deliveries` | `enqueue`, `processQueue`, `processRetries`, `processWebhook`, `start`, `stop`; create, update, delete of configurations | one run at a time; a row never claims more than was sent and answered; items are taken up; retries happen |
| Webhook signing (`webhookSigner.ts`, `routes/webhooks.ts`) | `secret` of a `webhook_configs` row, and its copies in queued items | create, regenerate, sign, verify with a tolerance of five minutes | a receiver that has the secret it was told rejects nothing but what a regeneration overtook |
| Usage threshold monitor (`usageWebhookMonitor.ts`) | table `usage_notifications` | compare the usage with 80 and 100 percent, send and mark once per cycle | what is marked was told, or its `enqueue` failed; one notification per threshold and cycle |
| Usage metering (`middleware/clientUsageTracker.ts`, `clientService.ts`) | `clients.api_calls_current_month` | check the limit, increment | no call is lost without a trace; the limit is passed by a bounded amount |
| Monthly reset (`jobs/monthlyResetJob.ts`) | `jobConfig`, `scheduledJob`, `lastExecution`; `clients.billing_cycle_start` | scheduled and manual execution, restart with a new configuration | what is reported is true; executions end; everyone active is reset |
| Job notifications (`jobs/notificationService.ts`) | `notificationConfig` | send, subject to a threshold of failures | a failed job is notified |
| Audit cleanup (`jobs/auditCleanupJob.ts`, `services/auditRetentionService.ts`) | `retentionConfig`; table `audit_log` | delete what is older than the retention | only old rows go |
| Scheduler (`jobs/scheduler.ts`) | `schedulerRunning`, and the tasks the two jobs hold | start, stop, restart | flag and configuration agree with the tasks that are live; no job has two |
| Clients and tiers (`services/clientService.ts`, `clientTierService.ts`) | tables `clients`, `client_tiers` | create, update, deactivate | a tier in use is not deactivated |
| Client API keys (`services/clientApiKeyService.ts`, `middleware/auth.ts`) | table `client_api_keys` | generate, revoke, expire, validate | only an active key of an active client is let through |
| IP whitelist (`services/ipWhitelistService.ts`, `middleware/ipWhitelist.ts`) | table `client_ip_whitelist`, a cached list per process | add, remove, check | the cached list follows the table within a bounded time |
| Rate limiter of clients (`middleware/clientRateLimiter.ts`) | a counter with a lifetime in the process's cache | check and increment | at most the tier's limit per minute; waiting helps |
| Scopes (`auth/scopes.ts`, `middleware/scopeValidator.ts`) | none | parse, expand the hierarchy, compare | a route opens only for an action of the rank of what it does |
| Tokens and users (`auth/jwt.ts`, `routes/auth.ts`, `routes/users.ts`) | table `users`; revoked tokens in the memory of one process | register, log in, refresh, log out; create, change, delete a user | a logged-out token is refused until it expires; what a token grants is not older than its life |
| Audit log (`utils/auditLogger.ts`) | table `audit_log` | `logInsert`, `logUpdate`, `logDelete` | what a handler that logs has left in a row is in an entry; a deletion is logged once |
| Node cache (`cache/nodeCache.ts`) | entries with a lifetime | get, set, delete, flush | an expired entry is not served |
| Validation, errors, logging, health, metrics, configuration, encryption | none or counters | formatting, library calls | shallow |
| Redis, RabbitMQ, MongoDB, PostgreSQL, the keys of users kept there | - | not started by the gateway | - |

### Interactions

A request of a client passes `authenticateClientAPIKey`, `clientRateLimiter` and `clientUsageTracker` (all in `middleware/`) on one `req.client` object, read from the database once; the whitelist middleware is meant to come second and the threshold monitor last, but no route mounts either. A request of a user carries a token, from which `authenticateJWT` takes role and scopes without looking at the `users` row, and then passes a guard of `scopeValidator.ts`. Routes call `webhookQueue.enqueue`, the services and the job functions. The scheduler starts and stops the cron task of the monthly reset and that of the cleanup, which the jobs hold themselves and which their own routes also restart. `index.ts` starts the scheduler and the webhook queue, and on a signal stops them and calls `process.exit`. All sharing between processes is through MySQL rows. There are no transactions around the operations modelled: each statement is atomic alone, and between two statements of one operation other requests, timers and processes run.

### What is hard

- One Node process interleaves at every `await`. The flags that guard against this (`processing`, `isRunning`) are plain booleans of one process.
- Values are read in one statement and acted upon in a later one: `attempts` of a delivery, `api_calls_current_month` of a client, the page of clients of a job, `jobConfig` between two attempts.
- Statements throw, with or without having taken effect; processes exit with work in memory; webhooks are answered late or not at all.
- Retries and re-deliveries: of webhooks after a backoff, of resets after a delay.
- Copies outlive what they were copied from: a webhook's secret in a queued item, a user's role in a token, a client's whitelist in a cache, a retention in a cutoff date.
- Memory of one process stands in for a fact about all of them: revoked tokens, rate counters, cached lists, configuration given by a route.

`PROJECT.json` lists these under "hazards", each at its line, with the properties that cover it or the reason none does.

## Modules

| Module | Role |
|---|---|
| `WebhookDelivery` | abstract: the row of a delivery as an honest account of its HTTP exchanges |
| `WebhookQueue` | the queue, its retries, the rows, management routes, crashes, several processes; implements `WebhookDelivery` |
| `UsageMetering` | the monthly counter and the path of a metered request |
| `MonthlyReset` | executions of the reset job; extends `UsageMetering` and composes the two, since both write the counter |
| `JobScheduler` | scheduler, the tasks of both jobs, retention and cleanup of the audit log |
| `UsageMonitor` | thresholds, their notifications and the mark that suppresses repeats |
| `WebhookSigning` | the secret of a configuration, from its draw to its receiver |
| `ClientRegistry` | clients, tiers and the check before a tier is deactivated |
| `ClientAccess` | API key, client and whitelist on the way of a client's request |
| `RateWindow` | the counter per minute |
| `Sessions` | accounts, tokens and revocation |
| `Scopes` | the hierarchy of scopes and the guards of the routes |
| `AuditTrail` | what the entries of the audit log say of a row |
| `MCWebhookQueue`, `MCMonthlyReset`, `MCGatewayParts` | instances for TLC |
| `WebhookQueueProofs`, `MonthlyResetProofs`, `JobSchedulerProofs`, `NotificationProofs`, `ClientRegistryProofs`, `SessionsProofs`, `AuditTrailProofs`, `GatewayPartsProofs` | theorems; the last is about `RateWindow`, `Scopes` and the composition of the parts |

### WebhookQueue

A step runs from one `await` to the next. `Workers` are invocations of `processQueue`: the interval (`IntervalTick`) and `setImmediate` (`ImmediateRuns`) may start one whenever they like, and only `this.processing` keeps a second from running, as in the code. An invocation scans for retries (`Scan`: `getPendingRetries` with its `ORDER BY created_at LIMIT`), visits the batch (`VisitRetry` re-reads the configuration of each row), then shifts items from the in-memory queue (`ShiftItem`), and ends in `finally` (`FinishRun`). A delivery is sent (`SendWebhook`, answered 2xx or not), and on a failure the number of attempts is read (`ReadAttempts`) in a step apart from the UPDATE that records the outcome (`RecordOutcome`), because the code awaits between them. `Calls` are invocations of `enqueue`: one row per subscribed configuration, in any order, each followed by the push on the queue; a failing statement leaves the loop without the `setImmediate`. `Exit` is a crash or the signal handler: `stop()` and `process.exit` have no `await` in between, so the two are one step, and everything in memory is lost. `DeleteConfig` removes deliveries by the foreign key's cascade. `posts` and `acks` are history: what the endpoint has seen.

### UsageMetering and MonthlyReset

`Authenticate` copies the counter into the request (`snapshot`). `Refuse` and `Serve` compare that copy with the limit. `Serve` answers the call and leaves an increment under way ("counting"), which the database executes later (`Count`) or never (`CountFails`). `TurnAway` is a refusal of the per-minute limiter, whose window is not modelled, or the end of the process.

An execution of the job lists one page of active clients, newest first (`ListClients`, `ActivePage`), and goes through it in that order: `ResetClient` succeeds; `RetryClient` and `GiveUpClient` are failures of the statement, with or without its effect, told apart by comparing the attempt with the `retryAttempts` configured at that moment. `FinishJob` and `ListFails` set `lastExecution` and decide whether a notification is posted (`Report`). Nothing in the code excludes overlapping executions, so nothing in the model does. Clients are numbered in the order of `created_at`; `cycle` is the month of `billing_cycle_start`. `served`, `lost`, `wiped` are history.

Abstractions of these two: payloads, signatures, headers and logs are absent; a backoff is a flag that becomes true some time after it was set (`BackoffElapses`), because no property compares lengths of time; a `retryAttempts` of 0, below 0 or not a number behaves as 1 and is represented by 1.

### JobScheduler

The live tasks of a job are a sequence, of what each was scheduled with; the variable that holds a task (`scheduledJob`, `cleanupJob`) is the last element, so a task nobody can stop any more stays in front of it. `StartScheduler`, `StopScheduler` and `RestartScheduler` are operators on flag and tasks, applied by the actions for the start of a process, the restart routes and the route of the retention. `cron.schedule` throws on an expression outside `Accepted`, at the point where the code calls it: after the configuration was stored and the old task stopped. A cleanup takes its cutoff (`CleanupOldLogs`) in a step apart from the DELETE (`DeleteOldRows`), and `overtaken` records that the retention was changed in between. Ages of rows stop one day past the longest retention.

### UsageMonitor

A request copies usage and cycle (`UsageWebhookMonitor`), asks for the mark (`CheckNotified`), has the webhooks enqueued (`SendUsageThreshold`, `SendQuotaExceeded`) and marks (`MarkAsNotified`), each a step. A reset (`ResetCycle`) sets the cycle to today, which may be the day it already had, so that old marks count for the new cycle, as in the code. `enqueue` catches its own errors and returns as if nothing had happened (`Enqueue`), so a request goes on to the mark whether or not its webhook was enqueued for every configuration. `told` counts the webhooks that were, less those of requests that ended without marking: repeats after a failure are meant. `suppressed` holds the names that a request marked first whose own `enqueue` had failed: they stay untold for the cycle unless a request that overlapped had told them too. `MarkedMeansTold` says that this is the only way a threshold is marked and not told: exits, statements that throw in the monitor, and overlapping requests never do it.

### WebhookSigning

A secret is the number of its draw. Items copy secret and configuration when they are enqueued, and again for a retry; the timestamp that is signed is that of the sending. The receiver knows the secret the owner was last told by `regenerate-secret`, the only answer that shows one. Answers of two regenerations may arrive in either order or be lost; `misled` says that the owner was. The HMAC is the equality of secrets.

### ClientRegistry and AuditTrail

`ClientRegistry` has the statements of `deactivateTier` (COUNT, then UPDATE) and of `POST /clients` (slug, then INSERT) apart, and updates of clients and tiers between them. `joinedLate` and `switchedOff` say how an active client came to be on an inactive tier. `AuditTrail` has a handler read the row, write it, read it again and log, a step each; `logAudit` may fail silently. `RegisterUnlogged` and `DeactivateUnlogged` are the two writers of these rows that log nothing. A row's columns are one version number, new with every write, so that two values are never taken for one another.

### ClientAccess and RateWindow

`ClientAccess` follows a request through key, client and list, on several processes. The table of addresses is seen through one fact, whether an active entry covers the caller. A fetch of the list is answered at the database (`ListClientIPs`) and stored later (`StoreList`); a change of an entry takes effect (`Write`) and forgets the list when its answer arrives (`DeleteList`). Ages stop where nothing depends on them. Only the order of `docs/IP_WHITELIST.md` puts these middlewares together. `RateWindow` is the counter of a process with its lifetime, under changing plans and restarts, with the accepted requests up to each age as history (`accepted`); reading and writing it is one step, since the cache answers in memory without another request in between.

### Sessions and Scopes

A token is its kind, user, grant and age; two signed alike in the same second are equal, as the strings are. A grant stands for role and permissions. Registrations and logins have the hash between query and answer. `blacklist` holds entries with the seconds they have left, per process; `loggedOut` and `lastHad` are history. `Scopes` has the groups, the hierarchy and the guarded routes as sets, and one step that draws the caller: user, client key or admin with a list of scopes as the routes accept it. It is a set of operators checked against a reference: the rank of actions.

### MCGatewayParts

The modules of the last six headings share no state: they meet in the code only through rows or values that each models for itself (a secret in `WebhookSigning` and a delivery in `WebhookQueue`, for instance). One instance holds them all: `part` is chosen in the initial state, the actions of that part run, and the others stay in one of their initial states. The states of the instance are those of its parts added up, not multiplied, and every behaviour of a part is a behaviour of the instance with the others at rest; so a property of a part holds in the instance exactly if it holds of the part.

## Runs

| Run | Question | Bounds |
|---|---|---|
| `queue_one_instance` | Safety within one process, with every fault: types, one run at a time, queued once, no row left where the retry query cannot find it, batches stay valid, attempts backed by requests, settled rows honest (`SettledIsHonest`), attempts past the maximum by at most one per process (`OverrunBounded`, a bound that is reached: the queue item of a row that was retried meanwhile is sent once more) | 1 process, 2 invocations of each kind, 2 configurations, 2 deliveries, 2 attempts, a batch of 1 |
| `queue_replicas` | Two processes and crashes: the refinement `HonestAccount` | 2 processes, 1 configuration, 2 deliveries |
| `queue_live` | An item pushed while a run ends is still taken up (`QueueDrains`); an endpoint acknowledges a delivery at most twice without faults | 1 process, 2 invocations of each kind, 2 deliveries |
| `duplicate_post` | violated: an acknowledged delivery is not posted again (`docs/WEBHOOKS.md:28`) | 1 of each |
| `retry_starves` | violated: a waiting retry happens (`docs/WEBHOOKS.md:23`) | 1 of each |
| `attempts_overrun` | violated: attempts stay within `max_attempts` | 2 processes, 2 deliveries |
| `metering` | `UsageAccounts`, `OvershootBounded` under resets by routes and jobs | 2 clients, 2 requests at once, a limit of 1, 3 calls |
| `monthly_reset` | Reports are real, executions end, with overlap, retries, reconfiguration and crashes | 1 process with a scheduled and a manual execution, 2 clients, 1 or 2 attempts |
| `reset_misses_clients` | violated: all active clients are reset (`docs/CRON_JOBS.md:30`) | 2 clients, a page of 1 |
| `failure_not_notified` | violated: failures are notified (`docs/CRON_JOBS.md:43`) | 2 clients |
| `gateway_parts` | Safety of the nine other parts, see below | 1 or 2 of each actor, about 1.7 million states |
| `quota_untold` | violated: a client above its quota is told (`docs/WEBHOOKS.md:194`) | 2 requests, 1 cycle |

The properties of `gateway_parts`, by part:

- scheduler: no job ever has two live tasks (`OneTaskPerJob`); tasks, flag and configuration agree after every start, stop and restart, with rejected expressions (`TasksAsConfigured`); the cleanup deletes only what the retention gives up (`DeletesOnlyExpired`). Accepted and rejected expressions for both jobs, two retentions, one row, one cleanup that the configuration overtakes.
- sessions: a process refuses exactly the live tokens logged out there since its start (`RevocationIsExact`); what an accepted token grants was in its user's row within the life of a refresh and an access token (`GrantIsRecent`). Two processes, one user with two grants, lives of 2 seconds, three live tokens: a refresh token, the access token signed with it and one refreshed later, which is the longest chain.
- scopes: a guarded route opens only for an action of at least the rank of its effect on one of its resources (`OpenedByRank`). All lists of up to two scopes, and all groups.
- access: who is let through had an active key and client since arriving and an address covered within a fetch and a cache lifetime (`AdmittedRecently`); after a confirmed removal a process holds only a list whose fetch was already under way (`InvalidationHolds`). Two processes, one of which did not see the removal; one request at a time, which can be between fetch and store while the other process removes.
- rate: in no window are more requests accepted than the plan allows (`RateBound`); who was served nothing for a window is served (`WaitingHelps`). A window of 3 ticks and plans of 0, 2 and 3, so that a plan shrinks below and grows above what was counted.
- monitor: `MarkedMeansTold` and `RepeatsBounded`. Two requests, two days, one fault, which may be one that `enqueue` swallows; a limit of 5 has usages below 80 percent, between, at and above the limit.
- registry: `InactiveTierUnused`, with two tiers, two clients and two requests between their statements.
- audit: `CurrentValueRecorded` and `DeletedOnce`, with two handlers at once on a user and a client, three writes each.
- signing: `RejectedMeansRotated`, with two items, two regenerations at once and three secrets, a tolerance of 2 and flights of 1.

Why these bounds suffice. The guard of a run is between two invocations, and between an `enqueue` and the run that is ending. The races on a row need its queue item and its retry, or the same row at two processes; two deliveries add the order of a queue and a LIMIT that leaves a row out. Two attempts separate the first, the last and one too many. Two configurations make an `enqueue` fail half-way. A limit of 1 with 3 calls by two requests reaches the bound of `OvershootBounded` exactly. Two clients give a page with a client done and one to do; two values of `retryAttempts` let it shrink and grow between attempts. The proofs remove the bounds for what they cover. Runs with liveness use no symmetry. In `gateway_parts` every race is between two steps of at most two actors, every age is counted to one past the bound a property names, and every property has been seen to fail there with a plausible bug.

Every passing property has a mutant of the code it must catch: a guard left out (`ProcessQueueUnguarded`), a read moved (`ReadAttemptsEarly`), a bound that does not end a loop (`StartClientOver`), a value computed from a stale copy (`CountFromSnapshot`).

`CHECK_DEADLOCK FALSE` everywhere: with the bounded supplies of ids, calls and months used up, an idle gateway has nothing left to do.

### Fairness

`queue_live` and `retry_starves` assume that statements, HTTP exchanges and started runs go on, that the interval ticks, that `setImmediate` callbacks run and that time passes; not that anyone calls `enqueue` or that a crashed process comes back. This is what Node's event loop and the client's time limit give (a response whose body never ends is the one exception, listed as a hazard). `monthly_reset` assumes that statements and sleeps of an execution end; nothing forces a month, a request or an execution to begin. The parts in `MCGatewayParts` state no fairness: what they promise is safety. The one promise that sounds like liveness, that waiting helps a refused client, is stated as a fact about every state.

## What the code does against its documents

Shown by a run:

- A delivery is sent twice by the run its own `enqueue` triggers: the row is already eligible for the retry query when the queue item is shifted (`duplicate_post`).
- The retry phase runs only when the in-memory queue is not empty, so retries wait for unrelated traffic (`retry_starves`).
- Two replicas that hold the same delivery take its attempts past the maximum (`attempts_overrun`). One process does so too, by one attempt, with the queue item of a delivery it has retried meanwhile; `OverrunBounded` is what remains of the promise.
- The reset job asks for 1000 clients, gets at most 100 and reports success (`reset_misses_clients`).
- An execution that cannot even list the clients posts no notification with the default threshold, because its count of failures is 0 (`failure_not_notified`).
- A client whose usage was seen exactly at its limit never gets `usage.quota.exceeded` in that cycle (`quota_untold`).

Met while modelling, and built into the models as the code has it:

- The threshold monitor reads `rate_limit_per_month` of the tier, a column no tier has, so that its limit is 1000 for everyone. A usage that passes from below 80 to 100 percent between two looks is never told of 80. A reset on the day the cycle began keeps the marks. A threshold whose `enqueue` failed is marked all the same, and is not announced again in the cycle, although `docs/WEBHOOKS.md` promises the webhook without a condition; `MarkedMeansTold` excludes exactly these. Requests that overlap repeat a notification (`docs/WEBHOOKS.md:28` excludes it); `RepeatsBounded` is what remains.
- `docs/WEBHOOKS.md:114` says that creating a webhook shows its secret once; the route answers `***HIDDEN***`, and a secret is seen only by regenerating it. The routes look at `req.client`, which their authentication never sets, so that only admins pass.
- `docs/IP_WHITELIST.md:203` says that the middleware lets requests through on an error; `isIPAllowed` catches errors first and answers false, so they are refused. The routes of the whitelist accept only UUIDs as client ids, and clients are created with a nanoid.
- The limiter speaks of requests per minute. Each accepted request renews the whole window, so a steady client is refused in the end at any rate above one request per window, and `WaitingHelps` needs a pause of a whole window.
- A comment at `auth/scopes.ts:118` calls the ADMIN group full control except deletion; it holds two delete scopes and `clients:admin`, which opens deletions. Scopes given to client keys meet no guard, since the guarded routes authenticate users.
- A refresh token outlives a logout, and a deleted user's tokens live on. Revocations are known to one process only, and until it restarts. `RevocationIsExact` and `GrantIsRecent` say what is promised nevertheless.
- `POST /auth/register` inserts a row of `users` and logs nothing (`POST /users`, which does the same for an admin, logs it); neither do `DELETE /clients/:id` and the routes of tiers, although `docs/AUDIT_SYSTEM.md:13` lists all three actions. `CurrentValueRecorded` excludes what the first two have written; the rows of tiers are not modelled there.
- Retention and job configuration given by a route live in one process until it exits. `getSchedulerStatus` reports a job as running when it is disabled, reads the cleanup's settings from the environment instead of the configuration in force, and a rejected cron expression stays in `jobConfig` with no task live.

## Proofs

All theorems are for every value of the constants that satisfies the modules' ASSUMEs (finite sets of processes, slots, deliveries, clients and requests; positive limits and lifetimes; a set of plans, and one of retentions, that has a greatest member, as the stored configurations have).

**Queue.** `TypeCorrect` proves `TypeInv`: `TypeOK`, strengthened by two facts: a worker past `send` has a delivery, and a call past its INSERT has the row it made. `OneRunCorrect` needs no more than that: by `StepKinds` a step is aside from the runs, starts one, advances one or ends a process, and only a start has to be looked at. The account goes in layers. `KnownInv` says that whatever is queued, batched, being processed or just made is a delivery whose row was once created, so it cannot be confused with an unused id. `SettledInv` relates the position of a worker to what its endpoint has answered (about to record a success: acknowledged; a failure: fewer acknowledgements than requests; a final failure: the row's attempts are one short of the limit at least). `AttemptsBackedByPosts` alone is inductive over `TypeInv`: a recording moves one request from "to be recorded" to "recorded", which is why it counts the workers that have yet to record. `FailedOnlyAtLimit` holds because attempts only grow between the read and the write: the value a worker decided on is a lower bound of the value its UPDATE adds to. `QueuedInv` adds to `QueuedOnce` that no two calls to `enqueueWebhook` hold the same fresh id, which is what makes the next push harmless; everything else only shortens queues (`QueuesShrink`, `ItemsAreQueuedOnce`). `SingleProcessRetries` proves `NoStrandedRow` and `RetryBatchIsFresh` under `OneInstance`: with one run per process there is then one run at all, so nobody settles a row between its query and its turn, and a row below the limit has had fewer attempts than the retry query asks for; with two processes both are violated (instance of `queue_replicas` without symmetry), which is why no run there lists them; `NoRowStranded` states the first alone. `SettledRowsAreHonest` puts what a success and a final failure claim together. `AccountInv` joins these, and `QueueImplementsDelivery` shows with it that every step of the queue is one of create, post, record and remove of `WebhookDelivery`, or a stutter.

**Attempts and acknowledgements.** `OverrunIsBounded` charges a delivery in advance for every attempt that is on its way: `Carriers` are the runs that hold it in their batch or have it sent and unrecorded, `ItemLeft` is 1 as long as its queue item waits. `CarryInv` says that attempts, carriers and item together never exceed `MaxAttempts` by more than the number of processes. A recording turns a carrier into an attempt, `ShiftItem` turns the item into a carrier (it stands in one queue only, by `QueuedInv`), and a retry query adds a carrier only to a row with attempts left, where each process has one run at most (`OnePerInstance`); so the sum has room for it (`CarryOne`). `SingleProcessAcknowledges` is the promise to an endpoint, under the hypotheses one process, no failing statement and no crash: `AckInv` counts the acknowledgements and the waiting item, two in all, and one in all while a retry may still find the row. `GoneInv` (a row that is gone went with its configuration) covers deletions in between. Each hypothesis is needed: a second process, an UPDATE that throws or an exit between answer and UPDATE each lets the row be sent again.

**Billing.** `BillingTypeCorrect` proves `TypeInv` (types, and that a request in progress has a client). `CallsAreAccounted` and `OvershootIsBounded`: both are inductive over `TypeInv` once stated with the sets of requests under way (`Counting`, `Admitted`). A step of the meter moves one request between the terms of the sums (`AuthenticateAdmits`, `ServeMoves`, `ForgetRemoves` give the sets, the library gives their cardinalities), a reset moves `usage` to `wiped`, and every other step leaves them alone (`ResetOrStill`). The bound would not be inductive for the counter alone: admitted requests must be charged when they are admitted. `ProgressCorrect` adds `BeganBefore` (no listing is later than the present month), which is what makes another execution's reset harmless. `SuccessCorrect`, an action property, follows: only `FinishJob` without failures can end in a success. `OnePageResetsAll` says when the documented promise, which `reset_misses_clients` refutes, is kept nevertheless: if a page holds all clients (`OnePage`: no more clients than `PageLimit`) and none is activated or deactivated, the page of an execution is all active clients for as long as it runs.

**Scheduler.** `Agree` relates flag, tasks and configuration: at most one task per job, a live task is one its configuration asks for, and a set flag means that all such tasks are live. It is stated for any configuration, and lemmas show that stop and start keep it whatever they find (`StopAgrees`, `StartAgrees`); a step is then a composition of the two. The second part is needed when the flag is not set: a start over the task of a start that threw is harmless because what it finds is of the present configuration. `NoSecondTask` and `TasksFollowConfiguration` follow. `OnlyExpiredDeleted` adds `CleaningInv`: rows doomed by a cutoff stay past the retention as long as nobody changes it.

**Sessions.** `BlacklistExact` says that the entries of a process are the tokens it has logged out, each with exactly the seconds its token has left. The equality is what is inductive: one second less and a logged-out token would be accepted again, one more and the next second would find an entry without a token. `TokensRecent` charges every token with the age of what it grants: the hash, its own age, and for an access token the age a refresh token may have had. The theorems are `RevocationExact` and `GrantsAreRecent`.

**Notifications.** `MonitorInv` counts: as long as a threshold is not marked, it was told by exactly the requests that have enqueued its webhook and have still to mark it; one marked by such a request first was told once more than that (`MarkedSettled`), and one marked by a request whose `enqueue` failed is in `suppressed`. Once it is marked, no new request sends it, so what was told and what is still to be sent never outnumber the requests. This gives `MarkedThresholdsTold` and `ToldOncePerRequest`. For the secrets, `SigningInv` says that the row holds the last draw, and that an owner who knows another secret was misled or has the answer with the last draw still coming (`RejectionMeansRotation`).

**Registry and audit.** `RegistryInv` carries the COUNT forward: between it and the UPDATE every client on the tier joined late (`DeactivationSound`). `AuditInv` says what a handler knows of its row at each point: its own version is not younger than the row's writes, what it read the second time is its own version if that is still there, and of two handlers only one is past a DELETE that found the row. A writer that logs nothing adds its version to `unrecorded` in the same step; a registration finds no handler at its row, which is new. `OneDeletionLogged` and `CurrentValueIsRecorded` follow.

**Access.** `AccessInv` charges every list with its age: one under way with its wait, a stored one with `MaxLag` plus its age (`TableRecent`), and the same against the time of a confirmed removal (`RemovalSeen`). The tick is the step that matters: what the table last said ages no faster than the list that repeats it. `AdmittedRecentlyHolds` and `InvalidationIsLasting` follow.

**Limit per minute.** The history of a counter is kept cumulatively (`accepted[k][a]`: requests accepted at most `a` ago), so that no sum over a window has to be reasoned about. `WindowCounted` is the inductive part: the last accepted request is exactly as old as the lifetime the counter has used up, nothing younger was accepted, and the counter counts all that is in its window. `UnderPlan` adds that what was accepted since the limit changed was accepted below it. `RateIsBounded` follows for a plan as old as the window; `WaitingIsEnough` because a counter that is alive has an accepted request in the window. The tick is the step with the work: every age moves on by one, and the counter expires exactly when its last request leaves the window.

**Scopes.** `RoutesOpenByRank` is about the routes and scopes the code has, and any lists of scopes a caller may hold. `SuperiorRanksHigher` says that the hierarchy climbs in rank, `RoutesSound` that every guard asks only for scopes of one of its route's resources that rank with its handler; `HeldRanks` puts them together.

**Composition of the parts.** `PartsAreThemselves` proves that the instance `gateway_parts` checks implements the specification of each part, so that `PartsTypeCorrect` and `PartsKeepTheirPromises` carry over what is proved of each part alone; it is the argument of the section on `MCGatewayParts` above, checked. The types of the scheduler, the monitor and the limiter need some bounds of their own (`AgesBounded`, `FaultsCounted`, `RateTypesHold`).

**Only model-checked.** Liveness (`QueueDrains`, `JobEnds`), which is beyond the prover, and the six refutations, which are counterexamples. Every safety property of a passing run is a theorem; `NoStrandedRow`, `RetryBatchIsFresh` and `AcknowledgedAtMostTwice` under the hypotheses their comments name, which are those of the instances that check them.

## What is left

The order of the work was: queue, billing, then the parts by the hazards they carry, then the proofs. Open, in the order of what they would add:

1. Joining `UsageMonitor` and `WebhookSigning` with `WebhookQueue`, once the monitor is mounted somewhere.
2. Hazards whose bad outcome no property would report, each with its note in `PROJECT.json`. Two are out of the runs' bounds or of the model: a page of retries filled by disabled configurations, and a response whose body never ends. One needs a liveness run of two configurations with failing statements: the item an `enqueue` leaves behind when it fails at its second configuration. The others are outcomes the code does produce, so that a property can only exclude them and say what holds otherwise: a webhook lost in `enqueue` and marked, a client put on a tier while it is deactivated, rows deleted by a cutoff that was overtaken, clients left by an execution that crashed, a steady client refused, a rejected cron expression left without a task.

## Not modelled

- Redis, RabbitMQ, MongoDB and the PostgreSQL store of users' keys, which the gateway does not start.
- Validation schemas, error formats, logs, metrics, health probes, encryption helpers and dashboards, which keep no state the rest depends on. Where a schema restricts an input, the action that takes it does.
- The general rate limiters, which are configuration of the express-rate-limit library, and `cacheMiddleware`, which is mounted nowhere.
- Matching an address with a CIDR range (seen as whether an entry covers it) and the strict whitelist middleware, mounted nowhere.
- `requireAllScopes`, `loadScopes` and `optionalScope`, which guard no mounted route; descriptions of scopes.
- Read-only routes: listings, statistics, filters of the audit log, status of scheduler and webhooks; the test delivery, which posts once outside the queue and stores nothing.
- The e-mail and chat formats of job notifications. The text of the next execution, an estimate for display.
- The MySQL driver and its pool: a statement is one atomic step that may throw. HTTP: an exchange is one step with one of two answers. Express: mounting and the order of middleware are read from the routes.
