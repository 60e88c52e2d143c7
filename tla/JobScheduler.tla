---------------------------- MODULE JobScheduler ----------------------------
(***************************************************************************)
(* The cron tasks of one gateway process and what starts and stops them:   *)
(* src/shared/jobs/scheduler.ts, auditCleanupJob.ts, the task of           *)
(* monthlyResetJob.ts, and auditRetentionService.ts, whose configuration   *)
(* the cleanup of audit_log runs under.                                    *)
(*                                                                         *)
(* Everything here but the rows of audit_log is process memory: an exit    *)
(* forgets tasks and configuration, a start reads the environment again.   *)
(* The environment is not validated when it is read; cron.schedule throws  *)
(* on an expression it does not accept.                                    *)
(***************************************************************************)
EXTENDS Integers, Sequences, FiniteSets

CONSTANTS
    Expressions,    \* values cronExpression may have
    Hours,          \* values cleanupHour may have
    Accepted,       \* those of both that cron.schedule accepts
    Retentions,     \* values retentionDays may have
    LogRows,        \* rows of audit_log
    Cleaners        \* executions of cleanupOldLogs at a time (bound)

\* updateRetentionConfig takes 30 to 730 days: one retention is the longest.
ASSUME RetentionsAssumption ==
    Retentions \subseteq Nat \ {0} /\ \E d \in Retentions : \A e \in Retentions : e <= d
ASSUME AcceptedAssumption == Accepted \subseteq Expressions \cup Hours

VARIABLES
    env,        \* the environment of the process: [monthly, retention]
    gateway,    \* "down" or "up"
    jobConfig,  \* configuration of the monthly reset: [enabled, cron]
    retention,  \* retentionConfig: [enabled, hour, days]
    scheduler,  \* [running, monthly, cleanup]: the flag and the live tasks
    rowAge,     \* [LogRows -> age in days, or what stands for no row]
    cleaning    \* [Cleaners -> CleaningState]

schedulerVars == <<env, gateway, jobConfig, retention, scheduler, rowAge, cleaning>>

JobConfig == [enabled : BOOLEAN, cron : Expressions]
RetentionConfig == [enabled : BOOLEAN, hour : Hours, days : Retentions]

\* An audit row: not written, deleted, or so many days old.  Ages stop one day
\* past the longest retention: older rows are all alike.
Unwritten == -1
Deleted == -2
OldestAge == (CHOOSE d \in Retentions : \A e \in Retentions : e <= d) + 1

\* An execution of cleanupOldLogs whose DELETE is under way: the rows before
\* its cutoff date, and whether the configuration has changed since it was read.
Idle == [pc |-> "idle", doomed |-> {}, overtaken |-> FALSE]
CleaningState == [pc : {"idle", "delete"}, doomed : SUBSET LogRows, overtaken : BOOLEAN]

-----------------------------------------------------------------------------
(***************************************************************************)
(* Tasks.  A job's live tasks are a sequence of what they were scheduled   *)
(* with; the variable that holds a task is its last element.               *)
(***************************************************************************)

NoTasks == [running |-> FALSE, monthly |-> << >>, cleanup |-> << >>]

\* scheduledJob.stop(), cleanupJob.stop(): the held task ends.
StopHeld(tasks) == SubSeq(tasks, 1, Len(tasks) - 1)

StopMonthlyResetJob(tasks) == StopHeld(tasks)
StopAuditCleanupJob(tasks) == StopHeld(tasks)

\* Mutant: a start that forgets the task it replaces.
ScheduleBeside(tasks, when) == IF when \in Accepted THEN Append(tasks, when) ELSE tasks

\* cron.schedule, after the held task was stopped.
Schedule(tasks, when) == IF when \in Accepted THEN Append(StopHeld(tasks), when) ELSE StopHeld(tasks)

StartMonthlyResetJob(tasks, config) == IF config.enabled THEN Schedule(tasks, config.cron) ELSE tasks
StartAuditCleanupJob(tasks, config) == IF config.enabled THEN Schedule(tasks, config.hour) ELSE tasks

MonthlyStartThrows(config) == config.enabled /\ config.cron \notin Accepted
CleanupStartThrows(config) == config.enabled /\ config.hour \notin Accepted

\* Mutant: the flag is set before the jobs are started.
StartSchedulerFlagFirst(s, monthly, cleanup) ==
    IF s.running THEN s
    ELSE LET m == StartMonthlyResetJob(s.monthly, monthly)
         IN  IF MonthlyStartThrows(monthly) THEN [s EXCEPT !.monthly = m, !.running = TRUE]
             ELSE [running |-> TRUE, monthly |-> m, cleanup |-> StartAuditCleanupJob(s.cleanup, cleanup)]

\* startScheduler: the flag is set last, and not at all when a job throws.
StartScheduler(s, monthly, cleanup) ==
    IF s.running THEN s
    ELSE LET m == StartMonthlyResetJob(s.monthly, monthly)
         IN  IF MonthlyStartThrows(monthly) THEN [s EXCEPT !.monthly = m]
             ELSE [running |-> ~CleanupStartThrows(cleanup),
                   monthly |-> m,
                   cleanup |-> StartAuditCleanupJob(s.cleanup, cleanup)]

\* stopScheduler: nothing at all when the flag is not set.
StopScheduler(s) ==
    IF ~s.running THEN s
    ELSE [running |-> FALSE,
          monthly |-> StopMonthlyResetJob(s.monthly),
          cleanup |-> StopAuditCleanupJob(s.cleanup)]

RestartScheduler(s, monthly, cleanup) == StartScheduler(StopScheduler(s), monthly, cleanup)

-----------------------------------------------------------------------------
SchedulerInit ==
    /\ env \in [monthly : JobConfig, retention : RetentionConfig]
    /\ gateway = "down"
    /\ jobConfig = env.monthly
    /\ retention = env.retention
    /\ scheduler = NoTasks
    /\ rowAge = [r \in LogRows |-> Unwritten]
    /\ cleaning = [k \in Cleaners |-> Idle]

\* The modules read the environment when they are loaded; start() only warns
\* when startScheduler throws.
GatewayStarts ==
    /\ gateway = "down"
    /\ gateway' = "up"
    /\ jobConfig' = env.monthly
    /\ retention' = env.retention
    /\ scheduler' = StartScheduler(NoTasks, env.monthly, env.retention)
    /\ UNCHANGED <<env, rowAge, cleaning>>

\* SIGTERM, SIGINT or a crash: stopScheduler and process.exit, or the exit alone.
GatewayExits ==
    /\ gateway = "up"
    /\ gateway' = "down"
    /\ scheduler' = NoTasks
    /\ cleaning' = [k \in Cleaners |-> Idle]
    /\ UNCHANGED <<env, jobConfig, retention, rowAge>>

\* POST /jobs/scheduler/restart.
SchedulerRestartRoute ==
    /\ gateway = "up"
    /\ scheduler' = RestartScheduler(scheduler, jobConfig, retention)
    /\ UNCHANGED <<env, gateway, jobConfig, retention, rowAge, cleaning>>

\* POST /jobs/monthly-reset/restart: restartMonthlyResetJob merges the new
\* configuration first, and keeps it when cron.schedule throws.
MonthlyRestartRoute(config) ==
    /\ gateway = "up"
    /\ jobConfig' = config
    /\ scheduler' = [scheduler EXCEPT
                        !.monthly = StartMonthlyResetJob(StopMonthlyResetJob(@), config)]
    /\ UNCHANGED <<env, gateway, retention, rowAge, cleaning>>

\* restartAuditCleanupJob.
RestartAuditCleanupJob(tasks, config) == StartAuditCleanupJob(StopAuditCleanupJob(tasks), config)

\* updateRetentionConfig refuses what is out of range; the schema of the route
\* has done so before.
ValidRetention(config) == config.hour \in Accepted

\* POST /audit-logs/retention/config.
RetentionRoute(config) ==
    /\ gateway = "up"
    /\ ValidRetention(config)
    /\ retention' = config
    /\ scheduler' = [scheduler EXCEPT !.cleanup = RestartAuditCleanupJob(@, config)]
    /\ cleaning' = [k \in Cleaners |-> [cleaning[k] EXCEPT !.overtaken = cleaning[k].pc = "delete"]]
    /\ UNCHANGED <<env, gateway, jobConfig, rowAge>>

-----------------------------------------------------------------------------
(***************************************************************************)
(* The cleanup.                                                            *)
(***************************************************************************)

Written(r) == rowAge[r] \notin {Unwritten, Deleted}

\* Mutant: a cutoff that takes the rows of the last day of the retention too.
BeforeCutoffOrOn(r) == Written(r) /\ rowAge[r] >= retention.days

\* changed_at < now - retentionDays.
BeforeCutoff(r) == Written(r) /\ rowAge[r] > retention.days

\* cleanupOldLogs up to its DELETE: the configuration is read and the cutoff
\* date computed; a disabled cleanup ends here.
CleanupOldLogs(k) ==
    /\ gateway = "up"
    /\ cleaning[k].pc = "idle"
    /\ retention.enabled
    /\ cleaning' = [cleaning EXCEPT ![k] = [pc |-> "delete",
                                            doomed |-> {r \in LogRows : BeforeCutoff(r)},
                                            overtaken |-> FALSE]]
    /\ UNCHANGED <<env, gateway, jobConfig, retention, scheduler, rowAge>>

\* The scheduled task of the cleanup, on its hour.
ScheduledCleanup(k) == scheduler.cleanup # << >> /\ CleanupOldLogs(k)

\* POST /audit-logs/retention/cleanup.
CleanupRoute(k) == CleanupOldLogs(k)

\* The DELETE takes effect; or it throws and nothing is deleted.
DeleteOldRows(k) ==
    /\ cleaning[k].pc = "delete"
    /\ \E gone \in {{}, cleaning[k].doomed} :
          rowAge' = [r \in LogRows |-> IF r \in gone THEN Deleted ELSE rowAge[r]]
    /\ cleaning' = [cleaning EXCEPT ![k] = Idle]
    /\ UNCHANGED <<env, gateway, jobConfig, retention, scheduler>>

\* logAudit: a row is written.
WriteLogRow(r) ==
    /\ gateway = "up"
    /\ rowAge[r] = Unwritten
    /\ rowAge' = [rowAge EXCEPT ![r] = 0]
    /\ UNCHANGED <<env, gateway, jobConfig, retention, scheduler, cleaning>>

DayPasses ==
    /\ rowAge' = [r \in LogRows |->
                     IF Written(r) /\ rowAge[r] < OldestAge THEN rowAge[r] + 1 ELSE rowAge[r]]
    /\ UNCHANGED <<env, gateway, jobConfig, retention, scheduler, cleaning>>

SchedulerNext ==
    \/ GatewayStarts
    \/ GatewayExits
    \/ SchedulerRestartRoute
    \/ \E config \in JobConfig : MonthlyRestartRoute(config)
    \/ \E config \in RetentionConfig : RetentionRoute(config)
    \/ \E k \in Cleaners : ScheduledCleanup(k) \/ CleanupRoute(k) \/ DeleteOldRows(k)
    \/ \E r \in LogRows : WriteLogRow(r)
    \/ DayPasses

SchedulerSpec == SchedulerInit /\ [][SchedulerNext]_schedulerVars

-----------------------------------------------------------------------------
(***************************************************************************)
(* Properties.                                                             *)
(***************************************************************************)

\* Types.
SchedulerTypeOK ==
    /\ env \in [monthly : JobConfig, retention : RetentionConfig]
    /\ gateway \in {"down", "up"}
    /\ jobConfig \in JobConfig
    /\ retention \in RetentionConfig
    /\ scheduler.running \in BOOLEAN
    /\ scheduler.monthly \in Seq(Expressions)
    /\ scheduler.cleanup \in Seq(Hours)
    /\ rowAge \in [LogRows -> {Unwritten, Deleted} \cup 0..OldestAge]
    /\ cleaning \in [Cleaners -> CleaningState]

\* Whatever starts, restarts and failed starts a process goes through, a job
\* has at most one live cron task: a task that is no longer held cannot be
\* stopped, and its job would run twice on every date.
OneTaskPerJob == Len(scheduler.monthly) <= 1 /\ Len(scheduler.cleanup) <= 1

\* What isRunning, the status and the health of the scheduler rest on: while
\* the flag is set, each job is scheduled exactly when its configuration says
\* so, and as it says, through all the ways a configuration changes.
RunningMeansScheduled ==
    scheduler.running =>
        /\ scheduler.monthly # << >> <=> jobConfig.enabled /\ jobConfig.cron \in Accepted
        /\ scheduler.cleanup # << >> <=> retention.enabled
        /\ scheduler.monthly # << >> => scheduler.monthly[1] = jobConfig.cron
        /\ scheduler.cleanup # << >> => scheduler.cleanup[1] = retention.hour

\* Also when the flag is not set, as after a start that threw in its second
\* job: a live task is one its present configuration asks for.
NoUnwantedTask ==
    /\ scheduler.monthly # << >> => jobConfig.enabled /\ jobConfig.cron = scheduler.monthly[1]
    /\ scheduler.cleanup # << >> => retention.enabled /\ retention.hour = scheduler.cleanup[1]

\* What the status, the health and the two restarts rest on, whatever starts
\* and stops fail on the way: the live tasks and the configuration agree.
TasksAsConfigured == RunningMeansScheduled /\ NoUnwantedTask

\* An audit row is deleted only when it is older than the retention in force,
\* unless the retention was changed while the DELETE was under way.
DeletesOnlyExpired ==
    [][\A r \in LogRows :
          (Written(r) /\ rowAge'[r] = Deleted) =>
             \/ rowAge[r] > retention.days
             \/ \E k \in Cleaners : cleaning[k].overtaken /\ cleaning'[k] = Idle]_schedulerVars
=============================================================================
