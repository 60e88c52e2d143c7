-------------------------- MODULE JobSchedulerProofs --------------------------
(***************************************************************************)
(* Proofs about the tasks of a process and the cleanup of audit_log, for   *)
(* any expressions, retentions, rows and executions.                       *)
(***************************************************************************)
EXTENDS JobScheduler, TLAPS

-----------------------------------------------------------------------------
(***************************************************************************)
(* Tasks.  With at most one live task, stopping the held one leaves none.  *)
(***************************************************************************)

Tasks(S) == {tasks \in Seq(S) : Len(tasks) <= 1}

LEMMA NoTask ==
  ASSUME NEW S
  PROVE  << >> \in Tasks(S)
  BY DEF Tasks

LEMMA OneTask ==
  ASSUME NEW S, NEW when \in S
  PROVE  <<when>> \in Tasks(S) /\ <<when>> # << >> /\ <<when>>[1] = when
  BY DEF Tasks

LEMMA StopHeldLeavesNone ==
  ASSUME NEW S, NEW tasks \in Tasks(S)
  PROVE  StopHeld(tasks) = << >>
  BY DEF Tasks, StopHeld

LEMMA ScheduleReplaces ==
  ASSUME NEW S, NEW tasks \in Tasks(S), NEW when \in S
  PROVE  Schedule(tasks, when) = IF when \in Accepted THEN <<when>> ELSE << >>
  <1>1. Append(<< >>, when) = <<when>>
    OBVIOUS
  <1>2. StopHeld(tasks) = << >>
    BY StopHeldLeavesNone
  <1> QED
    BY <1>1, <1>2 DEF Schedule

\* What the two starts leave, over any tasks.
LEMMA MonthlyStarted ==
  ASSUME NEW tasks \in Tasks(Expressions), NEW config \in JobConfig
  PROVE  /\ config.enabled /\ config.cron \in Accepted => StartMonthlyResetJob(tasks, config) = <<config.cron>>
         /\ config.enabled /\ config.cron \notin Accepted => StartMonthlyResetJob(tasks, config) = << >>
         /\ ~config.enabled => StartMonthlyResetJob(tasks, config) = tasks
         /\ StartMonthlyResetJob(tasks, config) \in Tasks(Expressions)
  BY ScheduleReplaces, OneTask, NoTask DEF StartMonthlyResetJob, JobConfig

LEMMA CleanupStarted ==
  ASSUME NEW tasks \in Tasks(Hours), NEW config \in RetentionConfig
  PROVE  /\ config.enabled /\ config.hour \in Accepted => StartAuditCleanupJob(tasks, config) = <<config.hour>>
         /\ config.enabled /\ config.hour \notin Accepted => StartAuditCleanupJob(tasks, config) = << >>
         /\ ~config.enabled => StartAuditCleanupJob(tasks, config) = tasks
         /\ StartAuditCleanupJob(tasks, config) \in Tasks(Hours)
  BY ScheduleReplaces, OneTask, NoTask DEF StartAuditCleanupJob, RetentionConfig

-----------------------------------------------------------------------------
(***************************************************************************)
(* The invariant of the tasks: TasksAsConfigured and OneTaskPerJob support *)
(* each other.  A start over tasks that were not stopped, as after a start *)
(* that threw, replaces or keeps what it finds, and is right to because    *)
(* what it finds is of the present configuration.                          *)
(***************************************************************************)

Scheduled(s) ==
    /\ s = [running |-> s.running, monthly |-> s.monthly, cleanup |-> s.cleanup]
    /\ s.running \in BOOLEAN /\ s.monthly \in Tasks(Expressions) /\ s.cleanup \in Tasks(Hours)

Wanted(s, monthly, cleanup) ==
    /\ s.monthly # << >> => monthly.enabled /\ monthly.cron = s.monthly[1]
    /\ s.cleanup # << >> => cleanup.enabled /\ cleanup.hour = s.cleanup[1]

Running(s, monthly, cleanup) ==
    s.running =>
        /\ s.monthly # << >> <=> monthly.enabled /\ monthly.cron \in Accepted
        /\ s.cleanup # << >> <=> cleanup.enabled

Agree(s, monthly, cleanup) == Scheduled(s) /\ Wanted(s, monthly, cleanup) /\ Running(s, monthly, cleanup)

LEMMA NoTasksAgree ==
  ASSUME NEW monthly \in JobConfig, NEW cleanup \in RetentionConfig
  PROVE  Agree(NoTasks, monthly, cleanup) /\ ~NoTasks.running
  BY NoTask DEF Agree, Scheduled, Wanted, Running, NoTasks

LEMMA StopAgrees ==
  ASSUME NEW s, NEW monthly \in JobConfig, NEW cleanup \in RetentionConfig, Agree(s, monthly, cleanup)
  PROVE  Agree(StopScheduler(s), monthly, cleanup) /\ ~StopScheduler(s).running
  <1>1. CASE s.running
    <2>1. StopScheduler(s) = NoTasks
      BY <1>1, StopHeldLeavesNone
      DEF StopScheduler, Agree, Scheduled, StopMonthlyResetJob, StopAuditCleanupJob, NoTasks
    <2> QED
      BY <2>1, NoTasksAgree
  <1>2. CASE ~s.running
    BY <1>2 DEF StopScheduler
  <1> QED
    BY <1>1, <1>2

LEMMA StartAgrees ==
  ASSUME NEW s, NEW monthly \in JobConfig, NEW cleanup \in RetentionConfig,
         Agree(s, monthly, cleanup), ~s.running
  PROVE  Agree(StartScheduler(s, monthly, cleanup), monthly, cleanup)
  <1> DEFINE m == StartMonthlyResetJob(s.monthly, monthly)
             c == StartAuditCleanupJob(s.cleanup, cleanup)
             t == StartScheduler(s, monthly, cleanup)
  <1>1. /\ m \in Tasks(Expressions)
        /\ m # << >> <=> monthly.enabled /\ monthly.cron \in Accepted
        /\ m # << >> => m[1] = monthly.cron
    <2>1. s.monthly \in Tasks(Expressions) /\ monthly.cron \in Expressions
      BY DEF Agree, Scheduled, JobConfig
    <2>2. ~monthly.enabled => s.monthly = << >>
      BY DEF Agree, Wanted
    <2> QED
      BY <2>1, <2>2, MonthlyStarted, OneTask
  <1>2. /\ c \in Tasks(Hours)
        /\ c # << >> <=> cleanup.enabled /\ cleanup.hour \in Accepted
        /\ c # << >> => c[1] = cleanup.hour
    <2>1. s.cleanup \in Tasks(Hours) /\ cleanup.hour \in Hours
      BY DEF Agree, Scheduled, RetentionConfig
    <2>2. ~cleanup.enabled => s.cleanup = << >>
      BY DEF Agree, Wanted
    <2> QED
      BY <2>1, <2>2, CleanupStarted, OneTask
  <1> HIDE DEF m, c
  <1>3. CASE MonthlyStartThrows(monthly)
    <2>1. t = [s EXCEPT !.monthly = m]
      BY <1>3 DEF StartScheduler, m
    <2>2. t = [running |-> FALSE, monthly |-> m, cleanup |-> s.cleanup]
      BY <2>1 DEF Agree, Scheduled
    <2> QED
      BY <1>1, <2>2 DEF Agree, Scheduled, Wanted, Running
  <1>4. CASE ~MonthlyStartThrows(monthly)
    <2>1. t = [running |-> ~CleanupStartThrows(cleanup), monthly |-> m, cleanup |-> c]
      BY <1>4 DEF StartScheduler, m, c
    <2> HIDE DEF t
    <2>2. /\ t.running = ~CleanupStartThrows(cleanup) /\ t.monthly = m /\ t.cleanup = c
          /\ t = [running |-> t.running, monthly |-> t.monthly, cleanup |-> t.cleanup]
      BY <2>1
    <2>3. Scheduled(t)
      BY <1>1, <1>2, <2>2 DEF Scheduled, CleanupStartThrows
    <2>4. Wanted(t, monthly, cleanup) /\ Running(t, monthly, cleanup)
      BY <1>1, <1>2, <2>2 DEF Wanted, Running, CleanupStartThrows
    <2> QED
      BY <2>3, <2>4 DEF Agree, t
  <1> QED
    BY <1>3, <1>4

TasksInv ==
    /\ env \in [monthly : JobConfig, retention : RetentionConfig]
    /\ jobConfig \in JobConfig
    /\ retention \in RetentionConfig
    /\ Agree(scheduler, jobConfig, retention)

LEMMA TasksInvStep == TasksInv /\ [SchedulerNext]_schedulerVars => TasksInv'
  <1> SUFFICES ASSUME TasksInv, [SchedulerNext]_schedulerVars PROVE TasksInv'
    OBVIOUS
  <1> USE DEF TasksInv
  <1>1. CASE GatewayStarts
    <2>1. env.monthly \in JobConfig /\ env.retention \in RetentionConfig
      OBVIOUS
    <2>2. Agree(StartScheduler(NoTasks, env.monthly, env.retention), env.monthly, env.retention)
      BY <2>1, NoTasksAgree, StartAgrees
    <2> QED
      BY <1>1, <2>1, <2>2 DEF GatewayStarts
  <1>2. CASE GatewayExits
    BY <1>2, NoTasksAgree DEF GatewayExits
  <1>3. CASE SchedulerRestartRoute
    <2>1. Agree(RestartScheduler(scheduler, jobConfig, retention), jobConfig, retention)
      BY StopAgrees, StartAgrees DEF RestartScheduler
    <2> QED
      BY <1>3, <2>1 DEF SchedulerRestartRoute
  <1>4. ASSUME NEW config \in JobConfig, MonthlyRestartRoute(config) PROVE TasksInv'
    <2> DEFINE m == StartMonthlyResetJob(StopMonthlyResetJob(scheduler.monthly), config)
    <2>1. StopMonthlyResetJob(scheduler.monthly) = << >>
      BY StopHeldLeavesNone DEF Agree, Scheduled, StopMonthlyResetJob
    <2>2. config.cron \in Expressions
      BY DEF JobConfig
    <2>3. /\ m \in Tasks(Expressions)
          /\ m # << >> <=> config.enabled /\ config.cron \in Accepted
          /\ m # << >> => m[1] = config.cron
      <3>1. m = StartMonthlyResetJob(<< >>, config) /\ << >> \in Tasks(Expressions)
        BY <2>1, NoTask
      <3>2. StartMonthlyResetJob(<< >>, config) \in Tasks(Expressions)
        BY <3>1, MonthlyStarted
      <3>3. StartMonthlyResetJob(<< >>, config) =
               IF config.enabled /\ config.cron \in Accepted THEN <<config.cron>> ELSE << >>
        BY <3>1, MonthlyStarted
      <3> QED
        BY <2>2, <3>1, <3>2, <3>3, OneTask
    <2>4. scheduler' = [scheduler EXCEPT !.monthly = m]
      BY <1>4 DEF MonthlyRestartRoute
    <2> HIDE DEF m
    <2>5. scheduler' = [running |-> scheduler.running, monthly |-> m, cleanup |-> scheduler.cleanup]
      BY <2>4 DEF Agree, Scheduled
    <2>6. jobConfig' = config /\ UNCHANGED <<env, retention>>
      BY <1>4 DEF MonthlyRestartRoute
    <2> QED
      BY <2>3, <2>5, <2>6 DEF Agree, Scheduled, Wanted, Running
  <1>5. ASSUME NEW config \in RetentionConfig, RetentionRoute(config) PROVE TasksInv'
    <2> DEFINE c == RestartAuditCleanupJob(scheduler.cleanup, config)
    <2>1. StopAuditCleanupJob(scheduler.cleanup) = << >>
      BY StopHeldLeavesNone DEF Agree, Scheduled, StopAuditCleanupJob
    <2>2. config.hour \in Hours /\ config.hour \in Accepted
      BY <1>5 DEF RetentionConfig, RetentionRoute, ValidRetention
    <2>3. /\ c \in Tasks(Hours)
          /\ c # << >> <=> config.enabled
          /\ c # << >> => c[1] = config.hour
      <3>1. c = StartAuditCleanupJob(<< >>, config) /\ << >> \in Tasks(Hours)
        BY <2>1, NoTask DEF RestartAuditCleanupJob
      <3>2. StartAuditCleanupJob(<< >>, config) \in Tasks(Hours)
        BY <3>1, CleanupStarted
      <3>3. StartAuditCleanupJob(<< >>, config) =
               IF config.enabled /\ config.hour \in Accepted THEN <<config.hour>> ELSE << >>
        BY <3>1, CleanupStarted
      <3> QED
        BY <2>2, <3>1, <3>2, <3>3, OneTask
    <2>4. scheduler' = [scheduler EXCEPT !.cleanup = c]
      BY <1>5 DEF RetentionRoute
    <2> HIDE DEF c
    <2>5. scheduler' = [running |-> scheduler.running, monthly |-> scheduler.monthly, cleanup |-> c]
      BY <2>4 DEF Agree, Scheduled
    <2>6. retention' = config /\ UNCHANGED <<env, jobConfig>>
      BY <1>5 DEF RetentionRoute
    <2> QED
      BY <2>3, <2>5, <2>6 DEF Agree, Scheduled, Wanted, Running
  <1>6. ASSUME NEW k \in Cleaners, ScheduledCleanup(k) \/ CleanupRoute(k) \/ DeleteOldRows(k) PROVE TasksInv'
    BY <1>6 DEF ScheduledCleanup, CleanupRoute, CleanupOldLogs, DeleteOldRows
  <1>7. ASSUME NEW r \in LogRows, WriteLogRow(r) PROVE TasksInv'
    BY <1>7 DEF WriteLogRow
  <1>8. CASE DayPasses
    BY <1>8 DEF DayPasses
  <1>9. CASE UNCHANGED schedulerVars
    BY <1>9 DEF schedulerVars
  <1> QED
    BY <1>1, <1>2, <1>3, <1>4, <1>5, <1>6, <1>7, <1>8, <1>9 DEF SchedulerNext

LEMMA TasksInvInit == SchedulerInit => TasksInv
  <1> SUFFICES ASSUME SchedulerInit PROVE TasksInv
    OBVIOUS
  <1>1. jobConfig \in JobConfig /\ retention \in RetentionConfig
    BY DEF SchedulerInit
  <1> QED
    BY <1>1, NoTasksAgree DEF SchedulerInit, TasksInv

LEMMA TasksInvMeans == TasksInv => OneTaskPerJob /\ TasksAsConfigured
  <1> SUFFICES ASSUME TasksInv PROVE OneTaskPerJob /\ TasksAsConfigured
    OBVIOUS
  <1> USE DEF TasksInv, Agree
  <1>1. OneTaskPerJob
    BY DEF Scheduled, Tasks, OneTaskPerJob
  <1>2. NoUnwantedTask
    BY DEF Wanted, NoUnwantedTask
  <1>3. RunningMeansScheduled
    BY <1>2 DEF Running, RunningMeansScheduled, NoUnwantedTask
  <1> QED
    BY <1>1, <1>2, <1>3 DEF TasksAsConfigured

\* Through every start, failed start, stop and restart, a job has at most one
\* live cron task.
THEOREM NoSecondTask == SchedulerSpec => []OneTaskPerJob
  BY TasksInvInit, TasksInvStep, TasksInvMeans, PTL DEF SchedulerSpec

\* Through every start, failed start, stop and restart, the live tasks are those
\* the present configuration asks for, and all of them while the flag is set.
THEOREM TasksFollowConfiguration == SchedulerSpec => []TasksAsConfigured
  BY TasksInvInit, TasksInvStep, TasksInvMeans, PTL DEF SchedulerSpec

-----------------------------------------------------------------------------
(***************************************************************************)
(* The cleanup.  Between the cutoff and the DELETE rows only get older, so *)
(* a row that is doomed stays past the retention the cutoff was taken for. *)
(* A process that is down has no DELETE under way, so that a start, which  *)
(* reads the environment again, overtakes none.                            *)
(***************************************************************************)

CleaningInv ==
    /\ rowAge \in [LogRows -> {Unwritten, Deleted} \cup Nat]
    /\ cleaning \in [Cleaners -> CleaningState]
    /\ gateway = "down" => \A k \in Cleaners : cleaning[k].pc = "idle"
    /\ \A k \in Cleaners :
          cleaning[k].pc = "delete" /\ ~cleaning[k].overtaken =>
              \A r \in cleaning[k].doomed : rowAge[r] = Deleted \/ (Written(r) /\ rowAge[r] > retention.days)

LEMMA DaysAreNat == TasksInv => retention.days \in Nat
  BY RetentionsAssumption DEF TasksInv, RetentionConfig

LEMMA CleaningInvStep == TasksInv /\ CleaningInv /\ [SchedulerNext]_schedulerVars => CleaningInv'
  <1> SUFFICES ASSUME TasksInv, CleaningInv, [SchedulerNext]_schedulerVars PROVE CleaningInv'
    OBVIOUS
  <1> USE DEF CleaningInv, Written
  <1>0. Unwritten = -1 /\ Deleted = -2 /\ retention.days \in Nat
    BY DaysAreNat DEF Unwritten, Deleted
  <1>1. CASE GatewayStarts
    BY <1>1 DEF GatewayStarts
  <1>2. CASE GatewayExits
    BY <1>2 DEF GatewayExits, Idle, CleaningState
  <1>3. CASE SchedulerRestartRoute
    BY <1>3 DEF SchedulerRestartRoute
  <1>4. ASSUME NEW config \in JobConfig, MonthlyRestartRoute(config) PROVE CleaningInv'
    BY <1>4 DEF MonthlyRestartRoute
  <1>5. ASSUME NEW config \in RetentionConfig, RetentionRoute(config) PROVE CleaningInv'
    <2>1. ASSUME NEW k \in Cleaners
          PROVE  /\ cleaning'[k] \in CleaningState
                 /\ cleaning'[k].pc = cleaning[k].pc
                 /\ cleaning'[k].pc = "delete" => cleaning'[k].overtaken
      BY <1>5 DEF RetentionRoute, CleaningState
    <2>2. cleaning' \in [Cleaners -> CleaningState]
      BY <1>5, <2>1 DEF RetentionRoute
    <2> QED
      BY <1>5, <2>1, <2>2 DEF RetentionRoute
  <1>6. ASSUME NEW k \in Cleaners, CleanupOldLogs(k) PROVE CleaningInv'
    <2>1. [pc |-> "delete", doomed |-> {r \in LogRows : BeforeCutoff(r)}, overtaken |-> FALSE] \in CleaningState
      BY DEF CleaningState
    <2> QED
      BY <1>6, <2>1 DEF CleanupOldLogs, BeforeCutoff
  <1>7. ASSUME NEW k \in Cleaners, DeleteOldRows(k) PROVE CleaningInv'
    <2>1. /\ cleaning' = [cleaning EXCEPT ![k] = Idle]
          /\ UNCHANGED <<gateway, retention>>
      BY <1>7 DEF DeleteOldRows
    <2>2. Idle \in CleaningState /\ Idle.pc = "idle"
      BY DEF Idle, CleaningState
    <2>3. /\ rowAge' \in [LogRows -> {Unwritten, Deleted} \cup Nat]
          /\ \A r \in LogRows : rowAge'[r] = Deleted \/ rowAge'[r] = rowAge[r]
      BY <1>7 DEF DeleteOldRows
    <2>4. \A j \in Cleaners : cleaning[j].doomed \subseteq LogRows
      BY DEF CleaningState
    <2> QED
      BY <2>1, <2>2, <2>3, <2>4
  <1>8. ASSUME NEW r \in LogRows, WriteLogRow(r) PROVE CleaningInv'
    <2>1. \A s \in LogRows : rowAge'[s] = IF s = r THEN 0 ELSE rowAge[s]
      BY <1>8 DEF WriteLogRow
    <2>2. rowAge' \in [LogRows -> {Unwritten, Deleted} \cup Nat]
      BY <1>8 DEF WriteLogRow
    <2>3. \A j \in Cleaners : cleaning[j].doomed \subseteq LogRows
      BY DEF CleaningState
    <2>4. rowAge[r] = Unwritten /\ UNCHANGED <<gateway, retention, cleaning>>
      BY <1>8 DEF WriteLogRow
    <2> QED
      BY <1>0, <2>1, <2>2, <2>3, <2>4
  <1>9. CASE DayPasses
    <2>1. \A s \in LogRows : \/ rowAge'[s] = rowAge[s]
                             \/ Written(s) /\ rowAge'[s] = rowAge[s] + 1
      BY <1>9 DEF DayPasses
    <2>2. \A s \in LogRows : Written(s) => rowAge[s] \in Nat
      OBVIOUS
    <2>3. rowAge' \in [LogRows -> {Unwritten, Deleted} \cup Nat]
      BY <1>9, <2>1, <2>2 DEF DayPasses
    <2>4. \A j \in Cleaners : cleaning[j].doomed \subseteq LogRows
      BY DEF CleaningState
    <2>5. UNCHANGED <<gateway, retention, cleaning>>
      BY <1>9 DEF DayPasses
    <2> QED
      BY <1>0, <2>1, <2>2, <2>3, <2>4, <2>5
  <1>10. CASE UNCHANGED schedulerVars
    BY <1>10 DEF schedulerVars
  <1> QED
    BY <1>1, <1>2, <1>3, <1>4, <1>5, <1>6, <1>7, <1>8, <1>9, <1>10
    DEF SchedulerNext, ScheduledCleanup, CleanupRoute

\* No cleanup deletes an audit row that the retention in force still keeps,
\* unless the retention was changed between its cutoff and its DELETE.
THEOREM OnlyExpiredDeleted == SchedulerSpec => DeletesOnlyExpired
  <1> DEFINE Expired ==
               \A r \in LogRows :
                  (Written(r) /\ rowAge'[r] = Deleted) =>
                     \/ rowAge[r] > retention.days
                     \/ \E k \in Cleaners : cleaning[k].overtaken /\ cleaning'[k] = Idle
  <1>1. SchedulerInit => TasksInv /\ CleaningInv
    BY TasksInvInit DEF SchedulerInit, CleaningInv, Idle, CleaningState, Unwritten
  <1>2. TasksInv /\ CleaningInv /\ [SchedulerNext]_schedulerVars => [Expired]_schedulerVars
    <2> SUFFICES ASSUME CleaningInv, SchedulerNext, NEW r \in LogRows, Written(r), rowAge'[r] = Deleted
                 PROVE  \/ rowAge[r] > retention.days
                        \/ \E k \in Cleaners : cleaning[k].overtaken /\ cleaning'[k] = Idle
      OBVIOUS
    <2>1. rowAge[r] \in Nat /\ rowAge[r] # Deleted
      BY DEF CleaningInv, Written
    <2>2. PICK k \in Cleaners : DeleteOldRows(k)
      BY <2>1 DEF SchedulerNext, GatewayStarts, GatewayExits, SchedulerRestartRoute, MonthlyRestartRoute,
         RetentionRoute, ScheduledCleanup, CleanupRoute, CleanupOldLogs, WriteLogRow, DayPasses,
         CleaningInv, Written, Unwritten, Deleted
    <2>3. r \in cleaning[k].doomed /\ cleaning[k].pc = "delete" /\ cleaning'[k] = Idle
      BY <2>1, <2>2 DEF DeleteOldRows, CleaningInv
    <2> QED
      BY <2>1, <2>3 DEF CleaningInv
  <1> QED
    BY <1>1, <1>2, TasksInvStep, CleaningInvStep, PTL DEF SchedulerSpec, DeletesOnlyExpired
===============================================================================
