---------------------------- MODULE MonthlyReset ----------------------------
(***************************************************************************)
(* The monthly reset: src/shared/jobs/monthlyResetJob.ts over the clients  *)
(* table, composed with the metering of calls that goes on meanwhile.      *)
(*                                                                         *)
(* Every gateway process has its own cron task, its own configuration and  *)
(* its own lastExecution.  An execution lists one page of active clients   *)
(* and resets them one by one, with retries; nothing keeps two executions  *)
(* (of two processes, or one scheduled and one manual) from overlapping.   *)
(***************************************************************************)
EXTENDS UsageMetering

CONSTANTS
    Instances,        \* gateway processes
    PageLimit,        \* the most clients listClients returns (100)
    Retries,          \* values retryAttempts may have; 1 stands for all below 2
    FailureThreshold, \* minFailureThreshold of the notifications (1)
    MaxMonth,         \* bound: months in a behaviour
    MayCrash,         \* a process may exit
    MayDeactivate     \* clients are deactivated and reactivated

ASSUME PageLimitAssumption == PageLimit \in Nat \ {0}
ASSUME RetriesAssumption == Retries \subseteq Nat \ {0}
ASSUME FailureThresholdAssumption == FailureThreshold \in Nat
ASSUME MaxMonthAssumption == MaxMonth \in Nat
ASSUME SwitchesAssumption == {MayCrash, MayDeactivate} \subseteq BOOLEAN

VARIABLES
    month,      \* the calendar month
    cycle,      \* [Clients -> month of billing_cycle_start]
    \* --- one process each
    life,       \* [Instances -> {"down", "up"}]
    tick,       \* [Instances -> BOOLEAN], the cron task is due
    retries,    \* [Instances -> jobConfig.retryAttempts]
    last,       \* [Instances -> LastState], lastExecution
    alerted,    \* [Instances -> BOOLEAN], a notification of `last' was posted
    \* --- executions of executeMonthlyReset
    jpc,        \* [Jobs -> JobState]
    page,       \* [Jobs -> clients listed]
    todo,       \* [Jobs -> clients listed and not handled yet]
    attempt,    \* [Jobs -> attempt at the client being reset]
    failures,   \* [Jobs -> failureCount]
    began       \* [Jobs -> month of the listing]

processVars == <<life, tick, retries, last, alerted>>
jobVars == <<jpc, page, todo, attempt, failures, began>>
meterVars == <<usage, active, requestVars, calls, served, lost, wiped>>
vars == <<meterVars, month, cycle, processVars, jobVars>>

\* Executions started by cron and by the jobs route (bound: one of each at a
\* time in a process).
Jobs == Instances \X {"cron", "manual"}
JobState == {"idle", "list", "reset"}
LastState == {"none", "success", "failure"}

Init ==
    /\ MeterInit
    /\ month = 0
    /\ cycle = [c \in Clients |-> 0]
    /\ life = [i \in Instances |-> "up"]
    /\ tick = [i \in Instances |-> FALSE]
    /\ retries \in [Instances -> Retries]
    /\ last = [i \in Instances |-> "none"]
    /\ alerted = [i \in Instances |-> FALSE]
    /\ jpc = [j \in Jobs |-> "idle"]
    /\ page = [j \in Jobs |-> {}]
    /\ todo = [j \in Jobs |-> {}]
    /\ attempt = [j \in Jobs |-> 1]
    /\ failures = [j \in Jobs |-> 0]
    /\ began = [j \in Jobs |-> 0]

-----------------------------------------------------------------------------
(***************************************************************************)
(* Clients.                                                                *)
(***************************************************************************)

\* deactivateClient, and updateClient with is_active.
SetActive(c, value) ==
    /\ MayDeactivate
    /\ active' = [active EXCEPT ![c] = value]
    /\ UNCHANGED <<usage, requestVars, calls, served, lost, wiped>>
    /\ UNCHANGED <<month, cycle, processVars, jobVars>>

\* resetMonthlyUsage: one UPDATE of the counter and the cycle.
ResetUsage(c) ==
    /\ usage' = [usage EXCEPT ![c] = 0]
    /\ wiped' = [wiped EXCEPT ![c] = @ + usage[c]]
    /\ cycle' = [cycle EXCEPT ![c] = month]

\* The reset-usage route, for one client.
ResetRoute(c) ==
    /\ ResetUsage(c)
    /\ UNCHANGED <<active, requestVars, calls, served, lost>>
    /\ UNCHANGED <<month, processVars, jobVars>>

-----------------------------------------------------------------------------
(***************************************************************************)
(* Executions of the job.                                                  *)
(***************************************************************************)

\* Midnight of the first day: the tasks of the running processes that have the
\* job enabled fall due.
MonthTurns ==
    /\ month < MaxMonth
    /\ month' = month + 1
    /\ \E enabled \in SUBSET Instances :
          tick' = [i \in Instances |-> tick[i] \/ (life[i] = "up" /\ i \in enabled)]
    /\ UNCHANGED <<meterVars, cycle, life, retries, last, alerted, jobVars>>

StartJob(j) ==
    /\ jpc[j] = "idle"
    /\ jpc' = [jpc EXCEPT ![j] = "list"]
    /\ UNCHANGED <<page, todo, attempt, failures, began>>

StartScheduled(i) ==
    /\ tick[i]
    /\ tick' = [tick EXCEPT ![i] = FALSE]
    /\ StartJob(<<i, "cron">>)
    /\ UNCHANGED <<meterVars, month, cycle, life, retries, last, alerted>>

StartManual(i) ==
    /\ life[i] = "up"
    /\ StartJob(<<i, "manual">>)
    /\ UNCHANGED <<meterVars, month, cycle, processVars>>

\* restartMonthlyResetJob with a new retryAttempts, also while a job runs.
Reconfigure(i, n) ==
    /\ life[i] = "up"
    /\ retries' = [retries EXCEPT ![i] = n]
    /\ UNCHANGED <<meterVars, month, cycle, life, tick, last, alerted, jobVars>>

\* listClients caps the requested 1000: the PageLimit newest active clients.
ActivePage ==
    {c \in Clients :
        /\ active[c]
        /\ Cardinality({d \in Clients : active[d] /\ d > c}) < PageLimit}

ListClients(j) ==
    /\ jpc[j] = "list"
    /\ jpc' = [jpc EXCEPT ![j] = "reset"]
    /\ page' = [page EXCEPT ![j] = ActivePage]
    /\ todo' = [todo EXCEPT ![j] = ActivePage]
    /\ began' = [began EXCEPT ![j] = month]
    /\ UNCHANGED <<meterVars, month, cycle, processVars, attempt, failures>>

\* Executions of a set end; their local variables are gone.
EndJobs(over) ==
    /\ jpc' = [j \in Jobs |-> IF j \in over THEN "idle" ELSE jpc[j]]
    /\ page' = [j \in Jobs |-> IF j \in over THEN {} ELSE page[j]]
    /\ todo' = [j \in Jobs |-> IF j \in over THEN {} ELSE todo[j]]
    /\ attempt' = [j \in Jobs |-> IF j \in over THEN 1 ELSE attempt[j]]
    /\ failures' = [j \in Jobs |-> IF j \in over THEN 0 ELSE failures[j]]
    /\ began' = [j \in Jobs |-> IF j \in over THEN 0 ELSE began[j]]

\* lastExecution and sendWebhookNotification's decision to post.
Report(i, ok, failureCount) ==
    /\ last' = [last EXCEPT ![i] = IF ok THEN "success" ELSE "failure"]
    /\ alerted' = [alerted EXCEPT ![i] = ok \/ failureCount >= FailureThreshold]

\* The listing throws: failureCount is still 0, the error goes to `errors'.
ListFails(j) ==
    /\ StatementsFail
    /\ jpc[j] = "list"
    /\ EndJobs({j})
    /\ Report(j[1], FALSE, 0)
    /\ UNCHANGED <<meterVars, month, cycle, life, tick, retries>>

\* The client the loop is at: created_at DESC.
Current(j, c) ==
    /\ jpc[j] = "reset"
    /\ c \in todo[j]
    /\ \A d \in todo[j] : d <= c

NextClient(j, c) ==
    /\ todo' = [todo EXCEPT ![j] = @ \ {c}]
    /\ attempt' = [attempt EXCEPT ![j] = 1]

ResetClient(j, c) ==
    /\ Current(j, c)
    /\ ResetUsage(c)
    /\ NextClient(j, c)
    /\ UNCHANGED <<active, requestVars, calls, served, lost>>
    /\ UNCHANGED <<month, processVars, jpc, page, failures, began>>

\* The UPDATE throws, executed or not.
ResetThrows(j, c) ==
    /\ StatementsFail
    /\ Current(j, c)
    /\ ResetUsage(c) \/ UNCHANGED <<usage, wiped, cycle>>
    /\ UNCHANGED <<active, requestVars, calls, served, lost>>
    /\ UNCHANGED <<month, processVars, jpc, page, began>>

\* Sleep, then the same client again.
RetryClient(j, c) ==
    /\ attempt[j] < retries[j[1]]
    /\ attempt' = [attempt EXCEPT ![j] = @ + 1]
    /\ ResetThrows(j, c)
    /\ UNCHANGED <<todo, failures>>

\* Mutant: the client is skipped without being counted as a failure.
SkipClient(j, c) ==
    /\ attempt[j] >= retries[j[1]]
    /\ NextClient(j, c)
    /\ ResetThrows(j, c)
    /\ UNCHANGED failures

\* Mutant: the client starts over with its attempts.
StartClientOver(j, c) ==
    /\ attempt[j] >= retries[j[1]]
    /\ attempt' = [attempt EXCEPT ![j] = 1]
    /\ ResetThrows(j, c)
    /\ UNCHANGED <<todo, failures>>

GiveUpClient(j, c) ==
    /\ attempt[j] >= retries[j[1]]
    /\ failures' = [failures EXCEPT ![j] = @ + 1]
    /\ NextClient(j, c)
    /\ ResetThrows(j, c)

\* Mutant: one failure among successes is not a failure.
FinishJobOptimist(j) ==
    /\ jpc[j] = "reset"
    /\ todo[j] = {}
    /\ EndJobs({j})
    /\ Report(j[1], failures[j] < Cardinality(page[j]), failures[j])
    /\ UNCHANGED <<meterVars, month, cycle, life, tick, retries>>

FinishJob(j) ==
    /\ jpc[j] = "reset"
    /\ todo[j] = {}
    /\ EndJobs({j})
    /\ Report(j[1], failures[j] = 0, failures[j])
    /\ UNCHANGED <<meterVars, month, cycle, life, tick, retries>>

JobStep(j) ==
    \/ ListClients(j)
    \/ ListFails(j)
    \/ \E c \in Clients : ResetClient(j, c) \/ RetryClient(j, c) \/ GiveUpClient(j, c)
    \/ FinishJob(j)

-----------------------------------------------------------------------------
(***************************************************************************)
(* Processes.  The requests of a process that exits end by TurnAway and    *)
(* CountFails.                                                             *)
(***************************************************************************)

Exit(i) ==
    /\ MayCrash
    /\ life[i] = "up"
    /\ life' = [life EXCEPT ![i] = "down"]
    /\ tick' = [tick EXCEPT ![i] = FALSE]
    /\ last' = [last EXCEPT ![i] = "none"]
    /\ alerted' = [alerted EXCEPT ![i] = FALSE]
    /\ EndJobs({i} \X {"cron", "manual"})
    /\ UNCHANGED <<meterVars, month, cycle, retries>>

\* Mutant: retryAttempts has no default when the environment has none.
RestartUnconfigured(i) ==
    /\ life[i] = "down"
    /\ life' = [life EXCEPT ![i] = "up"]
    /\ retries' = [retries EXCEPT ![i] = 0]
    /\ UNCHANGED <<meterVars, month, cycle, tick, last, alerted, jobVars>>

\* The configuration is read from the environment again.
Restart(i) ==
    /\ life[i] = "down"
    /\ life' = [life EXCEPT ![i] = "up"]
    /\ \E n \in Retries : retries' = [retries EXCEPT ![i] = n]
    /\ UNCHANGED <<meterVars, month, cycle, tick, last, alerted, jobVars>>

-----------------------------------------------------------------------------
Meter == MeterNext /\ UNCHANGED <<month, cycle, processVars, jobVars>>

ClientRoutes ==
    \E c \in Clients : ResetRoute(c) \/ \E value \in BOOLEAN : SetActive(c, value)

Process(i) ==
    \/ StartScheduled(i)
    \/ StartManual(i)
    \/ \E n \in Retries : Reconfigure(i, n)
    \/ Exit(i)
    \/ Restart(i)

Next ==
    \/ Meter
    \/ ClientRoutes
    \/ MonthTurns
    \/ \E i \in Instances : Process(i)
    \/ \E j \in Jobs : JobStep(j)

Spec == Init /\ [][Next]_vars

\* Statements and sleeps of an execution end; executions, requests and the
\* calendar are not forced to begin.
Fairness == \A j \in Jobs : WF_vars(JobStep(j))

FairSpec == Spec /\ Fairness

-----------------------------------------------------------------------------
(***************************************************************************)
(* Properties.                                                             *)
(***************************************************************************)

\* The variables keep the types of the columns and fields they stand for, and
\* the failures of an execution are clients it has handled.
ResetTypeOK ==
    /\ MeterTypeOK
    /\ month \in Nat
    /\ cycle \in [Clients -> Nat]
    /\ life \in [Instances -> {"down", "up"}]
    /\ tick \in [Instances -> BOOLEAN]
    /\ retries \in [Instances -> Retries]
    /\ last \in [Instances -> LastState]
    /\ alerted \in [Instances -> BOOLEAN]
    /\ jpc \in [Jobs -> JobState]
    /\ page \in [Jobs -> SUBSET Clients]
    /\ todo \in [Jobs -> SUBSET Clients]
    /\ attempt \in [Jobs -> Nat]
    /\ failures \in [Jobs -> Nat]
    /\ began \in [Jobs -> Nat]

\* What an execution is about to report is true: as long as it counts no
\* failure, every client it listed and has passed was reset since the listing,
\* whatever retries, other executions and configuration changes did.
ProgressIsReal ==
    \A j \in Jobs :
        jpc[j] = "reset" /\ failures[j] = 0 =>
            \A c \in page[j] \ todo[j] : cycle[c] >= began[j]

\* A report of success leaves no listed client without its reset.
SuccessIsReal ==
    [][\A j \in Jobs :
        jpc[j] = "reset" /\ jpc'[j] = "idle" /\ last'[j[1]] = "success" =>
            \A c \in page[j] : cycle[c] >= began[j]]_vars

\* An execution ends: in a report of its process or with the process.
JobEnds == \A j \in Jobs : jpc[j] # "idle" ~> jpc[j] = "idle"

\* docs/CRON_JOBS.md promises the reset of all active clients: an execution
\* that reports success has reset every client that is active.  (Clients that
\* are neither activated nor deactivated meanwhile.)
AllActiveReset ==
    [][\A j \in Jobs :
        jpc[j] = "reset" /\ jpc'[j] = "idle" /\ last'[j[1]] = "success" =>
            \A c \in Clients : active[c] => cycle[c] >= began[j]]_vars

\* docs/CRON_JOBS.md promises notifications of success and failure: an
\* execution that failed has been notified.
FailureNotified == \A i \in Instances : last[i] = "failure" => alerted[i]
=============================================================================
