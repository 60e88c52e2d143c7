---------------------------- MODULE UsageMonitor ----------------------------
(***************************************************************************)
(* Usage thresholds: src/shared/webhooks/usageWebhookMonitor.ts over       *)
(* usageNotificationService.  A request looks at the usage its client had  *)
(* when it was authenticated, asks usage_notifications whether the         *)
(* threshold has been notified in this billing cycle, enqueues the         *)
(* webhooks, and then marks the threshold: four statements, with other     *)
(* requests in between.  enqueue swallows its errors, so the threshold is  *)
(* marked also when its webhook was not enqueued.                          *)
(*                                                                         *)
(* One client.  No tier has a rate_limit_per_month, so the monitor's limit *)
(* is always the default, 1000; five stands for it in the runs.            *)
(***************************************************************************)
EXTENDS Integers, FiniteSets

CONSTANTS
    Monitors,       \* requests in the monitor at a time
    UsageLimit,     \* the default limit
    MaxUsage,       \* bound: calls counted in a cycle
    MaxDay,         \* bound: days after the first
    MaxFaults       \* bound: statements that throw, in enqueue too, and exits, together

ASSUME MonitorAssumption ==
    UsageLimit \in Nat \ {0} /\ {MaxUsage, MaxDay, MaxFaults} \subseteq Nat /\ IsFiniteSet(Monitors)

Thresholds == {"80", "100"}
Days == 0..MaxDay

VARIABLES
    usage,      \* api_calls_current_month
    cycle,      \* billing_cycle_start, a date
    today,
    marked,     \* usage_notifications: set of <<threshold, cycle>>
    told,       \* history: [Thresholds \X Days -> webhooks enqueued, for all the
                \*     configurations subscribed, less those of requests that then
                \*     ended without marking]
    suppressed, \* history: names first marked by a request whose enqueue had failed
    quotaTold,  \* history: cycles for which quota.exceeded was enqueued
    faults,
    monitor     \* [Monitors -> MonitorState]

monitorVars == <<usage, cycle, today, marked, told, suppressed, quotaTold, faults, monitor>>

NoMonitor == [pc |-> "idle"]
MonitorState ==
    {NoMonitor} \cup
    [pc : {"check", "send", "quota", "mark"}, usage : 0..MaxUsage, cycle : Days, threshold : Thresholds,
     enqueued : BOOLEAN]

\* The threshold a usage stands at: from 80 and below 100 percent, or from 100.
At(u, threshold) ==
    IF threshold = "80" THEN u * 100 >= 80 * UsageLimit /\ u < UsageLimit ELSE u >= UsageLimit

-----------------------------------------------------------------------------
MonitorInit ==
    /\ usage = 0
    /\ cycle = 0
    /\ today = 0
    /\ marked = {}
    /\ told = [n \in Thresholds \X Days |-> 0]
    /\ suppressed = {}
    /\ quotaTold = {}
    /\ faults = 0
    /\ monitor = [q \in Monitors |-> NoMonitor]

\* clientUsageTracker counts a call.
CountCall ==
    /\ usage < MaxUsage
    /\ usage' = usage + 1
    /\ UNCHANGED <<cycle, today, marked, told, suppressed, quotaTold, faults, monitor>>

\* resetMonthlyUsage: the cycle starts today, which may be the day it has
\* already started on.
ResetCycle ==
    /\ usage' = 0
    /\ cycle' = today
    /\ UNCHANGED <<today, marked, told, suppressed, quotaTold, faults, monitor>>

DayTurns ==
    /\ today < MaxDay
    /\ today' = today + 1
    /\ UNCHANGED <<usage, cycle, marked, told, suppressed, quotaTold, faults, monitor>>

Begin(q, u, c) ==
    /\ monitor[q] = NoMonitor
    /\ \E threshold \in Thresholds :
          /\ At(u, threshold)
          /\ monitor' = [monitor EXCEPT ![q] = [pc |-> "check", usage |-> u, cycle |-> c,
                                                threshold |-> threshold, enqueued |-> FALSE]]
    /\ UNCHANGED <<usage, cycle, today, marked, told, suppressed, quotaTold, faults>>

\* usageWebhookMonitor, with the row of the client as the request read it.
UsageWebhookMonitor(q) == Begin(q, usage, cycle)

\* checkClientUsageThresholds, given what its caller has read.
CheckClientUsageThresholds(q) == Begin(q, usage, cycle)

Notification(q) == <<monitor[q].threshold, monitor[q].cycle>>
Goto(q, pc) == monitor' = [monitor EXCEPT ![q].pc = pc]
End(q) == monitor' = [monitor EXCEPT ![q] = NoMonitor]

\* Mutant: nothing has ever been notified.
HasBeenNotifiedNever(q) == q \notin Monitors

HasBeenNotified(q) == Notification(q) \in marked

CheckNotified(q) ==
    /\ monitor[q].pc = "check"
    /\ IF HasBeenNotified(q) THEN End(q) ELSE Goto(q, "send")
    /\ UNCHANGED <<usage, cycle, today, marked, told, suppressed, quotaTold, faults>>

\* After the threshold's webhook, above the limit, comes the other.
AfterThreshold(q) == IF monitor[q].threshold = "100" /\ monitor[q].usage > UsageLimit THEN "quota" ELSE "mark"

\* Mutant: a threshold that stands at the limit exactly has no webhook.
SendThresholdOver(q) ==
    /\ monitor[q].pc = "send"
    /\ told' = IF monitor[q].usage = UsageLimit THEN told ELSE [told EXCEPT ![Notification(q)] = @ + 1]
    /\ monitor' = [monitor EXCEPT ![q].pc = AfterThreshold(q), ![q].enqueued = TRUE]
    /\ UNCHANGED <<usage, cycle, today, marked, suppressed, quotaTold, faults>>

\* enqueue returns alike whether it has enqueued for every configuration
\* subscribed, if there is any, or one of its statements has thrown, which
\* leaves the rest of them, or all, without the webhook.
Enqueue(complete) ==
    IF complete THEN UNCHANGED faults ELSE faults < MaxFaults /\ faults' = faults + 1

\* sendUsageThresholdWebhook.
SendUsageThreshold(q) ==
    /\ monitor[q].pc = "send"
    /\ \E complete \in BOOLEAN :
          /\ Enqueue(complete)
          /\ told' = IF complete THEN [told EXCEPT ![Notification(q)] = @ + 1] ELSE told
          /\ monitor' = [monitor EXCEPT ![q].pc = AfterThreshold(q), ![q].enqueued = complete]
    /\ UNCHANGED <<usage, cycle, today, marked, suppressed, quotaTold>>

\* sendQuotaExceededWebhook.
SendQuotaExceeded(q) ==
    /\ monitor[q].pc = "quota"
    /\ \E complete \in BOOLEAN :
          /\ Enqueue(complete)
          /\ quotaTold' = IF complete THEN quotaTold \cup {monitor[q].cycle} ELSE quotaTold
    /\ Goto(q, "mark")
    /\ UNCHANGED <<usage, cycle, today, marked, told, suppressed>>

\* markAsNotified: ON DUPLICATE KEY UPDATE.
MarkAsNotified(q) ==
    /\ monitor[q].pc = "mark"
    /\ marked' = marked \cup {Notification(q)}
    /\ suppressed' = IF monitor[q].enqueued THEN suppressed ELSE suppressed \cup ({Notification(q)} \ marked)
    /\ End(q)
    /\ UNCHANGED <<usage, cycle, today, told, quotaTold, faults>>

\* Has enqueued the webhook of n, and not yet marked n.
HasToMark(m, n) == m.pc \in {"quota", "mark"} /\ m.enqueued /\ <<m.threshold, m.cycle>> = n

Unmarked(set) ==
    told' = [n \in Thresholds \X Days |->
        told[n] - Cardinality({q \in set : HasToMark(monitor[q], n)})]

\* A statement throws: the monitor logs it and lets the request go on.
MonitorThrows(q) ==
    /\ monitor[q].pc \in {"check", "mark"}
    /\ faults < MaxFaults
    /\ faults' = faults + 1
    /\ Unmarked({q})
    /\ End(q)
    /\ UNCHANGED <<usage, cycle, today, marked, suppressed, quotaTold>>

MonitorExits ==
    /\ faults < MaxFaults
    /\ faults' = faults + 1
    /\ Unmarked({q \in Monitors : monitor[q] # NoMonitor})
    /\ monitor' = [q \in Monitors |-> NoMonitor]
    /\ UNCHANGED <<usage, cycle, today, marked, suppressed, quotaTold>>

MonitorNext ==
    \/ CountCall
    \/ ResetCycle
    \/ DayTurns
    \/ \E q \in Monitors : \/ UsageWebhookMonitor(q) \/ CheckClientUsageThresholds(q)
                           \/ CheckNotified(q) \/ SendUsageThreshold(q) \/ SendQuotaExceeded(q)
                           \/ MarkAsNotified(q) \/ MonitorThrows(q)
    \/ MonitorExits

MonitorSpec == MonitorInit /\ [][MonitorNext]_monitorVars

-----------------------------------------------------------------------------
\* Types.
MonitorTypeOK ==
    /\ usage \in 0..MaxUsage
    /\ {cycle, today} \subseteq Days
    /\ marked \subseteq Thresholds \X Days
    /\ told \in [Thresholds \X Days -> Nat]
    /\ suppressed \subseteq Thresholds \X Days
    /\ quotaTold \subseteq Days
    /\ faults \in 0..MaxFaults
    /\ monitor \in [Monitors -> MonitorState]

\* A threshold marked as notified keeps every later webhook of its cycle away.
\* Exits, throws in the monitor and requests that overlap never leave one
\* marked without its webhook enqueued: only a request whose own enqueue has
\* swallowed an error marks a threshold that was not told (suppressed).
MarkedMeansTold == \A n \in marked \ suppressed : told[n] > 0

\* The check and the mark are two statements: a threshold may be told more than
\* once in a cycle, but only by requests that overlap, or again after one that
\* told and could not mark.
RepeatsBounded == \A n \in Thresholds \X Days : told[n] <= Cardinality(Monitors)

\* usage.quota.exceeded, "Disparado cuando el cliente excede su cuota": a
\* request above the limit that ends because its threshold has been notified
\* finds that webhook enqueued for the cycle.
QuotaExceededTold ==
    \A q \in Monitors :
        (monitor[q].pc = "check" /\ monitor[q].usage > UsageLimit /\ HasBeenNotified(q))
            => monitor[q].cycle \in quotaTold
=============================================================================
