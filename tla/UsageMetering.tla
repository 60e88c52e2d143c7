---------------------------- MODULE UsageMetering ----------------------------
(***************************************************************************)
(* Monthly metering of API calls: the counter api_calls_current_month of   *)
(* the clients table and the path of a request through                     *)
(* authenticateClientAPIKey, clientRateLimiter and clientUsageTracker      *)
(* (src/shared/middleware).                                                *)
(*                                                                         *)
(* The limit is checked on the row read at authentication; the increment   *)
(* is sent to the database without being awaited, so it may be executed    *)
(* any time later, or fail.  MonthlyReset adds the resets of the counter   *)
(* and composes the two.                                                   *)
(***************************************************************************)
EXTENDS Naturals, FiniteSets

CONSTANTS
    Clients,        \* clients, numbered in the order of created_at
    NoClient,       \* no client
    Requests,       \* requests in progress at once, of all gateway processes
    MonthlyLimit,   \* the tier's max_api_calls_per_month
    MaxCalls,       \* bound: requests authenticated in a behaviour
    StatementsFail  \* a statement may fail, or its process exit

ASSUME ClientsAssumption == Clients \subseteq Nat /\ IsFiniteSet(Clients)
ASSUME NoClientAssumption == NoClient \notin Clients
ASSUME RequestsAssumption == IsFiniteSet(Requests)
ASSUME LimitAssumption == MonthlyLimit \in Nat \ {0}
ASSUME MaxCallsAssumption == MaxCalls \in Nat
ASSUME StatementsFailAssumption == StatementsFail \in BOOLEAN

VARIABLES
    \* --- the clients table
    usage,      \* [Clients -> api_calls_current_month]
    active,     \* [Clients -> is_active]
    \* --- requests
    stage,      \* [Requests -> StageState]
    caller,     \* [Requests -> req.client]
    snapshot,   \* [Requests -> req.client.api_calls_current_month]
    \* --- history
    calls,      \* requests authenticated
    served,     \* [Clients -> calls let through by the tracker]
    lost,       \* [Clients -> increments that were not executed]
    wiped       \* [Clients -> counted calls forgotten by resets]

requestVars == <<stage, caller, snapshot>>

\* "counting": served, with the increment on its way.
StageState == {"idle", "open", "counting"}

MeterInit ==
    /\ usage = [c \in Clients |-> 0]
    /\ active = [c \in Clients |-> TRUE]
    /\ stage = [r \in Requests |-> "idle"]
    /\ caller = [r \in Requests |-> NoClient]
    /\ snapshot = [r \in Requests |-> 0]
    /\ calls = 0
    /\ served = [c \in Clients |-> 0]
    /\ lost = [c \in Clients |-> 0]
    /\ wiped = [c \in Clients |-> 0]

\* authenticateClientAPIKey: getClientWithTier reads the row once.
Authenticate(r, c) ==
    /\ stage[r] = "idle"
    /\ active[c]
    /\ calls < MaxCalls
    /\ stage' = [stage EXCEPT ![r] = "open"]
    /\ caller' = [caller EXCEPT ![r] = c]
    /\ snapshot' = [snapshot EXCEPT ![r] = usage[c]]
    /\ calls' = calls + 1
    /\ UNCHANGED <<usage, active, served, lost, wiped>>

Forget(r) ==
    /\ stage' = [stage EXCEPT ![r] = "idle"]
    /\ caller' = [caller EXCEPT ![r] = NoClient]
    /\ snapshot' = [snapshot EXCEPT ![r] = 0]

\* clientRateLimiter refuses, or the process exits.
TurnAway(r) ==
    /\ stage[r] = "open"
    /\ Forget(r)
    /\ UNCHANGED <<usage, active, calls, served, lost, wiped>>

\* clientUsageTracker: the snapshot has reached the limit.
Refuse(r) ==
    /\ stage[r] = "open"
    /\ snapshot[r] >= MonthlyLimit
    /\ Forget(r)
    /\ UNCHANGED <<usage, active, calls, served, lost, wiped>>

\* Mutant: the limit is off by one.
ServeOneMore(r) ==
    /\ stage[r] = "open"
    /\ snapshot[r] <= MonthlyLimit
    /\ stage' = [stage EXCEPT ![r] = "counting"]
    /\ served' = [served EXCEPT ![caller[r]] = @ + 1]
    /\ UNCHANGED <<usage, active, caller, snapshot, calls, lost, wiped>>

\* clientUsageTracker: the call goes on while the increment is sent.
Serve(r) ==
    /\ stage[r] = "open"
    /\ snapshot[r] < MonthlyLimit
    /\ stage' = [stage EXCEPT ![r] = "counting"]
    /\ served' = [served EXCEPT ![caller[r]] = @ + 1]
    /\ UNCHANGED <<usage, active, caller, snapshot, calls, lost, wiped>>

\* Mutant: the new value is computed from the one read at authentication.
CountFromSnapshot(r) ==
    /\ stage[r] = "counting"
    /\ usage' = [usage EXCEPT ![caller[r]] = snapshot[r] + 1]
    /\ Forget(r)
    /\ UNCHANGED <<active, calls, served, lost, wiped>>

\* incrementMonthlyUsage's UPDATE, relative to the row as it then is.
Count(r) ==
    /\ stage[r] = "counting"
    /\ usage' = [usage EXCEPT ![caller[r]] = @ + 1]
    /\ Forget(r)
    /\ UNCHANGED <<active, calls, served, lost, wiped>>

\* The UPDATE fails: the tracker's catch only logs it.
CountFails(r) ==
    /\ StatementsFail
    /\ stage[r] = "counting"
    /\ lost' = [lost EXCEPT ![caller[r]] = @ + 1]
    /\ Forget(r)
    /\ UNCHANGED <<usage, active, calls, served, wiped>>

RequestStep(r) == Refuse(r) \/ Serve(r) \/ Count(r) \/ CountFails(r)

MeterNext ==
    \E r \in Requests :
        \/ \E c \in Clients : Authenticate(r, c)
        \/ TurnAway(r)
        \/ RequestStep(r)

-----------------------------------------------------------------------------
(***************************************************************************)
(* Properties.                                                             *)
(***************************************************************************)

MeterTypeOK ==
    /\ usage \in [Clients -> Nat]
    /\ active \in [Clients -> BOOLEAN]
    /\ stage \in [Requests -> StageState]
    /\ caller \in [Requests -> Clients \cup {NoClient}]
    /\ snapshot \in [Requests -> Nat]
    /\ calls \in Nat
    /\ served \in [Clients -> Nat]
    /\ lost \in [Clients -> Nat]
    /\ wiped \in [Clients -> Nat]

Counting(c) == {r \in Requests : caller[r] = c /\ stage[r] = "counting"}

\* Requests of a client that are served, or will be unless turned away.
Admitted(c) ==
    {r \in Requests :
        /\ caller[r] = c
        /\ \/ stage[r] = "counting"
           \/ stage[r] = "open" /\ snapshot[r] < MonthlyLimit}

\* Every call the tracker let through is counted, on its way, lost to a failed
\* statement or forgotten by a reset: concurrent increments and resets lose
\* nothing else.
UsageAccounts ==
    \A c \in Clients :
        usage[c] + Cardinality(Counting(c)) + lost[c] + wiped[c] = served[c]

\* The check on an old snapshot lets a client pass its monthly limit by at most
\* the number of requests in progress at once, less one.
OvershootBounded ==
    \A c \in Clients :
        usage[c] + Cardinality(Admitted(c)) < MonthlyLimit + Cardinality(Requests)
=============================================================================
