--------------------------- MODULE MCGatewayParts ---------------------------
(***************************************************************************)
(* The parts of the gateway that share no state with one another, in one   *)
(* instance: a behaviour is one of one part, chosen at the start, with the *)
(* others at rest.  A property of a part holds in its behaviours as it     *)
(* would in the part alone, and trivially in those of the others.          *)
(***************************************************************************)
EXTENDS JobScheduler, Sessions, Scopes, ClientAccess, RateWindow, UsageMonitor,
        ClientRegistry, AuditTrail, WebhookSigning

VARIABLE part

Parts == {"scheduler", "sessions", "scopes", "access", "rate", "monitor", "registry", "audit", "signing"}

MCInit ==
    /\ part \in Parts
    /\ SchedulerInit /\ SessionInit /\ ScopesInit /\ AccessInit /\ RateInit
    /\ MonitorInit /\ RegistryInit /\ AuditInit /\ SigningInit
    \* Parts at rest start in one of their initial states.
    /\ part # "scheduler" => env = CHOOSE e \in [monthly : JobConfig, retention : RetentionConfig] : TRUE
    /\ part # "rate" => limit = MaxPlan

Rest(this) ==
    /\ part = this
    /\ UNCHANGED part
    /\ this # "scheduler" => UNCHANGED schedulerVars
    /\ this # "sessions" => UNCHANGED sessionVars
    /\ this # "scopes" => UNCHANGED scopeVars
    /\ this # "access" => UNCHANGED accessVars
    /\ this # "rate" => UNCHANGED rateVars
    /\ this # "monitor" => UNCHANGED monitorVars
    /\ this # "registry" => UNCHANGED registryVars
    /\ this # "audit" => UNCHANGED auditVars
    /\ this # "signing" => UNCHANGED signingVars

MCNext ==
    \/ Rest("scheduler") /\ SchedulerNext
    \/ Rest("sessions") /\ SessionNext
    \/ Rest("scopes") /\ ScopesNext
    \/ Rest("access") /\ AccessNext
    \/ Rest("rate") /\ RateNext
    \/ Rest("monitor") /\ MonitorNext
    \/ Rest("registry") /\ RegistryNext
    \/ Rest("audit") /\ AuditNext
    \/ Rest("signing") /\ SigningNext

allVars == <<part, schedulerVars, sessionVars, scopeVars, accessVars, rateVars, monitorVars,
             registryVars, auditVars, signingVars>>

MCSpec == MCInit /\ [][MCNext]_allVars

\* The type invariant of the part that moves.
PartsTypeOK ==
    /\ part \in Parts
    /\ part = "scheduler" => SchedulerTypeOK
    /\ part = "sessions" => SessionTypeOK
    /\ part = "scopes" => caller.role \in {"user", "client", "admin"}
    /\ part = "access" => AccessTypeOK
    /\ part = "rate" => RateTypeOK
    /\ part = "monitor" => MonitorTypeOK
    /\ part = "registry" => RegistryTypeOK
    /\ part = "audit" => AuditTypeOK
    /\ part = "signing" => SigningTypeOK
=============================================================================
