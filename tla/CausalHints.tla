---------------------------- MODULE CausalHints -----------------------------
(***************************************************************************)
(* src/internal/usecase/analyzecausalhints/service.go: three rules over    *)
(* the analysis of an incident, [report, deployments] as analyzeincident   *)
(* builds it. A hint is a record with its rule and what it blames; its     *)
(* confidence is a constant of the rule.                                   *)
(***************************************************************************)
EXTENDS DeploymentCorrelation

CONSTANTS
    DatabaseTexts,  \* the service names isDBGroup recognises
    APITexts        \* the service names isAPIGroup recognises

\* Mutant: the last group instead of the first.
Latest(groups) == CHOOSE g \in groups : \A h \in groups : h.start <= g.start

Earliest(groups) == CHOOSE g \in groups : \A h \in groups : g.start <= h.start

\* Mutant: a deployment at the start of the first group is blamed.
DeploymentTriggeredAtStart(a) ==
    LET groups == a.report.groups
        suspect == a.deployments.suspect
        earlier == Among(suspect,
                         {d \in ToSet(suspect) : d.startedAt <= Earliest(groups).start})
    IN  IF groups = {} \/ earlier = <<>> THEN {}
        ELSE {[rule |-> "deployment_triggered", blames |-> Head(earlier)]}

\* The first suspect that started before the first group.
DeploymentTriggered(a) ==
    LET groups == a.report.groups
        suspect == a.deployments.suspect
        earlier == Among(suspect,
                         {d \in ToSet(suspect) : d.startedAt < Earliest(groups).start})
    IN  IF groups = {} \/ earlier = <<>> THEN {}
        ELSE {[rule |-> "deployment_triggered", blames |-> Head(earlier)]}

IsDatabase(g) == \E name \in g.services : name.text \in DatabaseTexts

IsAPI(g) == \E name \in g.services : name.text \in APITexts

HasType(g, type) == \E e \in g.entries : e.signal.type = type

\* Mutant: a cause in the same window counts as earlier.
FirstPrecedesOrEqual(causes, effects) ==
    /\ causes # {} /\ effects # {}
    /\ Earliest(causes).start <= Earliest(effects).start

\* The first group of causes starts before the first group of effects.
FirstPrecedes(causes, effects) ==
    /\ causes # {} /\ effects # {}
    /\ Earliest(causes).start < Earliest(effects).start

\* databaseLatencyBeforeAPIFailure.
DatabaseLatency(a) ==
    LET databases == {g \in a.report.groups : IsDatabase(g)}
        apis == {g \in a.report.groups : IsAPI(g)}
    IN  IF FirstPrecedes(databases, apis)
        THEN {[rule |-> "database_latency_before_api_failure",
               blames |-> Earliest(databases).services]}
        ELSE {}

\* infraDegradationBeforeServiceInstability; the labels of the groups, not
\* the services of their signals, must differ.
InfraDegradation(a) ==
    LET metric == {g \in a.report.groups : HasType(g, "metric")}
        log == {g \in a.report.groups : HasType(g, "log")}
    IN  IF /\ FirstPrecedes(metric, log)
           /\ Earliest(metric).services # Earliest(log).services
        THEN {[rule |-> "infra_degradation_before_service_instability",
               blames |-> Earliest(metric).services]}
        ELSE {}

Hints(a) == DeploymentTriggered(a) \cup DatabaseLatency(a) \cup InfraDegradation(a)

=============================================================================
