-------------------------- MODULE HintedIncidents ---------------------------
(***************************************************************************)
(* Incidents as they unfold: signals and deployments come in, in any       *)
(* order, and an analysis of what is known so far is handed to             *)
(* analyzecausalhints. The sources of both are external.                   *)
(***************************************************************************)
EXTENDS CausalHints

CONSTANTS
    Signals,        \* the signals that may be observed
    Deployments,    \* the deployments that may be reported
    Query,          \* the query of the analyses
    MaxSignals, MaxDeployments  \* bounds on a behaviour

ASSUME SignalsAssumption == \A sig \in Signals : IsSignal(sig)
ASSUME DeploymentsAssumption == \A d \in Deployments : d.startedAt \in Int

VARIABLES
    observed,   \* the signals the provider returns
    deployed,   \* the deployments reported
    signals,    \* those of the observed signals the analysis accepts
    analysis,   \* the analysis
    hints       \* the hints drawn from it

vars == <<observed, deployed, signals, analysis, hints>>

Analysed(obs, deps) ==
    LET rep == Report(<<obs>>, Query)
    IN  [report |-> rep, deployments |-> Correlate(rep.groups, deps)]

\* The incident is analysed anew, and the analysis handed to the hints.
Analyse ==
    /\ signals' = Accepted(<<observed'>>, Query)
    /\ analysis' = Analysed(observed', deployed')
    /\ hints' = Hints(analysis')

Init ==
    /\ observed = <<>> /\ deployed = <<>> /\ signals = {}
    /\ analysis = Analysed(<<>>, <<>>)
    /\ hints = {}

Observe(sig) ==
    /\ Len(observed) < MaxSignals
    /\ observed' = Append(observed, sig)
    /\ UNCHANGED deployed
    /\ Analyse

Deploy(d) ==
    /\ Len(deployed) < MaxDeployments
    /\ deployed' = Append(deployed, d)
    /\ UNCHANGED observed
    /\ Analyse

Next == (\E sig \in Signals : Observe(sig)) \/ (\E d \in Deployments : Deploy(d))

Spec == Init /\ [][Next]_vars

Rules == {h.rule : h \in hints}

-----------------------------------------------------------------------------

\* A deployment that started after an accepted signal is never a suspect, and
\* one that started more than the suspect window and a group window before all
\* of them is not either (service.go 226-246).
SuspectsPrecedeTheIncident ==
    \A d \in ToSet(analysis.deployments.suspect) :
        /\ \A sig \in signals : d.startedAt <= sig.ts
        /\ \E sig \in signals : sig.ts < d.startedAt + SuspectWindow + Window

\* The deployment hint is given exactly when a reported deployment started
\* within the suspect window before, and not at, the start of the first group
\* (causal hints 44-63 over service.go 226-246), and it blames such a one.
DeploymentHintIsJustified ==
    LET Guilty(d) ==
            /\ signals # {}
            /\ LET start == Min({WindowStart(sig.ts) : sig \in signals})
               IN  d.startedAt < start /\ start <= d.startedAt + SuspectWindow
    IN  /\ "deployment_triggered" \in Rules
             <=> \E d \in ToSet(deployed) : Guilty(d)
        /\ \A h \in hints : h.rule = "deployment_triggered" => Guilty(h.blames)

Before(a, b) == WindowStart(a.ts) < WindowStart(b.ts)

\* A hint that one thing came before another has a witness of each among the
\* signals, in different windows.
HintsHaveWitnesses ==
    /\ "infra_degradation_before_service_instability" \in Rules =>
           \E m, l \in signals : m.type = "metric" /\ l.type = "log" /\ Before(m, l)
    /\ "database_latency_before_api_failure" \in Rules =>
           \E d, s \in signals :
               /\ d.service.text \in DatabaseTexts /\ s.service.text \in APITexts
               /\ Before(d, s)

\* Evidence from a window after all the others retracts no hint: what an
\* operator was told about the start of an incident stays true as it goes on.
LaterEvidenceRetractsNothing ==
    [][(/\ signals # {}
        /\ observed' # observed
        /\ \A sig \in signals : Before(sig, observed'[Len(observed')]))
         => hints \subseteq hints']_vars

\* analyzecausalhints/service.go 65-66: the database hint "fires when a metric
\* signal from a database-like service appears earlier than a log signal from
\* an API-like service".
DatabaseHintIsMetricBeforeLog ==
    "database_latency_before_api_failure" \in Rules =>
        \E d, s \in signals :
            /\ d.service.text \in DatabaseTexts /\ d.type = "metric"
            /\ s.service.text \in APITexts /\ s.type = "log"
            /\ d.ts < s.ts

\* analyzecausalhints/service.go 95-96: the infra hint "fires when a metric
\* signal precedes a log signal across different services".
InfraHintIsAcrossServices ==
    "infra_degradation_before_service_instability" \in Rules =>
        \E m, l \in signals :
            /\ m.type = "metric" /\ l.type = "log" /\ m.ts < l.ts
            /\ Canonical(m.service) # Canonical(l.service)

=============================================================================
