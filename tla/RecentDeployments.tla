-------------------------- MODULE RecentDeployments -------------------------
(***************************************************************************)
(* getrecentdeployments.Service.Run, without the order of its steps: the   *)
(* query sent to the connectors, and what is shown of their answers. An    *)
(* input is [service, environment, limit].                                 *)
(***************************************************************************)
EXTENDS DeploymentConnectors

CONSTANTS
    Now,            \* the time of the requests
    Lookback,       \* defaultLookbackDuration
    DefaultLimit    \* defaultDeploymentLimit

ASSUME LookbackAssumption == Now \in Int /\ Lookback \in Int /\ Now - Lookback > 0
ASSUME LimitAssumption == DefaultLimit \in Nat

\* No handler sets Input.Since, so the window is the default one.
DeploymentQuery(input) ==
    [service |-> input.service, environment |-> input.environment,
     since |-> Now - Lookback, until |-> Now]

Limit(input) == IF input.limit <= 0 THEN DefaultLimit ELSE input.limit

\* Mutant: the oldest are shown.
OldestFew(all, limit) ==
    {shown \in SUBSET all :
        /\ Cardinality(shown) = (IF Cardinality(all) < limit THEN Cardinality(all) ELSE limit)
        /\ \A d \in shown, e \in all \ shown : d.startedAt <= e.startedAt}

\* The newest, up to the limit. sort.Slice orders equal times as it likes, so
\* it may choose among them.
NewestFew(all, limit) ==
    {shown \in SUBSET all :
        /\ Cardinality(shown) = (IF Cardinality(all) < limit THEN Cardinality(all) ELSE limit)
        /\ \A d \in shown, e \in all \ shown : d.startedAt >= e.startedAt}

=============================================================================
