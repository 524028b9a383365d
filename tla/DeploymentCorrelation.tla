----------------------- MODULE DeploymentCorrelation ------------------------
(***************************************************************************)
(* analyzeincident.Service.correlateDeployments: what is asked of the      *)
(* deployment providers, and how their answers are sorted into recent,     *)
(* suspect and rollback candidates. A deployment is a record with at least *)
(* its startedAt and its status.                                           *)
(***************************************************************************)
EXTENDS SignalPipeline

CONSTANTS
    Lookback,       \* deploymentLookback, in ticks
    SuspectWindow   \* suspectWindow, in ticks

ASSUME LookbackAssumption == Lookback \in Nat /\ SuspectWindow \in Nat

\* The query sent to every deployment provider; the service filter is set for
\* a single-service analysis only.
DeploymentQuery(q) ==
    [since    |-> q.since - Lookback,
     until    |-> q.until,
     services |-> IF Len(q.services) = 1 THEN q.services ELSE <<>>]

NoContext == [recent |-> <<>>, suspect |-> <<>>, rollback |-> <<>>]

\* Mutant: the deployments after the first group are suspects too.
SuspectsAround(groups, all) ==
    IF groups = {} THEN <<>>
    ELSE LET first == Min({g.start : g \in groups})
         IN  Among(all, {d \in ToSet(all) : first - d.startedAt <= SuspectWindow})

\* Started at most SuspectWindow before the first group; none without groups.
Suspects(groups, all) ==
    IF groups = {} THEN <<>>
    ELSE LET first == Min({g.start : g \in groups})
         IN  Among(all, {d \in ToSet(all) : first - d.startedAt \in 0..SuspectWindow})

RollbackCandidates(groups, all) ==
    Among(Suspects(groups, all), {d \in ToSet(all) : d.status = "success"})

Correlate(groups, all) ==
    IF all = <<>> THEN NoContext
    ELSE [recent   |-> all,
          suspect  |-> Suspects(groups, all),
          rollback |-> RollbackCandidates(groups, all)]

=============================================================================
