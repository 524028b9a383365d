----------------------- MODULE IncidentRepositoryPort -----------------------
(***************************************************************************)
(* The vocabulary of the outbound port that the use cases and the storage  *)
(* adapter share: what a caller may ask of an incident repository.         *)
(*                                                                         *)
(* A fingerprint is a hash that already includes the service label of the  *)
(* analysis, so it determines the service of the incident (ServiceOf).     *)
(* Analyses stands for everything in an analysis that the fingerprint does *)
(* not determine: time range, confidence, severities, deployments.         *)
(***************************************************************************)
EXTENDS Naturals

CONSTANTS
    Callers,        \* goroutines that call the repository
    Fingerprints,   \* results of ComputeFingerprint
    Services,       \* service labels
    ServiceOf,      \* the service label each fingerprint was computed from
    Analyses        \* what else distinguishes two analyses

ASSUME ServiceOfType == ServiceOf \in [Fingerprints -> Services]

SaveRequests ==
    [op : {"Save"}, fingerprint : Fingerprints, analysis : Analyses]

FindRequests == [op : {"FindByFingerprint"}, fingerprint : Fingerprints]

ListRequests ==
    [op : {"ListByService"}, service : Services] \cup [op : {"ListAll"}]

ReadRequests == FindRequests \cup ListRequests

Requests == SaveRequests \cup ReadRequests

\* A caller that is not inside a repository method.
NoRequest == [op |-> "None"]

\* Does a read request q select an incident with fingerprint fp?
Selects(q, fp) ==
    \/ q.op = "FindByFingerprint" /\ q.fingerprint = fp
    \/ q.op = "ListByService" /\ q.service = ServiceOf[fp]
    \/ q.op = "ListAll"

\* The partial function f with key k bound to v, as a Go map assignment does.
Put(f, k, v) ==
    [x \in DOMAIN f \cup {k} |-> IF x = k THEN v ELSE f[x]]

=============================================================================
