------------------------------ MODULE MC_Hints ------------------------------
(* A database, an API and another service over three group windows, and     *)
(* deployments on and around every boundary of the suspect window.          *)
EXTENDS HintedIncidents

CONSTANTS api, db

Name(text) == [text |-> text, upper |-> FALSE, padded |-> FALSE]

Signal(service, type, ts) ==
    [source |-> "datadog", service |-> Name(service), summary |-> type,
     severity |-> 3, type |-> type, ts |-> ts]

MCSignals ==
    {Signal(service, type, ts) :
        service \in {api, db}, type \in {"metric", "log"}, ts \in {5, 9, 13}}

MCDeployments ==
    {[startedAt |-> t, status |-> s] : t \in {1, 2, 4, 6}, s \in {"success", "failure"}}

MCQuery == [services |-> <<>>, since |-> 0, until |-> 16]

=============================================================================
