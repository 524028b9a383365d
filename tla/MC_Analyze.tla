----------------------------- MODULE MC_Analyze -----------------------------
(* Two concurrent analyses with two signal providers that may report the    *)
(* same failure, and one deployment provider.                               *)
EXTENDS AnalyzeIncident

CONSTANTS payment

Pay == [text |-> payment, upper |-> FALSE, padded |-> FALSE]

Signal(source, ts) ==
    [source |-> source, service |-> Pay, summary |-> 1, severity |-> 3,
     type |-> "log", ts |-> ts]

MCBatches == {<<Signal("datadog", 9)>>}

MCDeploymentBatches == {<<[startedAt |-> 7, status |-> "success"]>>}

MCQueries == {[services |-> <<Pay>>, since |-> Unset, until |-> Unset],
              [services |-> <<>>, since |-> 12, until |-> Unset]}

=============================================================================
