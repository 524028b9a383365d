-------------------------- MODULE MC_ReadUseCases ---------------------------
(***************************************************************************)
(* The use cases that only read, on one instance. A behaviour is a request *)
(* to one of them: about the history, with three failure patterns of one   *)
(* service, one of them an analysis without signals (so without groups),   *)
(* and one of another service; or about the dependencies, with two         *)
(* providers over three services, each of which returns up to three edges, *)
(* so that cycles of every length, with tails, come up.                    *)
(***************************************************************************)
EXTENDS IncidentQueries, ServiceDependencies

CONSTANTS f1, f2, f3, g1, api, db, web

ServicesOfPatterns == [fp \in {f1, f2, f3, g1} |-> IF fp = g1 THEN db ELSE api]

SeverityChoices ==
    [fp \in {f1, f2, f3, g1} |->
        CASE fp = f1 -> {<<1>>, <<3, 1>>}
          [] fp = f2 -> {<<1>>, <<3>>}
          [] fp = f3 -> {<<>>}
          [] fp = g1 -> {<<2>>}]

SmallGraphs == UNION {kSubset(k, Edges) : k \in 0..3}

-----------------------------------------------------------------------------

ReadInit == Init /\ DependenciesInit

ReadNext ==
    \/ Next /\ stage = "start" /\ UNCHANGED dependencies
    \/ DependenciesNext /\ Init /\ UNCHANGED vars

ReadSpec ==
    /\ ReadInit /\ [][ReadNext]_<<vars, dependencies>>
    /\ WF_dependencies(Search)

=============================================================================
