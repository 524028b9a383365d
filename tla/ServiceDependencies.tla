------------------------ MODULE ServiceDependencies -------------------------
(***************************************************************************)
(* getservicedependencies: the edges of every provider in turn, and from   *)
(* them who calls the focal service, whom it calls, and its blast radius,  *)
(* found by a breadth-first search. An edge [source, target] says that     *)
(* source calls target; the edges form a set, as dedup makes them. The     *)
(* queue of the search is a set, from which any service may come next: the *)
(* order of the Go slice depends on the order of the edges, and the result *)
(* is shown not to.                                                        *)
(*                                                                         *)
(* The providers are external; the application is started with none. The   *)
(* names of the state differ from those of IncidentQueries, so that a      *)
(* module can extend both use cases.                                       *)
(***************************************************************************)
EXTENDS Integers, ServiceNames

CONSTANTS
    NumProviders,   \* how many providers there are
    Graphs          \* the sets of edges that a provider may return

Edges == [source : Services, target : Services]

ASSUME ProvidersAssumption == NumProviders \in Nat /\ Graphs \subseteq SUBSET Edges

VARIABLES
    stage,      \* "start", "fetch", "search", "done" or "failed"
    focal,      \* the focal service
    asked,      \* the providers asked so far
    edges,      \* their edges
    visited,    \* the search's visited
    queue       \* the search's queue

dependencies == <<stage, focal, asked, edges, visited, queue>>

DependenciesInit ==
    /\ stage = "start"
    /\ focal = None
    /\ asked = 0
    /\ edges = {} /\ visited = {} /\ queue = {}

Run(s) ==
    /\ stage = "start"
    /\ focal' = s
    /\ stage' = "fetch"
    /\ UNCHANGED <<asked, edges, visited, queue>>

FetchDependencies(graph) ==
    /\ stage = "fetch" /\ asked < NumProviders
    /\ asked' = asked + 1
    /\ edges' = edges \cup graph
    /\ UNCHANGED <<stage, focal, visited, queue>>

\* The first provider that fails fails the request.
FetchFails ==
    /\ stage = "fetch" /\ asked < NumProviders
    /\ stage' = "failed"
    /\ UNCHANGED <<focal, asked, edges, visited, queue>>

\* Mutant: the search starts without a focal service too.
BuildGraphAlways ==
    /\ stage = "fetch" /\ asked = NumProviders
    /\ queue' = {focal}
    /\ stage' = "search"
    /\ UNCHANGED <<focal, asked, edges, visited>>

\* Without a focal service the blast radius is empty.
BuildGraph ==
    /\ stage = "fetch" /\ asked = NumProviders
    /\ queue' = IF focal = None THEN {} ELSE {focal}
    /\ stage' = "search"
    /\ UNCHANGED <<focal, asked, edges, visited>>

\* Those that call s.
Callers(s) == {e.source : e \in {edge \in edges : edge.target = s}}

\* Mutant: a service that has been visited is queued again.
NewCallersAgain(s) == Callers(s)

\* Mutant: what s calls is affected rather than what calls s.
NewCallees(s) == {e.target : e \in {edge \in edges : edge.source = s}} \ visited

NewCallers(s) == Callers(s) \ visited

Visit(s) ==
    /\ stage = "search" /\ s \in queue
    /\ visited' = visited \cup NewCallers(s)
    /\ queue' = (queue \ {s}) \cup NewCallers(s)
    /\ UNCHANGED <<stage, focal, asked, edges>>

Return ==
    /\ stage = "search" /\ queue = {}
    /\ stage' = "done"
    /\ UNCHANGED <<focal, asked, edges, visited, queue>>

Search == BuildGraph \/ (\E s \in Services : Visit(s)) \/ Return

DependenciesNext ==
    \/ \E s \in Services \cup {None} : Run(s)
    \/ \E graph \in Graphs : FetchDependencies(graph)
    \/ FetchFails
    \/ Search

DependenciesSpec == DependenciesInit /\ [][DependenciesNext]_dependencies

\* A provider may take for ever; the search is a plain loop.
FairDependencies == DependenciesSpec /\ WF_dependencies(Search)

-----------------------------------------------------------------------------

TypeOK ==
    /\ stage \in {"start", "fetch", "search", "done", "failed"}
    /\ focal \in Services \cup {None}
    /\ asked \in 0..NumProviders
    /\ edges \subseteq Edges
    /\ visited \subseteq Services
    /\ queue \subseteq Services

\* A set of services holds all that transitively depend on the focal one.
CallerClosed(S) == \A e \in edges : e.target \in S \cup {focal} => e.source \in S

\* The blast radius is exactly the services that depend on the focal one,
\* directly or not: it holds all of them, and each set that does holds it. So
\* the direct upstreams are always in it, and the focal service itself is in
\* its own blast radius just when it is on a cycle
\* (getservicedependencies/service.go:68-69).
BlastRadiusIsExact ==
    stage = "done" =>
        IF focal = None THEN visited = {}
        ELSE /\ CallerClosed(visited)
             /\ \A S \in SUBSET Services : CallerClosed(S) => visited \subseteq S

\* The search ends, on cyclic graphs too: no service is queued for ever.
SearchEnds == stage = "search" ~> stage = "done"

=============================================================================
