------------------------------ MODULE MC_Server ------------------------------
(* An instance of Server: two requests of any route, a window from 6 to 16, *)
(* at most two deployments shown, half of the connectors enabled at a time, *)
(* pages that are full for some of what is asked, and configurations that   *)
(* lack one thing each.                                                     *)
EXTENDS Server

CONSTANTS pay, cart, prod, dev

In(service, environment, limit) ==
    [service |-> service, environment |-> environment, limit |-> limit]

Ask(route, scrape) ==
    [route |-> route, tool |-> "none", input |-> "none", scrape |-> scrape]

Call(tool, input) ==
    [route |-> "mcp", tool |-> tool, input |-> input, scrape |-> FALSE]

MCAsks ==
    {Ask(route, FALSE) : route \in {"analyze", "trends", "unmatched"}}
        \cup {Ask(route, TRUE) : route \in {"metrics", "unmatched"}}
        \cup {Call("analyze_incident", "none")}
        \cup {Call("get_recent_deployments", input) :
                  input \in {In(pay, NoName, 0), In(pay, prod, 1), In(NoName, prod, 1)}}

Everywhere == {"github", "gitlab", "gerrit", "jenkins", "argocd", "kubernetes"}

Complete ==
    [datadog |-> TRUE, errorTracking |-> TRUE, elastic |-> TRUE, slack |-> TRUE,
     keys |-> TRUE, query |-> TRUE, track |-> TRUE, elasticURL |-> TRUE,
     channel |-> TRUE, mode |-> TRUE, deployments |-> {"github", "gitlab", "gerrit"}]

MCConfigs ==
    {Complete,
     [Complete EXCEPT !.deployments = Everywhere \ @, !.datadog = FALSE],
     [Complete EXCEPT !.keys = FALSE], [Complete EXCEPT !.keys = FALSE, !.datadog = FALSE],
     [Complete EXCEPT !.query = FALSE], [Complete EXCEPT !.track = FALSE],
     [Complete EXCEPT !.elasticURL = FALSE], [Complete EXCEPT !.channel = FALSE],
     [Complete EXCEPT !.mode = FALSE]}

MCPages == [github |-> 2, gitlab |-> 1, gerrit |-> 2, jenkins |-> 1]

\* Before, at, in and at the end of the window, after it, without a time; of
\* both services and environments; a replica set without a label or replicas.
MCHeld ==
    [github |->
        {[id |-> 1, task |-> pay, environment |-> prod, createdAt |-> 6],
         [id |-> 2, task |-> pay, environment |-> dev, createdAt |-> 16],
         [id |-> 3, task |-> cart, environment |-> prod, createdAt |-> 12]},
     gitlab |->
        {[id |-> 1, project |-> pay, environment |-> prod, status |-> "success", createdAt |-> 10],
         [id |-> 2, project |-> pay, environment |-> prod, status |-> "failed", createdAt |-> 11],
         [id |-> 3, project |-> cart, environment |-> prod, status |-> "success", createdAt |-> 16],
         [id |-> 4, project |-> pay, environment |-> dev, status |-> "success", createdAt |-> 14]},
     gerrit |->
        {[id |-> 1, project |-> pay, submitted |-> 10],
         [id |-> 2, project |-> cart, submitted |-> 0]},
     jenkins |->
        {[id |-> 1, job |-> pay, environment |-> prod, result |-> "", timestamp |-> 9],
         [id |-> 2, job |-> pay, environment |-> dev, result |-> "ABORTED", timestamp |-> 17]},
     argocd |->
        {[id |-> 1, application |-> pay, namespace |-> prod, deployedAt |-> 12],
         [id |-> 2, application |-> pay, namespace |-> dev, deployedAt |-> 0]},
     kubernetes |->
        {[id |-> 1, app |-> pay, namespace |-> prod, replicas |-> 2, createdAt |-> 5],
         [id |-> 2, app |-> pay, namespace |-> prod, replicas |-> 0, createdAt |-> 15],
         [id |-> pay, app |-> NoName, namespace |-> prod, replicas |-> 1, createdAt |-> 14],
         [id |-> 4, app |-> pay, namespace |-> dev, replicas |-> 1, createdAt |-> 14]}]

=============================================================================
