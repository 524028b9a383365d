------------------------ MODULE DeploymentConnectors ------------------------
(***************************************************************************)
(* The deployment connectors, src/internal/adapter/{github,gitlab,gerrit,  *)
(* jenkins,argocd,kubernetes}: what each may return for a query when every *)
(* request it makes is answered. They differ in what narrows their answer: *)
(* the service, the environment, both or neither.                          *)
(*                                                                         *)
(* None asks for a second page. ArgoCD and Kubernetes have only one, which *)
(* holds everything; the others send as much as fits on a page, and which  *)
(* records these are is up to them.                                        *)
(*                                                                         *)
(* Held[c] is the set of what the system behind c holds, one record for    *)
(* each deployment, change, build or replica set. Times are ticks; 0 is a  *)
(* time that is missing or cannot be parsed. A query is [service,          *)
(* environment, since, until], and since is never unset.                   *)
(***************************************************************************)
EXTENDS Integers, FiniteSets

CONSTANTS
    Held,       \* what the systems hold
    Pages,      \* what fits on a page of those that send pages
    Second,     \* ticks in a second
    NoName      \* the empty name

ASSUME TickAssumption == Second \in Nat \ {0}

\* The connectors, by what they call themselves.
Names == {"github", "gitlab", "gerrit", "jenkins", "argocd", "kubernetes"}

\* Those that send pages.
Paged == {"github", "gitlab", "gerrit", "jenkins"}

ASSUME HeldAssumption == \A c \in Names : IsFiniteSet(Held[c])
ASSUME PagesAssumption == Pages \in [Paged -> Nat \ {0}]

Deployment(source, id, service, environment, status, startedAt) ==
    [source |-> source, id |-> id, service |-> service,
     environment |-> environment, status |-> status, startedAt |-> startedAt]

\* Mutant: a deployment at the end of the window is dropped.
InWindowUntil(q, d) == q.since <= d.startedAt /\ d.startedAt < q.until

\* The filter that all connectors share.
InWindow(q, d) == q.since <= d.startedAt /\ d.startedAt <= q.until

IsAsked(wanted, name) == wanted = NoName \/ name = wanted

-----------------------------------------------------------------------------
(* From what a system holds to deployments.                                *)

\* GitHub tells no status, and the service is the task of the deployment.
MapGitHub(d) ==
    Deployment("github", d.id, d.task, d.environment, "unknown", d.createdAt)

GitLabStatus(status) ==
    CASE status = "success" -> "success"
      [] status = "failed"  -> "failure"
      [] status = "running" -> "in_progress"
      [] OTHER              -> "unknown"

MapGitLab(d) ==
    Deployment("gitlab", d.id, d.project, d.environment, GitLabStatus(d.status), d.createdAt)

\* A submitted change counts as a deployment of its project.
MapChange(ch) ==
    Deployment("gerrit", ch.id, ch.project, NoName, "success", ch.submitted)

JenkinsStatus(result) ==
    CASE result = "SUCCESS"                -> "success"
      [] result \in {"FAILURE", "ABORTED"} -> "failure"
      [] result = ""                       -> "in_progress"
      [] OTHER                             -> "unknown"

\* The time of a build is cut to the second it began in.
MapBuild(b) ==
    Deployment("jenkins", b.id, b.job, b.environment, JenkinsStatus(b.result),
               b.timestamp - (b.timestamp % Second))

MapOperation(op) ==
    Deployment("argocd", op.id, op.application, op.namespace, "success", op.deployedAt)

\* A replica set without the label stands for a service of its own name.
MapReplicaSet(rs) ==
    Deployment("kubernetes", rs.id, IF rs.app = NoName THEN rs.id ELSE rs.app,
               rs.namespace, "success", rs.createdAt)

-----------------------------------------------------------------------------
(* What FetchDeployments may return.                                       *)

\* What a request asks a system for; of GitLab, about one project.
GitHubMatches(q) ==
    {x \in Held["github"] : IsAsked(q.environment, x.environment)}

GitLabMatches(q, project) ==
    {x \in Held["gitlab"] : /\ x.project = project /\ x.status = "success"
                            /\ IsAsked(q.environment, x.environment)}

JenkinsMatches(q) == {x \in Held["jenkins"] : x.job = q.service}

\* The first page of them.
FirstPages(c, matches) ==
    IF Cardinality(matches) <= Pages[c] THEN {matches}
    ELSE {page \in SUBSET matches : Cardinality(page) = Pages[c]}

FetchGitHub(q) ==
    {{d \in {MapGitHub(x) : x \in page} : InWindow(q, d) /\ IsAsked(q.service, d.service)} :
        page \in FirstPages("github", GitHubMatches(q))}

Projects == {x.project : x \in Held["gitlab"]}

\* Only successful ones, of every project configured, whatever the service:
\* a request, and so a page, for each of them.
FetchGitLab(q) ==
    {{d \in {MapGitLab(x) : x \in pages} : InWindow(q, d)} :
        pages \in {some \in SUBSET Held["gitlab"] :
            \A project \in Projects :
                {x \in some : x.project = project}
                    \in FirstPages("gitlab", GitLabMatches(q, project))}}

\* Whatever the service and the environment.
FetchGerrit(q) ==
    {{d \in {MapChange(x) : x \in page} : d.startedAt # 0 /\ InWindow(q, d)} :
        page \in FirstPages("gerrit", Held["gerrit"])}

\* The job of that name, in every environment; nothing without a service.
FetchJenkins(q) ==
    {{d \in {MapBuild(x) : x \in page} : q.service # NoName /\ InWindow(q, d)} :
        page \in FirstPages("jenkins", JenkinsMatches(q))}

FetchArgoCD(q) ==
    {{d \in {MapOperation(x) : x \in {y \in Held["argocd"] :
                 /\ IsAsked(q.service, y.application)
                 /\ IsAsked(q.environment, y.namespace)
                 /\ y.deployedAt # 0}} :
         InWindow(q, d)}}

\* The label selector knows no service of a replica set without the label.
FetchKubernetes(q) ==
    {{d \in {MapReplicaSet(x) : x \in {y \in Held["kubernetes"] :
                 IsAsked(q.service, y.app) /\ y.replicas # 0}} :
         InWindow(q, d)}}

\* The answers of a connector, of which one is given.
FetchDeployments(c, q) ==
    CASE c = "github"     -> FetchGitHub(q)
      [] c = "gitlab"     -> FetchGitLab(q)
      [] c = "gerrit"     -> FetchGerrit(q)
      [] c = "jenkins"    -> FetchJenkins(q)
      [] c = "argocd"     -> FetchArgoCD(q)
      [] c = "kubernetes" -> FetchKubernetes(q)

=============================================================================
