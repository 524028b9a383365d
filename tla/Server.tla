------------------------------- MODULE Server -------------------------------
(***************************************************************************)
(* The life of the process: configuration, startup checks, the HTTP server *)
(* with its middleware and handlers, and its shutdown by a signal. Each    *)
(* request runs on a goroutine of its own; a call of the MCP tool          *)
(* get_recent_deployments asks one connector after the other. The other    *)
(* use cases, which have modules of their own, are a single step here.     *)
(*                                                                         *)
(* A response is on its way to the client when the last middleware has     *)
(* returned; only then is its connection idle.                             *)
(***************************************************************************)
EXTENDS RecentDeployments, Sequences

CONSTANTS
    Configs,    \* what the environment may configure; see Valid
    Requests,   \* names of the requests that clients send
    Asks        \* what they ask: [route, tool, input, scrape]

VARIABLES
    config,     \* the configuration
    phase,      \* "boot", "serving", "draining" or "exited"
    exit,       \* how the process ended
    requests,   \* the state of each request
    logged,     \* the lines of LoggingMiddleware,
    counted,    \* the counters of MetricsMiddleware, by route and status,
    called      \* and those of the MCP tools, by tool and outcome

counters == <<logged, counted, called>>

vars == <<config, phase, exit, requests, logged, counted, called>>

-----------------------------------------------------------------------------
(* Configuration: which integrations are enabled, and what is set.         *)

\* Mutant: the keys are required for the monitors only.
ValidMonitorKeys(c) ==
    /\ c.slack => c.channel
    /\ c.datadog => c.keys
    /\ c.errorTracking => c.query /\ c.track
    /\ c.elastic => c.elasticURL
    /\ c.mode

\* LoadFromEnv. The query is given, or derived from the monitor tags.
Valid(c) ==
    /\ c.slack => c.channel
    /\ c.datadog \/ c.errorTracking => c.keys
    /\ c.errorTracking => c.query /\ c.track
    /\ c.elastic => c.elasticURL
    /\ c.mode

\* buildProviders.
SignalProviders ==
    (IF config.datadog THEN {"monitors", "events"} ELSE {})
        \cup (IF config.errorTracking THEN {"errors"} ELSE {})
        \cup (IF config.elastic THEN {"logs"} ELSE {})

\* buildDeploymentProviders, in this order.
IfEnabled(c) == IF c \in config.deployments THEN <<c>> ELSE <<>>

Connectors ==
    IfEnabled("github") \o IfEnabled("gitlab") \o IfEnabled("gerrit")
        \o IfEnabled("jenkins") \o IfEnabled("argocd") \o IfEnabled("kubernetes")

-----------------------------------------------------------------------------
(* Routes, outcomes and status codes.                                      *)

BodyRoutes == {"analyze", "hints", "mcp"}

\* What each handler may make of a request it has read: an invalid one is a
\* window that is no duration, a missing parameter or a limit that is none.
HandleAnalyze == {"ok", "invalid", "error"}
HandleFindSimilar == {"ok", "invalid", "error"}
HandleTrends == {"ok", "error"}
HandleDependencies == {"ok", "error"}
HandleCausalHints == {"ok", "error"}
HandleHealth == {"ok"}
HandleTool == {"ok", "error"}

Outcomes ==
    [analyze |-> HandleAnalyze, similar |-> HandleFindSimilar, trends |-> HandleTrends,
     dependencies |-> HandleDependencies, hints |-> HandleCausalHints,
     health |-> HandleHealth, metrics |-> {"ok"}, mcp |-> HandleTool,
     unmatched |-> {"missing", "method"}]

\* A scrape, a request whose path is /metrics, has a route unless its method is
\* not GET.
OutcomesOf(ask) ==
    IF ask.route = "unmatched" /\ ask.scrape THEN {"method"} ELSE Outcomes[ask.route]

\* A tool that fails tells so in a response with status 200.
StatusOf(route, outcome) ==
    IF route = "mcp" /\ outcome # "invalid" THEN 200
    ELSE CASE outcome = "ok" -> 200
           [] outcome = "invalid" -> 400
           [] outcome = "missing" -> 404
           [] outcome = "method" -> 405
           [] outcome = "error" -> 500

Statuses == {200, 400, 404, 405, 500}

NoRequest ==
    [step |-> "new",
     ask |-> [route |-> "health", tool |-> "none", input |-> "none", scrape |-> FALSE],
     status |-> 0, outcome |-> "none", panicked |-> FALSE,
     at |-> 1, served |-> {}, found |-> {}, shown |-> {}]

Routes == DOMAIN Outcomes

ASSUME RequestsAssumption == IsFiniteSet(Requests)

\* Only calls to /mcp name a tool, and no other route has the path /metrics.
ASSUME AskAssumption ==
    \A ask \in Asks :
        /\ DOMAIN ask = {"route", "tool", "input", "scrape"}
        /\ ask.route \in DOMAIN Outcomes
        /\ ask.route # "mcp" => ask.tool = "none"
        /\ ask.route = "mcp" => ask.tool # "none"
        /\ ask.tool = "get_recent_deployments" => ask.input.limit \in Int
        /\ ask.scrape \in BOOLEAN
        /\ ask.route = "metrics" => ask.scrape
        /\ ask.scrape => ask.route \in {"metrics", "unmatched"}

Tools == {ask.tool : ask \in {a \in Asks : a.route = "mcp"}}

Init ==
    /\ config \in Configs
    /\ phase = "boot" /\ exit = "none"
    /\ requests = [r \in Requests |-> NoRequest]
    /\ logged = [k \in Routes \X Statuses |-> 0]
    /\ counted = [k \in Routes \X Statuses |-> 0]
    /\ called = [k \in Tools \X {"ok", "error"} |-> 0]

-----------------------------------------------------------------------------
(* The process.                                                            *)

OpenSteps == {"reading", "handling", "handled", "counted"}

IsOpen(r) == requests[r].step \in OpenSteps

\* The process ends, and with it every request that is still open.
Exit(how) ==
    /\ phase' = "exited" /\ exit' = how
    /\ requests' = [r \in Requests |-> IF IsOpen(r)
                                       THEN [requests[r] EXCEPT !.step = "cut"]
                                       ELSE requests[r]]
    /\ UNCHANGED <<config, counters>>

\* main up to the server: a bad configuration is a panic; the startup checks
\* only write to the log.
Boot ==
    /\ phase = "boot"
    /\ IF Valid(config)
       THEN phase' = "serving" /\ UNCHANGED <<config, exit, requests, counters>>
       ELSE Exit("panic")

\* A signal before signal.NotifyContext, which comes after the checks.
KillInBoot == phase = "boot" /\ Exit("killed")

\* ListenAndServe fails, at once or later.
ListenFails == phase = "serving" /\ Exit("error")

\* The first signal. Later ones are ignored, and so is a listener that fails.
Signal ==
    /\ phase = "serving"
    /\ phase' = "draining"
    /\ UNCHANGED <<config, exit, requests, counters>>

\* Mutant: Shutdown does not wait.
DrainedAtOnce == phase = "draining" /\ Exit("ok")

\* Shutdown returns when no connection is active.
Drained ==
    /\ phase = "draining" /\ \A r \in Requests : ~IsOpen(r)
    /\ Exit("ok")

\* Mutant: the shutdown timeout is not armed.
NeverTimesOut == FALSE /\ Exit("error")

\* The shutdown timeout passes before that.
TimedOut ==
    /\ phase = "draining" /\ \E r \in Requests : IsOpen(r)
    /\ Exit("error")

-----------------------------------------------------------------------------
(* Requests.                                                               *)

Alive == phase \in {"serving", "draining"}

\* Mutant: the server listens while it checks its providers.
AcceptInBoot(r) ==
    /\ phase \in {"boot", "serving"} /\ requests[r].step = "new"
    /\ \E ask \in Asks :
           requests' = [requests EXCEPT ![r].ask = ask,
                            ![r].step = IF ask.route \in BodyRoutes THEN "reading" ELSE "handling"]
    /\ UNCHANGED <<config, phase, exit, counters>>

\* A request and its headers have arrived.
Accept(r) ==
    /\ phase = "serving" /\ requests[r].step = "new"
    /\ \E ask \in Asks :
           requests' = [requests EXCEPT ![r].ask = ask,
                            ![r].step = IF ask.route \in BodyRoutes THEN "reading" ELSE "handling"]
    /\ UNCHANGED <<config, phase, exit, counters>>

\* The body has arrived and makes sense. Nothing limits the time it takes.
ReadBody(r) ==
    /\ Alive /\ requests[r].step = "reading"
    /\ requests' = [requests EXCEPT ![r].step = "handling"]
    /\ UNCHANGED <<config, phase, exit, counters>>

Handled(request, outcome) ==
    [request EXCEPT !.step = "handled", !.outcome = outcome,
                    !.status = StatusOf(request.ask.route, outcome)]

\* The body is cut off, or malformed.
RejectBody(r) ==
    /\ Alive /\ requests[r].step = "reading"
    /\ requests' = [requests EXCEPT ![r] = Handled(@, "invalid")]
    /\ UNCHANGED <<config, phase, exit, counters>>

\* The outcome of a tool is counted before the response is written.
FinishTool(r, request, outcome) ==
    /\ requests' = [requests EXCEPT ![r] = Handled(request, outcome)]
    /\ called' = [called EXCEPT ![<<request.ask.tool, outcome>>] = @ + 1]
    /\ UNCHANGED <<config, phase, exit, logged, counted>>

AsksDeployments(r) == requests[r].ask.tool = "get_recent_deployments"

\* A use case with a module of its own has run.
Handle(r) ==
    /\ Alive /\ requests[r].step = "handling" /\ ~AsksDeployments(r)
    /\ \E outcome \in OutcomesOf(requests[r].ask) :
           IF requests[r].ask.route = "mcp"
           THEN FinishTool(r, requests[r], outcome)
           ELSE /\ requests' = [requests EXCEPT ![r] = Handled(@, outcome)]
                /\ UNCHANGED <<config, phase, exit, counters>>

\* getrecentdeployments.Service.Run: no service, no deployments;
RefuseDeployments(r) ==
    /\ Alive /\ requests[r].step = "handling" /\ AsksDeployments(r)
    /\ requests[r].ask.input.service = NoName
    /\ FinishTool(r, requests[r], "error")

Asking(r) ==
    /\ Alive /\ requests[r].step = "handling" /\ AsksDeployments(r)
    /\ requests[r].ask.input.service # NoName
    /\ requests[r].at <= Len(Connectors)

\* the next connector answers,
ConnectorAnswers(r) ==
    /\ Asking(r)
    /\ LET c == Connectors[requests[r].at]
           q == DeploymentQuery(requests[r].ask.input)
       IN  \E answer \in FetchDeployments(c, q) :
               requests' = [requests EXCEPT ![r].at = @ + 1, ![r].served = @ \cup {c},
                                            ![r].found = @ \cup answer]
    /\ UNCHANGED <<config, phase, exit, counters>>

\* Mutant: when one fails, all are asked again.
ConnectorStartsOver(r) ==
    /\ Asking(r)
    /\ requests' = [requests EXCEPT ![r].at = 1]
    /\ UNCHANGED <<config, phase, exit, counters>>

\* or it fails, in any of its requests, and is skipped;
ConnectorFails(r) ==
    /\ Asking(r)
    /\ requests' = [requests EXCEPT ![r].at = @ + 1]
    /\ UNCHANGED <<config, phase, exit, counters>>

\* and the newest are shown.
ShowDeployments(r) ==
    /\ Alive /\ requests[r].step = "handling" /\ AsksDeployments(r)
    /\ requests[r].ask.input.service # NoName
    /\ requests[r].at > Len(Connectors)
    /\ \E shown \in NewestFew(requests[r].found, Limit(requests[r].ask.input)) :
           FinishTool(r, [requests[r] EXCEPT !.shown = shown], "ok")

\* A handler panics on the goroutine of its request.
Panic(r) ==
    /\ Alive /\ requests[r].step = "handling" /\ requests[r].ask.route # "mcp"
    /\ requests' = [requests EXCEPT ![r].step = "handled", ![r].status = 500,
                                    ![r].panicked = TRUE]
    /\ UNCHANGED <<config, phase, exit, counters>>

\* A provider or a tool panics on a goroutine that nothing recovers.
Crash(r) ==
    /\ Alive /\ requests[r].step = "handling"
    /\ requests[r].ask.route \in {"analyze", "mcp"}
    /\ Exit("panic")

\* NewRouter, from the outermost inwards.
Middleware == [recovery |-> 1, logging |-> 2, metrics |-> 3]

\* Does this middleware run after the handler? A panic unwinds up to recovery.
Returns(request, middleware) ==
    request.panicked => Middleware[middleware] < Middleware["recovery"]

Key(r) == <<requests[r].ask.route, requests[r].status>>

\* Mutant: scrapes are told by their route, which one with POST has not.
CountByRoute(r) ==
    /\ Alive /\ requests[r].step = "handled"
    /\ requests' = [requests EXCEPT ![r].step = "counted"]
    /\ counted' = IF Returns(requests[r], "metrics") /\ requests[r].ask.route # "metrics"
                  THEN [counted EXCEPT ![Key(r)] = @ + 1] ELSE counted
    /\ UNCHANGED <<config, phase, exit, logged, called>>

\* MetricsMiddleware does not count scrapes, which it tells by their path.
Count(r) ==
    /\ Alive /\ requests[r].step = "handled"
    /\ requests' = [requests EXCEPT ![r].step = "counted"]
    /\ counted' = IF Returns(requests[r], "metrics") /\ ~requests[r].ask.scrape
                  THEN [counted EXCEPT ![Key(r)] = @ + 1] ELSE counted
    /\ UNCHANGED <<config, phase, exit, logged, called>>

\* LoggingMiddleware, and the end of the request.
Log(r) ==
    /\ Alive /\ requests[r].step = "counted"
    /\ requests' = [requests EXCEPT ![r].step = "done"]
    /\ logged' = IF Returns(requests[r], "logging")
                 THEN [logged EXCEPT ![Key(r)] = @ + 1] ELSE logged
    /\ UNCHANGED <<config, phase, exit, counted, called>>

Progress(r) ==
    \/ Handle(r) \/ RefuseDeployments(r)
    \/ ConnectorAnswers(r) \/ ConnectorFails(r) \/ ShowDeployments(r)
    \/ Count(r) \/ Log(r)

Next ==
    \/ Boot \/ KillInBoot \/ ListenFails
    \/ Signal \/ Drained \/ TimedOut
    \/ \E r \in Requests :
           \/ Accept(r) \/ ReadBody(r) \/ RejectBody(r)
           \/ Progress(r) \/ Panic(r) \/ Crash(r)

(***************************************************************************)
(* Every HTTP client of the adapters has a timeout, so handlers get on once*)
(* the body is read, and the timer of the shutdown fires. Nothing makes a  *)
(* client send its body.                                                   *)
(***************************************************************************)
Fairness ==
    /\ WF_vars(Drained) /\ WF_vars(TimedOut)
    /\ \A r \in Requests : WF_vars(Progress(r))

Spec == Init /\ [][Next]_vars /\ Fairness

-----------------------------------------------------------------------------
(* Properties.                                                             *)

Steps == OpenSteps \cup {"new", "done", "cut"}

\* The state of the process: how it ended is known when it has, and no request
\* is taken before the configuration was found valid.
TypeOK ==
    /\ config \in Configs
    /\ phase \in {"boot", "serving", "draining", "exited"}
    /\ exit \in {"none", "ok", "error", "panic", "killed"}
    /\ DOMAIN requests = Requests
    /\ \A r \in Requests :
           /\ requests[r].step \in Steps
           /\ requests[r].status \in Statuses \cup {0}
           /\ requests[r].panicked \in BOOLEAN
    /\ phase = "exited" <=> exit # "none"
    /\ phase = "boot" => \A r \in Requests : requests[r].step = "new"

\* app.Run and main: exit code 0 means that every request that was accepted is
\* finished, metrics and log line included. Whoever stops the process may take
\* the code for it; a request that is cut makes it another one.
CleanExitAnswersAll ==
    exit = "ok" => \A r \in Requests : requests[r].step \in {"new", "done"}

\* The requests that should have a log line, a count, and a count as a tool call.
Logged(k) ==
    {r \in Requests : requests[r].step = "done" /\ ~requests[r].panicked /\ Key(r) = k}

Counted(k) ==
    {r \in Requests : /\ requests[r].step \in {"counted", "done"} /\ Key(r) = k
                      /\ ~requests[r].panicked /\ ~requests[r].ask.scrape}

Called(k) ==
    {r \in Requests : requests[r].ask.tool = k[1] /\ requests[r].outcome = k[2]}

\* Log lines, HTTP counters and tool counters agree with each other, at every
\* moment and for every mix of requests: of the requests whose handler did not
\* panic, each that is finished has its one line and, unless it is a scrape,
\* with any method, its one count, under the status sent; each tool call is
\* counted under its outcome. (For the panics see PanicsAreLogged.)
RequestsAccounted ==
    /\ \A k \in DOMAIN logged : logged[k] = Cardinality(Logged(k))
    /\ exit \in {"none", "ok"} =>
           \A k \in DOMAIN counted : counted[k] = Cardinality(Counted(k))
    /\ \A k \in DOMAIN called : called[k] = Cardinality(Called(k))

\* router.go 17-18: recovery comes before logging "so panics are caught and
\* converted to 500 before the log line fires". So each request that is finished
\* has its line, one that panicked under the status 500.
PanicsAreLogged ==
    \A k \in DOMAIN logged :
        logged[k] = Cardinality({r \in Requests : requests[r].step = "done" /\ Key(r) = k})

\* A signal provider the process was started with has what it needs: keys for
\* Datadog, a query and a track for error tracking, a URL for Elasticsearch. The
\* checks of LoadFromEnv and the conditions of buildProviders agree.
ProvidersAreConfigured ==
    Alive =>
        /\ SignalProviders \cap {"monitors", "events", "errors"} # {} => config.keys
        /\ "errors" \in SignalProviders => config.query /\ config.track
        /\ "logs" \in SignalProviders => config.elasticURL

\* All that a connector could have returned as a deployment, by its own fields.
Everything(c) ==
    CASE c = "github"     -> {MapGitHub(x) : x \in Held[c]}
      [] c = "gitlab"     -> {MapGitLab(x) : x \in Held[c]}
      [] c = "gerrit"     -> {MapChange(x) : x \in Held[c]}
      [] c = "jenkins"    -> {MapBuild(x) : x \in Held[c]}
      [] c = "argocd"     -> {MapOperation(x) : x \in Held[c]}
      [] c = "kubernetes" -> {MapReplicaSet(x) : x \in {y \in Held[c] : y.app # NoName /\ y.replicas # 0}}

\* Does what the system behind c holds of the service fit on the page asked for?
FitsPage(c, q) ==
    CASE c = "github"  -> Cardinality(GitHubMatches(q)) <= Pages[c]
      [] c = "gitlab"  -> Cardinality(GitLabMatches(q, q.service)) <= Pages[c]
      [] c = "gerrit"  -> Cardinality(Held[c]) <= Pages[c]
      [] c = "jenkins" -> Cardinality(JenkinsMatches(q)) <= Pages[c]
      [] OTHER -> TRUE

\* get_recent_deployments: of the connectors that answered with all they have,
\* no deployment of the service, the environment and the window asked for is
\* left out in favour of an older one, whatever the other connectors return,
\* full pages of theirs included, and whichever fail. GitLab answers with
\* successful ones only.
NewestUnderLimit ==
    \A r \in Requests :
        LET request == requests[r]
            input == request.ask.input
            q == DeploymentQuery(input)
            IsDue(d) == /\ d.service = input.service
                        /\ IsAsked(input.environment, d.environment)
                        /\ q.since <= d.startedAt /\ d.startedAt <= q.until
                        /\ d.source = "gitlab" => d.status = "success"
        IN  AsksDeployments(r) /\ request.outcome = "ok" =>
                /\ Cardinality(request.shown) <= Limit(input)
                /\ \A c \in request.served : \A d \in Everything(c) :
                       FitsPage(c, q) /\ IsDue(d) /\ d \notin request.shown =>
                           /\ Cardinality(request.shown) = Limit(input)
                           /\ \A e \in request.shown : e.startedAt >= d.startedAt

\* A signal ends the process, even if a client never finishes its request.
StopsAfterSignal == phase = "draining" ~> phase = "exited"

\* A request whose body was read is answered, unless the process ends.
ReadIsAnswered ==
    \A r \in Requests :
        requests[r].step = "handling" ~> requests[r].step = "done" \/ phase = "exited"

=============================================================================
