# Verification of cerebron

TLA+ models of cerebron, the TLC runs that check them on small instances, and
TLAPS proofs of what matters most for every instance. Paths are relative to
the repository, which is `src/` here; `PROJECT.json` maps every
definition to the lines it models.

## 1. The system

cerebron is an HTTP and MCP service written in Go. A request names services
and a time window. The service collects *signals* from Datadog and
Elasticsearch, groups them by service and window, correlates them with
*deployments*, computes a confidence, keeps the result in an in-memory history
under a fingerprint, and answers. Other requests query the history.

| Component | Source (`internal/...`) | State | Operations |
|---|---|---|---|
| Incident repository | `storage/memory_incident_repository.go`, `port/outbound/incident_repository.go` | two maps (ID to incident, fingerprint to ID), an ID counter, one `RWMutex` | `Save`, `FindByFingerprint`, `ListByService`, `ListAll` |
| Incident analysis | `usecase/analyzeincident/service.go` | per request: window, `results[i]` of each provider goroutine, report; shared: metrics, repository | `Run`: fan-out, `collectWithRetry`, `correlateDeployments`, `Save` |
| Signal pipeline | the same file, `domain/severity.go`, `domain/stored_incident.go` | none (pure) | normalise, filter, group, deduplicate, confidence, fingerprint |
| Causal hints | `usecase/analyzecausalhints/service.go` | none (pure) | three rules over an analysis |
| Incident queries | `usecase/findsimilarincidents`, `getincidenthistory`, `detectincidenttrends` | none between requests; read the repository | `Run` of each |
| Service dependencies | `usecase/getservicedependencies/service.go` | per request: edges, `visited`, `queue` | fetch, deduplicate, breadth-first search |
| Recent deployments and connectors | `usecase/getrecentdeployments`, `adapter/{argocd,gerrit,github,gitlab,jenkins,kubernetes}` | per request: deployments so far | one HTTP query per provider |
| Datadog adapter | `adapter/datadog` | per call: base URL, a goroutine for each of three tracks, the issue it is at | `CollectSignals` over monitors, alert events, issues |
| Elasticsearch adapter | `adapter/elasticsearch` | per call | `CollectSignals` over log hits |
| HTTP and MCP handlers, middleware | `handler/http` | per request: status, outcome; shared: counters | decode, call a use case, encode, count, log |
| Life cycle | `app/app.go`, `cmd/cerebron-api` | server and its connections, shutdown context | wiring, `Run`, shutdown |
| Configuration, diagnostics, logging, metrics | `config`, `diagnostics`, `logger`, `metrics` | environment, counters | read once, probe once, count |
| SDKs, CI integrations | `sdk`, `integrations` | none | HTTP clients |

**Interactions.** gin runs each request on a goroutine of its own, with a
context that is cancelled when the client goes away. `analyzeincident.Run`
starts one goroutine per signal provider (`errgroup`), each with up to two
attempts under a timeout; it waits for all of them, then asks the deployment
providers one after the other, then counts the analysis in the metrics and
saves it. All requests share the repository and the metrics. The query use
cases read the repository one call at a time, with Saves between the calls.
Causal hints and dependencies keep nothing.

**What is hard here.** Concurrent Saves and reads under the lock; goroutines,
retries, timeouts and cancellations of one request racing each other; partial
failure (a provider that fails is skipped, and the result is saved all the same;
so is a track, a span, a connector); hosts that refuse, and the next one that
may not; a signal that meets requests in flight; a panic that unwinds past the
middleware; orders that Go leaves open (map iteration, providers, equal times);
and boundaries of windows, limits and halves. `hazards` in PROJECT.json lists
them with their lines. Nothing is persisted: a restart loses the history, and
there is no recovery to model. The READMEs mention Slack, Postgres, Redis and
pollers; none of them is in the code.

**What makes each component correct.** Repository: a call is atomic, the two
maps name each other one to one, an incident is never lost and only its
recurrence changes. Analysis: the report is made of what every provider
finally answered, metrics and history count each analysis once, every request
is answered. Pipeline: no signal is lost or counted twice, provider order and
failures have only the effect they may have, a repeat is recognised. Hints:
each is justified by signals in the order it claims. Queries: they agree with
the history at the moment they read it. Dependencies: the blast radius is
exactly the transitive callers, and the search ends. Adapters: a call ends in an
error or in signals that match the query; the host that serves is found; what
is in the window is returned unless the page is full. Server: a clean exit has
cut no request, a signal ends the process, and what is logged and counted is
what was served, but for panics.

## 2. The modules

| Module | What it is |
|---|---|
| `IncidentRepositoryPort` | the requests of the port and what a list selects |
| `IncidentStore` | abstract: every call is one atomic step |
| `MemoryIncidentRepository` | the adapter, statement by statement under the lock; refines `IncidentStore` |
| `SignalPipeline` | the pure part of `Run`: `Normalize`, `Accepted`, `BuildGroups`, `Confidence`, `Report`, `Fingerprint` |
| `CollectedSignals` | providers returning batches one by one, and the report on what is there |
| `DeploymentCorrelation` | recent, suspect and rollback deployments |
| `AnalyzeIncident` | concurrent `Run`s over `SignalPipeline`, `DeploymentCorrelation` and an instance of `IncidentStore` |
| `CausalHints`, `HintedIncidents` | the three rules, and incidents that unfold signal by signal and deployment by deployment |
| `IncidentQueries` | the three query use cases over an atomic repository that goes on changing |
| `ServiceDependencies` | the fetch and the search |
| `ServiceNames` | the services that a request of these two modules may name |
| `DatadogEvents`, `ElasticLogs` | the pure part of the adapters: what becomes an event, and which events become signals |
| `SignalProviderPort` | abstract: a call of `CollectSignals` ends, once, in an error or in signals that match |
| `SignalProviders` | one such call of any adapter, request by request; refines `SignalProviderPort` |
| `DeploymentConnectors` | what each of the six connectors may return for a query, page by page |
| `RecentDeployments` | the query and the selection of `getrecentdeployments` |
| `Server` | the process: configuration, requests through middleware and handlers, shutdown |
| `Selections` | two things the code does with slices all over: `Among` keeps the elements of a set, `SortedBy` sorts by a key |
| `FoldTheorems` | lemmas about the operators that the modules share: sums, flattening, `Among`, `SortedBy`, rounding down |
| `ReadUseCases_proofs` | theorems about `IncidentQueries` and `ServiceDependencies` |
| `Server_proofs` | theorems about `Server`, and about `DeploymentConnectors`, which a request of it asks |
| `..._proofs` | theorems about the module they are named after |
| `MC_...` | instances for TLC; `MC_ReadUseCases` runs `IncidentQueries` and `ServiceDependencies`, one request to either |

Composition: `SignalPipeline` is extended by `DeploymentCorrelation`, that by
`AnalyzeIncident` and `CausalHints`, and `CausalHints` by `HintedIncidents`.
`MemoryIncidentRepository` is shown to implement `IncidentStore`, so
`AnalyzeIncident` uses the store in its place, and `IncidentQueries` a
repository of atomic steps. `SignalPipeline` is also extended by
`DatadogEvents`, `ElasticLogs` and `SignalProviders`, so the query that an
adapter answers is the one `Accepted` filters by; `SignalProviders` is shown to
implement `SignalProviderPort`, which is what `AnalyzeIncident` and
`CollectedSignals` take a provider for. `Server` extends `RecentDeployments` and
that `DeploymentConnectors`.

Actions and code:

- `MemoryIncidentRepository`: `Announce` and `Lock` are the two halves of
  `mu.Lock` (a waiting writer keeps new readers out, as Go's `RWMutex` does);
  `LookupHit` and `LookupMiss` the map lookup; `Bump` the recurrence; `Insert`
  and `Index` the two map writes; `RLock`, `Visit` and `ReturnRead` a read, one
  incident at a time.
- `AnalyzeIncident`: `Start` resolves the window and starts the goroutines;
  `Call`, `Answer`, `Error`, `Retry` and `GiveUp` are `collectWithRetry`; `Join`
  is `g.Wait` with the pipeline after it; `FetchDeployments` and
  `CorrelateDeployments` are `correlateDeployments`; `RecordAnalysisResult`,
  `Save` and `Return` the rest of `Run`. `Cancel` is the client going away.
  `Error` stands for every way an attempt fails, its timeout and the
  cancellation included.
- `IncidentQueries`: `Ask` is a request with its refusals; `Find` and `List` the
  two reads of `findsimilarincidents`; `History` and `Trends` one read each,
  with what is computed from it.
- `ServiceDependencies`: `FetchDependencies` and `FetchFails` one provider;
  `BuildGraph` the start of the search; `Visit` one turn of its outer loop.
- `SignalProviders`: each goroutine is a task with a request under way.
  `Fallback` and `Fail` are the two ways a request has no answer,
  `shouldRetryWithFallback` between them; `ServeMonitors`, `ServeEvents`,
  `ServeLogs` and `ServeIssues` the answer to a search, with all that is done to
  it; `MapItem` one turn of the loop of `mapIssues`, `ServeDetails` and
  `ServeSpan` the answers it waits for; `Return` the merge of the tracks and the
  signals. `StartupProbes` are the requests of `diagnostics` for a provider and
  `StartupCheck` what it reports. The probes go to endpoints of their own
  (`/api/v1/validate`, the health and the index of Elasticsearch), so that they
  pass says nothing of the searches. `CheckPredictsAnswers` is about what the
  code decides, the hosts: those that passed are asked by the provider, and one
  that serves is enough.
- `Server`: `Boot` is `main` up to the server, with the checks of `LoadFromEnv`;
  `Signal`, `Drained` and `TimedOut` are `App.Run`; `Accept`, `ReadBody`,
  `RejectBody` and `Handle` a request up to its status; `RefuseDeployments`,
  `ConnectorAnswers`, `ConnectorFails` and `ShowDeployments`
  `getrecentdeployments`; `Count` and `Log` what the middleware do after `Next`,
  in that order (a *scrape* is a request with the path `/metrics`, whatever its
  method); `Panic` a panic that `RecoveryMiddleware` meets, `Crash` one on a
  goroutine of `errgroup` or of the MCP library, which nothing recovers.
  `KillInBoot` is a signal that arrives before `signal.NotifyContext`.

Abstractions: times are ticks, with a second and a group window a whole number
of them; names keep their text, case and padding; summaries and batches are
small values; severities are numbers; the fingerprint is the value that is
hashed (the hash is taken to be injective). Confidence is computed exactly, as a
ratio of integers that is rounded as the code rounds; the rounding errors of
floating point are not modelled. Durations of metrics, wording and logging are
left out. A host serves, refuses (401, 403, 404) or fails every request, or does
so by turns; what the systems hold is a small set, and does not change during a
call. The group states of a monitor are a sequence, for their order in the map
decides nothing. Of an event there is what a signal keeps, and its fingerprint.
A deployment is a record of the fields the filters look at, and the answers of
the connectors are sets: equal times are left to the selection. The systems
behind the connectors that send pages choose what is on the first one, for none
of the connectors asks for an order or a second page. The hints are checked on
analyses that `Run` makes, not on analyses a client composes by hand. The queue
of the search is a set, which covers the FIFO order and more.

## 3. The runs

| Run | Bounds | What it shows |
|---|---|---|
| `repository` | 2 callers, 2 fingerprints of 2 services, 3 Saves, 2 clock readings | `IndexConsistent`, `IdsFollowCreation`, `OnlyRecurrenceGrows`, the refinement `ImplementsStore`, and that every call returns |
| `pipeline` | 2 providers, 3 batches of 8, 3 queries | counts add up, the order of providers changes severities only, a failed provider only removes evidence, a later repeat is the same incident, confidence has to be earned |
| `analyze` | 2 requests, 2 providers, 2 attempts, 1 deployment provider, 2 queries | report, metrics and history agree in every interleaving, and every request is answered |
| `hints` | 3 signals of 12, 2 deployments of 8 on and around the boundaries | suspects and hints are justified; later evidence retracts none |
| `read_use_cases` | one request, of either kind: a query over 3 patterns of one service (one without signals; the others with a low group, a high one, or both), 1 of another, 4 Saves, 2 clock readings; or dependencies over 3 services, 2 providers, all graphs of up to 3 edges each | limits, totals, exact match and trends agree with the history; the blast radius is exact and the search ends |
| `providers` | 4 providers, 4 hosts (each serves, refuses or fails, or all by turns), 2 tracks, 3 queries, up to 5 items on each boundary of the window, pages of 2; the call is made within a second | `CollectSignals` keeps the port's promise, the fallback finds the host that serves, a passed check predicts answers, and only a full page, the time of a span or, for alert events, the second of the call loses what is in the window |
| `server` | 2 requests of 6 routes and tools, 9 configurations, 6 connectors with up to 4 deployments each, pages of 1 or 2, limit 2 or 1 | a clean exit cuts no request, a signal ends the process, log and counters account for all whose handler did not panic, and the newest deployments are shown of what fits the pages |
| `fingerprint_repeat` | as `pipeline` | violation, finding 1 |
| `hint_database`, `hint_infra` | 3 signals | violations, findings 2 and 3 |
| `issue_last_seen` | as `providers` | violation, finding 4 |
| `panic_logged` | as `server` | violation, finding 5 |

Why the bounds are enough: two callers make every race of a Save with a Save or
a read, three Saves an insert, a recurrence and an insert of another; two
attempts distinguish a retry from giving up, two requests share metrics and
store; the single signals are chosen to collide in every key the code uses, and
the burst passes the volume cap; two clock readings make ties and strict order;
four Saves give halves of equal and unequal size; three services make cycles of
length one to three with tails; `read_use_cases` has the two kinds of request in
one run because they share nothing, so it interleaves no two of them. Two
default hosts and a configured one give every position of the first host that
serves; two tracks interleave like three, for they share nothing but the merge;
the items lie before, at, just inside the second of, in and after each end of
the window, and at 20, the whole second, and 21, the tick at which the call is
made, for what RFC 3339 cuts off. Two requests make every meeting of one that is
open with one that is done, and the counters only add up over requests. The
theorems below do away with the bounds for every property of the runs that pass
but those of liveness.

Deadlock is checked in `repository`, where callers never stop, and not in the
others, whose requests end.

**Fairness.** `repository`: weak fairness for the steps of a caller that holds
the lock, as the scheduler gives a runnable goroutine, and strong fairness for
acquiring it, because Go's `RWMutex` starves nobody: writers queue on a fair
mutex, and the readers waiting behind a writer are let in when it unlocks. No
fairness is assumed of new calls. `analyze`: each analysis goes on
making steps of some of its goroutines, because every attempt runs under
`providerTimeout`; nothing is assumed of answers. `read_use_cases`: weak
fairness of the search only, which is a plain loop; a provider may take for
ever. `providers`: weak fairness of the next step of a call, because the HTTP
clients give up after 15 seconds; nothing is assumed of which step it is.
`server`: weak fairness of the shutdown and its timer, and of each request once
its body was read, for every client of the adapters has a timeout. Nothing makes
a client send its body: the server sets `ReadHeaderTimeout` only.

**Findings.** (1) `domain/stored_incident.go:20-22` promises one fingerprint
for one failure pattern, over the *set* of summaries; the code takes a list
with repetitions, so the same pattern seen in one more window is a new
incident. (2) The comment at `analyzecausalhints/service.go:65-66` speaks of a
metric and a log; the code looks at no type. (3) The one at `:95-96` speaks of
different services; the code compares the joined labels of the two groups, so a
metric of a database, and a log of the same database in a later window that it
shares with a metric of an API, give the hint. (4)
`README.md:111` has an issue's `last_seen` mapped to the event; the code
replaces it by the time of the issue's earliest span after comparing it with
the window, so an issue that began before the window and is still active is
dropped (`error_tracking_provider.go:460`, `signal_provider.go:112-121`). (5)
The comment at `router.go:17-18` wants recovery before logging "so panics are
caught and converted to 500 before the log line fires"; recovery registered
first is outermost, so the panic has unwound past logging and metrics when it is
caught, and the request that is answered with 500 has no request line and no
count. `RequestsAccounted` is therefore about the other requests.

**Seen while modelling**, without a run of its own. The end of an event search
is the time of the call cut to a second (`event_alert_provider.go:109`), so an
alert of the current second is not in the analysis although it is in its
window; `OnlyAFullPageLosesEvents` allows just this. No connector asks for a
second page, and GitHub and GitLab filter by the window only afterwards, so a
deployment in the window can be missing when there are many; `NewestUnderLimit`
is about the connectors whose page was not full. The GitLab and Gerrit connectors
do not filter by service, so `get_recent_deployments` of one service shows
deployments of others, and these may fill its limit; `NewestUnderLimit` is
stated so that it holds all the same. `DATADOG_ERROR_TRACKING_TRACK` is
validated, and then all three tracks are searched. Error tracking never fails:
when all tracks do, it answers with no issues, and nothing is retried, which is
why `CheckPredictsAnswers` leaves it out. `/api/v1/incidents/analyze` refuses a
bad `time_range`, the tool `analyze_incident` ignores it. The guards against an
unset `first_seen` or `last_seen` (`error_tracking_provider.go:528`, `:532`)
never hold, because `time.UnixMilli(0)` is not a zero time.

## 4. The proofs

Checked by `tlapm` for all values of the constants under the named assumptions
of the modules. Every invariant and action property of a run that passes is a
theorem; `PROJECT.json` names the theorem of each.

- `MemoryIncidentRepository_proofs`. The inductive invariant `IInv` joins the
  types; `LockInv` (who is past the lock, and that a writer excludes all
  others); `MapInv` (the maps agree but for a Save that is between its two
  writes); `SaveInv` (what a Save's local incident is at each statement);
  `ScanInv` (what a reader has copied); and `IdsFollowCreation`. The properties
  alone are not inductive: between `Insert` and `Index` the maps disagree, and
  only the lock keeps others from seeing it. From `IInv` follow `TypeCorrect`,
  `IndexIsConsistent`, `IdsInCreationOrder`, the action property
  `IncidentsOnlyRecur`, and `RepositoryImplementsStore`: a Save takes effect at
  its last write, a read at its return, every other step is a stutter.
- `AnalyzeIncident_proofs`. `TypeCorrect`, and `ReportsMatchResults` by an
  invariant that adds that a goroutine without success has left no result and
  that an analysis keeps its shape. The argument: goroutines step only while
  their analysis collects, `Join` needs all of them to be done, and no later
  step touches results or report. `MetricsAccountForAttempts` is inductive with
  these: each step moves one goroutine, so the sums over analyses change by what
  it alone contributes, and `RecordAnalysisResult` adds the length of one
  report. `EveryAnalysisRecordedOnce` needs `StoreInv` as well: an analysis has
  a request at the store exactly while it is saving, which asks to save itself;
  an entry is an analysis and a count; and the count is the number of analyses
  that returned with its fingerprint.
- `CollectedSignals_proofs`. The signals accepted have the keys of the signals
  that match, each key once, whatever the order of the providers; windows,
  sources and summaries are functions of those keys. From this follow
  `EverySignalCountedOnce` (the groups are parts of the accepted signals that do
  not meet, so their counts add up), `FailureRemovesOnly`,
  `OrderShowsInSeverityOnly`, and `ConfidenceEarned`, by bounding each term of
  the ratio. `ShiftKeepsFingerprint` maps the accepted signals, groups and
  summaries of the query one by one to those of the later one, which needs that
  rounding down to the window commutes with the shift (`FloorUnique`);
  `EveryShiftKeepsFingerprint` says it for every number of windows.
- `HintedIncidents_proofs`. `SuspectsBeforeSignals`, `DeploymentHintExact`,
  `OrderHintsWitnessed`, and the action property `LaterEvidenceKeepsHints`. The
  invariant `HintsOK` says that what is kept is the analysis of what was
  observed. The groups are the windows of the accepted signals in their order,
  so the first group of a kind is where the first signal of that kind is, and a
  signal of a later window leaves those groups as they were.
- `ReadUseCases_proofs`. `SimilarConsistent` and `NewestHistory` rest on
  `QueriesOK`, where the exact match is still in the history under its ID, with
  a recurrence that only grew; on what is left of a list after a selection; and
  on the first few of a list being the newest. `DirectionIsEarned`: an average
  lies between the least and the most of its scores, so one half exceeds the
  other only if a member outranks one of the other half. `DominantOrderFree`:
  the groups of a list are counted member by member, so the counts do not depend
  on its order, and each visit leaves the better of two severities.
  `TypeCorrect` and `BlastRadiusExact` are about `ServiceDependencies`, by an
  invariant of its search: whatever was found belongs to every caller-closed
  set, what is queued was found, and the callers of whatever left the queue were
  found.
- `SignalProviders_proofs`. The invariant `CallOK` says of each goroutine what
  it has done: every host behind it refused, its events are those that the items
  behind it are mapped to, and none that is due is missing. From it follow
  `TypeCorrect`, `FallbackFindsAHost`, `CheckIsWorthSomething`,
  `ActiveIssuesAreReported` (with a lemma that the merge of the tracks keeps one
  event of each fingerprint) and `OnlyPagesLose` (what `SortedBy` puts before
  the cut is no older, or no newer, than what comes after; an event of the
  second of the call is outside what is searched). `ImplementsThePort` is the
  refinement of the safety part of `SignalProviderPort`: `Return` maps to its
  `Answer` or its `Fail`, every other step to a stutter.
- `Server_proofs`. `TypeCorrect`, `CleanExit`, `Accounted` and `Configured`, for
  any finite set of requests. The invariant joins `Shape` (what a request looks
  like at each step), `OutcomeKnown` (which steps have a status and an outcome),
  `ServesValid` (no request before a valid configuration), `NoneCut` (a request
  is cut only by an exit that is not clean) and `Accounts` (each counter is the
  cardinality of the requests that are past it). Each handler's step is first
  shown to be one of a few kinds of change to one request, so that the counters
  are argued about once, not for every action. `NewestShown` is on top of it,
  for any connectors that hold finitely many deployments, any size of pages and
  a window that begins after the epoch (0 is a time that is missing).
  `ConnectorReturnsDue` shows for each connector that its own filters drop none
  that is due; the invariant `Gathered`, that a request holds all that the
  connectors returned that have answered it; `NewestFewFill`, that the newest
  few of a finite set leave out only what is no newer.

**Sums and sequences.** The provers cannot instantiate a theorem that takes an
operator, so the induction theorems of the library are of no use.
`FoldTheorems` proves what the folds compute without them: the subsets of a
finite set for which a fact fails have, if there are any, one that no other is
part of (`LeastSubset`), the lengths a least one (`LeastNumber`), and the step
refutes it. This gives what sums do under an update, a bijection or a factor
(`SumUpdate`, `SumOfImage`, `SumScale`), what `FlattenSeq` has and how often
(`FlattenElements`, `FlattenOccurrences`), and what `Among` and `SortedBy`
return (`AmongSelects`, `SortedElements`). The models use `Among` and `SortedBy`
in place of `SelectSeq` and `SortSeq`, which take an operator.

**Assumptions.** Counts and bounds are natural numbers (`CountsAssumption`,
`BoundsAssumption`, `ProvidersAssumption`, `LimitsAssumption`,
`LimitAssumption`, `PageAssumption`, `PagesAssumption`); what is on or off is a
Boolean (`IndexAssumption`); a window is a whole number of seconds
(`TimeAssumption`, `TickAssumption`, `LookbackAssumption`); requests, analyses
and what a connector holds are finite (`RequestsAssumption`, `RunsAssumption`,
`HeldAssumption`); batches, tracks and lists of hosts are sequences
(`BatchesAssumption`, `TracksAssumption`, `URLAssumption`, which also says that
there is a default host and that no URL of them is empty); signals, queries,
deployments and severities have the fields and types of the Go structs
(`SignalsAssumption`, `QueriesAssumption`, `DeploymentsAssumption`,
`PatternsAssumption`, `AskAssumption`, `HeldAssumption`); and values that stand
for nothing are none of the others (`NoneAssumption`, `ServicesAssumption`,
`NoCallerAssumption`). Two say more: the services of a query are trimmed and not
blank when an adapter sees them, because `Run` normalises them, and no two
issues have one ID.

**What a proof corrected.** `DirectionNeedsAMove` once asked for an incident
that has, for every group of another, a more severe one. With an incident of
groups 3 and 1 and one of group 3 the averages differ, and neither has; the run
had no such pair. The property now asks for one group more severe than one of
the other, and the run has the pair.

Only model-checked, because they are liveness, out of the prover's reach:
`CallsReturn`, `AnalysisReturns`, `SearchEnds`, `StopsAfterSignal`,
`ReadIsAnswered`, and of `Promise` the part that a call ends.

## 5. Not modelled, and the plan

Left out, with the reason:

- `discovery.go` of both adapters: the application does not call it.
- The environment and terms filters of `SearchLogs`: `CollectSignals` sets
  neither. Environments, routes and teams of events: no signal carries them.
- How variables are parsed (`getListEnv`, `getDurationEnv`, ...): reads without
  state. Only what `LoadFromEnv` refuses is modelled.
- Log levels, request IDs, histograms: nothing depends on them.
- The SDKs and CI integrations: clients, with no state of their own.
- Frequencies and spans of trends: floating-point figures no other part uses.
- Sessions and streams of the MCP library, and gin's redirects of a path with a
  slash too many, which reach no middleware: not in the repository.

What is left of the plan: properties for the two hazards that have none, the
frequency of a pattern that recurs and the weighted severity of merged signals.
