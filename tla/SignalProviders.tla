-------------------------- MODULE SignalProviders ---------------------------
(***************************************************************************)
(* One call of CollectSignals of a signal provider, with every HTTP        *)
(* request it makes: the monitors and the alert events of Datadog, its     *)
(* error tracking issues, and the logs of Elasticsearch.                   *)
(*                                                                         *)
(* A request to Datadog goes to one base URL after the other while the     *)
(* hosts refuse it (401, 403, 404). Error tracking searches its tracks in  *)
(* goroutines of their own, and each of them asks for the details of an    *)
(* issue that came without, and for a span that tells when it occurred.    *)
(*                                                                         *)
(* What the systems hold does not change during a call. A host serves,     *)
(* refuses or fails every request, or behaves anew each time; a request    *)
(* that times out or is cancelled fails.                                   *)
(***************************************************************************)
EXTENDS ElasticLogs

CONSTANTS
    Providers,          \* among "monitors", "events", "errors", "logs"
    Tracks,             \* the tracks of error tracking, in order
    DefaultURLs,        \* defaultBaseURLs
    DatadogURL,         \* DATADOG_BASE_URL
    ErrorTrackingURL,   \* DATADOG_ERROR_TRACKING_BASE_URL
    ElasticURL,         \* ELASTIC_BASE_URL
    AllIndices,         \* ELASTIC_INDEX_PATTERN is empty or a star
    NoURL,              \* no URL
    ConfiguredService,  \* the service in the configured error tracking query
    Now,                \* the time of the call
    Held,               \* Held[p]: what the system behind p may hold
    Behaviours,         \* how the hosts may behave
    Queries             \* [services (normalized), since, until]

ASSUME URLAssumption ==
    /\ DefaultURLs \in Seq(ToSet(DefaultURLs)) /\ DefaultURLs # <<>>
    /\ NoURL \notin ToSet(DefaultURLs) /\ ElasticURL # NoURL
ASSUME IndexAssumption == AllIndices \in BOOLEAN
ASSUME PageAssumption == Page \in Nat \ {0}
ASSUME TracksAssumption == Tracks \in Seq(ToSet(Tracks))
ASSUME QueriesAssumption ==
    \A q \in Queries : /\ q.services \in Seq(ToSet(q.services))
                       /\ \A name \in ToSet(q.services) : ~IsBlank(name) /\ Trim(name) = name
                       /\ q.since \in Nat \ {0} /\ q.until \in Nat

\* What a system can hold: times are numbers, and no two issues have one ID.
IsIssue(issue) ==
    issue.firstSeen \in Nat /\ issue.lastSeen \in Nat /\ issue.spans \subseteq Nat \ {0}

ASSUME HeldAssumption ==
    \A p \in Providers : \A items \in Held[p] :
        /\ items \in Seq(ToSet(items))
        /\ p \in {"events", "logs"} => \A item \in ToSet(items) : item.ts \in Nat
        /\ p = "logs" => \A hit \in ToSet(items) : hit.code \in Nat
        /\ p = "monitors" => \A m \in ToSet(items) : m.groups \in Seq(ToSet(m.groups))
        /\ p = "errors" => /\ \A issue \in ToSet(items) : IsIssue(issue)
                          /\ \A a, b \in ToSet(items) : a.id = b.id => a = b

VARIABLES
    provider,   \* whose CollectSignals is called,
    query,      \* with this query;
    held,       \* what the system holds, a sequence;
    behaviour,  \* how each host behaves
    task,       \* the state of each goroutine that makes requests
    result      \* the result of the call

vars == <<provider, query, held, behaviour, task, result>>

Port == INSTANCE SignalProviderPort

-----------------------------------------------------------------------------
(* Configuration.                                                          *)

\* Mutant: a configured URL is the only one.
BaseURLsConfigured(configured) ==
    IF configured = NoURL THEN DefaultURLs ELSE <<configured>>

\* Mutant: the configured URL comes after the defaults.
BaseURLsDefaultsFirst(configured) ==
    IF configured = NoURL \/ configured \in ToSet(DefaultURLs) THEN DefaultURLs
    ELSE Append(DefaultURLs, configured)

\* buildBaseURLs: the configured URL first, then the other defaults.
BaseURLs(configured) ==
    (IF configured = NoURL THEN <<>> ELSE <<configured>>)
        \o Among(DefaultURLs, ToSet(DefaultURLs) \ {configured})

URLsOf(p) ==
    CASE p = "logs" -> <<ElasticURL>>
      [] p = "errors" -> BaseURLs(ErrorTrackingURL)
      [] OTHER -> BaseURLs(DatadogURL)

Hosts == UNION {ToSet(URLsOf(p)) : p \in {"monitors", "errors", "logs"}}

\* The requests of the check of a provider at startup. One request, to the URL
\* configured for the monitors, covers every Datadog provider. For
\* Elasticsearch the index is asked for when the health was good, unless the
\* pattern is any index.
StartupProbes(p) ==
    IF p = "logs"
    THEN {[host |-> ElasticURL, endpoint |-> e] :
             e \in {"health"} \cup (IF AllIndices THEN {} ELSE {"index"})}
    ELSE {[host |-> IF DatadogURL = NoURL THEN DefaultURLs[1] ELSE DatadogURL,
           endpoint |-> "validate"]}

\* Is the provider reported as OK?
StartupCheck(p, passed) == StartupProbes(p) \subseteq passed

TasksOf(p) == IF p = "errors" THEN ToSet(Tracks) ELSE {"single"}

Searched == ErrorTrackingService(ConfiguredService, query.services)

-----------------------------------------------------------------------------
(* What the systems answer to the searches of the adapters.                *)

FirstPage(items) == SubSeq(items, 1, AtMost(Page, Len(items)))

FirstOldest(items) == FirstPage(SortedBy(items, [k \in DOMAIN items |-> items[k].ts]))

FirstNewest(items) == FirstPage(SortedBy(items, [k \in DOMAIN items |-> -items[k].ts]))

\* Both bounds are sent in whole seconds: what happened in the second of the
\* call, after it began, is not asked for.
FoundEvents ==
    FirstOldest(Among(held, {item \in ToSet(held) :
                                /\ InSeconds(query.since) <= item.ts
                                /\ item.ts <= InSeconds(Now)}))

FoundIssues(track) ==
    Among(held, {issue \in ToSet(held) :
        /\ track \in issue.tracks
        /\ issue.lastSeen = 0 \/ issue.lastSeen >= query.since
        /\ issue.firstSeen <= Now
        /\ \/ IsBlank(Searched) \/ IsBlank(issue.service)
           \/ Canonical(issue.service) = Canonical(Searched)})

FoundHits ==
    LET service == FirstService(query.services, ConfiguredService)
    IN  FirstNewest(Among(held, {hit \in ToSet(held) :
            /\ RangeFilter(query, hit)
            /\ query.services = <<>> \/ ServiceFilter(service, hit)
            /\ SeverityFilter(hit)}))

-----------------------------------------------------------------------------

NewTask == [step |-> "search", url |-> 1, found |-> <<>>, at |-> 1, events |-> <<>>]

Init ==
    /\ provider \in Providers
    /\ query \in Queries
    /\ held \in Held[provider]
    /\ behaviour \in Behaviours
    /\ task = [t \in TasksOf(provider) |-> NewTask]
    /\ result = Port!Calling

Becomes(t, new) ==
    /\ task' = [task EXCEPT ![t] = new]
    /\ UNCHANGED <<provider, query, held, behaviour, result>>

Done(tk, events) == [tk EXCEPT !.step = "done", !.events = events]

\* On to the next item of the answer, with the events of this one.
NextItem(tk, events) ==
    [tk EXCEPT !.step = "item", !.at = @ + 1, !.events = @ \o events]

Ask(tk, step) == [tk EXCEPT !.step = step, !.url = 1]

Item(tk) == tk.found[tk.at]

-----------------------------------------------------------------------------
(* A request and its outcome.                                              *)

Requesting(t) == task[t].step \in {"search", "details", "span"}

MayBe(t, outcome) ==
    behaviour[URLsOf(provider)[task[t].url]] \in {outcome, "flaky"}

LastURL(t) == task[t].url = Len(URLsOf(provider))

\* Mutant: the last host is not the last.
FallbackPastTheLast(t) ==
    /\ Requesting(t) /\ MayBe(t, "refuses")
    /\ Becomes(t, [task[t] EXCEPT !.url = @ + 1])

\* shouldRetryWithFallback: a refused request is repeated at the next URL.
Fallback(t) ==
    /\ Requesting(t) /\ MayBe(t, "refuses") /\ ~LastURL(t)
    /\ Becomes(t, [task[t] EXCEPT !.url = @ + 1])

\* Mutant: an issue whose spans cannot be had is dropped.
FailDropsIssue(t) ==
    /\ Requesting(t)
    /\ MayBe(t, "fails") \/ (MayBe(t, "refuses") /\ LastURL(t))
    /\ Becomes(t, CASE task[t].step = "search" -> [task[t] EXCEPT !.step = "failed"]
                    [] OTHER -> NextItem(task[t], <<>>))

\* The request fails, or is refused by the last host. Without an answer to the
\* search there is nothing; without its details an issue is ignored; without a
\* span it is mapped all the same.
Fail(t) ==
    /\ Requesting(t)
    /\ MayBe(t, "fails") \/ (MayBe(t, "refuses") /\ LastURL(t))
    /\ Becomes(t, CASE task[t].step = "search" -> [task[t] EXCEPT !.step = "failed"]
                    [] task[t].step = "details" -> NextItem(task[t], <<>>)
                    [] task[t].step = "span" ->
                           NextItem(task[t], <<MapIssue(Item(task[t]), Searched, {})>>))

Serves(t, step) == task[t].step = step /\ MayBe(t, "serves")

ServeMonitors(t) ==
    /\ provider = "monitors" /\ Serves(t, "search")
    /\ Becomes(t, Done(task[t], FlattenSeq([k \in DOMAIN held |->
                                    MapMonitorEvents(held[k], query.since)])))

ServeEvents(t) ==
    /\ provider = "events" /\ Serves(t, "search")
    /\ Becomes(t, Done(task[t], FlattenSeq([k \in DOMAIN FoundEvents |->
                                    MapEventItem(FoundEvents[k], query.since)])))

ServeLogs(t) ==
    /\ provider = "logs" /\ Serves(t, "search")
    /\ Becomes(t, Done(task[t], FlattenSeq([k \in DOMAIN FoundHits |->
                                    MapSearchHit(FoundHits[k])])))

ServeIssues(t) ==
    /\ provider = "errors" /\ Serves(t, "search")
    /\ Becomes(t, [task[t] EXCEPT !.step = "item", !.found = FoundIssues(t)])

\* mapIssue up to the request for a span, if it comes to one.
Examine(tk) ==
    LET issue == Item(tk)
    IN  IF ~IsCandidate(issue, query.since) THEN NextItem(tk, <<>>)
        ELSE IF IsBlank(issue.service) /\ IsBlank(Searched)
        THEN NextItem(tk, <<MapIssue(issue, Searched, {})>>)
        ELSE Ask(tk, "span")

\* mapIssues: the next item of the answer, until there is none.
MapItem(t) ==
    /\ task[t].step = "item"
    /\ Becomes(t, IF task[t].at > Len(task[t].found) THEN Done(task[t], task[t].events)
                  ELSE IF ~Item(task[t]).result THEN NextItem(task[t], <<>>)
                  ELSE IF ~Item(task[t]).included THEN Ask(task[t], "details")
                  ELSE Examine(task[t]))

ServeDetails(t) == Serves(t, "details") /\ Becomes(t, Examine(task[t]))

ServeSpan(t) ==
    /\ Serves(t, "span")
    /\ LET issue == Item(task[t])
       IN  Becomes(t, NextItem(task[t], <<MapIssue(issue, Searched, FirstSpan(issue))>>))

-----------------------------------------------------------------------------
(* The result of the call.                                                 *)

\* The first event of each fingerprint, in the order of the tracks.
Merged ==
    LET all == FlattenSeq([k \in DOMAIN Tracks |-> task[Tracks[k]].events])
        Repeats(k) == \E j \in 1..(k - 1) : all[j].fingerprint = all[k].fingerprint
        firsts == Among([k \in DOMAIN all |-> k], {k \in DOMAIN all : ~Repeats(k)})
    IN  [n \in DOMAIN firsts |-> all[firsts[n]]]

SignalType(p) == IF p = "errors" THEN "log" ELSE "metric"

Signals ==
    CASE provider = "logs" -> MapLogEventsToSignals(task["single"].events, query)
      [] provider = "errors" ->
             MapDatadogEventsToSignals(Merged, SignalType(provider), query)
      [] OTHER ->
             MapDatadogEventsToSignals(task["single"].events, SignalType(provider), query)

\* A single request that failed fails the call; the tracks of error tracking
\* that failed are left out, all of them if need be.
Return ==
    /\ result = Port!Calling
    /\ \A t \in DOMAIN task : task[t].step \in {"done", "failed"}
    /\ result' = IF provider # "errors" /\ task["single"].step = "failed"
                 THEN [status |-> "failed", signals |-> <<>>]
                 ELSE [status |-> "ok", signals |-> Signals]
    /\ UNCHANGED <<provider, query, held, behaviour, task>>

Next ==
    \/ Return
    \/ \E t \in DOMAIN task :
           \/ Fallback(t) \/ Fail(t) \/ MapItem(t)
           \/ ServeMonitors(t) \/ ServeEvents(t) \/ ServeLogs(t) \/ ServeIssues(t)
           \/ ServeDetails(t) \/ ServeSpan(t)

(***************************************************************************)
(* Every request ends: the HTTP clients give up after 15 seconds, and the  *)
(* context of the call expires.                                            *)
(***************************************************************************)
Spec == Init /\ [][Next]_vars /\ WF_vars(Next)

-----------------------------------------------------------------------------
(* Properties.                                                             *)

Ended == result.status # "calling"

\* The state of a call: each goroutine is at one of the URLs it may ask and at
\* an item of the answer it has, and signals come with the call's own result.
TypeOK ==
    /\ provider \in Providers /\ query \in Queries
    /\ held \in Held[provider] /\ behaviour \in Behaviours
    /\ DOMAIN task = TasksOf(provider)
    /\ \A t \in DOMAIN task :
           /\ task[t].step \in {"search", "item", "details", "span", "done", "failed"}
           /\ task[t].url \in 1..Len(URLsOf(provider))
           /\ task[t].at \in 1..(Len(task[t].found) + 1)
           /\ ToSet(task[t].found) \subseteq ToSet(held)
           /\ \A k \in DOMAIN task[t].events :
                  /\ task[t].events[k].ts # 0
                  /\ task[t].events[k].severity \in DOMAIN SeverityToSignalSeverity
    /\ result.status \in {"calling", "ok", "failed"}
    /\ result.status # "ok" => result.signals = <<>>

\* CollectSignals of every adapter is what analyzeincident takes it for: it
\* ends, once, in an error or in signals of the services and the window asked
\* for, whichever requests fail and whatever the systems answer.
Promise == Port!Spec

\* The fallback of shouldRetryWithFallback finds the site the keys are for: when
\* the Datadog hosts only serve or refuse and one of the default ones serves,
\* no search fails, whichever URL is configured.
AnswersWhenAHostServes ==
    /\ provider # "logs"
    /\ \A host \in ToSet(URLsOf(provider)) : behaviour[host] \in {"serves", "refuses"}
    /\ \E host \in ToSet(DefaultURLs) : behaviour[host] = "serves"
    => /\ result.status # "failed"
       /\ \A t \in DOMAIN task : task[t].step # "failed"

\* A check that passes at startup is worth something: its probes are other
\* requests than those of CollectSignals, but they go to a host that is asked,
\* and a host that passed them and serves its searches is enough, whatever the
\* others do, for CollectSignals of that provider not to fail. Error tracking
\* is left out, for it never fails, and its own URL is not probed.
CheckPredictsAnswers ==
    provider # "errors" =>
        \A passed \in SUBSET StartupProbes(provider) :
            /\ StartupCheck(provider, passed)
            /\ \A probe \in passed : behaviour[probe.host] = "serves"
            => result.status # "failed"

Inside(ts) == query.since <= ts /\ ts <= query.until

Reported(service, summary) ==
    \E k \in DOMAIN result.signals :
        /\ Canonical(result.signals[k].service) = Canonical(service)
        /\ result.signals[k].summary = summary

\* An issue of a service asked for that was last seen in the window, and that a
\* track whose search was answered holds. One that comes without its details
\* counts if every host serves.
Active(issue) ==
    /\ issue.result
    /\ issue.included \/ \A host \in Hosts : behaviour[host] = "serves"
    /\ \E t \in DOMAIN task : t \in issue.tracks /\ task[t].step = "done"
    /\ Inside(issue.lastSeen) /\ issue.firstSeen <= Now
    /\ IsBlank(Searched) \/ IsBlank(issue.service)
           \/ Canonical(issue.service) = Canonical(Searched)
    /\ MatchesService(query.services, IssueService(issue, Searched))

\* No failure of a request for a span, and no merge of the tracks, loses an
\* active issue, provided the spans it could be dated by are in the window.
NothingActiveIsLost ==
    provider = "errors" /\ Ended =>
        \A k \in DOMAIN held :
            Active(held[k]) /\ (\A ts \in held[k].spans : Inside(ts))
            => Reported(IssueService(held[k], Searched), held[k].message)

\* README.md: the adapter maps an issue's last_seen to the internal event. So an
\* active issue is reported, whenever its spans were.
ActiveIssueIsReported ==
    provider = "errors" /\ Ended =>
        \A k \in DOMAIN held :
            Active(held[k]) => Reported(IssueService(held[k], Searched), held[k].message)

\* The events and the logs of the first service asked for.
OfFirstService(service) == query.services = <<>> \/ service = query.services[1]

\* An alert event is left out only for a full page of events no later than it,
\* or because it is of the second in which the call is made, and a log only for
\* a full page of logs no earlier than it: no boundary of the window, in whole
\* seconds or not, loses one.
OnlyAFullPageLosesEvents ==
    result.status = "ok" /\ provider \in {"events", "logs"} =>
        \A k \in DOMAIN held :
            LET item == held[k]
                Others == IF provider = "events"
                          THEN {j \in DOMAIN held : j # k /\ held[j].ts <= item.ts
                                   /\ InSeconds(query.since) <= held[j].ts}
                          ELSE {j \in DOMAIN held : j # k /\ held[j].ts >= item.ts
                                   /\ SeverityFilter(held[j]) /\ OfFirstService(held[j].service)}
                Wanted == IF provider = "events"
                          THEN IF item.ts <= InSeconds(Now) THEN MapEventItem(item, 0) ELSE <<>>
                          ELSE IF SeverityFilter(item) THEN MapSearchHit(item) ELSE <<>>
            IN  /\ Wanted # <<>> /\ Inside(item.ts) /\ OfFirstService(Wanted[1].service)
                /\ Cardinality(Others) < Page
                => Reported(Wanted[1].service, Wanted[1].summary)

=============================================================================
