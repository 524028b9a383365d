-------------------------- MODULE AnalyzeIncident ---------------------------
(***************************************************************************)
(* src/internal/usecase/analyzeincident/service.go, Service.Run: analyses  *)
(* running concurrently, each fanning out to every signal provider with    *)
(* retries, waiting for all of them, asking the deployment providers one   *)
(* after the other, and saving its report to the incident store that all   *)
(* of them share. A client may go away at any time, which cancels the      *)
(* context of its analysis.                                                *)
(*                                                                         *)
(* Providers are external: a call returns a batch, or an error, at some    *)
(* time. The durations of the latency metric are left out, its             *)
(* observations are counted.                                               *)
(***************************************************************************)
EXTENDS DeploymentCorrelation

CONSTANTS
    Runs,                   \* analyses, one for each request
    RawQueries,             \* [services, since, until] as the handlers build them
    Unset,                  \* the zero time in a raw query
    Clock,                  \* the readings of s.now()
    Providers,              \* number of signal providers
    Batches,                \* what CollectSignals may return
    DeploymentProviders,    \* number of deployment providers
    DeploymentBatches,      \* what FetchDeployments may return
    MaxRetries              \* providerMaxRetries

ASSUME CountsAssumption ==
    /\ Providers \in Nat /\ DeploymentProviders \in Nat
    /\ MaxRetries \in Nat \ {0}
ASSUME RunsAssumption == IsFiniteSet(Runs)
ASSUME BatchesAssumption ==
    \A batch \in Batches \cup DeploymentBatches : batch \in Seq(ToSet(batch))

VARIABLES
    pc,             \* where each analysis is
    query,          \* its normalized query
    cancelled,      \* is its context cancelled?
    task,           \* state of the goroutine of each provider
    attempts,       \* calls each goroutine has made
    results,        \* results[i], written by goroutine i only
    asked,          \* deployment providers asked so far
    gathered,       \* deployments they returned
    analysis,       \* the report and its deployment context
    latencies,      \* metrics of each provider: observations of its latency,
    failures,       \* failures,
    collected,      \* and signals collected
    analysed,       \* metric: analyses recorded
    request, response, stored   \* the incident store

store == <<request, response, stored>>
metrics == <<latencies, failures, collected, analysed>>
tasks == <<task, attempts, results>>
vars == <<pc, query, cancelled, tasks, asked, gathered, analysis, metrics, store>>

P == 1..Providers

-----------------------------------------------------------------------------
(* The window and the analysis.                                            *)

Windowed(raw, now) ==
    LET until == IF raw.until = Unset THEN now ELSE raw.until
    IN  [services |-> Normalize(raw.services),
         since    |-> IF raw.since = Unset THEN until - Window ELSE raw.since,
         until    |-> until]

\* The answers of the providers: nothing from one that has not answered.
Analysis(answers, deployments, q) ==
    LET rep == Report(answers, q)
    IN  [report |-> rep, deployments |-> Correlate(rep.groups, deployments)]

NoAnalysis == [report |-> <<>>, deployments |-> NoContext]

Queries == {Windowed(raw, now) : raw \in RawQueries, now \in Clock}

Answers == [P -> Batches \cup {<<>>}]

Gatherable ==
    {FlattenSeq(ds) : ds \in [1..DeploymentProviders -> DeploymentBatches \cup {<<>>}]}

Analyses ==
    {Analysis(as, ds, q) : as \in Answers, ds \in Gatherable, q \in Queries}

Fingerprints == {Fingerprint(a.report) : a \in Analyses}

Store == INSTANCE IncidentStore WITH
    Callers <- Runs,
    Services <- {fp.services : fp \in Fingerprints},
    ServiceOf <- [fp \in Fingerprints |-> fp.services]

-----------------------------------------------------------------------------

Init ==
    /\ pc = [r \in Runs |-> "idle"]
    /\ query = [r \in Runs |-> Unset]
    /\ cancelled = [r \in Runs |-> FALSE]
    /\ task = [r \in Runs |-> [p \in P |-> "ready"]]
    /\ attempts = [r \in Runs |-> [p \in P |-> 0]]
    /\ results = [r \in Runs |-> [p \in P |-> <<>>]]
    /\ asked = [r \in Runs |-> 0]
    /\ gathered = [r \in Runs |-> <<>>]
    /\ analysis = [r \in Runs |-> NoAnalysis]
    /\ latencies = [p \in P |-> 0]
    /\ failures = [p \in P |-> 0]
    /\ collected = [p \in P |-> 0]
    /\ analysed = 0
    /\ Store!Init

Goto(r, label) == pc' = [pc EXCEPT ![r] = label]

\* The window is resolved; one that ends before it starts is refused.
Start(r, raw, now) ==
    /\ pc[r] = "idle"
    /\ LET q == Windowed(raw, now)
       IN  IF q.since > q.until
           THEN Goto(r, "rejected") /\ UNCHANGED query
           ELSE Goto(r, "collect") /\ query' = [query EXCEPT ![r] = q]
    /\ UNCHANGED <<cancelled, tasks, asked, gathered, analysis, metrics, store>>

\* The client goes away while its request is being served.
Cancel(r) ==
    /\ pc[r] \notin {"idle", "done", "rejected"}
    /\ ~cancelled[r]
    /\ cancelled' = [cancelled EXCEPT ![r] = TRUE]
    /\ UNCHANGED <<pc, query, tasks, asked, gathered, analysis, metrics, store>>

-----------------------------------------------------------------------------
(* collectWithRetry, in the goroutine of provider p.                       *)

InTask(r, p, state) == pc[r] = "collect" /\ task[r][p] = state

TaskGoto(r, p, state) == task' = [task EXCEPT ![r][p] = state]

\* Mutant: an attempt is made after the last one.
CallUnbounded(r, p) ==
    /\ InTask(r, p, "ready")
    /\ attempts' = [attempts EXCEPT ![r][p] = @ + 1]
    /\ TaskGoto(r, p, "calling")
    /\ UNCHANGED <<pc, query, cancelled, results, asked, gathered, analysis,
                   metrics, store>>

\* The next attempt, while there is one left.
Call(r, p) ==
    /\ InTask(r, p, "ready")
    /\ attempts[r][p] < MaxRetries
    /\ attempts' = [attempts EXCEPT ![r][p] = @ + 1]
    /\ TaskGoto(r, p, "calling")
    /\ UNCHANGED <<pc, query, cancelled, results, asked, gathered, analysis,
                   metrics, store>>

\* CollectSignals returned signals.
Answer(r, p, batch) ==
    /\ InTask(r, p, "calling")
    /\ results' = [results EXCEPT ![r][p] = batch]
    /\ latencies' = [latencies EXCEPT ![p] = @ + 1]
    /\ collected' = [collected EXCEPT ![p] = @ + Len(batch)]
    /\ TaskGoto(r, p, "ok")
    /\ UNCHANGED <<pc, query, cancelled, attempts, asked, gathered, analysis,
                   failures, analysed, store>>

\* CollectSignals returned an error: of its own, because its timeout expired,
\* or because the context was cancelled.
Error(r, p) ==
    /\ InTask(r, p, "calling")
    /\ latencies' = [latencies EXCEPT ![p] = @ + 1]
    /\ TaskGoto(r, p, "failing")
    /\ UNCHANGED <<pc, query, cancelled, attempts, results, asked, gathered,
                   analysis, failures, collected, analysed, store>>

\* Mutant: a failure is recorded for every failed attempt.
RetryRecorded(r, p) ==
    /\ InTask(r, p, "failing")
    /\ ~cancelled[r]
    /\ failures' = [failures EXCEPT ![p] = @ + 1]
    /\ TaskGoto(r, p, "ready")
    /\ UNCHANGED <<pc, query, cancelled, attempts, results, asked, gathered,
                   analysis, latencies, collected, analysed, store>>

\* The context is still live after an error: to the head of the loop.
Retry(r, p) ==
    /\ InTask(r, p, "failing")
    /\ ~cancelled[r]
    /\ TaskGoto(r, p, "ready")
    /\ UNCHANGED <<pc, query, cancelled, attempts, results, asked, gathered,
                   analysis, metrics, store>>

\* Cancelled, or out of attempts: the provider is skipped.
GiveUp(r, p) ==
    /\ \/ InTask(r, p, "failing") /\ cancelled[r]
       \/ InTask(r, p, "ready") /\ attempts[r][p] = MaxRetries
    /\ failures' = [failures EXCEPT ![p] = @ + 1]
    /\ TaskGoto(r, p, "failed")
    /\ UNCHANGED <<pc, query, cancelled, attempts, results, asked, gathered,
                   analysis, latencies, collected, analysed, store>>

-----------------------------------------------------------------------------
(* The rest of Run.                                                        *)

Finished(r, p) == task[r][p] \in {"ok", "failed"}

\* Mutant: Run goes on with the first answer.
JoinFirst(r) ==
    /\ pc[r] = "collect"
    /\ \E p \in P : Finished(r, p)
    /\ analysis' = [analysis EXCEPT ![r] = Analysis(results[r], <<>>, query[r])]
    /\ Goto(r, IF DeploymentProviders > 0 THEN "correlate" ELSE "record")
    /\ UNCHANGED <<query, cancelled, tasks, asked, gathered, metrics, store>>

\* Mutant: a goroutine that gives up does not count as done.
JoinAnswered(r) ==
    /\ pc[r] = "collect"
    /\ \A p \in P : task[r][p] = "ok"
    /\ analysis' = [analysis EXCEPT ![r] = Analysis(results[r], <<>>, query[r])]
    /\ Goto(r, IF DeploymentProviders > 0 THEN "correlate" ELSE "record")
    /\ UNCHANGED <<query, cancelled, tasks, asked, gathered, metrics, store>>

\* g.Wait, and the pipeline on what the providers returned.
Join(r) ==
    /\ pc[r] = "collect"
    /\ \A p \in P : Finished(r, p)
    /\ analysis' = [analysis EXCEPT ![r] = Analysis(results[r], <<>>, query[r])]
    /\ Goto(r, IF DeploymentProviders > 0 THEN "correlate" ELSE "record")
    /\ UNCHANGED <<query, cancelled, tasks, asked, gathered, metrics, store>>

\* The next deployment provider answers, or fails and is skipped.
FetchDeployments(r, batch) ==
    /\ pc[r] = "correlate"
    /\ asked[r] < DeploymentProviders
    /\ asked' = [asked EXCEPT ![r] = @ + 1]
    /\ gathered' = [gathered EXCEPT ![r] = @ \o batch]
    /\ UNCHANGED <<pc, query, cancelled, tasks, analysis, metrics, store>>

CorrelateDeployments(r) ==
    /\ pc[r] = "correlate"
    /\ asked[r] = DeploymentProviders
    /\ analysis' = [analysis EXCEPT ![r] =
           [report      |-> @.report,
            deployments |-> Correlate(@.report.groups, gathered[r])]]
    /\ Goto(r, "record")
    /\ UNCHANGED <<query, cancelled, tasks, asked, gathered, metrics, store>>

RecordAnalysisResult(r) ==
    /\ pc[r] = "record"
    /\ analysed' = analysed + 1
    /\ Goto(r, "save")
    /\ UNCHANGED <<query, cancelled, tasks, asked, gathered, analysis,
                   latencies, failures, collected, store>>

\* Mutant: an analysis without signals is not saved.
SaveEvidence(r) ==
    /\ pc[r] = "save"
    /\ IF analysis[r].report.total = 0
       THEN Goto(r, "done") /\ UNCHANGED store
       ELSE /\ Store!Invoke(r, [op |-> "Save",
                   fingerprint |-> Fingerprint(analysis[r].report),
                   analysis |-> analysis[r]])
            /\ Goto(r, "saving")
    /\ UNCHANGED <<query, cancelled, tasks, asked, gathered, analysis, metrics>>

\* Every analysis is handed to the repository, an empty or cancelled one too.
Save(r) ==
    /\ pc[r] = "save"
    /\ Store!Invoke(r, [op |-> "Save",
           fingerprint |-> Fingerprint(analysis[r].report),
           analysis |-> analysis[r]])
    /\ Goto(r, "saving")
    /\ UNCHANGED <<query, cancelled, tasks, asked, gathered, analysis, metrics>>

\* The repository has saved it, and Run returns.
Return(r) ==
    /\ pc[r] = "saving"
    /\ Store!ServeSave(r)
    /\ Goto(r, "done")
    /\ UNCHANGED <<query, cancelled, tasks, asked, gathered, analysis, metrics>>

-----------------------------------------------------------------------------

TaskStep(r, p) ==
    \/ Call(r, p) \/ Error(r, p) \/ Retry(r, p) \/ GiveUp(r, p)
    \/ \E batch \in Batches : Answer(r, p, batch)

RunStep(r) ==
    \/ Join(r)
    \/ \E batch \in DeploymentBatches \cup {<<>>} : FetchDeployments(r, batch)
    \/ CorrelateDeployments(r) \/ RecordAnalysisResult(r) \/ Save(r) \/ Return(r)

Next ==
    \E r \in Runs :
        \/ \E raw \in RawQueries, now \in Clock : Start(r, raw, now)
        \/ Cancel(r)
        \/ \E p \in P : TaskStep(r, p)
        \/ RunStep(r)

(***************************************************************************)
(* An analysis keeps making steps of some of its goroutines. A provider    *)
(* call ends, because its context expires after providerTimeout and the    *)
(* adapters hand it to their HTTP client; nothing is assumed of how well   *)
(* it ends.                                                                *)
(***************************************************************************)
Progress(r) == RunStep(r) \/ \E p \in P : TaskStep(r, p)

Fairness == \A r \in Runs : WF_vars(Progress(r))

Spec == Init /\ [][Next]_vars /\ Fairness

-----------------------------------------------------------------------------
(* Properties.                                                             *)

Deployments == UNION {ToSet(batch) : batch \in DeploymentBatches}

TypeOK ==
    /\ pc \in [Runs -> {"idle", "rejected", "collect", "correlate", "record",
                        "save", "saving", "done"}]
    /\ query \in [Runs -> Queries \cup {Unset}]
    /\ cancelled \in [Runs -> BOOLEAN]
    /\ task \in [Runs -> [P -> {"ready", "calling", "failing", "ok", "failed"}]]
    /\ attempts \in [Runs -> [P -> 0..MaxRetries]]
    /\ results \in [Runs -> Answers]
    /\ asked \in [Runs -> 0..DeploymentProviders]
    /\ gathered \in [Runs -> Seq(Deployments)]
    /\ latencies \in [P -> Nat] /\ failures \in [P -> Nat]
    /\ collected \in [P -> Nat] /\ analysed \in Nat

Joined == {"correlate", "record", "save", "saving", "done"}

\* The report of an analysis is made of what every one of its providers
\* finally answered, a failed one counting as silent: Run never looks at
\* results[i] before goroutine i is done with it, and no late answer or retry
\* changes a report that is already made (service.go 122-160).
ReportMatchesResults ==
    \A r \in Runs : pc[r] \in Joined =>
        /\ \A p \in P : Finished(r, p)
        /\ \A p \in P : task[r][p] = "failed" => results[r][p] = <<>>
        /\ analysis[r].report = Report(results[r], query[r])

\* The provider metrics tell what happened: a failure once for each provider
\* and analysis that was given up, however often it was retried and whether it
\* was exhausted or cancelled; a latency for each attempt that ended; the
\* signals of the attempts that succeeded (service.go 260-305).
MetricsAccount ==
    \A p \in P :
        /\ failures[p] = Cardinality({r \in Runs : task[r][p] = "failed"})
        /\ latencies[p] + Cardinality({r \in Runs : task[r][p] = "calling"}) =
               SumFunction([r \in Runs |-> attempts[r][p]])
        /\ collected[p] = SumFunction([r \in Runs |-> Len(results[r][p])])

\* The history counts every analysis that returned exactly once: the
\* recurrences of an incident are the analyses that returned with its
\* fingerprint, empty and cancelled ones included, and the analysis kept is
\* that of one of them (service.go 175-189).
RecordedExactlyOnce ==
    LET Returned(fp) ==
            {r \in Runs : pc[r] = "done" /\ Fingerprint(analysis[r].report) = fp}
    IN  /\ \A r \in Runs : pc[r] = "done" =>
               Fingerprint(analysis[r].report) \in DOMAIN stored
        /\ \A fp \in DOMAIN stored :
               /\ stored[fp].recurrence = Cardinality(Returned(fp))
               /\ \E r \in Returned(fp) : stored[fp].analysis = analysis[r]

\* Every request is answered, whatever the providers do and whether or not the
\* client is still there: retries end, and nothing waits for a provider that
\* has been given up.
AnalysisReturns ==
    \A r \in Runs : pc[r] = "collect" ~> pc[r] = "done"

=============================================================================
