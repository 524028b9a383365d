-------------------------- MODULE CollectedSignals --------------------------
(***************************************************************************)
(* What the providers may hand to the pipeline, batch by batch, and what   *)
(* the report made of it promises. The providers are external: each        *)
(* appends batches of signals to its own result, in any order.             *)
(***************************************************************************)
EXTENDS SignalPipeline

CONSTANTS
    Providers,      \* the number of signal providers
    Batches,        \* sequences of signals a provider may return together
    RawQueries,     \* [services, since, until] as the client sends them
    MaxBatches      \* bound on the batches of a behaviour

ASSUME ProvidersAssumption == Providers \in Nat
ASSUME SignalsAssumption ==
    \A batch \in Batches :
        batch \in Seq(ToSet(batch)) /\ \A sig \in ToSet(batch) : IsSignal(sig)
ASSUME QueriesAssumption ==
    \A raw \in RawQueries :
        /\ raw = [services |-> raw.services, since |-> raw.since, until |-> raw.until]
        /\ raw.since \in Int /\ raw.until \in Int

VARIABLES
    query,      \* the query, its services normalized
    results,    \* what each provider has returned
    batches     \* batches returned so far

vars == <<query, results, batches>>

Init ==
    /\ \E raw \in RawQueries :
           query = [raw EXCEPT !.services = Normalize(@)]
    /\ results = [p \in 1..Providers |-> <<>>]
    /\ batches = 0

Return(p, batch) ==
    /\ batches < MaxBatches
    /\ results' = [results EXCEPT ![p] = @ \o batch]
    /\ batches' = batches + 1
    /\ UNCHANGED query

Next == \E p \in 1..Providers, batch \in Batches : Return(p, batch)

Spec == Init /\ [][Next]_vars

report == Report(results, query)

-----------------------------------------------------------------------------

\* filterSignals, deduplicateSignals and buildSignalGroups (service.go
\* 349-444): every distinct signal in the window is counted in exactly one
\* entry of one group, so the counts of the report add up to TotalSignals, and
\* the groups name every source of the metadata.
NothingLostOrCountedTwice ==
    /\ report.total =
         SumFunction([g \in report.groups |->
             SumFunction([e \in g.entries |-> e.count])])
    /\ report.total =
         Cardinality({SignalFingerprint(s) : s \in
                         {t \in ToSet(FlattenSeq(results)) : Matches(query, t)}})
    /\ report.sources = UNION {g.sources : g \in report.groups}

WindowsOf(rep) == {g.start : g \in rep.groups}

\* The providers answer concurrently but results[i] keeps their order; had it
\* been another, the severities of signals that two providers both sent could
\* differ, and nothing else: same signals, windows, sources and summaries.
ProviderOrderOnlyAffectsSeverity ==
    LET other == Report(Reverse(results), query)
    IN  /\ other.total = report.total
        /\ other.sources = report.sources
        /\ WindowsOf(other) = WindowsOf(report)
        /\ SummaryKeys(other) = SummaryKeys(report)

\* A provider that failed (service.go 128-137) removes evidence from the
\* report and adds none: its windows and sources are among those of the full
\* report, and no signal appears because another one is missing.
FailureOnlyRemovesEvidence ==
    \A p \in 1..Providers :
        LET partial == Report([results EXCEPT ![p] = <<>>], query)
        IN  /\ partial.total <= report.total
            /\ partial.sources \subseteq report.sources
            /\ WindowsOf(partial) \subseteq WindowsOf(report)
            /\ SummaryKeys(partial) \subseteq SummaryKeys(report)

Later(d) ==
    Report([p \in 1..Providers |->
                [k \in DOMAIN results[p] |-> [results[p][k] EXCEPT !.ts = @ + d]]],
           [query EXCEPT !.since = @ + d, !.until = @ + d])

\* The same failure some windows later is the same incident: it has the
\* fingerprint and the confidence of the first, so that Save counts a
\* recurrence (stored_incident.go 20-22).
ShiftKeepsIdentity ==
    \A k \in 1..2 :
        /\ Fingerprint(Later(k * Window)) = Fingerprint(report)
        /\ Later(k * Window).confidence = report.confidence

\* computeConfidence stays in its scale, is 0 exactly for an empty report, and
\* reaches the 0.70 at which the CI integrations stop a deployment only when
\* some group is of medium or high severity: volume and diversity alone never
\* stop one.
ConfidenceIsEarned ==
    /\ report.confidence \in 0..100
    /\ report.confidence = 0 <=> report.total = 0
    /\ report.confidence >= 70 => \E g \in report.groups : g.severity >= 2

\* stored_incident.go 20-22: the fingerprint is a hash of the "sorted set of
\* signal summaries", so that analyses "covering the same failure pattern"
\* share it. More signals of summaries already present keep the set.
SameSummariesSameFingerprint ==
    [][SummaryKeys(report') = SummaryKeys(report)
         => Fingerprint(report') = Fingerprint(report)]_vars

=============================================================================
