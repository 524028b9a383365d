--------------------------- MODULE SignalPipeline ---------------------------
(***************************************************************************)
(* The pure part of analyzeincident.Service.Run: from what the providers   *)
(* returned to the groups, the confidence and the fingerprint of the       *)
(* report.                                                                 *)
(*                                                                         *)
(* Times are natural numbers of ticks; a second and a group window are a   *)
(* whole number of them. A service name keeps what the code looks at: its  *)
(* text, whether it is written in upper case and whether it is padded with *)
(* blanks. Severities are 0 (unknown), 1 (low), 2 (medium) and 3 (high).   *)
(* The order of equal timestamps, which sort.Slice leaves open, reaches no *)
(* value defined here.                                                     *)
(***************************************************************************)
EXTENDS Selections, SequencesExt, FiniteSetsExt

CONSTANTS
    Second,     \* ticks in a second
    Window,     \* ticks in a group window (groupWindow)
    NoText      \* the text of a blank name

ASSUME TimeAssumption ==
    /\ Second \in Nat \ {0} /\ Window \in Nat \ {0}
    /\ Window % Second = 0

IsName(name) ==
    name = [text |-> name.text, upper |-> name.upper, padded |-> name.padded]

IsSignal(sig) ==
    /\ sig = [source   |-> sig.source,   service |-> sig.service,
             summary  |-> sig.summary,  type    |-> sig.type,
             severity |-> sig.severity, ts      |-> sig.ts]
    /\ IsName(sig.service) /\ sig.severity \in 0..3 /\ sig.ts \in Nat

Trim(name) == [name EXCEPT !.padded = FALSE]

Lower(name) == [name EXCEPT !.upper = FALSE]

Canonical(name) == Lower(Trim(name))

IsBlank(name) == name.text = NoText

\* normalizeServices: trimmed, blanks dropped, the first spelling kept.
Normalize(raw) ==
    FoldLeft(LAMBDA kept, name :
                 IF IsBlank(name) \/ \E k \in DOMAIN kept : Lower(kept[k]) = Canonical(name)
                 THEN kept
                 ELSE Append(kept, Trim(name)),
             <<>>, raw)

-----------------------------------------------------------------------------
(* A query is [services (normalized), since, until].                       *)

\* matchesAnyService: no services means every service.
MatchesService(services, name) ==
    \/ services = <<>>
    \/ \E k \in DOMAIN services : Canonical(services[k]) = Canonical(name)

InWindow(q, sig) == q.since <= sig.ts /\ sig.ts <= q.until

Matches(q, sig) == MatchesService(q.services, sig.service) /\ InWindow(q, sig)

\* Mutant: the key of a signal ignores when it happened.
SignalFingerprintTimeless(sig) == <<sig.source, sig.service, sig.summary>>

\* The key that drops a signal seen before, whichever provider sent it.
SignalFingerprint(sig) ==
    <<sig.source, sig.service, sig.summary, sig.ts \div Second>>

\* Mutant: a signal is marked as seen before it is known to match.
AcceptedMarkedEarly(results, q) ==
    LET all == FlattenSeq(results)
        Repeats(i) == \E j \in 1..(i - 1) :
            SignalFingerprint(all[j]) = SignalFingerprint(all[i])
    IN  {all[i] : i \in {k \in DOMAIN all : Matches(q, all[k]) /\ ~Repeats(k)}}

\* filterSignals over the providers in turn, sharing one `seen`: of the
\* matching signals with one key, the first survives.
Accepted(results, q) ==
    LET all == FlattenSeq(results)
        Repeats(i) == \E j \in 1..(i - 1) :
            /\ Matches(q, all[j])
            /\ SignalFingerprint(all[j]) = SignalFingerprint(all[i])
    IN  {all[i] : i \in {k \in DOMAIN all : Matches(q, all[k]) /\ ~Repeats(k)}}

-----------------------------------------------------------------------------
(* Groups.                                                                 *)

WindowStart(ts) == ts - (ts % Window)

DedupKey(sig) == <<sig.source, sig.service, sig.summary, sig.severity>>

\* Mutant: the signal kept is not counted.
DeduplicateRepeats(signals) ==
    {[signal |-> CHOOSE s \in same : \A t \in same : s.ts <= t.ts,
      count |-> Cardinality(same) - 1] :
     same \in {{t \in signals : DedupKey(t) = DedupKey(s)} : s \in signals}}

\* deduplicateSignals on signals in time order: one entry for each key, the
\* earliest signal with the number of signals it stands for.
Deduplicate(signals) ==
    {[signal |-> CHOOSE s \in same : \A t \in same : s.ts <= t.ts,
      count |-> Cardinality(same)] :
     same \in {{t \in signals : DedupKey(t) = DedupKey(s)} : s \in signals}}

\* countDistinctSources, the sources being trimmed: blank ones do not count.
Sources(signals) == {s.source : s \in signals} \ {NoText}

\* Byte order of the spellings of one name: a blank sorts before a letter, an
\* upper-case letter before a lower-case one.
Spelling(name) == (IF name.padded THEN 0 ELSE 2) + (IF name.upper THEN 0 ELSE 1)

\* distinctServicesLabel: each service once, in the spelling that comes first
\* in the order of sortSignals.
ServicesLabel(signals) ==
    {LET same == {s \in signals : Canonical(s.service) = name}
         first == CHOOSE s \in same : \A t \in same :
                      \/ s.ts < t.ts
                      \/ s.ts = t.ts /\ Spelling(s.service) <= Spelling(t.service)
     IN  Trim(first.service) : name \in {Canonical(s.service) : s \in signals}}

Group(start, signals) ==
    [start    |-> start,
     services |-> ServicesLabel(signals),
     sources  |-> Sources(signals),
     severity |-> Max({s.severity : s \in signals}),
     entries  |-> Deduplicate(signals)]

\* buildSignalGroups: one group for each window that has a signal.
BuildGroups(signals) ==
    {Group(start, {s \in signals : WindowStart(s.ts) = start}) :
     start \in {WindowStart(s.ts) : s \in signals}}

-----------------------------------------------------------------------------
(* Confidence, in hundredths.                                              *)

Score(severity) == IF severity = 0 THEN 0 ELSE <<33, 66, 100>>[severity]

WeightedSeverity(groups) ==
    SumFunction([g \in groups |-> Score(g.severity) * Cardinality(g.entries)])

AtMost(bound, n) == IF n < bound THEN n ELSE bound

\* num / den rounded to the nearest integer, halves up.
RoundedRatio(num, den) == (2 * num + den) \div (2 * den)

\* Mutant: the volume score is not capped.
ConfidenceUncapped(groups, total, sources) ==
    IF total = 0 THEN 0
    ELSE RoundedRatio(3 * WeightedSeverity(groups) + 18 * total * total
                          + 40 * AtMost(3, sources) * total,
                      6 * total)

\* computeConfidence: half from the severity of the groups, weighted by their
\* entries over all signals; three tenths from the number of signals, up to
\* ten; two tenths from the number of sources, up to three. The sum is at most
\* 100, so the clamp of the code never bites.
Confidence(groups, total, sources) ==
    IF total = 0 THEN 0
    ELSE RoundedRatio(3 * WeightedSeverity(groups) + 18 * AtMost(10, total) * total
                          + 40 * AtMost(3, sources) * total,
                      6 * total)

-----------------------------------------------------------------------------
(* The report and its fingerprint.                                         *)

Report(results, q) ==
    LET signals == Accepted(results, q)
        groups == BuildGroups(signals)
        sources == Sources(signals)
    IN  [services   |-> q.services,
         since      |-> q.since,
         until      |-> q.until,
         groups     |-> groups,
         total      |-> Cardinality(signals),
         sources    |-> sources,
         confidence |-> Confidence(groups, Cardinality(signals), Cardinality(sources))]

\* What an entry contributes to the fingerprint of its report.
SummaryKey(entry) ==
    <<entry.signal.source, entry.signal.service, entry.signal.summary>>

SummaryKeys(report) ==
    UNION {{SummaryKey(e) : e \in g.entries} : g \in report.groups}

\* Mutant: the windows of the groups are hashed too.
FingerprintDated(report) ==
    [services  |-> report.services,
     windows   |-> {g.start : g \in report.groups},
     summaries |-> SummaryKeys(report)]

\* ComputeFingerprint hashes the service label and the sorted list of entries,
\* with repetitions: a bag of summaries.
Fingerprint(report) ==
    [services  |-> report.services,
     summaries |-> [k \in SummaryKeys(report) |->
         SumFunction([g \in report.groups |->
             Cardinality({e \in g.entries : SummaryKey(e) = k})])]]

=============================================================================
