---------------------------- MODULE ElasticLogs -----------------------------
(***************************************************************************)
(* The Elasticsearch adapter, src/internal/adapter/elasticsearch, without  *)
(* its request: the filter that a query is sent with, and how hits become  *)
(* signals. A hit is [service, level, code, ts, summary]: the level is one *)
(* of the classes that extractSeverity tells apart, "none" if it knows     *)
(* none; the code is 0 without an HTTP status.                             *)
(***************************************************************************)
EXTENDS DatadogEvents

LevelSeverity == [fatal |-> "critical", error |-> "alert", warn |-> "warning"]

\* buildSeverityFilter: a log without one of the levels is not fetched, not
\* even one with an HTTP status that extractSeverity would rate.
SeverityFilter(hit) == hit.level \in DOMAIN LevelSeverity

\* buildServiceFilter: the exact text of the trimmed name, case included.
ServiceFilter(service, hit) == IsBlank(service) \/ hit.service = Trim(service)

\* The bounds are sent in whole seconds; the upper one stands for its second.
RangeFilter(q, hit) ==
    InSeconds(q.since) <= hit.ts /\ InSeconds(hit.ts) <= InSeconds(q.until)

\* firstService: the only service the search is restricted to.
FirstService(services, blank) == IF services = <<>> THEN blank ELSE services[1]

ExtractSeverity(hit) ==
    CASE hit.code >= 500 -> "alert"
      [] hit.code \in 400..499 -> "warning"
      [] OTHER -> LevelSeverity[hit.level]

\* A hit that has a time and a severity, as an event.
MapSearchHit(hit) ==
    IF hit.ts # 0 /\ (hit.code >= 400 \/ hit.level \in DOMAIN LevelSeverity)
    THEN <<Event(hit.summary, hit.service, ExtractSeverity(hit), hit.ts, hit.summary)>>
    ELSE <<>>

MapLogEventsToSignals(events, q) ==
    LET kept == Among(events, {e \in ToSet(events) : Matches(q, e)})
    IN  [k \in DOMAIN kept |->
            [source |-> "elastic", service |-> kept[k].service, type |-> "log",
             summary |-> kept[k].summary, ts |-> kept[k].ts,
             severity |-> SeverityToSignalSeverity[kept[k].severity]]]

=============================================================================
