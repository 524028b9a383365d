--------------------------- MODULE DatadogEvents ----------------------------
(***************************************************************************)
(* The Datadog adapter, src/internal/adapter/datadog, without its          *)
(* requests: how monitors, alert events, error tracking issues and their   *)
(* spans become events, and events the signals of a query.                 *)
(*                                                                         *)
(* An event keeps what the rest of the system looks at: the fingerprint    *)
(* that tells repeats apart, service, severity, time and summary. Times    *)
(* are ticks, as in SignalPipeline; 0 is a time that is missing or cannot  *)
(* be parsed. The debug counters are left out: only tests read them.       *)
(***************************************************************************)
EXTENDS SignalPipeline

CONSTANTS
    Page,           \* events in the answer to a search
    RequiredTags,   \* DATADOG_MONITOR_TAGS
    SpanMargin,     \* how far after the last error its spans are looked for,
    SpanFallback    \* and how far before it, if the issue has no duration

\* What becomes of a time formatted as RFC 3339: whole seconds.
InSeconds(t) == t - (t % Second)

\* Compared with "" as it is: a name of blanks is not empty.
IsEmpty(name) == IsBlank(name) /\ ~name.padded

\* The first name that is not empty; the last one if all are.
FirstGiven(names) ==
    LET given == SelectSeq(names, LAMBDA n : ~IsEmpty(n))
    IN  IF given = <<>> THEN Last(names) ELSE Head(given)

SeverityToSignalSeverity ==
    [info |-> 1, warning |-> 2, alert |-> 3, critical |-> 3]

Event(fingerprint, service, severity, ts, summary) ==
    [fingerprint |-> fingerprint, service |-> service,
     severity |-> severity, ts |-> ts, summary |-> summary]

-----------------------------------------------------------------------------
(* Monitors: [id, name, tagService, queryService, state, modified, groups], *)
(* a group being [status, triggered, nodata]. One that maps to no event is *)
(* mapped to no event at all: an alert that fires since before the window  *)
(* is dropped.                                                             *)

StateSeverity ==
    [s \in {"Alert", "Warn", "No Data"} |-> IF s = "Alert" THEN "alert" ELSE "warning"]

MonitorService(m) == FirstGiven(<<m.tagService, m.queryService>>)

\* mapMonitorState: the time of the state a group is in.
StateTime(group) ==
    IF group.status = "No Data" THEN group.nodata ELSE group.triggered

MapGroupMonitorEvent(m, name, since) ==
    LET group == m.groups[name]
    IN  IF /\ group.status \in DOMAIN StateSeverity
           /\ StateTime(group) # 0
           /\ StateTime(group) >= since
        THEN <<Event(<<m.id, name, StateSeverity[group.status]>>, MonitorService(m),
                     StateSeverity[group.status], StateTime(group), m.name)>>
        ELSE <<>>

MapFallbackMonitorEvent(m, since) ==
    IF /\ m.modified # 0
       /\ m.state \in DOMAIN StateSeverity
       /\ m.modified >= since
    THEN <<Event(<<m.id, StateSeverity[m.state]>>, MonitorService(m),
                 StateSeverity[m.state], m.modified, m.name)>>
    ELSE <<>>

\* The groups are visited in any order; what reaches the report is the same.
MapMonitorEvents(m, since) ==
    IF m.groups = <<>> THEN MapFallbackMonitorEvent(m, since)
    ELSE FlattenSeq([name \in DOMAIN m.groups |-> MapGroupMonitorEvent(m, name, since)])

-----------------------------------------------------------------------------
(* Alert events: [id, type, monitor, ts, status, tags, tagService, service, *)
(* queryService, title].                                                   *)

ItemSeverity ==
    [s \in {"error", "alert", "warn", "warning", "no data", "info", "success"} |->
        CASE s \in {"error", "alert"} -> "alert"
          [] s \in {"info", "success"} -> "info"
          [] OTHER -> "warning"]

\* Mutant: an event exactly at the start of the window is dropped.
MapEventItemAfter(item, since) ==
    IF /\ item.type = "event" /\ item.monitor
       /\ item.ts # 0 /\ item.ts > since
       /\ item.status \in DOMAIN ItemSeverity
       /\ RequiredTags \subseteq item.tags
    THEN <<Event(item.id,
                 FirstGiven(<<item.tagService, item.service, item.queryService>>),
                 ItemSeverity[item.status], item.ts, item.title)>>
    ELSE <<>>

\* Only events of a monitor, with a time, a status and all the tags required.
MapEventItem(item, since) ==
    IF /\ item.type = "event" /\ item.monitor
       /\ item.ts # 0 /\ item.ts >= since
       /\ item.status \in DOMAIN ItemSeverity
       /\ RequiredTags \subseteq item.tags
    THEN <<Event(item.id,
                 FirstGiven(<<item.tagService, item.service, item.queryService>>),
                 ItemSeverity[item.status], item.ts, item.title)>>
    ELSE <<>>

-----------------------------------------------------------------------------
(* Error tracking issues: [id, result, included, tracks, service, state,   *)
(* crash, firstSeen, lastSeen, spans, message]. `result` tells whether the *)
(* item of the answer is a search result, `included` whether the issue     *)
(* came with it, `spans` the times of the spans with its service and error.*)

ErrorTrackingTimestamp(issue) ==
    IF issue.lastSeen > 0 THEN issue.lastSeen ELSE issue.firstSeen

ErrorTrackingSeverity(issue) ==
    IF issue.crash THEN "critical"
    ELSE CASE issue.state = "resolved" -> "warning"
           [] issue.state = "ignored" -> "info"
           [] OTHER -> "alert"

\* The service of an issue, or the one of the search.
IssueService(issue, searched) == FirstGiven(<<issue.service, searched>>)

\* Is the issue looked at any further?
IsCandidate(issue, since) ==
    ErrorTrackingTimestamp(issue) # 0 /\ ErrorTrackingTimestamp(issue) >= since

\* The window the spans of an issue are looked for in. An unset first or last
\* time is the epoch, which IsZero does not recognise: the guards on it in the
\* code never hold.
SpanWindow(issue) ==
    [from |-> InSeconds(IF issue.firstSeen < issue.lastSeen THEN issue.firstSeen
                        ELSE issue.lastSeen - SpanFallback),
     to   |-> InSeconds(issue.lastSeen + SpanMargin)]

\* The spans the search may return: the earliest in the window.
FirstSpan(issue) ==
    LET w == SpanWindow(issue)
        found == {ts \in issue.spans : w.from <= ts /\ ts <= w.to}
    IN  IF found = {} THEN {} ELSE {Min(found)}

\* mapIssue, with the time of a span or without: the span's replaces the
\* issue's own, which alone was compared with `since`.
MapIssue(issue, searched, span) ==
    Event(issue.id, IssueService(issue, searched), ErrorTrackingSeverity(issue),
          IF span = {} THEN ErrorTrackingTimestamp(issue) ELSE Max(span),
          issue.message)

\* buildErrorTrackingQuery: the service of the configured query, if it has one,
\* else the first service asked for.
ErrorTrackingService(configured, services) ==
    IF IsBlank(configured) /\ services # <<>> THEN services[1] ELSE configured

\* Mutant: an event is kept whichever service was asked for.
MapDatadogEventsToSignalsOfAll(events, type, q) ==
    LET kept == Among(events, {e \in ToSet(events) : InWindow(q, e)})
    IN  [k \in DOMAIN kept |->
            [source |-> "datadog", service |-> kept[k].service, type |-> type,
             summary |-> kept[k].summary, ts |-> kept[k].ts,
             severity |-> SeverityToSignalSeverity[kept[k].severity]]]

\* The events that match the query, as signals.
MapDatadogEventsToSignals(events, type, q) ==
    LET kept == Among(events, {e \in ToSet(events) : Matches(q, e)})
    IN  [k \in DOMAIN kept |->
            [source |-> "datadog", service |-> kept[k].service, type |-> type,
             summary |-> kept[k].summary, ts |-> kept[k].ts,
             severity |-> SeverityToSignalSeverity[kept[k].severity]]]

=============================================================================
