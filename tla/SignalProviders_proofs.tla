------------------------ MODULE SignalProviders_proofs ------------------------
(***************************************************************************)
(* The properties of SignalProviders, whatever the systems hold and        *)
(* however the hosts behave.                                               *)
(*                                                                         *)
(* The inductive invariant says of each goroutine what it has done so far: *)
(* every host it left behind refused it, the events it has are those the   *)
(* items of its answer are mapped to, and of the items behind it none that *)
(* is due went without an event.                                           *)
(***************************************************************************)
EXTENDS SignalProviders, FoldTheorems

GoodEvent(e) == e.ts # 0 /\ e.severity \in DOMAIN SeverityToSignalSeverity

\* The events that an issue may be mapped to, with a span's time or its own.
IssueEvents(issue, searched) ==
    {MapIssue(issue, searched, span) : span \in {{}} \cup {{ts} : ts \in issue.spans}}

\* The events that a provider may map what its system holds to.
MappedOf(p, h, q, searched) ==
    CASE p = "monitors" -> UNION {ToSet(MapMonitorEvents(m, q.since)) : m \in ToSet(h)}
      [] p = "events" -> UNION {ToSet(MapEventItem(item, q.since)) : item \in ToSet(h)}
      [] p = "logs" -> UNION {ToSet(MapSearchHit(hit)) : hit \in ToSet(h)}
      [] p = "errors" -> UNION {IssueEvents(issue, searched) :
                                issue \in {i \in ToSet(h) : IsCandidate(i, q.since)}}
      [] OTHER -> {}

\* Every severity the adapters give is known to the one that maps it.
LEMMA Severities ==
    {"info", "warning", "alert", "critical"} \subseteq DOMAIN SeverityToSignalSeverity
  BY DEF SeverityToSignalSeverity

LEMMA EventFields ==
    ASSUME NEW fingerprint, NEW service, NEW severity, NEW ts, NEW summary
    PROVE  LET e == Event(fingerprint, service, severity, ts, summary)
           IN  /\ e.fingerprint = fingerprint /\ e.service = service
               /\ e.severity = severity /\ e.ts = ts /\ e.summary = summary
  BY DEF Event

\* A sequence of one element, or of none.
LEMMA OneOrNone ==
    ASSUME NEW x
    PROVE  /\ <<x>> \in Seq({x}) /\ ToSet(<<x>>) = {x}
           /\ ToSet(<<>>) = {} /\ \A D : <<>> \in Seq(D)
  BY DEF ToSet

LEMMA GroupEvents ==
    ASSUME NEW m, NEW name, NEW since
    PROVE  /\ MapGroupMonitorEvent(m, name, since)
                  \in Seq(ToSet(MapGroupMonitorEvent(m, name, since)))
           /\ \A e \in ToSet(MapGroupMonitorEvent(m, name, since)) : GoodEvent(e)
<1> DEFINE group == m.groups[name]
           e == Event(<<m.id, name, StateSeverity[group.status]>>, MonitorService(m),
                      StateSeverity[group.status], StateTime(group), m.name)
<1>1. CASE /\ group.status \in DOMAIN StateSeverity
           /\ StateTime(group) # 0 /\ StateTime(group) >= since
  <2>1. MapGroupMonitorEvent(m, name, since) = <<e>>
    BY <1>1 DEF MapGroupMonitorEvent
  <2>2. e.ts = StateTime(group) /\ e.severity = StateSeverity[group.status]
    BY DEF Event
  <2>3. StateSeverity[group.status] \in {"alert", "warning"}
    BY <1>1 DEF StateSeverity
  <2>4. GoodEvent(e)
    BY <1>1, <2>2, <2>3, Severities DEF GoodEvent
  <2> HIDE DEF e
  <2> QED
    BY <2>1, <2>4, OneOrNone
<1>2. CASE ~ /\ group.status \in DOMAIN StateSeverity
             /\ StateTime(group) # 0 /\ StateTime(group) >= since
  <2>1. MapGroupMonitorEvent(m, name, since) = <<>>
    BY <1>2 DEF MapGroupMonitorEvent
  <2> QED
    BY <2>1, OneOrNone
<1> QED
  BY <1>1, <1>2

LEMMA FallbackEvents ==
    ASSUME NEW m, NEW since
    PROVE  /\ MapFallbackMonitorEvent(m, since) \in Seq(ToSet(MapFallbackMonitorEvent(m, since)))
           /\ \A e \in ToSet(MapFallbackMonitorEvent(m, since)) : GoodEvent(e)
<1> DEFINE e == Event(<<m.id, StateSeverity[m.state]>>, MonitorService(m),
                      StateSeverity[m.state], m.modified, m.name)
<1>1. CASE m.modified # 0 /\ m.state \in DOMAIN StateSeverity /\ m.modified >= since
  <2>1. MapFallbackMonitorEvent(m, since) = <<e>>
    BY <1>1 DEF MapFallbackMonitorEvent
  <2>2. e.ts = m.modified /\ e.severity = StateSeverity[m.state]
    BY DEF Event
  <2>3. StateSeverity[m.state] \in {"alert", "warning"}
    BY <1>1 DEF StateSeverity
  <2>4. GoodEvent(e)
    BY <1>1, <2>2, <2>3, Severities DEF GoodEvent
  <2> HIDE DEF e
  <2> QED
    BY <2>1, <2>4, OneOrNone
<1>2. CASE ~(m.modified # 0 /\ m.state \in DOMAIN StateSeverity /\ m.modified >= since)
  <2>1. MapFallbackMonitorEvent(m, since) = <<>>
    BY <1>2 DEF MapFallbackMonitorEvent
  <2> QED
    BY <2>1, OneOrNone
<1> QED
  BY <1>1, <1>2

\* The events of a monitor, those of its groups together.
LEMMA MonitorEvents ==
    ASSUME NEW m, m.groups \in Seq(ToSet(m.groups)), NEW since
    PROVE  /\ MapMonitorEvents(m, since) \in Seq(ToSet(MapMonitorEvents(m, since)))
           /\ \A e \in ToSet(MapMonitorEvents(m, since)) : GoodEvent(e)
<1>1. CASE m.groups = <<>>
  BY <1>1, FallbackEvents DEF MapMonitorEvents
<1>2. CASE m.groups # <<>>
  <2> DEFINE n == Len(m.groups)
             ss == [name \in 1..n |-> MapGroupMonitorEvent(m, name, since)]
             D == UNION {ToSet(MapGroupMonitorEvent(m, name, since)) : name \in 1..n}
  <2>1. n \in Nat /\ DOMAIN m.groups = 1..n
    OBVIOUS
  <2>2. MapMonitorEvents(m, since) = FlattenSeq(ss)
    BY <1>2, <2>1 DEF MapMonitorEvents
  <2>3. \A e \in D : GoodEvent(e)
    BY GroupEvents
  <2>4. ss \in Seq(Seq(D)) /\ Len(ss) = n
    <3>1. ASSUME NEW name \in 1..n PROVE ss[name] \in Seq(D)
      <4>1. ss[name] \in Seq(ToSet(ss[name])) /\ ToSet(ss[name]) \subseteq D
        BY GroupEvents
      <4> QED
        BY <4>1
    <3>2. ss = [name \in 1..n |-> ss[name]]
      OBVIOUS
    <3> HIDE DEF D, ss
    <3>3. ss \in [1..n -> Seq(D)]
      BY <3>1, <3>2
    <3> QED
      BY <2>1, <3>3
  <2> HIDE DEF D, ss
  <2>5. /\ FlattenSeq(ss) \in Seq(D)
        /\ ToSet(FlattenSeq(ss)) = UNION {ToSet(ss[i]) : i \in 1..Len(ss)}
    BY <2>4, FlattenElements
  <2>6. ToSet(FlattenSeq(ss)) \subseteq D /\ FlattenSeq(ss) \in Seq(ToSet(FlattenSeq(ss)))
    BY <2>5 DEF ToSet
  <2> QED
    BY <2>2, <2>3, <2>6
<1> QED
  BY <1>1, <1>2

\* An alert event has an event of its own time, or none.
LEMMA ItemEvents ==
    ASSUME NEW item, NEW since
    PROVE  /\ MapEventItem(item, since) \in Seq(ToSet(MapEventItem(item, since)))
           /\ \A e \in ToSet(MapEventItem(item, since)) : GoodEvent(e) /\ e.ts = item.ts
<1> DEFINE e == Event(item.id,
                      FirstGiven(<<item.tagService, item.service, item.queryService>>),
                      ItemSeverity[item.status], item.ts, item.title)
           Passes == /\ item.type = "event" /\ item.monitor
                     /\ item.ts # 0 /\ item.ts >= since
                     /\ item.status \in DOMAIN ItemSeverity
                     /\ RequiredTags \subseteq item.tags
<1>1. CASE Passes
  <2>1. MapEventItem(item, since) = <<e>>
    BY <1>1 DEF MapEventItem
  <2>2. e.ts = item.ts /\ e.severity = ItemSeverity[item.status]
    BY DEF Event
  <2>3. ItemSeverity[item.status] \in {"alert", "warning", "info"}
    BY <1>1 DEF ItemSeverity
  <2>4. GoodEvent(e)
    BY <1>1, <2>2, <2>3, Severities DEF GoodEvent
  <2> HIDE DEF e
  <2> QED
    BY <2>1, <2>2, <2>4, OneOrNone
<1>2. CASE ~Passes
  <2>1. MapEventItem(item, since) = <<>>
    BY <1>2 DEF MapEventItem
  <2> QED
    BY <2>1, OneOrNone
<1> QED
  BY <1>1, <1>2

\* A hit too.
LEMMA HitEvents ==
    ASSUME NEW hit, hit.code \in Nat
    PROVE  /\ MapSearchHit(hit) \in Seq(ToSet(MapSearchHit(hit)))
           /\ \A e \in ToSet(MapSearchHit(hit)) : GoodEvent(e) /\ e.ts = hit.ts
<1> DEFINE e == Event(hit.summary, hit.service, ExtractSeverity(hit), hit.ts, hit.summary)
           Passes == hit.ts # 0 /\ (hit.code >= 400 \/ hit.level \in DOMAIN LevelSeverity)
<1>1. CASE Passes
  <2>1. MapSearchHit(hit) = <<e>>
    BY <1>1 DEF MapSearchHit
  <2>2. e.ts = hit.ts /\ e.severity = ExtractSeverity(hit)
    BY DEF Event
  <2>3. ExtractSeverity(hit) \in {"alert", "warning", "critical"}
    <3>1. CASE hit.code >= 500
      BY <3>1 DEF ExtractSeverity
    <3>2. CASE hit.code \in 400..499
      BY <3>2 DEF ExtractSeverity
    <3>3. CASE ~(hit.code >= 400)
      <4>1. LevelSeverity[hit.level] \in {"alert", "warning", "critical"}
        BY <1>1, <3>3 DEF LevelSeverity
      <4> QED
        BY <3>3, <4>1 DEF ExtractSeverity
    <3> QED
      BY <3>1, <3>2, <3>3
  <2>4. GoodEvent(e)
    BY <1>1, <2>2, <2>3, Severities DEF GoodEvent
  <2> HIDE DEF e
  <2> QED
    BY <2>1, <2>2, <2>4, OneOrNone
<1>2. CASE ~Passes
  <2>1. MapSearchHit(hit) = <<>>
    BY <1>2 DEF MapSearchHit
  <2> QED
    BY <2>1, OneOrNone
<1> QED
  BY <1>1, <1>2

\* An issue has an event of its own time, or of one of its spans.
LEMMA IssueEvent ==
    ASSUME NEW issue, IsIssue(issue), NEW since, NEW searched, IsCandidate(issue, since),
           NEW e \in IssueEvents(issue, searched)
    PROVE  /\ GoodEvent(e)
           /\ e.fingerprint = issue.id /\ e.summary = issue.message
           /\ e.service = IssueService(issue, searched)
           /\ e.ts = ErrorTrackingTimestamp(issue) \/ e.ts \in issue.spans
<1>1. PICK span \in {{}} \cup {{ts} : ts \in issue.spans} : e = MapIssue(issue, searched, span)
  BY DEF IssueEvents
<1> DEFINE ts == IF span = {} THEN ErrorTrackingTimestamp(issue) ELSE Max(span)
<1>2. /\ e.fingerprint = issue.id /\ e.summary = issue.message
      /\ e.service = IssueService(issue, searched)
      /\ e.severity = ErrorTrackingSeverity(issue) /\ e.ts = ts
  BY <1>1 DEF MapIssue, Event
<1>3. ErrorTrackingSeverity(issue) \in {"critical", "warning", "info", "alert"}
  BY DEF ErrorTrackingSeverity
<1>4. /\ ts # 0
      /\ ts = ErrorTrackingTimestamp(issue) \/ ts \in issue.spans
  <2>1. CASE span = {}
    BY <2>1 DEF IsCandidate
  <2>2. CASE span # {}
    <3>1. PICK x \in issue.spans : span = {x}
      BY <1>1, <2>2
    <3>2. x \in Nat \ {0}
      BY <3>1 DEF IsIssue
    <3>3. Max(span) = x
      <4>1. x \in span /\ \A y \in span : x >= y
        BY <3>1, <3>2
      <4> QED
        BY <3>1, <4>1 DEF Max
    <3> QED
      BY <2>2, <3>1, <3>2, <3>3
  <2> QED
    BY <2>1, <2>2
<1> HIDE DEF ts
<1> QED
  BY <1>2, <1>3, <1>4, Severities DEF GoodEvent

\* The first span, if there is one, is a span of the issue.
LEMMA FirstSpanIsOne ==
    ASSUME NEW issue, IsIssue(issue)
    PROVE  FirstSpan(issue) \in {{}} \cup {{ts} : ts \in issue.spans}
<1> DEFINE w == SpanWindow(issue)
           found == {ts \in issue.spans : w.from <= ts /\ ts <= w.to}
<1>1. CASE found = {}
  BY <1>1 DEF FirstSpan
<1>2. CASE found # {}
  <2>1. found \in SUBSET Nat
    BY DEF IsIssue
  <2>2. FirstSpan(issue) = {Min(found)}
    BY <1>2 DEF FirstSpan
  <2>3. found \subseteq issue.spans
    OBVIOUS
  <2> HIDE DEF found
  <2>4. \E x \in found : \A y \in found : x <= y
    BY <1>2, <2>1, LeastNumber
  <2>5. Min(found) \in found
    BY <2>4 DEF Min
  <2> QED
    BY <2>2, <2>3, <2>5
<1> QED
  BY <1>1, <1>2

-----------------------------------------------------------------------------
(* What one search returns.                                                *)

\* The events of a search, each mapped from an item of the answer.
LEMMA FlattenParts ==
    ASSUME NEW ss, NEW n \in Nat, ss = [k \in 1..n |-> ss[k]], NEW D,
           \A k \in 1..n : ss[k] \in Seq(D)
    PROVE  /\ FlattenSeq(ss) \in Seq(D)
           /\ ToSet(FlattenSeq(ss)) = UNION {ToSet(ss[k]) : k \in 1..n}
<1>1. ss \in [1..n -> Seq(D)]
  OBVIOUS
<1>2. ss \in Seq(Seq(D)) /\ Len(ss) = n
  BY <1>1
<1> QED
  BY <1>2, FlattenElements

\* What a page has of a sequence.
LEMMA PageElements ==
    ASSUME NEW D, NEW s \in Seq(D)
    PROVE  /\ FirstPage(s) \in Seq(D)
           /\ ToSet(FirstPage(s)) \subseteq ToSet(s)
           /\ \A k \in 1..Len(s) : k <= Page => s[k] \in ToSet(FirstPage(s))
<1> DEFINE n == AtMost(Page, Len(s))
           t == FirstPage(s)
<1>1. n \in Nat /\ n <= Len(s) /\ \A k \in 1..Len(s) : k <= Page => k \in 1..n
  BY PageAssumption DEF AtMost
<1>2. t = SubSeq(s, 1, n)
  BY DEF FirstPage
<1> HIDE DEF n, t
<1>3. t \in Seq(D) /\ Len(t) = n /\ \A k \in 1..n : t[k] = s[k]
  BY <1>1, <1>2
<1>4. \A k \in 1..n : k \in DOMAIN s /\ k \in DOMAIN t
  BY <1>1, <1>3
<1>5. ToSet(t) \subseteq ToSet(s)
  BY <1>3, <1>4 DEF ToSet
<1>6. \A k \in 1..Len(s) : k <= Page => s[k] \in ToSet(t)
  <2>1. ASSUME NEW k \in 1..Len(s), k <= Page PROVE s[k] \in ToSet(t)
    <3>1. k \in 1..n
      BY <1>1, <2>1
    <3>2. s[k] = t[k] /\ k \in DOMAIN t
      BY <1>3, <1>4, <3>1
    <3> QED
      BY <3>2 DEF ToSet
  <2> QED
    BY <2>1
<1> QED
  BY <1>3, <1>5, <1>6 DEF t

\* A page of items in the order of a key.
LEMMA SortedPage ==
    ASSUME NEW D, NEW s \in Seq(D), NEW keys \in [1..Len(s) -> Int]
    PROVE  /\ FirstPage(SortedBy(s, keys)) \in Seq(D)
           /\ ToSet(FirstPage(SortedBy(s, keys))) \subseteq ToSet(s)
           /\ \A k \in 1..Len(s) :
                  Place(keys, k) <= Page => s[k] \in ToSet(FirstPage(SortedBy(s, keys)))
<1> DEFINE t == SortedBy(s, keys)
<1>1. /\ t \in Seq(D) /\ Len(t) = Len(s) /\ ToSet(t) = ToSet(s)
      /\ \A k \in 1..Len(s) : Place(keys, k) \in 1..Len(s) /\ t[Place(keys, k)] = s[k]
  BY SortedElements
<1> HIDE DEF t
<1>2. /\ FirstPage(t) \in Seq(D) /\ ToSet(FirstPage(t)) \subseteq ToSet(t)
      /\ \A k \in 1..Len(t) : k <= Page => t[k] \in ToSet(FirstPage(t))
  BY <1>1, PageElements
<1>3. ASSUME NEW k \in 1..Len(s), Place(keys, k) <= Page PROVE s[k] \in ToSet(FirstPage(t))
  <2>1. Place(keys, k) \in 1..Len(t) /\ t[Place(keys, k)] = s[k]
    BY <1>1
  <2> QED
    BY <1>2, <1>3, <2>1
<1> QED
  BY <1>1, <1>2, <1>3 DEF t

\* The place of an item among items chosen out of s by g: after no more items
\* than there are that come no later.
LEMMA PlaceAmong ==
    ASSUME NEW n \in Nat, NEW keys \in [1..n -> Int], NEW i \in 1..n,
           NEW Others, IsFiniteSet(Others), NEW g, 
           \A j \in 1..n : j # i /\ keys[j] <= keys[i] => g[j] \in Others,
           \A j, k \in 1..n : g[j] = g[k] => j = k
    PROVE  /\ Place(keys, i) \in Nat /\ Cardinality(Others) \in Nat
           /\ Place(keys, i) <= Cardinality(Others) + 1
<1> DEFINE B == {j \in 1..n : keys[j] < keys[i] \/ (keys[j] = keys[i] /\ j <= i)}
           C == B \ {i}
<1>1. Place(keys, i) = Cardinality(B) /\ i \in B
  BY DEF Place
<1>2. IsFiniteSet(1..n)
  BY FS_Interval
<1>3. IsFiniteSet(B) /\ IsFiniteSet(C)
  BY <1>2, FS_Subset
<1>4. \A j \in C : j \in 1..n /\ j # i /\ keys[j] <= keys[i]
  OBVIOUS
<1> HIDE DEF B
<1>5. Cardinality(B) = Cardinality(C) + 1 /\ Cardinality(C) \in Nat
  BY <1>1, <1>3, FS_RemoveElement, FS_CardinalityType
<1> HIDE DEF C
<1>6. Cardinality({g[j] : j \in C}) = Cardinality(C)
  <2>1. \A j \in C : \A k \in C : g[j] = g[k] => j = k
    BY <1>4
  <2> QED
    BY <1>3, <2>1, InjectiveImage
<1>7. {g[j] : j \in C} \in SUBSET Others
  BY <1>4
<1>8. Cardinality({g[j] : j \in C}) <= Cardinality(Others)
  <2> DEFINE T == {g[j] : j \in C}
  <2> HIDE DEF T
  <2> SUFFICES ASSUME T \in SUBSET Others PROVE Cardinality(T) <= Cardinality(Others)
    BY <1>7 DEF T
  <2> QED
    BY FS_Subset
<1>9. Cardinality(Others) \in Nat
  BY FS_CardinalityType
<1> QED
  BY <1>1, <1>5, <1>6, <1>8, <1>9

-----------------------------------------------------------------------------
(* The URLs.                                                               *)

\* The first element, if it passes, is the first of those that pass.
LEMMA AmongFirst ==
    ASSUME NEW D, NEW s \in Seq(D), s # <<>>, NEW S, s[1] \in S
    PROVE  Len(Among(s, S)) >= 1 /\ Among(s, S)[1] = s[1]
<1> DEFINE a == Among(s, S)
<1>1. a \in Seq(D) /\ \E g : Selects(g, s, S, Len(s), a)
  BY AmongSelects
<1> HIDE DEF a
<1>2. PICK g : Selects(g, s, S, Len(s), a)
  BY <1>1
<1>3. Len(s) \in Nat /\ Len(a) \in Nat /\ 1 \in 1..Len(s)
  BY <1>1
<1>4. PICK i \in 1..Len(a) : g[i] = 1
  BY <1>2, <1>3 DEF Selects
<1>5. 1 \in 1..Len(a) /\ g[1] \in 1..Len(s)
  BY <1>2, <1>3, <1>4 DEF Selects
<1>6. g[1] = 1
  <2>1. ~(1 < i)
    BY <1>2, <1>3, <1>4, <1>5 DEF Selects
  <2> QED
    BY <1>3, <1>4, <2>1
<1>7. a[1] = s[1]
  BY <1>2, <1>5, <1>6 DEF Selects
<1> QED
  BY <1>3, <1>5, <1>7 DEF a

\* A sequence is one of its elements.
LEMMA OwnElements ==
    ASSUME NEW D, NEW s \in Seq(D)
    PROVE  s \in Seq(ToSet(s))
<1>1. s = [i \in 1..Len(s) |-> s[i]] /\ Len(s) \in Nat /\ DOMAIN s = 1..Len(s)
  OBVIOUS
<1>2. \A i \in 1..Len(s) : s[i] \in ToSet(s)
  BY <1>1 DEF ToSet
<1> QED
  BY <1>1, <1>2

\* The URLs a provider tries: at least one, all of them hosts, the one that the
\* startup check probes first, and for Datadog all the defaults.
LEMMA URLsTried ==
    ASSUME NEW p
    PROVE  /\ URLsOf(p) \in Seq(ToSet(URLsOf(p)))
           /\ Len(URLsOf(p)) \in Nat \ {0}
           /\ ToSet(URLsOf(p)) \subseteq Hosts
           /\ p # "logs" => ToSet(DefaultURLs) \subseteq ToSet(URLsOf(p))
           /\ p # "errors" => \E probe \in StartupProbes(p) : probe.host = URLsOf(p)[1]
<1>1. ASSUME NEW c
      PROVE  /\ BaseURLs(c) \in Seq(ToSet(BaseURLs(c)))
             /\ Len(BaseURLs(c)) \in Nat \ {0}
             /\ ToSet(DefaultURLs) \subseteq ToSet(BaseURLs(c))
             /\ BaseURLs(c)[1] = IF c = NoURL THEN DefaultURLs[1] ELSE c
  <2> DEFINE D == ToSet(DefaultURLs) \cup {c}
             a == Among(DefaultURLs, ToSet(DefaultURLs) \ {c})
             first == IF c = NoURL THEN <<>> ELSE <<c>>
  <2>1. DefaultURLs \in Seq(D) /\ 1 \in DOMAIN DefaultURLs
    BY URLAssumption
  <2>2. a \in Seq(D) /\ ToSet(a) = ToSet(DefaultURLs) \cap (ToSet(DefaultURLs) \ {c})
    <3> HIDE DEF D
    <3> QED
      BY <2>1, AmongElements
  <2>3. c = NoURL => Len(a) >= 1 /\ a[1] = DefaultURLs[1]
    <3>1. DefaultURLs[1] \in ToSet(DefaultURLs) /\ NoURL \notin ToSet(DefaultURLs)
      BY <2>1, URLAssumption DEF ToSet
    <3> HIDE DEF D
    <3> QED
      BY <2>1, <3>1, AmongFirst, URLAssumption
  <2>4. first \in Seq(D) /\ ToSet(first) = IF c = NoURL THEN {} ELSE {c}
    <3>1. <<c>> \in Seq(D) /\ ToSet(<<c>>) = {c} /\ <<>> \in Seq(D) /\ ToSet(<<>>) = {}
      BY OneOrNone DEF ToSet
    <3> QED
      BY <3>1
  <2> HIDE DEF a, first, D
  <2>5. BaseURLs(c) = first \o a
    BY DEF BaseURLs, a, first
  <2>6. ToSet(first \o a) = ToSet(first) \cup ToSet(a) /\ first \o a \in Seq(D)
    BY <2>2, <2>4, ConcatElements
  <2>7. first \o a \in Seq(ToSet(first \o a))
    BY <2>6, OwnElements
  <2>8. ToSet(DefaultURLs) \subseteq ToSet(first \o a)
    BY <2>2, <2>4, <2>6, URLAssumption
  <2>9. Len(first \o a) \in Nat \ {0}
        /\ (first \o a)[1] = IF c = NoURL THEN DefaultURLs[1] ELSE c
    <3>1. CASE c = NoURL
      <4>1. first = <<>>
        BY <3>1 DEF first
      <4> QED
        BY <2>2, <2>3, <3>1, <4>1
    <3>2. CASE c # NoURL
      <4>1. first = <<c>>
        BY <3>2 DEF first
      <4> QED
        BY <2>2, <3>2, <4>1
    <3> QED
      BY <3>1, <3>2
  <2> QED
    BY <2>5, <2>7, <2>8, <2>9
<1>2. ASSUME NEW c \in {DatadogURL, ErrorTrackingURL} PROVE ToSet(BaseURLs(c)) \subseteq Hosts
  <2>1. /\ URLsOf("monitors") = BaseURLs(DatadogURL)
        /\ URLsOf("errors") = BaseURLs(ErrorTrackingURL)
    BY DEF URLsOf
  <2> QED
    BY <2>1 DEF Hosts
<1>3. CASE p = "logs"
  <2>1. URLsOf(p) = <<ElasticURL>> /\ URLsOf("logs") = <<ElasticURL>>
    BY <1>3 DEF URLsOf
  <2>2. ToSet(<<ElasticURL>>) \subseteq Hosts
    BY <2>1 DEF Hosts
  <2>3. /\ <<ElasticURL>> \in Seq(ToSet(<<ElasticURL>>))
        /\ Len(<<ElasticURL>>) = 1 /\ <<ElasticURL>>[1] = ElasticURL
    BY DEF ToSet
  <2>4. \E probe \in StartupProbes(p) : probe.host = ElasticURL
    <3>1. [host |-> ElasticURL, endpoint |-> "health"] \in StartupProbes(p)
      BY <1>3 DEF StartupProbes
    <3> QED
      BY <3>1
  <2> DEFINE urls == <<ElasticURL>>
  <2> HIDE DEF urls
  <2> SUFFICES /\ urls \in Seq(ToSet(urls)) /\ Len(urls) \in Nat \ {0}
               /\ ToSet(urls) \subseteq Hosts
               /\ \E probe \in StartupProbes(p) : probe.host = urls[1]
    BY <1>3, <2>1 DEF urls
  <2> QED
    BY <2>2, <2>3, <2>4 DEF urls
<1>4. CASE p = "errors"
  <2>1. URLsOf(p) = BaseURLs(ErrorTrackingURL)
    BY <1>4 DEF URLsOf
  <2> QED
    BY <1>1, <1>2, <1>4, <2>1
<1>5. CASE p \notin {"logs", "errors"}
  <2>1. URLsOf(p) = BaseURLs(DatadogURL)
    BY <1>5 DEF URLsOf
  <2>2. \E probe \in StartupProbes(p) :
            probe.host = IF DatadogURL = NoURL THEN DefaultURLs[1] ELSE DatadogURL
    BY <1>5 DEF StartupProbes
  <2> QED
    BY <1>1, <1>2, <1>5, <2>1, <2>2
<1> QED
  BY <1>3, <1>4, <1>5

-----------------------------------------------------------------------------
(* The inductive invariant.                                                *)

Mapped == MappedOf(provider, held, query, Searched)

\* The events of the one search of the monitors, the alert events or the logs.
Answer ==
    CASE provider = "monitors" ->
             FlattenSeq([k \in DOMAIN held |-> MapMonitorEvents(held[k], query.since)])
      [] provider = "events" ->
             FlattenSeq([k \in DOMAIN FoundEvents |-> MapEventItem(FoundEvents[k], query.since)])
      [] provider = "logs" ->
             FlattenSeq([k \in DOMAIN FoundHits |-> MapSearchHit(FoundHits[k])])
      [] OTHER -> <<>>

\* An issue of the answer that must not go without an event.
Due(issue) ==
    /\ issue.result /\ IsCandidate(issue, query.since)
    /\ issue.included \/ \A host \in Hosts : behaviour[host] = "serves"

InputOK ==
    /\ provider \in Providers /\ query \in Queries
    /\ held \in Held[provider] /\ behaviour \in Behaviours

TaskTyped(tk) ==
    /\ tk \in [step : {"search", "item", "details", "span", "done", "failed"},
               url : 1..Len(URLsOf(provider)), found : Seq(ToSet(held)),
               at : Nat \ {0}, events : Seq(Mapped)]
    /\ tk.at <= Len(tk.found) + 1

\* Every host that the goroutine left behind refused it; it fails at one that
\* fails, or at the last one.
HostsTried(tk) ==
    LET urls == URLsOf(provider)
    IN  /\ \A i \in 1..(tk.url - 1) : behaviour[urls[i]] \in {"refuses", "flaky"}
        /\ tk.step = "failed" =>
               \/ behaviour[urls[tk.url]] \in {"fails", "flaky"}
               \/ behaviour[urls[tk.url]] = "refuses" /\ tk.url = Len(urls)

\* One search without items has its answer at once.
SingleOK(tk) ==
    provider # "errors" =>
        /\ tk.step \in {"search", "done", "failed"} /\ tk.found = <<>>
        /\ tk.step = "done" => tk.events = Answer

\* No item of the answer that is due goes without an event.
ItemsOK(t, tk) ==
    provider = "errors" =>
        /\ tk.step \notin {"search", "failed"} => tk.found = FoundIssues(t)
        /\ tk.step \in {"details", "span"} =>
               tk.at \in 1..Len(tk.found) /\ Item(tk).result
        /\ tk.step = "details" => ~Item(tk).included
        /\ tk.step = "span" => IsCandidate(Item(tk), query.since)
        /\ tk.step = "done" => tk.at = Len(tk.found) + 1
        /\ \A k \in 1..(tk.at - 1) :
               Due(tk.found[k]) => \E e \in ToSet(tk.events) : e.fingerprint = tk.found[k].id

\* Before its answer a goroutine has nothing.
SearchOK(tk) == tk.step \in {"search", "failed"} => tk.at = 1 /\ tk.found = <<>> /\ tk.events = <<>>

TaskOK(t, tk) ==
    /\ TaskTyped(tk) /\ HostsTried(tk) /\ SearchOK(tk)
    /\ SingleOK(tk) /\ ItemsOK(t, tk)

\* The call has its result when every goroutine has ended.
ResultOK ==
    \/ result = [status |-> "calling", signals |-> <<>>]
    \/ /\ \A t \in DOMAIN task : task[t].step \in {"done", "failed"}
       /\ \/ /\ result = [status |-> "failed", signals |-> <<>>]
             /\ provider # "errors" /\ task["single"].step = "failed"
          \/ /\ result = [status |-> "ok", signals |-> Signals]
             /\ provider # "errors" => task["single"].step = "done"

CallOK ==
    /\ InputOK
    /\ task = [t \in TasksOf(provider) |-> task[t]]
    /\ \A t \in TasksOf(provider) : TaskOK(t, task[t])
    /\ ResultOK

-----------------------------------------------------------------------------
(* What a provider is given, and what it may find.                         *)

\* HeldAssumption, about the state.
LEMMA InputFacts ==
    ASSUME InputOK
    PROVE  /\ held \in Seq(ToSet(held))
           /\ query.services \in Seq(ToSet(query.services))
           /\ query.since \in Nat \ {0} /\ query.until \in Nat
           /\ provider \in {"events", "logs"} => \A item \in ToSet(held) : item.ts \in Nat
           /\ provider = "logs" => \A hit \in ToSet(held) : hit.code \in Nat
           /\ provider = "monitors" => \A m \in ToSet(held) : m.groups \in Seq(ToSet(m.groups))
           /\ provider = "errors" => /\ \A issue \in ToSet(held) : IsIssue(issue)
                                     /\ \A a, b \in ToSet(held) : a.id = b.id => a = b
  BY HeldAssumption, QueriesAssumption DEF InputOK

LEMMA FoundIssuesAre ==
    ASSUME InputOK, NEW t
    PROVE  /\ FoundIssues(t) \in Seq(ToSet(held))
           /\ ToSet(FoundIssues(t)) = {issue \in ToSet(held) :
                  /\ t \in issue.tracks
                  /\ issue.lastSeen = 0 \/ issue.lastSeen >= query.since
                  /\ issue.firstSeen <= Now
                  /\ \/ IsBlank(Searched) \/ IsBlank(issue.service)
                     \/ Canonical(issue.service) = Canonical(Searched)}
<1> DEFINE S == {issue \in ToSet(held) :
                  /\ t \in issue.tracks
                  /\ issue.lastSeen = 0 \/ issue.lastSeen >= query.since
                  /\ issue.firstSeen <= Now
                  /\ \/ IsBlank(Searched) \/ IsBlank(issue.service)
                     \/ Canonical(issue.service) = Canonical(Searched)}
<1>1. FoundIssues(t) = Among(held, S) /\ S \in SUBSET ToSet(held)
  BY DEF FoundIssues
<1>2. held \in Seq(ToSet(held))
  BY InputFacts
<1> HIDE DEF S
<1>3. Among(held, S) \in Seq(ToSet(held)) /\ ToSet(Among(held, S)) = ToSet(held) \cap S
  BY <1>2, AmongElements
<1>4. FoundIssues(t) \in Seq(ToSet(held)) /\ ToSet(FoundIssues(t)) = S
  BY <1>1, <1>3
<1> QED
  BY <1>4 DEF S

\* The keys of a sort by time.
LEMMA FoundPages ==
    ASSUME InputOK
    PROVE  /\ provider = "events" =>
                  FoundEvents \in Seq(ToSet(held)) /\ ToSet(FoundEvents) \subseteq ToSet(held)
           /\ provider = "logs" =>
                  FoundHits \in Seq(ToSet(held)) /\ ToSet(FoundHits) \subseteq ToSet(held)
<1>1. held \in Seq(ToSet(held))
  BY InputFacts
<1>2. ASSUME NEW S, \A item \in ToSet(held) : item.ts \in Nat
      PROVE  /\ FirstOldest(Among(held, S)) \in Seq(ToSet(held))
             /\ ToSet(FirstOldest(Among(held, S))) \subseteq ToSet(held)
             /\ FirstNewest(Among(held, S)) \in Seq(ToSet(held))
             /\ ToSet(FirstNewest(Among(held, S))) \subseteq ToSet(held)
  <2> DEFINE a == Among(held, S)
             up == [k \in DOMAIN a |-> a[k].ts]
             down == [k \in DOMAIN a |-> -a[k].ts]
  <2>1. a \in Seq(ToSet(held)) /\ ToSet(a) = ToSet(held) \cap S
    BY <1>1, AmongElements
  <2> HIDE DEF a
  <2>2. \A k \in 1..Len(a) : a[k].ts \in Int /\ -a[k].ts \in Int
    BY <1>2, <2>1
  <2>3. up \in [1..Len(a) -> Int] /\ down \in [1..Len(a) -> Int]
    BY <2>1, <2>2
  <2>4. /\ FirstOldest(a) = FirstPage(SortedBy(a, up))
        /\ FirstNewest(a) = FirstPage(SortedBy(a, down))
    BY DEF FirstOldest, FirstNewest
  <2> HIDE DEF up, down
  <2>5. /\ FirstPage(SortedBy(a, up)) \in Seq(ToSet(held))
        /\ ToSet(FirstPage(SortedBy(a, up))) \subseteq ToSet(a)
        /\ FirstPage(SortedBy(a, down)) \in Seq(ToSet(held))
        /\ ToSet(FirstPage(SortedBy(a, down))) \subseteq ToSet(a)
    BY <2>1, <2>3, SortedPage
  <2>6. ToSet(a) \subseteq ToSet(held)
    BY <2>1
  <2> QED
    BY <2>4, <2>5, <2>6 DEF a
<1>3. ASSUME provider = "events"
      PROVE  FoundEvents \in Seq(ToSet(held)) /\ ToSet(FoundEvents) \subseteq ToSet(held)
  <2>1. \A item \in ToSet(held) : item.ts \in Nat
    BY <1>3, InputFacts
  <2> QED
    BY <1>2, <2>1 DEF FoundEvents
<1>4. ASSUME provider = "logs"
      PROVE  FoundHits \in Seq(ToSet(held)) /\ ToSet(FoundHits) \subseteq ToSet(held)
  <2>1. \A item \in ToSet(held) : item.ts \in Nat
    BY <1>4, InputFacts
  <2> QED
    BY <1>2, <2>1 DEF FoundHits
<1> QED
  BY <1>3, <1>4

\* What the items are mapped to are events with a time and a severity.
LEMMA MappedEvents ==
    ASSUME InputOK
    PROVE  \A e \in Mapped : GoodEvent(e)
<1>1. CASE provider = "monitors"
  <2>1. Mapped = UNION {ToSet(MapMonitorEvents(m, query.since)) : m \in ToSet(held)}
    BY <1>1 DEF Mapped, MappedOf
  <2> QED
    BY <1>1, <2>1, InputFacts, MonitorEvents
<1>2. CASE provider = "events"
  <2>1. Mapped = UNION {ToSet(MapEventItem(item, query.since)) : item \in ToSet(held)}
    BY <1>2 DEF Mapped, MappedOf
  <2> QED
    BY <2>1, ItemEvents
<1>3. CASE provider = "logs"
  <2>1. Mapped = UNION {ToSet(MapSearchHit(hit)) : hit \in ToSet(held)}
    BY <1>3 DEF Mapped, MappedOf
  <2> QED
    BY <1>3, <2>1, InputFacts, HitEvents
<1>4. CASE provider = "errors"
  <2>1. Mapped = UNION {IssueEvents(issue, Searched) :
                        issue \in {i \in ToSet(held) : IsCandidate(i, query.since)}}
    BY <1>4 DEF Mapped, MappedOf
  <2> QED
    BY <1>4, <2>1, InputFacts, IssueEvent
<1>5. CASE provider \notin {"monitors", "events", "logs", "errors"}
  BY <1>5 DEF Mapped, MappedOf
<1> QED
  BY <1>1, <1>2, <1>3, <1>4, <1>5

\* The answer to a search without items, as a sequence.
LEMMA AnswerParts ==
    ASSUME InputOK, NEW s \in Seq(ToSet(held)), NEW ss, ss = [k \in DOMAIN s |-> ss[k]],
           \A k \in DOMAIN s : ss[k] \in Seq(ToSet(ss[k])) /\ ToSet(ss[k]) \subseteq Mapped
    PROVE  /\ FlattenSeq(ss) \in Seq(Mapped)
           /\ ToSet(FlattenSeq(ss)) = UNION {ToSet(ss[k]) : k \in DOMAIN s}
<1> DEFINE n == Len(s)
<1>1. n \in Nat /\ DOMAIN s = 1..n
  OBVIOUS
<1>2. \A k \in 1..n : ss[k] \in Seq(Mapped)
  BY <1>1
<1> HIDE DEF n
<1> QED
  BY <1>1, <1>2, FlattenParts

LEMMA AnswerIsMapped ==
    ASSUME InputOK, provider \in {"monitors", "events", "logs"}
    PROVE  Answer \in Seq(Mapped)
<1>1. CASE provider = "monitors"
  <2> DEFINE ss == [k \in DOMAIN held |-> MapMonitorEvents(held[k], query.since)]
  <2>1. Answer = FlattenSeq(ss)
    BY <1>1 DEF Answer
  <2>2. ASSUME NEW k \in DOMAIN held
        PROVE  ss[k] \in Seq(ToSet(ss[k])) /\ ToSet(ss[k]) \subseteq Mapped
    <3>1. held[k] \in ToSet(held) /\ ss[k] = MapMonitorEvents(held[k], query.since)
      BY DEF ToSet
    <3>2. held[k].groups \in Seq(ToSet(held[k].groups))
      BY <1>1, <3>1, InputFacts
    <3>3. ss[k] \in Seq(ToSet(ss[k]))
      BY <3>1, <3>2, MonitorEvents
    <3>4. Mapped = UNION {ToSet(MapMonitorEvents(m, query.since)) : m \in ToSet(held)}
      BY <1>1 DEF Mapped, MappedOf
    <3> QED
      BY <3>1, <3>3, <3>4
  <2>3. held \in Seq(ToSet(held)) /\ ss = [k \in DOMAIN held |-> ss[k]]
    BY InputFacts
  <2> HIDE DEF ss
  <2> QED
    BY <2>1, <2>2, <2>3, AnswerParts
<1>2. CASE provider = "events"
  <2> DEFINE ss == [k \in DOMAIN FoundEvents |-> MapEventItem(FoundEvents[k], query.since)]
  <2>1. Answer = FlattenSeq(ss)
    BY <1>2 DEF Answer
  <2>2. ASSUME NEW k \in DOMAIN FoundEvents
        PROVE  ss[k] \in Seq(ToSet(ss[k])) /\ ToSet(ss[k]) \subseteq Mapped
    <3>1. FoundEvents[k] \in ToSet(held)
      BY <1>2, FoundPages DEF ToSet
    <3>2. ss[k] \in Seq(ToSet(ss[k])) /\ ss[k] = MapEventItem(FoundEvents[k], query.since)
      BY ItemEvents
    <3>3. Mapped = UNION {ToSet(MapEventItem(item, query.since)) : item \in ToSet(held)}
      BY <1>2 DEF Mapped, MappedOf
    <3> QED
      BY <3>1, <3>2, <3>3
  <2>3. FoundEvents \in Seq(ToSet(held)) /\ ss = [k \in DOMAIN FoundEvents |-> ss[k]]
    BY <1>2, FoundPages
  <2> HIDE DEF ss
  <2> QED
    BY <2>1, <2>2, <2>3, AnswerParts
<1>3. CASE provider = "logs"
  <2> DEFINE ss == [k \in DOMAIN FoundHits |-> MapSearchHit(FoundHits[k])]
  <2>1. Answer = FlattenSeq(ss)
    BY <1>3 DEF Answer
  <2>2. ASSUME NEW k \in DOMAIN FoundHits
        PROVE  ss[k] \in Seq(ToSet(ss[k])) /\ ToSet(ss[k]) \subseteq Mapped
    <3>1. FoundHits[k] \in ToSet(held) /\ ss[k] = MapSearchHit(FoundHits[k])
      BY <1>3, FoundPages DEF ToSet
    <3>2. FoundHits[k].code \in Nat
      BY <1>3, <3>1, InputFacts
    <3>3. ss[k] \in Seq(ToSet(ss[k]))
      BY <3>1, <3>2, HitEvents
    <3>4. Mapped = UNION {ToSet(MapSearchHit(hit)) : hit \in ToSet(held)}
      BY <1>3 DEF Mapped, MappedOf
    <3> QED
      BY <3>1, <3>3, <3>4
  <2>3. FoundHits \in Seq(ToSet(held)) /\ ss = [k \in DOMAIN FoundHits |-> ss[k]]
    BY <1>3, FoundPages
  <2> HIDE DEF ss
  <2> QED
    BY <2>1, <2>2, <2>3, AnswerParts
<1> QED
  BY <1>1, <1>2, <1>3

-----------------------------------------------------------------------------
(* What an action leaves alone.                                            *)

\* While the call and what the system holds stay the same, so do the answers.
LEMMA Frozen ==
    ASSUME UNCHANGED <<provider, query, held, behaviour>>, InputOK
    PROVE  /\ InputOK' /\ Mapped' = Mapped /\ Answer' = Answer /\ Searched' = Searched
           /\ \A t : FoundIssues(t)' = FoundIssues(t)
           /\ \A t, tk : TaskOK(t, tk) => TaskOK(t, tk)'
<1>1. InputOK' /\ Searched' = Searched
  BY DEF InputOK, Searched
<1>2. Mapped' = Mapped
  BY <1>1 DEF Mapped
<1>3. FoundEvents' = FoundEvents /\ FoundHits' = FoundHits
  BY DEF FoundEvents, FoundHits
<1>4. Answer' = Answer
  BY <1>3 DEF Answer
<1>5. ASSUME NEW t PROVE FoundIssues(t)' = FoundIssues(t)
  BY <1>1 DEF FoundIssues
<1>6. ASSUME NEW t, NEW tk, TaskOK(t, tk) PROVE TaskOK(t, tk)'
  <2>1. TaskTyped(tk)'
    BY <1>2, <1>6 DEF TaskOK, TaskTyped
  <2>2. HostsTried(tk)' /\ SearchOK(tk)'
    BY <1>6 DEF TaskOK, HostsTried, SearchOK
  <2>3. SingleOK(tk)'
    BY <1>4, <1>6 DEF TaskOK, SingleOK
  <2>4. \A issue : Due(issue)' <=> Due(issue)
    BY DEF Due
  <2>5. ItemsOK(t, tk)'
    BY <1>5, <1>6, <2>4 DEF TaskOK, ItemsOK
  <2> QED
    BY <2>1, <2>2, <2>3, <2>5 DEF TaskOK
<1> QED
  BY <1>1, <1>2, <1>4, <1>5, <1>6

-----------------------------------------------------------------------------
(* The steps of a goroutine.                                               *)

Task(step, url, found, at, events) ==
    [step |-> step, url |-> url, found |-> found, at |-> at, events |-> events]

\* What becomes of the state of a goroutine, field by field.
LEMMA TaskUpdates ==
    ASSUME NEW tk, tk = Task(tk.step, tk.url, tk.found, tk.at, tk.events), NEW x, NEW y
    PROVE  /\ NextItem(tk, x) = Task("item", tk.url, tk.found, tk.at + 1, tk.events \o x)
           /\ Done(tk, x) = Task("done", tk.url, tk.found, tk.at, x)
           /\ Ask(tk, x) = Task(x, 1, tk.found, tk.at, tk.events)
           /\ [tk EXCEPT !.url = @ + 1] = Task(tk.step, tk.url + 1, tk.found, tk.at, tk.events)
           /\ [tk EXCEPT !.step = "failed"] = Task("failed", tk.url, tk.found, tk.at, tk.events)
           /\ [tk EXCEPT !.step = "item", !.found = x] = Task("item", tk.url, x, tk.at, tk.events)
<1> DEFINE a == [tk EXCEPT !.step = x]
           b == [tk EXCEPT !.step = "item"]
           d == [tk EXCEPT !.step = "done"]
           c == [b EXCEPT !.at = @ + 1]
<1>1. /\ a = Task(x, tk.url, tk.found, tk.at, tk.events)
      /\ b = Task("item", tk.url, tk.found, tk.at, tk.events)
      /\ d = Task("done", tk.url, tk.found, tk.at, tk.events)
  BY DEF Task
<1>2. /\ NextItem(tk, x) = [c EXCEPT !.events = @ \o x]
      /\ Done(tk, x) = [d EXCEPT !.events = x]
      /\ Ask(tk, x) = [a EXCEPT !.url = 1]
      /\ [tk EXCEPT !.step = "item", !.found = x] = [b EXCEPT !.found = x]
  BY DEF NextItem, Done, Ask
<1> HIDE DEF a, b, d
<1>3. c = Task("item", tk.url, tk.found, tk.at + 1, tk.events)
  BY <1>1 DEF Task
<1> HIDE DEF c
<1>4. [c EXCEPT !.events = @ \o x] = Task("item", tk.url, tk.found, tk.at + 1, tk.events \o x)
  BY <1>3 DEF Task
<1>5. [d EXCEPT !.events = x] = Task("done", tk.url, tk.found, tk.at, x)
  BY <1>1 DEF Task
<1>6. [a EXCEPT !.url = 1] = Task(x, 1, tk.found, tk.at, tk.events)
  BY <1>1 DEF Task
<1>7. [b EXCEPT !.found = x] = Task("item", tk.url, x, tk.at, tk.events)
  BY <1>1 DEF Task
<1>8. /\ [tk EXCEPT !.url = @ + 1] = Task(tk.step, tk.url + 1, tk.found, tk.at, tk.events)
      /\ [tk EXCEPT !.step = "failed"] = Task("failed", tk.url, tk.found, tk.at, tk.events)
  BY DEF Task
<1> QED
  BY <1>2, <1>4, <1>5, <1>6, <1>7, <1>8

\* A step to a state that keeps the invariant of the goroutine keeps all of it.
LEMMA BecomesKeeps ==
    ASSUME CallOK, NEW t \in TasksOf(provider), task[t].step \notin {"done", "failed"},
           NEW new, Becomes(t, new), TaskOK(t, new)
    PROVE  CallOK'
<1>1. /\ UNCHANGED <<provider, query, held, behaviour, result>>
      /\ task' = [task EXCEPT ![t] = new]
  BY DEF Becomes
<1>2. InputOK /\ task = [u \in TasksOf(provider) |-> task[u]]
  BY DEF CallOK
<1>3. task' = [u \in TasksOf(provider) |-> IF u = t THEN new ELSE task[u]]
  BY <1>1, <1>2
<1>4. InputOK' /\ \A u, tk : TaskOK(u, tk) => TaskOK(u, tk)'
  BY <1>1, <1>2, Frozen
<1>5. TasksOf(provider)' = TasksOf(provider)
  BY <1>1
<1>6. \A u \in TasksOf(provider) : TaskOK(u, task'[u])
  BY <1>3 DEF CallOK
<1>7. \A u \in TasksOf(provider)' : TaskOK(u, task[u])'
  BY <1>4, <1>5, <1>6
<1>8. (task = [u \in TasksOf(provider) |-> task[u]])'
  BY <1>3, <1>5
<1>9. ResultOK'
  <2>1. t \in DOMAIN task
    BY <1>2
  <2>2. result = [status |-> "calling", signals |-> <<>>]
    BY <2>1 DEF CallOK, ResultOK
  <2> QED
    BY <1>1, <2>2 DEF ResultOK
<1> QED
  BY <1>4, <1>7, <1>8, <1>9 DEF CallOK

\* The state of a goroutine, in the terms the steps need.
LEMMA TaskFacts ==
    ASSUME InputOK, NEW t, NEW tk, TaskOK(t, tk)
    PROVE  /\ tk = Task(tk.step, tk.url, tk.found, tk.at, tk.events)
           /\ tk.step \in {"search", "item", "details", "span", "done", "failed"}
           /\ tk.url \in 1..Len(URLsOf(provider)) /\ Len(URLsOf(provider)) \in Nat \ {0}
           /\ tk.found \in Seq(ToSet(held)) /\ tk.at \in Nat \ {0}
           /\ tk.at <= Len(tk.found) + 1 /\ tk.events \in Seq(Mapped)
           /\ \A k \in 1..Len(tk.found) : tk.found[k] \in ToSet(held)
<1>1. Len(URLsOf(provider)) \in Nat \ {0}
  BY URLsTried
<1>2. /\ tk = Task(tk.step, tk.url, tk.found, tk.at, tk.events)
      /\ tk.step \in {"search", "item", "details", "span", "done", "failed"}
      /\ tk.url \in 1..Len(URLsOf(provider))
      /\ tk.found \in Seq(ToSet(held)) /\ tk.at \in Nat \ {0}
      /\ tk.at <= Len(tk.found) + 1 /\ tk.events \in Seq(Mapped)
  BY DEF TaskOK, TaskTyped, Task
<1>3. \A k \in 1..Len(tk.found) : tk.found[k] \in ToSet(held)
  BY <1>2
<1> QED
  BY <1>1, <1>2, <1>3

\* The fields of Task, for the invariant of a state written with it.
LEMMA TaskIsOK ==
    ASSUME NEW t, NEW step, NEW url, NEW found, NEW at, NEW events,
           step \in {"search", "item", "details", "span", "done", "failed"},
           url \in 1..Len(URLsOf(provider)), found \in Seq(ToSet(held)),
           at \in Nat \ {0}, at <= Len(found) + 1, events \in Seq(Mapped),
           \A i \in 1..(url - 1) : behaviour[URLsOf(provider)[i]] \in {"refuses", "flaky"},
           step = "failed" =>
               \/ behaviour[URLsOf(provider)[url]] \in {"fails", "flaky"}
               \/ behaviour[URLsOf(provider)[url]] = "refuses" /\ url = Len(URLsOf(provider)),
           step \in {"search", "failed"} => at = 1 /\ found = <<>> /\ events = <<>>,
           SingleOK(Task(step, url, found, at, events)),
           ItemsOK(t, Task(step, url, found, at, events))
    PROVE  TaskOK(t, Task(step, url, found, at, events))
<1> DEFINE tk == Task(step, url, found, at, events)
<1>1. /\ tk.step = step /\ tk.url = url /\ tk.found = found /\ tk.at = at
      /\ tk.events = events
  BY DEF Task
<1>2. TaskTyped(tk)
  BY DEF TaskTyped, Task
<1> HIDE DEF tk
<1>3. HostsTried(tk)
  BY <1>1 DEF HostsTried
<1>4. SearchOK(tk)
  BY <1>1 DEF SearchOK
<1> QED
  BY <1>2, <1>3, <1>4 DEF TaskOK, tk

\* Fields of Task.
LEMMA TaskFields ==
    ASSUME NEW step, NEW url, NEW found, NEW at, NEW events
    PROVE  /\ Task(step, url, found, at, events).step = step
           /\ Task(step, url, found, at, events).url = url
           /\ Task(step, url, found, at, events).found = found
           /\ Task(step, url, found, at, events).at = at
           /\ Task(step, url, found, at, events).events = events
           /\ Item(Task(step, url, found, at, events)) = found[at]
  BY DEF Task, Item

\* An item is behind the goroutine, with the events it has.
LEMMA NextItemOK ==
    ASSUME InputOK, provider = "errors", NEW t, NEW tk, TaskOK(t, tk),
           tk.step \in {"item", "details", "span"}, tk.at <= Len(tk.found),
           NEW ev \in Seq(Mapped),
           Due(Item(tk)) => \E e \in ToSet(ev) : e.fingerprint = Item(tk).id
    PROVE  TaskOK(t, NextItem(tk, ev))
<1>1. /\ tk = Task(tk.step, tk.url, tk.found, tk.at, tk.events)
      /\ tk.url \in 1..Len(URLsOf(provider))
      /\ tk.found \in Seq(ToSet(held)) /\ tk.at \in Nat \ {0}
      /\ tk.at <= Len(tk.found) + 1 /\ tk.events \in Seq(Mapped)
  BY TaskFacts
<1>2. NextItem(tk, ev) = Task("item", tk.url, tk.found, tk.at + 1, tk.events \o ev)
  BY <1>1, TaskUpdates
<1> DEFINE next == tk.at + 1
           events == tk.events \o ev
           new == Task("item", tk.url, tk.found, next, events)
<1>3. /\ new.step = "item" /\ new.found = tk.found /\ new.at = next
      /\ new.events = events
  <2> HIDE DEF next, events
  <2> QED
    BY TaskFields
<1>4. tk.events \o ev \in Seq(Mapped) /\ ToSet(tk.events \o ev) = ToSet(tk.events) \cup ToSet(ev)
  BY <1>1, ConcatElements
<1>5. tk.at + 1 \in Nat \ {0} /\ tk.at + 1 <= Len(tk.found) + 1
  BY <1>1
<1>6. \A i \in 1..(tk.url - 1) : behaviour[URLsOf(provider)[i]] \in {"refuses", "flaky"}
  BY DEF TaskOK, HostsTried
<1> HIDE DEF new
<1>7. SingleOK(new)
  BY DEF SingleOK
<1>8. ItemsOK(t, new)
  <2>1. tk.found = FoundIssues(t)
    BY DEF TaskOK, ItemsOK
  <2>2. ASSUME NEW k \in 1..(new.at - 1), Due(new.found[k])
        PROVE  \E e \in ToSet(new.events) : e.fingerprint = new.found[k].id
    <3>1. k \in 1..(tk.at - 1) \/ k = tk.at
      BY <1>1, <1>3
    <3>2. CASE k \in 1..(tk.at - 1)
      <4>1. \E e \in ToSet(tk.events) : e.fingerprint = tk.found[k].id
        BY <1>3, <2>2, <3>2 DEF TaskOK, ItemsOK
      <4> QED
        BY <1>3, <1>4, <4>1
    <3>3. CASE k = tk.at
      <4>1. new.found[k] = Item(tk)
        BY <1>3, <3>3 DEF Item
      <4> QED
        BY <1>3, <1>4, <2>2, <4>1
    <3> QED
      BY <3>1, <3>2, <3>3
  <2> QED
    BY <1>3, <2>1, <2>2 DEF ItemsOK
<1> QED
  <2>1. next \in Nat \ {0} /\ next <= Len(tk.found) + 1 /\ events \in Seq(Mapped)
    BY <1>4, <1>5
  <2>2. NextItem(tk, ev) = Task("item", tk.url, tk.found, next, events)
    BY <1>2
  <2>3. TaskOK(t, Task("item", tk.url, tk.found, next, events))
    <3> HIDE DEF next, events
    <3> QED
      BY SMTT(30), <1>1, <1>6, <1>7, <1>8, <2>1, TaskIsOK DEF new
  <2> QED
    BY <2>2, <2>3

\* The details of an item are asked for, or a span.
LEMMA AskOK ==
    ASSUME InputOK, provider = "errors", NEW t, NEW tk, TaskOK(t, tk),
           tk.step \in {"item", "details"}, tk.at <= Len(tk.found), Item(tk).result,
           NEW x \in {"details", "span"},
           x = "details" => ~Item(tk).included,
           x = "span" => IsCandidate(Item(tk), query.since)
    PROVE  TaskOK(t, Ask(tk, x))
<1>1. /\ tk = Task(tk.step, tk.url, tk.found, tk.at, tk.events)
      /\ Len(URLsOf(provider)) \in Nat \ {0}
      /\ tk.found \in Seq(ToSet(held)) /\ tk.at \in Nat \ {0}
      /\ tk.at <= Len(tk.found) + 1 /\ tk.events \in Seq(Mapped)
  BY TaskFacts
<1>2. Ask(tk, x) = Task(x, 1, tk.found, tk.at, tk.events)
  BY <1>1, TaskUpdates
<1> DEFINE new == Task(x, 1, tk.found, tk.at, tk.events)
<1>3. /\ new.step = x /\ new.found = tk.found /\ new.at = tk.at
      /\ new.events = tk.events /\ Item(new) = Item(tk)
  BY TaskFields DEF Item
<1> HIDE DEF new
<1>4. SingleOK(new)
  BY DEF SingleOK
<1>5. ItemsOK(t, new)
  <2>1. tk.found = FoundIssues(t) /\ tk.at \in 1..Len(tk.found)
    BY <1>1 DEF TaskOK, ItemsOK
  <2>2. \A k \in 1..(tk.at - 1) :
            Due(tk.found[k]) => \E e \in ToSet(tk.events) : e.fingerprint = tk.found[k].id
    BY DEF TaskOK, ItemsOK
  <2> QED
    BY <1>3, <2>1, <2>2 DEF ItemsOK
<1>6. 1 \in 1..Len(URLsOf(provider)) /\ 1..(1 - 1) = {}
  BY <1>1
<1> QED
  BY <1>1, <1>2, <1>4, <1>5, <1>6, TaskIsOK DEF new

\* An issue that is looked at further has its event.
LEMMA ItemEvent ==
    ASSUME InputOK, provider = "errors", NEW issue \in ToSet(held),
           IsCandidate(issue, query.since),
           NEW span \in {{}} \cup {{ts} : ts \in issue.spans}
    PROVE  /\ <<MapIssue(issue, Searched, span)>> \in Seq(Mapped)
           /\ \E e \in ToSet(<<MapIssue(issue, Searched, span)>>) : e.fingerprint = issue.id
<1> DEFINE e == MapIssue(issue, Searched, span)
<1>1. e \in IssueEvents(issue, Searched)
  BY DEF IssueEvents
<1>2. e.fingerprint = issue.id
  BY DEF MapIssue, Event
<1> HIDE DEF e
<1>3. Mapped = UNION {IssueEvents(i, Searched) : i \in {j \in ToSet(held) : IsCandidate(j, query.since)}}
  BY DEF Mapped, MappedOf
<1>4. e \in Mapped
  BY <1>1, <1>3
<1>5. <<e>> \in Seq(Mapped) /\ ToSet(<<e>>) = {e}
  BY <1>4, OneOrNone
<1> QED
  BY <1>2, <1>5 DEF e

\* mapIssue, up to the request for a span.
LEMMA ExamineOK ==
    ASSUME InputOK, provider = "errors", NEW t, NEW tk, TaskOK(t, tk),
           tk.step \in {"item", "details"}, tk.at <= Len(tk.found), Item(tk).result
    PROVE  TaskOK(t, Examine(tk))
<1> DEFINE issue == Item(tk)
<1>1. issue \in ToSet(held)
  BY TaskFacts DEF Item
<1>2. CASE ~IsCandidate(issue, query.since)
  <2>1. Examine(tk) = NextItem(tk, <<>>)
    BY <1>2 DEF Examine
  <2>2. <<>> \in Seq(Mapped) /\ ~Due(Item(tk))
    BY <1>2, OneOrNone DEF Due
  <2> QED
    BY <2>1, <2>2, NextItemOK
<1>3. CASE IsCandidate(issue, query.since) /\ IsBlank(issue.service) /\ IsBlank(Searched)
  <2>1. Examine(tk) = NextItem(tk, <<MapIssue(issue, Searched, {})>>)
    BY <1>3 DEF Examine
  <2>2. /\ <<MapIssue(issue, Searched, {})>> \in Seq(Mapped)
        /\ \E e \in ToSet(<<MapIssue(issue, Searched, {})>>) : e.fingerprint = issue.id
    <3>1. {} \in {{}} \cup {{ts} : ts \in issue.spans}
      OBVIOUS
    <3> HIDE DEF issue
    <3> QED
      BY <1>1, <1>3, <3>1, ItemEvent
  <2> QED
    BY <2>1, <2>2, NextItemOK
<1>4. CASE IsCandidate(issue, query.since) /\ ~(IsBlank(issue.service) /\ IsBlank(Searched))
  <2>1. Examine(tk) = Ask(tk, "span")
    BY <1>4 DEF Examine
  <2> QED
    BY <1>4, <2>1, AskOK
<1> QED
  BY <1>2, <1>3, <1>4

-----------------------------------------------------------------------------
(* The actions.                                                            *)

LEMMA FallbackKeeps ==
    ASSUME CallOK, NEW t \in TasksOf(provider), Fallback(t)
    PROVE  CallOK'
<1> DEFINE tk == task[t]
           new == Task(tk.step, tk.url + 1, tk.found, tk.at, tk.events)
           next == tk.url + 1
<1>1. InputOK /\ TaskOK(t, tk)
  BY DEF CallOK
<1>2. /\ tk.step \in {"search", "details", "span"}
      /\ behaviour[URLsOf(provider)[tk.url]] \in {"refuses", "flaky"}
      /\ tk.url # Len(URLsOf(provider)) /\ Becomes(t, [tk EXCEPT !.url = @ + 1])
  BY DEF Fallback, Requesting, MayBe, LastURL
<1> HIDE DEF tk
<1>3. /\ tk = Task(tk.step, tk.url, tk.found, tk.at, tk.events)
      /\ tk.url \in 1..Len(URLsOf(provider)) /\ Len(URLsOf(provider)) \in Nat \ {0}
      /\ tk.found \in Seq(ToSet(held)) /\ tk.at \in Nat \ {0}
      /\ tk.at <= Len(tk.found) + 1 /\ tk.events \in Seq(Mapped)
  BY <1>1, TaskFacts
<1>4. [tk EXCEPT !.url = @ + 1] = new
  BY <1>3, TaskUpdates
<1>5. /\ new.step = tk.step /\ new.found = tk.found /\ new.at = tk.at
      /\ new.events = tk.events /\ Item(new) = Item(tk)
  <2> HIDE DEF next
  <2> QED
    BY TaskFields DEF Item, next
<1>6. next \in 1..Len(URLsOf(provider))
  BY <1>2, <1>3
<1>7. \A i \in 1..(next - 1) : behaviour[URLsOf(provider)[i]] \in {"refuses", "flaky"}
  <2>1. \A i \in 1..(tk.url - 1) : behaviour[URLsOf(provider)[i]] \in {"refuses", "flaky"}
    BY <1>1 DEF TaskOK, HostsTried
  <2>2. \A i \in 1..(next - 1) : i \in 1..(tk.url - 1) \/ i = tk.url
    BY <1>3
  <2> QED
    BY <1>2, <2>1, <2>2
<1> HIDE DEF new
<1>8. SingleOK(new)
  BY <1>1, <1>5 DEF TaskOK, SingleOK
<1>9. ItemsOK(t, new)
  BY <1>1, <1>5 DEF TaskOK, ItemsOK
<1>10. tk.step = "search" => tk.at = 1 /\ tk.found = <<>> /\ tk.events = <<>>
  BY <1>1 DEF TaskOK, SearchOK
<1>11. TaskOK(t, new)
  <2> HIDE DEF next
  <2> QED
    BY <1>2, <1>3, <1>6, <1>7, <1>8, <1>9, <1>10, TaskIsOK DEF new, next
<1> QED
  BY <1>2, <1>4, <1>11, BecomesKeeps DEF tk

LEMMA FailKeeps ==
    ASSUME CallOK, NEW t \in TasksOf(provider), Fail(t)
    PROVE  CallOK'
<1> DEFINE tk == task[t]
           Host == URLsOf(provider)[tk.url]
<1>1. InputOK /\ TaskOK(t, tk)
  BY DEF CallOK
<1>2. /\ tk.step \in {"search", "details", "span"}
      /\ \/ behaviour[Host] \in {"fails", "flaky"}
         \/ behaviour[Host] = "refuses" /\ tk.url = Len(URLsOf(provider))
      /\ tk.step = "search" => Becomes(t, [tk EXCEPT !.step = "failed"])
      /\ tk.step = "details" => Becomes(t, NextItem(tk, <<>>))
      /\ tk.step = "span" =>
             Becomes(t, NextItem(tk, <<MapIssue(Item(tk), Searched, {})>>))
  BY DEF Fail, Requesting, MayBe, LastURL
<1> HIDE DEF tk
<1>3. /\ tk = Task(tk.step, tk.url, tk.found, tk.at, tk.events)
      /\ tk.url \in 1..Len(URLsOf(provider)) /\ Len(URLsOf(provider)) \in Nat \ {0}
      /\ tk.found \in Seq(ToSet(held)) /\ tk.at \in Nat \ {0}
      /\ tk.at <= Len(tk.found) + 1 /\ tk.events \in Seq(Mapped)
      /\ \A k \in 1..Len(tk.found) : tk.found[k] \in ToSet(held)
  BY <1>1, TaskFacts
<1>4. CASE tk.step = "search"
  <2> DEFINE new == Task("failed", tk.url, tk.found, tk.at, tk.events)
  <2>1. [tk EXCEPT !.step = "failed"] = new
    BY <1>3, TaskUpdates
  <2>2. /\ new.step = "failed" /\ new.found = tk.found /\ new.at = tk.at
        /\ new.events = tk.events
    BY TaskFields
  <2>3. tk.at = 1 /\ tk.found = <<>> /\ tk.events = <<>>
    BY <1>1, <1>4 DEF TaskOK, SearchOK
  <2>4. \A i \in 1..(tk.url - 1) : behaviour[URLsOf(provider)[i]] \in {"refuses", "flaky"}
    BY <1>1 DEF TaskOK, HostsTried
  <2> HIDE DEF new
  <2>5. SingleOK(new)
    BY <2>2, <2>3 DEF SingleOK
  <2>6. ItemsOK(t, new)
    BY <2>2, <2>3 DEF ItemsOK
  <2>7. TaskOK(t, new)
    <3>1. new.url = tk.url
      BY TaskFields DEF new
    <3>2. TaskTyped(new)
      BY <1>3 DEF TaskTyped, Task, new
    <3>3. HostsTried(new)
      BY <1>2, <2>2, <2>4, <3>1 DEF HostsTried
    <3>4. SearchOK(new)
      BY <2>2, <2>3 DEF SearchOK
    <3> QED
      BY <2>5, <2>6, <3>2, <3>3, <3>4 DEF TaskOK
  <2> QED
    BY <1>2, <1>4, <2>1, <2>7, BecomesKeeps DEF tk
<1>5. CASE tk.step \in {"details", "span"}
  <2>1. provider = "errors"
    BY <1>1, <1>5 DEF TaskOK, SingleOK
  <2>2. tk.at \in 1..Len(tk.found) /\ Item(tk).result /\ Item(tk) \in ToSet(held)
    BY <1>1, <1>3, <1>5, <2>1 DEF TaskOK, ItemsOK, Item
  <2>3. CASE tk.step = "details"
    <3>1. Host \in Hosts /\ behaviour[Host] # "serves"
      <4>1. ToSet(URLsOf(provider)) \subseteq Hosts /\ URLsOf(provider) \in Seq(ToSet(URLsOf(provider)))
        BY URLsTried
      <4>2. Host \in ToSet(URLsOf(provider))
        BY <1>3, <4>1
      <4> QED
        BY <1>2, <4>1, <4>2
    <3>2. ~Item(tk).included
      BY <1>1, <2>1, <2>3 DEF TaskOK, ItemsOK
    <3>3. ~Due(Item(tk)) /\ <<>> \in Seq(Mapped)
      BY <3>1, <3>2, OneOrNone DEF Due
    <3>4. tk.at <= Len(tk.found)
      BY <1>3, <2>2
    <3>5. TaskOK(t, NextItem(tk, <<>>))
      BY <1>1, <2>1, <2>3, <3>3, <3>4, NextItemOK
    <3> QED
      BY <1>2, <2>3, <3>5, BecomesKeeps DEF tk
  <2>4. CASE tk.step = "span"
    <3> DEFINE ev == <<MapIssue(Item(tk), Searched, {})>>
    <3>1. IsCandidate(Item(tk), query.since)
      BY <1>1, <2>1, <2>4 DEF TaskOK, ItemsOK
    <3>2. ev \in Seq(Mapped) /\ \E e \in ToSet(ev) : e.fingerprint = Item(tk).id
      <4>1. {} \in {{}} \cup {{ts} : ts \in Item(tk).spans}
        OBVIOUS
      <4> QED
        BY <1>1, <2>1, <2>2, <3>1, <4>1, ItemEvent
    <3>3. tk.at <= Len(tk.found)
      BY <1>3, <2>2
    <3> HIDE DEF ev
    <3>4. TaskOK(t, NextItem(tk, ev))
      BY <1>1, <2>1, <2>4, <3>2, <3>3, NextItemOK
    <3> QED
      BY <1>2, <2>4, <3>4, BecomesKeeps DEF tk, ev
  <2> QED
    BY <1>5, <2>3, <2>4
<1> QED
  BY <1>2, <1>4, <1>5

\* The answer to a search without items.
LEMMA ServeKeeps ==
    ASSUME CallOK, NEW t \in TasksOf(provider),
           ServeMonitors(t) \/ ServeEvents(t) \/ ServeLogs(t)
    PROVE  CallOK'
<1> DEFINE tk == task[t]
<1>1. InputOK /\ TaskOK(t, tk)
  BY DEF CallOK
<1>2. /\ provider \in {"monitors", "events", "logs"}
      /\ tk.step = "search" /\ Becomes(t, Done(tk, Answer))
  BY DEF ServeMonitors, ServeEvents, ServeLogs, Serves, Answer
<1> HIDE DEF tk
<1>3. /\ tk = Task(tk.step, tk.url, tk.found, tk.at, tk.events)
      /\ tk.url \in 1..Len(URLsOf(provider))
      /\ tk.found \in Seq(ToSet(held)) /\ tk.at \in Nat \ {0}
      /\ tk.at <= Len(tk.found) + 1
  BY <1>1, TaskFacts
<1>4. Answer \in Seq(Mapped)
  BY <1>1, <1>2, AnswerIsMapped
<1> DEFINE new == Task("done", tk.url, tk.found, tk.at, Answer)
<1>5. Done(tk, Answer) = new
  BY <1>3, TaskUpdates
<1>6. /\ new.step = "done" /\ new.found = tk.found /\ new.at = tk.at /\ new.events = Answer
  BY TaskFields
<1>7. tk.at = 1 /\ tk.found = <<>>
  BY <1>1, <1>2 DEF TaskOK, SearchOK
<1>8. \A i \in 1..(tk.url - 1) : behaviour[URLsOf(provider)[i]] \in {"refuses", "flaky"}
  BY <1>1 DEF TaskOK, HostsTried
<1> HIDE DEF new
<1>9. SingleOK(new)
  BY <1>6, <1>7 DEF SingleOK
<1>10. ItemsOK(t, new)
  BY <1>2 DEF ItemsOK
<1>11. TaskOK(t, new)
  BY <1>3, <1>4, <1>8, <1>9, <1>10, TaskIsOK DEF new
<1> QED
  BY <1>2, <1>5, <1>11, BecomesKeeps DEF tk

LEMMA ServeIssuesKeeps ==
    ASSUME CallOK, NEW t \in TasksOf(provider), ServeIssues(t)
    PROVE  CallOK'
<1> DEFINE tk == task[t]
           new == Task("item", tk.url, FoundIssues(t), tk.at, tk.events)
<1>1. InputOK /\ TaskOK(t, tk)
  BY DEF CallOK
<1>2. /\ provider = "errors" /\ tk.step = "search"
      /\ Becomes(t, [tk EXCEPT !.step = "item", !.found = FoundIssues(t)])
  BY DEF ServeIssues, Serves
<1> HIDE DEF tk
<1>3. /\ tk = Task(tk.step, tk.url, tk.found, tk.at, tk.events)
      /\ tk.url \in 1..Len(URLsOf(provider))
      /\ tk.events \in Seq(Mapped)
  BY <1>1, TaskFacts
<1>4. FoundIssues(t) \in Seq(ToSet(held))
  BY <1>1, FoundIssuesAre
<1>5. [tk EXCEPT !.step = "item", !.found = FoundIssues(t)] = new
  BY <1>3, TaskUpdates
<1>6. /\ new.step = "item" /\ new.found = FoundIssues(t) /\ new.at = tk.at
      /\ new.events = tk.events
  BY TaskFields
<1>7. tk.at = 1
  BY <1>1, <1>2 DEF TaskOK, SearchOK
<1>8. \A i \in 1..(tk.url - 1) : behaviour[URLsOf(provider)[i]] \in {"refuses", "flaky"}
  BY <1>1 DEF TaskOK, HostsTried
<1> HIDE DEF new
<1>9. SingleOK(new)
  BY <1>2 DEF SingleOK
<1>10. ItemsOK(t, new)
  BY <1>6, <1>7 DEF ItemsOK
<1>11. tk.at \in Nat \ {0} /\ tk.at <= Len(FoundIssues(t)) + 1
  BY <1>4, <1>7
<1>12. TaskOK(t, new)
  BY <1>3, <1>4, <1>8, <1>9, <1>10, <1>11, TaskIsOK DEF new
<1> QED
  BY <1>2, <1>5, <1>12, BecomesKeeps DEF tk

LEMMA MapItemKeeps ==
    ASSUME CallOK, NEW t \in TasksOf(provider), MapItem(t)
    PROVE  CallOK'
<1> DEFINE tk == task[t]
<1>1. InputOK /\ TaskOK(t, tk)
  BY DEF CallOK
<1>2. /\ tk.step = "item"
      /\ Becomes(t, IF tk.at > Len(tk.found) THEN Done(tk, tk.events)
                    ELSE IF ~Item(tk).result THEN NextItem(tk, <<>>)
                    ELSE IF ~Item(tk).included THEN Ask(tk, "details")
                    ELSE Examine(tk))
  BY DEF MapItem
<1> HIDE DEF tk
<1>3. /\ tk = Task(tk.step, tk.url, tk.found, tk.at, tk.events)
      /\ tk.url \in 1..Len(URLsOf(provider))
      /\ tk.found \in Seq(ToSet(held)) /\ tk.at \in Nat \ {0}
      /\ tk.at <= Len(tk.found) + 1 /\ tk.events \in Seq(Mapped)
  BY <1>1, TaskFacts
<1>4. provider = "errors"
  BY <1>1, <1>2 DEF TaskOK, SingleOK
<1>5. CASE tk.at > Len(tk.found)
  <2> DEFINE new == Task("done", tk.url, tk.found, tk.at, tk.events)
  <2>1. Done(tk, tk.events) = new
    BY <1>3, TaskUpdates
  <2>2. /\ new.step = "done" /\ new.found = tk.found /\ new.at = tk.at
        /\ new.events = tk.events
    BY TaskFields
  <2>3. \A i \in 1..(tk.url - 1) : behaviour[URLsOf(provider)[i]] \in {"refuses", "flaky"}
    BY <1>1 DEF TaskOK, HostsTried
  <2>4. tk.at = Len(tk.found) + 1
    BY <1>3, <1>5
  <2> HIDE DEF new
  <2>5. SingleOK(new)
    BY <1>4 DEF SingleOK
  <2>6. ItemsOK(t, new)
    BY <1>1, <1>2, <2>2, <2>4 DEF TaskOK, ItemsOK
  <2>7. TaskOK(t, new)
    BY <1>3, <2>3, <2>5, <2>6, TaskIsOK DEF new
  <2> QED
    BY <1>2, <1>5, <2>1, <2>7, BecomesKeeps DEF tk
<1>6. CASE ~(tk.at > Len(tk.found)) /\ ~Item(tk).result
  <2>1. tk.at <= Len(tk.found) /\ ~Due(Item(tk)) /\ <<>> \in Seq(Mapped)
    BY <1>3, <1>6, OneOrNone DEF Due
  <2>2. TaskOK(t, NextItem(tk, <<>>))
    BY <1>1, <1>2, <1>4, <2>1, NextItemOK
  <2> QED
    BY <1>2, <1>6, <2>2, BecomesKeeps DEF tk
<1>7. CASE ~(tk.at > Len(tk.found)) /\ Item(tk).result /\ ~Item(tk).included
  <2>1. tk.at <= Len(tk.found)
    BY <1>3, <1>7
  <2>2. TaskOK(t, Ask(tk, "details"))
    BY <1>1, <1>2, <1>4, <1>7, <2>1, AskOK
  <2> QED
    BY <1>2, <1>7, <2>2, BecomesKeeps DEF tk
<1>8. CASE ~(tk.at > Len(tk.found)) /\ Item(tk).result /\ Item(tk).included
  <2>1. tk.at <= Len(tk.found)
    BY <1>3, <1>8
  <2>2. TaskOK(t, Examine(tk))
    BY <1>1, <1>2, <1>4, <1>8, <2>1, ExamineOK
  <2> QED
    BY <1>2, <1>8, <2>2, BecomesKeeps DEF tk
<1> QED
  BY <1>5, <1>6, <1>7, <1>8

LEMMA ServeDetailsKeeps ==
    ASSUME CallOK, NEW t \in TasksOf(provider), ServeDetails(t)
    PROVE  CallOK'
<1> DEFINE tk == task[t]
<1>1. InputOK /\ TaskOK(t, tk) /\ tk.step = "details" /\ Becomes(t, Examine(tk))
  BY DEF CallOK, ServeDetails, Serves
<1> HIDE DEF tk
<1>2. provider = "errors"
  BY <1>1 DEF TaskOK, SingleOK
<1>3. tk.at \in 1..Len(tk.found) /\ Item(tk).result
  BY <1>1, <1>2 DEF TaskOK, ItemsOK
<1>4. tk.at <= Len(tk.found)
  BY <1>1, <1>3, TaskFacts
<1>5. TaskOK(t, Examine(tk))
  BY <1>1, <1>2, <1>3, <1>4, ExamineOK
<1> QED
  BY <1>1, <1>5, BecomesKeeps DEF tk

LEMMA ServeSpanKeeps ==
    ASSUME CallOK, NEW t \in TasksOf(provider), ServeSpan(t)
    PROVE  CallOK'
<1> DEFINE tk == task[t]
           ev == <<MapIssue(Item(tk), Searched, FirstSpan(Item(tk)))>>
<1>1. InputOK /\ TaskOK(t, tk) /\ tk.step = "span" /\ Becomes(t, NextItem(tk, ev))
  BY DEF CallOK, ServeSpan, Serves
<1> HIDE DEF tk
<1>2. provider = "errors"
  BY <1>1 DEF TaskOK, SingleOK
<1>3. tk.at \in 1..Len(tk.found) /\ IsCandidate(Item(tk), query.since)
  BY <1>1, <1>2 DEF TaskOK, ItemsOK
<1>4. tk.at <= Len(tk.found) /\ Item(tk) \in ToSet(held)
  BY <1>1, <1>3, TaskFacts DEF Item
<1>5. FirstSpan(Item(tk)) \in {{}} \cup {{ts} : ts \in Item(tk).spans}
  BY <1>1, <1>2, <1>4, InputFacts, FirstSpanIsOne
<1>6. ev \in Seq(Mapped) /\ \E e \in ToSet(ev) : e.fingerprint = Item(tk).id
  BY <1>1, <1>2, <1>3, <1>4, <1>5, ItemEvent
<1> HIDE DEF ev
<1>7. TaskOK(t, NextItem(tk, ev))
  BY <1>1, <1>2, <1>4, <1>6, NextItemOK
<1> QED
  BY <1>1, <1>7, BecomesKeeps DEF tk

-----------------------------------------------------------------------------
(* The invariant.                                                          *)

\* What stays true when nothing but the result changes.
LEMMA TasksKept ==
    ASSUME CallOK, UNCHANGED <<provider, query, held, behaviour, task>>
    PROVE  /\ InputOK' /\ Signals' = Signals
           /\ (task = [t \in TasksOf(provider) |-> task[t]])'
           /\ \A t \in TasksOf(provider)' : TaskOK(t, task[t])'
<1>1. InputOK
  BY DEF CallOK
<1>2. InputOK' /\ \A t, tk : TaskOK(t, tk) => TaskOK(t, tk)'
  BY <1>1, Frozen
<1>3. Merged' = Merged
  BY DEF Merged
<1>4. Signals' = Signals
  BY <1>3 DEF Signals
<1>5. /\ (task = [t \in TasksOf(provider) |-> task[t]])'
      /\ TasksOf(provider)' = TasksOf(provider)
  BY DEF CallOK
<1>6. \A t \in TasksOf(provider) : TaskOK(t, task[t])'
  <2> SUFFICES ASSUME NEW t \in TasksOf(provider) PROVE TaskOK(t, task[t])'
    OBVIOUS
  <2>1. TaskOK(t, task[t]) /\ task'[t] = task[t]
    BY DEF CallOK
  <2> DEFINE tk == task[t]
  <2> HIDE DEF tk
  <2>2. TaskOK(t, tk)
    BY <2>1 DEF tk
  <2> QED
    BY <1>2, <2>1, <2>2 DEF tk
<1> QED
  BY <1>2, <1>4, <1>5, <1>6

LEMMA ReturnKeeps ==
    ASSUME CallOK, Return
    PROVE  CallOK'
<1>1. /\ UNCHANGED <<provider, query, held, behaviour, task>>
      /\ \A t \in DOMAIN task : task[t].step \in {"done", "failed"}
      /\ result' = IF provider # "errors" /\ task["single"].step = "failed"
                   THEN [status |-> "failed", signals |-> <<>>]
                   ELSE [status |-> "ok", signals |-> Signals]
  BY DEF Return
<1>2. /\ InputOK' /\ Signals' = Signals
      /\ (task = [t \in TasksOf(provider) |-> task[t]])'
      /\ \A t \in TasksOf(provider)' : TaskOK(t, task[t])'
  BY <1>1, TasksKept
<1>3. provider # "errors" => task["single"].step \in {"done", "failed"}
  <2>1. provider # "errors" => "single" \in TasksOf(provider)
    BY DEF TasksOf
  <2> QED
    BY <1>1, <2>1 DEF CallOK
<1>4. ResultOK'
  <2>1. CASE provider # "errors" /\ task["single"].step = "failed"
    BY <1>1, <2>1 DEF ResultOK
  <2>2. CASE ~(provider # "errors" /\ task["single"].step = "failed")
    <3>1. result' = [status |-> "ok", signals |-> Signals']
      BY <1>1, <1>2, <2>2
    <3>2. provider' # "errors" => task'["single"].step = "done"
      BY <1>1, <1>3, <2>2
    <3>3. \A t \in DOMAIN task' : task'[t].step \in {"done", "failed"}
      BY <1>1
    <3> QED
      BY <3>1, <3>2, <3>3 DEF ResultOK
  <2> QED
    BY <2>1, <2>2
<1> QED
  BY <1>2, <1>4 DEF CallOK

LEMMA StutterKeeps ==
    ASSUME CallOK, UNCHANGED vars
    PROVE  CallOK'
<1>1. UNCHANGED <<provider, query, held, behaviour, task>> /\ result' = result
  BY DEF vars
<1>2. /\ InputOK' /\ Signals' = Signals
      /\ (task = [t \in TasksOf(provider) |-> task[t]])'
      /\ \A t \in TasksOf(provider)' : TaskOK(t, task[t])'
  BY <1>1, TasksKept
<1>3. ResultOK'
  BY <1>1, <1>2 DEF CallOK, ResultOK
<1> QED
  BY <1>2, <1>3 DEF CallOK

LEMMA InitOK == Init => CallOK
<1> SUFFICES ASSUME Init PROVE CallOK
  OBVIOUS
<1>1. /\ InputOK /\ task = [t \in TasksOf(provider) |-> NewTask]
      /\ result = [status |-> "calling", signals |-> <<>>]
  BY DEF Init, InputOK, Port!Calling
<1>2. NewTask = Task("search", 1, <<>>, 1, <<>>)
  BY DEF NewTask, Task
<1>3. ASSUME NEW t PROVE TaskOK(t, NewTask)
  <2> DEFINE new == NewTask
  <2>1. /\ new.step = "search" /\ new.url = 1 /\ new.found = <<>> /\ new.at = 1
        /\ new.events = <<>>
    BY DEF NewTask
  <2>2. Len(URLsOf(provider)) \in Nat \ {0} /\ \A D : <<>> \in Seq(D)
    BY URLsTried, OneOrNone
  <2>3. new = [step |-> "search", url |-> 1, found |-> <<>>, at |-> 1, events |-> <<>>]
    BY DEF NewTask
  <2> HIDE DEF new
  <2>4. TaskTyped(new)
    <3>1. 1 \in 1..Len(URLsOf(provider)) /\ 1 \in Nat \ {0} /\ 1 <= Len(<<>>) + 1
      BY <2>2
    <3>2. <<>> \in Seq(ToSet(held)) /\ <<>> \in Seq(Mapped)
      BY <2>2
    <3> QED
      BY <2>1, <2>3, <3>1, <3>2 DEF TaskTyped
  <2>5. HostsTried(new)
    BY <2>1 DEF HostsTried
  <2>6. SearchOK(new) /\ SingleOK(new) /\ ItemsOK(t, new)
    BY <2>1 DEF SearchOK, SingleOK, ItemsOK
  <2> QED
    BY <2>4, <2>5, <2>6 DEF TaskOK, new
<1>4. \A t \in TasksOf(provider) : task[t] = NewTask
  BY <1>1
<1>5. ResultOK
  BY <1>1 DEF ResultOK
<1> QED
  BY <1>1, <1>3, <1>4, <1>5 DEF CallOK

\* Each action keeps the invariant.
LEMMA NextKeeps == CallOK /\ [Next]_vars => CallOK'
<1> SUFFICES ASSUME CallOK, [Next]_vars PROVE CallOK'
  OBVIOUS
<1>1. DOMAIN task = TasksOf(provider)
  BY DEF CallOK
<1>2. CASE Return
  BY <1>2, ReturnKeeps
<1>3. CASE UNCHANGED vars
  BY <1>3, StutterKeeps
<1>4. ASSUME NEW t \in TasksOf(provider), Fallback(t) PROVE CallOK'
  BY <1>4, FallbackKeeps
<1>5. ASSUME NEW t \in TasksOf(provider), Fail(t) PROVE CallOK'
  BY <1>5, FailKeeps
<1>6. ASSUME NEW t \in TasksOf(provider), MapItem(t) PROVE CallOK'
  BY <1>6, MapItemKeeps
<1>7. ASSUME NEW t \in TasksOf(provider), ServeMonitors(t) \/ ServeEvents(t) \/ ServeLogs(t)
      PROVE  CallOK'
  BY <1>7, ServeKeeps
<1>8. ASSUME NEW t \in TasksOf(provider), ServeIssues(t) PROVE CallOK'
  BY <1>8, ServeIssuesKeeps
<1>9. ASSUME NEW t \in TasksOf(provider), ServeDetails(t) PROVE CallOK'
  BY <1>9, ServeDetailsKeeps
<1>10. ASSUME NEW t \in TasksOf(provider), ServeSpan(t) PROVE CallOK'
  BY <1>10, ServeSpanKeeps
<1> QED
  BY <1>1, <1>2, <1>3, <1>4, <1>5, <1>6, <1>7, <1>8, <1>9, <1>10 DEF Next

LEMMA Invariance == Spec => []CallOK
<1>1. Init => CallOK
  BY InitOK
<1>2. CallOK /\ [Next]_vars => CallOK'
  BY NextKeeps
<1> QED
  BY <1>1, <1>2, PTL DEF Spec

-----------------------------------------------------------------------------
(* What follows from it.                                                   *)

LEMMA TypeFollows == CallOK => TypeOK
<1> SUFFICES ASSUME CallOK PROVE TypeOK
  OBVIOUS
<1>1. /\ provider \in Providers /\ query \in Queries
      /\ held \in Held[provider] /\ behaviour \in Behaviours
      /\ DOMAIN task = TasksOf(provider) /\ InputOK
  BY DEF CallOK, InputOK
<1>2. ASSUME NEW t \in DOMAIN task
      PROVE  /\ task[t].step \in {"search", "item", "details", "span", "done", "failed"}
             /\ task[t].url \in 1..Len(URLsOf(provider))
             /\ task[t].at \in 1..(Len(task[t].found) + 1)
             /\ ToSet(task[t].found) \subseteq ToSet(held)
             /\ \A k \in DOMAIN task[t].events :
                    /\ task[t].events[k].ts # 0
                    /\ task[t].events[k].severity \in DOMAIN SeverityToSignalSeverity
  <2> DEFINE tk == task[t]
  <2>1. TaskOK(t, tk)
    BY <1>1 DEF CallOK
  <2> HIDE DEF tk
  <2>2. /\ tk.step \in {"search", "item", "details", "span", "done", "failed"}
        /\ tk.url \in 1..Len(URLsOf(provider))
        /\ tk.found \in Seq(ToSet(held)) /\ tk.at \in Nat \ {0}
        /\ tk.at <= Len(tk.found) + 1 /\ tk.events \in Seq(Mapped)
    BY <1>1, <2>1, TaskFacts
  <2>3. tk.at \in 1..(Len(tk.found) + 1)
    BY <2>2
  <2>4. ToSet(tk.found) \subseteq ToSet(held)
    BY <2>2 DEF ToSet
  <2>5. \A k \in DOMAIN tk.events : GoodEvent(tk.events[k])
    <3>1. \A k \in DOMAIN tk.events : tk.events[k] \in Mapped
      BY <2>2
    <3> QED
      BY <1>1, <3>1, MappedEvents
  <2> QED
    BY <2>2, <2>3, <2>4, <2>5 DEF tk, GoodEvent
<1>3. /\ result.status \in {"calling", "ok", "failed"}
      /\ result.status # "ok" => result.signals = <<>>
  BY DEF CallOK, ResultOK
<1> QED
  BY <1>1, <1>2, <1>3 DEF TypeOK

\* TypeOK: the state of a call is well formed, whatever the systems hold: each
\* goroutine is at a URL and an item it has, and every event it mapped has a
\* time and a severity that the signals know.
THEOREM TypeCorrect == Spec => []TypeOK
  BY Invariance, TypeFollows, PTL

\* A search that failed was refused by every host before the one it failed at,
\* and that one failed it, or was the last.
LEMMA FailedSearch ==
    ASSUME CallOK, NEW t \in DOMAIN task, task[t].step = "failed"
    PROVE  \E n \in 1..Len(URLsOf(provider)) :
               /\ \A i \in 1..(n - 1) : behaviour[URLsOf(provider)[i]] \in {"refuses", "flaky"}
               /\ \/ behaviour[URLsOf(provider)[n]] \in {"fails", "flaky"}
                  \/ behaviour[URLsOf(provider)[n]] = "refuses" /\ n = Len(URLsOf(provider))
<1> DEFINE tk == task[t]
<1>1. TaskOK(t, tk) /\ InputOK /\ tk.step = "failed"
  BY DEF CallOK
<1> HIDE DEF tk
<1>2. tk.url \in 1..Len(URLsOf(provider))
  BY <1>1, TaskFacts
<1>3. /\ \A i \in 1..(tk.url - 1) : behaviour[URLsOf(provider)[i]] \in {"refuses", "flaky"}
      /\ \/ behaviour[URLsOf(provider)[tk.url]] \in {"fails", "flaky"}
         \/ behaviour[URLsOf(provider)[tk.url]] = "refuses" /\ tk.url = Len(URLsOf(provider))
  BY <1>1 DEF TaskOK, HostsTried
<1> QED
  BY <1>2, <1>3

\* A call that failed made one search, and it failed.
LEMMA FailedCall ==
    ASSUME CallOK, result.status = "failed"
    PROVE  /\ provider # "errors" /\ "single" \in DOMAIN task
           /\ task["single"].step = "failed"
<1>1. provider # "errors" /\ task["single"].step = "failed"
  BY DEF CallOK, ResultOK
<1> QED
  BY <1>1 DEF CallOK, TasksOf

LEMMA AnswersFollow == CallOK => AnswersWhenAHostServes
<1> SUFFICES ASSUME CallOK, provider # "logs",
                    \A host \in ToSet(URLsOf(provider)) : behaviour[host] \in {"serves", "refuses"},
                    NEW host \in ToSet(DefaultURLs), behaviour[host] = "serves"
             PROVE  /\ result.status # "failed"
                    /\ \A t \in DOMAIN task : task[t].step # "failed"
  BY DEF AnswersWhenAHostServes
<1> DEFINE urls == URLsOf(provider)
<1>1. urls \in Seq(ToSet(urls)) /\ Len(urls) \in Nat \ {0} /\ host \in ToSet(urls)
  BY URLsTried
<1> HIDE DEF urls
<1>2. PICK m \in 1..Len(urls) : urls[m] = host
  BY <1>1 DEF ToSet
<1>3. ASSUME NEW t \in DOMAIN task, task[t].step = "failed" PROVE FALSE
  <2>1. PICK n \in 1..Len(urls) :
            /\ \A i \in 1..(n - 1) : behaviour[urls[i]] \in {"refuses", "flaky"}
            /\ \/ behaviour[urls[n]] \in {"fails", "flaky"}
               \/ behaviour[urls[n]] = "refuses" /\ n = Len(urls)
    BY <1>3, FailedSearch DEF urls
  <2>2. behaviour[urls[n]] \in {"serves", "refuses"}
    <3>1. urls[n] \in ToSet(urls)
      BY <1>1
    <3> QED
      BY <3>1 DEF urls
  <2>3. behaviour[urls[n]] = "refuses" /\ n = Len(urls)
    BY <2>1, <2>2
  <2>4. m \in 1..(n - 1) \/ m = n
    BY <1>1, <2>3
  <2> QED
    BY <1>2, <2>1, <2>3, <2>4
<1>4. result.status # "failed"
  BY <1>3, FailedCall
<1> QED
  BY <1>3, <1>4

\* AnswersWhenAHostServes: whichever URL is configured and however many hosts
\* there are, shouldRetryWithFallback reaches the default one that serves.
THEOREM FallbackFindsAHost == Spec => []AnswersWhenAHostServes
  BY Invariance, AnswersFollow, PTL

LEMMA CheckFollows == CallOK => CheckPredictsAnswers
<1> SUFFICES ASSUME CallOK, provider # "errors",
                    NEW passed \in SUBSET StartupProbes(provider),
                    StartupCheck(provider, passed),
                    \A probe \in passed : behaviour[probe.host] = "serves",
                    result.status = "failed"
             PROVE  FALSE
  BY DEF CheckPredictsAnswers
<1> DEFINE urls == URLsOf(provider)
<1>1. behaviour[urls[1]] = "serves" /\ Len(urls) \in Nat \ {0}
  BY URLsTried DEF StartupCheck
<1> HIDE DEF urls
<1>2. PICK n \in 1..Len(urls) :
          /\ \A i \in 1..(n - 1) : behaviour[urls[i]] \in {"refuses", "flaky"}
          /\ \/ behaviour[urls[n]] \in {"fails", "flaky"}
             \/ behaviour[urls[n]] = "refuses" /\ n = Len(urls)
  BY FailedCall, FailedSearch DEF urls
<1>3. n = 1 \/ 1 \in 1..(n - 1)
  BY <1>1
<1> QED
  BY <1>1, <1>2, <1>3

\* CheckPredictsAnswers: the probes of the startup check are other requests than
\* the searches, but they go to a host that CollectSignals asks, and first. So
\* where the hosts that passed the check serve the searches, the call does not
\* fail, whatever the other hosts do.
THEOREM CheckIsWorthSomething == Spec => []CheckPredictsAnswers
  BY Invariance, CheckFollows, PTL

-----------------------------------------------------------------------------
(* The signals of a call.                                                  *)

\* The signals of either kind are of the events that match, and of all of them.
LEMMA SignalsOfEvents ==
    ASSUME NEW D, NEW events \in Seq(D), NEW q, NEW type,
           NEW signals \in {MapDatadogEventsToSignals(events, type, q),
                           MapLogEventsToSignals(events, q)}
    PROVE  /\ \A k \in DOMAIN signals : Matches(q, signals[k])
           /\ \A e \in ToSet(events) : Matches(q, e) =>
                  \E k \in DOMAIN signals :
                      signals[k].service = e.service /\ signals[k].summary = e.summary
<1> DEFINE S == {e \in ToSet(events) : Matches(q, e)}
           kept == Among(events, S)
<1>1. /\ kept \in Seq(D) /\ ToSet(kept) = ToSet(events) \cap S
      /\ \A i \in 1..Len(kept) : kept[i] \in ToSet(events) \cap S
  <2> HIDE DEF S
  <2> QED
    BY AmongElements
<1>2. /\ DOMAIN signals = DOMAIN kept
      /\ \A k \in DOMAIN kept : /\ signals[k].service = kept[k].service
                               /\ signals[k].summary = kept[k].summary
                               /\ signals[k].ts = kept[k].ts
  <2>1. CASE signals = MapDatadogEventsToSignals(events, type, q)
    <3>1. signals = [k \in DOMAIN kept |->
            [source |-> "datadog", service |-> kept[k].service, type |-> type,
             summary |-> kept[k].summary, ts |-> kept[k].ts,
             severity |-> SeverityToSignalSeverity[kept[k].severity]]]
      BY <2>1 DEF MapDatadogEventsToSignals
    <3> HIDE DEF kept
    <3> QED
      BY <3>1
  <2>2. CASE signals = MapLogEventsToSignals(events, q)
    <3>1. signals = [k \in DOMAIN kept |->
            [source |-> "elastic", service |-> kept[k].service, type |-> "log",
             summary |-> kept[k].summary, ts |-> kept[k].ts,
             severity |-> SeverityToSignalSeverity[kept[k].severity]]]
      BY <2>2 DEF MapLogEventsToSignals
    <3> HIDE DEF kept
    <3> QED
      BY <3>1
  <2> QED
    BY <2>1, <2>2
<1>3. DOMAIN kept = 1..Len(kept)
  BY <1>1
<1>4. ASSUME NEW k \in DOMAIN signals PROVE Matches(q, signals[k])
  <2>1. kept[k] \in S
    BY <1>1, <1>2, <1>3
  <2>2. Matches(q, kept[k])
    BY <2>1
  <2> QED
    BY <1>2, <2>2 DEF Matches, InWindow
<1>5. ASSUME NEW e \in ToSet(events), Matches(q, e)
      PROVE  \E k \in DOMAIN signals :
                 signals[k].service = e.service /\ signals[k].summary = e.summary
  <2>1. e \in ToSet(kept)
    BY <1>1, <1>5
  <2> HIDE DEF kept
  <2>2. PICK k \in DOMAIN kept : kept[k] = e
    BY <2>1 DEF ToSet
  <2> QED
    BY <1>2, <2>2
<1> QED
  BY <1>4, <1>5

\* The merge of the tracks keeps an event of every fingerprint.
LEMMA MergedEvents ==
    ASSUME CallOK, provider = "errors"
    PROVE  /\ Merged \in Seq(Mapped)
           /\ \A t \in DOMAIN task : \A e \in ToSet(task[t].events) :
                  \E f \in ToSet(Merged) : f.fingerprint = e.fingerprint
<1> DEFINE n == Len(Tracks)
           ss == [k \in 1..n |-> task[Tracks[k]].events]
           all == FlattenSeq(ss)
           Repeats(k) == \E j \in 1..(k - 1) : all[j].fingerprint = all[k].fingerprint
           S == {k \in DOMAIN all : ~Repeats(k)}
           index == [k \in DOMAIN all |-> k]
           firsts == Among(index, S)
<1>1. n \in Nat /\ DOMAIN Tracks = 1..n /\ ToSet(Tracks) = {Tracks[k] : k \in 1..n}
  BY TracksAssumption DEF ToSet
<1>2. DOMAIN task = ToSet(Tracks)
  BY DEF CallOK, TasksOf
<1>3. ASSUME NEW k \in 1..n PROVE ss[k] \in Seq(Mapped) /\ Tracks[k] \in DOMAIN task
  <2>1. Tracks[k] \in TasksOf(provider) /\ Tracks[k] \in DOMAIN task
    BY <1>1, <1>2 DEF TasksOf
  <2>2. InputOK /\ TaskOK(Tracks[k], task[Tracks[k]])
    BY <2>1 DEF CallOK
  <2>3. task[Tracks[k]].events \in Seq(Mapped)
    BY <2>2, TaskFacts
  <2> QED
    BY <2>1, <2>3
<1>4. ss = [k \in 1..n |-> ss[k]]
  OBVIOUS
<1>5. all \in Seq(Mapped) /\ ToSet(all) = UNION {ToSet(ss[k]) : k \in 1..n}
  <2> HIDE DEF ss
  <2> QED
    BY <1>1, <1>3, <1>4, FlattenParts
<1>6. Merged = [i \in DOMAIN firsts |-> all[firsts[i]]]
  <2>1. [k \in DOMAIN Tracks |-> task[Tracks[k]].events] = ss
    BY <1>1
  <2> QED
    BY ZenonT(30), <2>1 DEF Merged
<1>7. \A t \in DOMAIN task : ToSet(task[t].events) \subseteq ToSet(all)
  <2> SUFFICES ASSUME NEW t \in DOMAIN task PROVE ToSet(task[t].events) \subseteq ToSet(all)
    OBVIOUS
  <2>1. PICK k \in 1..n : t = Tracks[k]
    BY <1>1, <1>2
  <2>2. ss[k] = task[t].events
    BY <2>1
  <2> HIDE DEF ss, all
  <2> QED
    BY <1>5, <2>2
<1> HIDE DEF ss, all
<1>8. index \in Seq(1..Len(all)) /\ ToSet(index) = 1..Len(all) /\ DOMAIN all = 1..Len(all)
      /\ Len(all) \in Nat
  BY <1>5 DEF ToSet
<1> HIDE DEF index
<1>9. /\ firsts \in Seq(1..Len(all)) /\ ToSet(firsts) = 1..Len(all) \cap S
  <2> HIDE DEF S
  <2> QED
    BY <1>8, AmongElements
<1>10. S \in SUBSET (1..Len(all)) /\ ToSet(firsts) = S
  BY <1>8, <1>9
<1>11. \A k \in S : k \in 1..Len(all) /\ ~Repeats(k)
  BY <1>8
<1> HIDE DEF firsts
<1>12. \A i \in DOMAIN firsts : firsts[i] \in 1..Len(all) /\ all[firsts[i]] \in Mapped
  BY <1>5, <1>9
<1>13. Merged \in Seq(Mapped)
  <2>1. DOMAIN firsts = 1..Len(firsts) /\ Len(firsts) \in Nat
    BY <1>9
  <2>2. Merged \in [1..Len(firsts) -> Mapped]
    BY <1>6, <1>12, <2>1
  <2> QED
    BY <2>1, <2>2
<1>14. \A k \in S : all[k] \in ToSet(Merged)
  <2> SUFFICES ASSUME NEW k \in S PROVE all[k] \in ToSet(Merged)
    OBVIOUS
  <2> HIDE DEF S
  <2>1. PICK i \in DOMAIN firsts : firsts[i] = k
    BY <1>10 DEF ToSet
  <2>2. i \in DOMAIN Merged /\ Merged[i] = all[k]
    BY <1>6, <2>1
  <2> QED
    BY <2>2 DEF ToSet
<1>15. ASSUME NEW e \in ToSet(all) PROVE \E f \in ToSet(Merged) : f.fingerprint = e.fingerprint
  <2> DEFINE Same == {k \in 1..Len(all) : all[k].fingerprint = e.fingerprint}
  <2>1. Same \in SUBSET Nat /\ Same # {}
    <3>1. PICK k \in DOMAIN all : all[k] = e
      BY <1>15 DEF ToSet
    <3>2. k \in Same
      BY <1>8, <3>1
    <3> QED
      BY <1>8, <3>2
  <2>2. PICK m \in Same : \A k \in Same : m <= k
    <3> HIDE DEF Same
    <3> QED
      BY <2>1, LeastNumber
  <2>3. ~Repeats(m)
    <3> SUFFICES ASSUME NEW j \in 1..(m - 1), all[j].fingerprint = all[m].fingerprint
                 PROVE  FALSE
      OBVIOUS
    <3>1. m \in 1..Len(all) /\ Len(all) \in Nat
      BY <1>8, <2>2
    <3>2. j \in 1..Len(all) /\ ~(m <= j)
      BY <3>1
    <3>3. j \in Same
      BY <2>2, <3>2
    <3> QED
      BY <2>2, <3>2, <3>3
  <2>4. m \in S
    BY <1>8, <2>2, <2>3
  <2>5. all[m].fingerprint = e.fingerprint
    BY <2>2
  <2> HIDE DEF S, Same
  <2> QED
    BY <1>14, <2>4, <2>5
<1> HIDE DEF S
<1> QED
  BY <1>7, <1>13, <1>15

\* The signals are those of one sequence of events, which matches the search.
LEMMA SignalsAre ==
    ASSUME CallOK
    PROVE  /\ \A k \in DOMAIN Signals : Matches(query, Signals[k])
           /\ \A e : (IF provider = "errors" THEN e \in ToSet(Merged)
                     ELSE e \in ToSet(task["single"].events)) /\ Matches(query, e)
                  => \E k \in DOMAIN Signals :
                         Signals[k].service = e.service /\ Signals[k].summary = e.summary
<1>1. CASE provider = "errors"
  <2>1. Signals = MapDatadogEventsToSignals(Merged, SignalType(provider), query)
    BY <1>1 DEF Signals
  <2>2. Merged \in Seq(Mapped)
    BY <1>1, MergedEvents
  <2> DEFINE type == SignalType(provider)
  <2>3. Signals \in {MapDatadogEventsToSignals(Merged, type, query),
                    MapLogEventsToSignals(Merged, query)}
    BY <2>1
  <2> HIDE DEF type
  <2> DEFINE signals == Signals
             events == Merged
  <2> HIDE DEF signals, events
  <2>4. /\ \A k \in DOMAIN signals : Matches(query, signals[k])
        /\ \A e \in ToSet(events) : Matches(query, e) =>
               \E k \in DOMAIN signals :
                   signals[k].service = e.service /\ signals[k].summary = e.summary
    <3>1. events \in Seq(Mapped) /\ signals \in {MapDatadogEventsToSignals(events, type, query),
                                                MapLogEventsToSignals(events, query)}
      BY <2>2, <2>3 DEF signals, events
    <3> QED
      BY <3>1, SignalsOfEvents
  <2> QED
    BY <1>1, <2>4 DEF signals, events
<1>2. CASE provider # "errors"
  <2> DEFINE events == task["single"].events
             type == SignalType(provider)
             signals == Signals
  <2>1. events \in Seq(Mapped)
    <3>1. "single" \in TasksOf(provider)
      BY <1>2 DEF TasksOf
    <3>2. InputOK /\ TaskOK("single", task["single"])
      BY <3>1 DEF CallOK
    <3> QED
      BY <3>2, TaskFacts
  <2>2. signals \in {MapDatadogEventsToSignals(events, type, query),
                    MapLogEventsToSignals(events, query)}
    <3>1. CASE provider = "logs"
      BY <3>1 DEF Signals
    <3>2. CASE provider # "logs"
      BY <1>2, <3>2 DEF Signals
    <3> QED
      BY <3>1, <3>2
  <2> HIDE DEF events, type, signals
  <2>3. /\ \A k \in DOMAIN signals : Matches(query, signals[k])
        /\ \A e \in ToSet(events) : Matches(query, e) =>
               \E k \in DOMAIN signals :
                   signals[k].service = e.service /\ signals[k].summary = e.summary
    BY <2>1, <2>2, SignalsOfEvents
  <2> QED
    BY <1>2, <2>3 DEF signals, events
<1> QED
  BY <1>1, <1>2

\* Promise, without its liveness: a call ends once, in an error without
\* signals or in signals of the services and the window asked for. The call
\* goes from its start to its result, and every other step stutters.
THEOREM ImplementsThePort == Spec => Port!Safe
<1>1. Init => Port!Init
  BY DEF Init, Port!Init, Port!Calling
<1>2. CallOK /\ [Next]_vars => [Port!Next]_<<query, result>>
  <2> SUFFICES ASSUME CallOK, [Next]_vars PROVE Port!Next \/ UNCHANGED <<query, result>>
    OBVIOUS
  <2>1. CASE Return
    <3>1. result = Port!Calling /\ query' = query
      BY <2>1 DEF Return
    <3>2. CASE provider # "errors" /\ task["single"].step = "failed"
      <4>1. result' = [status |-> "failed", signals |-> <<>>]
        BY <2>1, <3>2 DEF Return
      <4> QED
        BY <3>1, <4>1 DEF Port!Next, Port!Fail
    <3>3. CASE ~(provider # "errors" /\ task["single"].step = "failed")
      <4>1. result'.status = "ok" /\ result'.signals = Signals
        BY <2>1, <3>3 DEF Return
      <4>2. \A k \in DOMAIN Signals : Matches(query, Signals[k])
        BY SignalsAre
      <4>3. \A k \in DOMAIN result'.signals : Matches(query, result'.signals[k])
        BY <4>1, <4>2
      <4>4. Port!Answer
        BY <3>1, <4>1, <4>3 DEF Port!Answer, Port!Matches, Port!MatchesService,
               Port!InWindow, Port!Canonical, Port!Lower, Port!Trim,
               Matches, MatchesService, InWindow, Canonical, Lower, Trim
      <4> QED
        BY <3>1, <4>4 DEF Port!Next
    <3> QED
      BY <3>2, <3>3
  <2>2. CASE UNCHANGED vars
    BY <2>2 DEF vars
  <2>3. ASSUME NEW t \in DOMAIN task,
               \/ Fallback(t) \/ Fail(t) \/ MapItem(t)
               \/ ServeMonitors(t) \/ ServeEvents(t) \/ ServeLogs(t) \/ ServeIssues(t)
               \/ ServeDetails(t) \/ ServeSpan(t)
        PROVE  UNCHANGED <<query, result>>
    BY <2>3 DEF Fallback, Fail, MapItem, ServeMonitors, ServeEvents, ServeLogs, ServeIssues,
           ServeDetails, ServeSpan, Becomes
  <2> QED
    BY <2>1, <2>2, <2>3 DEF Next
<1> QED
  BY <1>1, <1>2, Invariance, PTL DEF Spec, Port!Safe

-----------------------------------------------------------------------------
(* What a call may lose.                                                   *)

\* When the call has ended well, its signals are the Signals of its state.
LEMMA EndedWell ==
    ASSUME CallOK, Ended, result.status # "failed"
    PROVE  /\ result.signals = Signals
           /\ \A t \in DOMAIN task : task[t].step \in {"done", "failed"}
           /\ provider # "errors" => task["single"].step = "done"
  BY DEF CallOK, ResultOK, Ended

\* The event that an active issue goes with, once its track has ended.
LEMMA ActiveHasEvent ==
    ASSUME CallOK, provider = "errors", NEW issue \in ToSet(held), Active(issue)
    PROVE  \E t \in DOMAIN task : \E e \in ToSet(task[t].events) : e.fingerprint = issue.id
<1>1. InputOK /\ held \in Seq(ToSet(held)) /\ query.since \in Nat \ {0} /\ IsIssue(issue)
  BY InputFacts DEF CallOK
<1>2. PICK t \in DOMAIN task : t \in issue.tracks /\ task[t].step = "done"
  BY DEF Active
<1> DEFINE tk == task[t]
<1>3. TaskOK(t, tk) /\ tk.step = "done"
  BY <1>2 DEF CallOK
<1> HIDE DEF tk
<1>4. query.since <= issue.lastSeen /\ issue.lastSeen \in Nat /\ issue.firstSeen <= Now
  BY <1>1 DEF Active, Inside, IsIssue
<1>5. issue \in ToSet(FoundIssues(t))
  <2>1. \/ IsBlank(Searched) \/ IsBlank(issue.service)
        \/ Canonical(issue.service) = Canonical(Searched)
    BY DEF Active
  <2>2. issue.lastSeen >= query.since
    BY <1>1, <1>4
  <2> QED
    BY <1>1, <1>2, <1>4, <2>1, <2>2, FoundIssuesAre
<1>6. tk.found = FoundIssues(t) /\ tk.at = Len(tk.found) + 1
  BY <1>3 DEF TaskOK, ItemsOK
<1>7. tk.found \in Seq(ToSet(held))
  BY <1>1, <1>3, TaskFacts
<1>8. PICK k \in 1..Len(tk.found) : tk.found[k] = issue
  BY <1>5, <1>6, <1>7 DEF ToSet
<1>9. Due(issue)
  <2>1. ErrorTrackingTimestamp(issue) = issue.lastSeen
    BY <1>1, <1>4 DEF ErrorTrackingTimestamp
  <2>2. IsCandidate(issue, query.since)
    BY <1>1, <1>4, <2>1 DEF IsCandidate
  <2> QED
    BY <2>2 DEF Due, Active
<1>10. k \in 1..(tk.at - 1)
  BY <1>6, <1>7, <1>8
<1>11. \E e \in ToSet(tk.events) : e.fingerprint = issue.id
  BY <1>3, <1>8, <1>9, <1>10 DEF TaskOK, ItemsOK
<1> QED
  BY <1>2, <1>11 DEF tk

LEMMA NothingLostFollows == CallOK => NothingActiveIsLost
<1> SUFFICES ASSUME CallOK, provider = "errors", Ended, NEW k \in DOMAIN held,
                    Active(held[k]), \A ts \in held[k].spans : Inside(ts)
             PROVE  Reported(IssueService(held[k], Searched), held[k].message)
  BY DEF NothingActiveIsLost
<1> DEFINE issue == held[k]
<1>1. /\ InputOK /\ held \in Seq(ToSet(held)) /\ query.since \in Nat \ {0}
      /\ \A i \in ToSet(held) : IsIssue(i)
      /\ \A a, b \in ToSet(held) : a.id = b.id => a = b
  BY InputFacts DEF CallOK
<1>2. issue \in ToSet(held)
  BY DEF ToSet
<1> HIDE DEF issue
<1>3. Active(issue) /\ \A ts \in issue.spans : Inside(ts)
  BY DEF issue
<1>4. PICK t \in DOMAIN task : \E e \in ToSet(task[t].events) : e.fingerprint = issue.id
  BY <1>2, <1>3, ActiveHasEvent
<1>5. PICK f \in ToSet(Merged) : f.fingerprint = issue.id
  BY <1>4, MergedEvents
<1>6. PICK i \in ToSet(held) : IsCandidate(i, query.since) /\ f \in IssueEvents(i, Searched)
  <2>1. f \in Mapped
    <3>1. Merged \in Seq(Mapped)
      BY MergedEvents
    <3> QED
      BY <3>1 DEF ToSet
  <2>2. Mapped = UNION {IssueEvents(j, Searched) :
                        j \in {m \in ToSet(held) : IsCandidate(m, query.since)}}
    BY DEF Mapped, MappedOf
  <2> QED
    BY <2>1, <2>2
<1>7. /\ f.fingerprint = i.id /\ f.summary = i.message
      /\ f.service = IssueService(i, Searched)
      /\ f.ts = ErrorTrackingTimestamp(i) \/ f.ts \in i.spans
  BY <1>1, <1>6, IssueEvent
<1>8. i = issue
  BY <1>1, <1>2, <1>5, <1>7
<1>9. Inside(f.ts)
  <2>1. ErrorTrackingTimestamp(issue) = issue.lastSeen /\ Inside(issue.lastSeen)
    <3>1. Inside(issue.lastSeen) /\ issue.lastSeen \in Nat
      BY <1>1, <1>2, <1>3 DEF Active, IsIssue
    <3>2. issue.lastSeen > 0
      BY <1>1, <3>1 DEF Inside
    <3> QED
      BY <3>1, <3>2 DEF ErrorTrackingTimestamp
  <2> QED
    BY <1>3, <1>7, <1>8, <2>1
<1>10. Matches(query, f)
  <2>1. MatchesService(query.services, f.service)
    BY <1>3, <1>7, <1>8 DEF Active
  <2> QED
    BY <1>9, <2>1 DEF Matches, InWindow, Inside
<1>11. \E n \in DOMAIN Signals :
           Signals[n].service = f.service /\ Signals[n].summary = f.summary
  BY <1>5, <1>10, SignalsAre
<1>12. result.signals = Signals
  BY FailedCall, EndedWell
<1>13. Reported(f.service, f.summary)
  BY <1>11, <1>12 DEF Reported
<1> QED
  BY <1>7, <1>8, <1>13 DEF issue

\* NothingActiveIsLost: no failed request for a span, no repeat in another
\* track and no order of the goroutines keeps an active issue from the result,
\* for any number of tracks and issues, if its spans are in the window.
THEOREM ActiveIssuesAreReported == Spec => []NothingActiveIsLost
  BY Invariance, NothingLostFollows, PTL

-----------------------------------------------------------------------------
(* What a page leaves out.                                                 *)

\* A chosen item is on the first page by a key, if fewer chosen items than the
\* page holds come no later.
LEMMA PageHas ==
    ASSUME NEW D, NEW s \in Seq(D), NEW S, NEW f, \A j \in 1..Len(s) : f[s[j]] \in Int,
           NEW keys, keys = [i \in DOMAIN Among(s, S) |-> f[Among(s, S)[i]]],
           NEW k \in 1..Len(s), s[k] \in S,
           NEW Others, IsFiniteSet(Others), Cardinality(Others) < Page,
           \A j \in 1..Len(s) : j # k /\ s[j] \in S /\ f[s[j]] <= f[s[k]] => j \in Others
    PROVE  s[k] \in ToSet(FirstPage(SortedBy(Among(s, S), keys)))
<1> DEFINE a == Among(s, S)
           n == Len(a)
<1>1. a \in Seq(D) /\ \E g : Selects(g, s, S, Len(s), a)
  BY AmongSelects
<1> HIDE DEF a
<1>2. PICK g : Selects(g, s, S, Len(s), a)
  BY <1>1
<1>3. n \in Nat /\ DOMAIN a = 1..n /\ Len(s) \in Nat
  BY <1>1
<1>4. /\ \A i \in 1..n : g[i] \in 1..Len(s) /\ a[i] = s[g[i]] /\ s[g[i]] \in S
      /\ \A i, j \in 1..n : i < j => g[i] < g[j]
  BY <1>2 DEF Selects
<1>5. PICK i \in 1..n : g[i] = k
  BY <1>2 DEF Selects
<1>6. \A j \in 1..n : keys[j] = f[a[j]] /\ keys[j] \in Int
  BY <1>3, <1>4 DEF a
<1>7. keys \in [1..n -> Int]
  <2>1. keys = [j \in 1..n |-> f[a[j]]]
    BY <1>3 DEF a
  <2> QED
    BY <1>6, <2>1
<1>8. \A j, m \in 1..n : g[j] = g[m] => j = m
  <2> SUFFICES ASSUME NEW j \in 1..n, NEW m \in 1..n, g[j] = g[m] PROVE j = m
    OBVIOUS
  <2>1. g[j] \in Int /\ g[m] \in Int /\ j \in Int /\ m \in Int
    BY <1>3, <1>4
  <2>2. ~(j < m) /\ ~(m < j)
    BY <1>4, <2>1
  <2> QED
    BY <2>1, <2>2
<1>9. \A j \in 1..n : j # i /\ keys[j] <= keys[i] => g[j] \in Others
  <2> SUFFICES ASSUME NEW j \in 1..n, j # i, keys[j] <= keys[i] PROVE g[j] \in Others
    OBVIOUS
  <2>1. g[j] # k /\ g[j] \in 1..Len(s) /\ s[g[j]] \in S
    BY <1>4, <1>5, <1>8
  <2>2. f[s[g[j]]] <= f[s[k]]
    BY <1>4, <1>5, <1>6
  <2> QED
    BY <2>1, <2>2
<1> HIDE DEF n
<1>10. /\ Place(keys, i) \in Nat /\ Cardinality(Others) \in Nat
       /\ Place(keys, i) <= Cardinality(Others) + 1
  BY <1>3, <1>7, <1>8, <1>9, PlaceAmong
<1>11. Place(keys, i) <= Page
  BY <1>10, PageAssumption
<1>12. a[i] \in ToSet(FirstPage(SortedBy(a, keys)))
  BY <1>1, <1>7, <1>11, SortedPage DEF n
<1> QED
  BY <1>4, <1>5, <1>12 DEF a

\* A sequence that is empty or has one element.
AtMostOne(s) == s = <<>> \/ s = <<s[1]>>

LEMMA FirstOfOne ==
    ASSUME NEW s, AtMostOne(s), s # <<>>
    PROVE  s[1] \in ToSet(s)
<1> DEFINE x == s[1]
<1>1. s = <<x>>
  BY DEF AtMostOne
<1> HIDE DEF x
<1>2. x \in ToSet(<<x>>)
  BY OneOrNone
<1> QED
  BY <1>1, <1>2 DEF x

\* The event of an alert event in the window does not depend on its start.
LEMMA ItemEventAnyStart ==
    ASSUME NEW item, item.ts \in Nat, NEW since \in Nat, since <= item.ts
    PROVE  /\ MapEventItem(item, since) = MapEventItem(item, 0)
           /\ AtMostOne(MapEventItem(item, 0))
<1> DEFINE e == Event(item.id,
                      FirstGiven(<<item.tagService, item.service, item.queryService>>),
                      ItemSeverity[item.status], item.ts, item.title)
           Passes == /\ item.type = "event" /\ item.monitor /\ item.ts # 0
                     /\ item.status \in DOMAIN ItemSeverity
                     /\ RequiredTags \subseteq item.tags
<1>1. item.ts >= since /\ item.ts >= 0
  OBVIOUS
<1>2. CASE Passes
  <2>1. MapEventItem(item, since) = <<e>> /\ MapEventItem(item, 0) = <<e>>
    BY <1>1, <1>2 DEF MapEventItem
  <2> HIDE DEF e
  <2> QED
    BY <2>1 DEF AtMostOne
<1>3. CASE ~Passes
  <2>1. MapEventItem(item, since) = <<>> /\ MapEventItem(item, 0) = <<>>
    BY <1>3 DEF MapEventItem
  <2> QED
    BY <2>1 DEF AtMostOne
<1> QED
  BY <1>2, <1>3

\* The event of a hit is one of its service.
LEMMA HitEventOne ==
    ASSUME NEW hit, MapSearchHit(hit) # <<>>
    PROVE  /\ AtMostOne(MapSearchHit(hit)) /\ MapSearchHit(hit)[1].service = hit.service
<1> DEFINE e == Event(hit.summary, hit.service, ExtractSeverity(hit), hit.ts, hit.summary)
<1>1. MapSearchHit(hit) = <<e>>
  BY DEF MapSearchHit
<1>2. e.service = hit.service
  BY DEF Event
<1> HIDE DEF e
<1> QED
  BY <1>1, <1>2 DEF AtMostOne

\* What the answer has of an item on its page.
LEMMA AnswerHas ==
    ASSUME InputOK
    PROVE  /\ provider = "events" => \A item \in ToSet(FoundEvents) :
                  ToSet(MapEventItem(item, query.since)) \subseteq ToSet(Answer)
           /\ provider = "logs" => \A hit \in ToSet(FoundHits) :
                  ToSet(MapSearchHit(hit)) \subseteq ToSet(Answer)
<1>1. ASSUME provider = "events", NEW item \in ToSet(FoundEvents)
      PROVE  ToSet(MapEventItem(item, query.since)) \subseteq ToSet(Answer)
  <2> DEFINE n == Len(FoundEvents)
             ss == [k \in 1..n |-> MapEventItem(FoundEvents[k], query.since)]
             D == UNION {ToSet(MapEventItem(FoundEvents[k], query.since)) : k \in 1..n}
  <2>1. FoundEvents \in Seq(ToSet(held))
    BY <1>1, FoundPages
  <2>2. n \in Nat /\ DOMAIN FoundEvents = 1..n
    BY <2>1
  <2>3. Answer = FlattenSeq(ss)
    BY <1>1, <2>2 DEF Answer
  <2>4. \A k \in 1..n : ss[k] \in Seq(D) /\ ss[k] = MapEventItem(FoundEvents[k], query.since)
    <3> SUFFICES ASSUME NEW k \in 1..n PROVE ss[k] \in Seq(D)
      OBVIOUS
    <3>1. ss[k] \in Seq(ToSet(ss[k])) /\ ToSet(ss[k]) \subseteq D
      BY ItemEvents
    <3> QED
      BY <3>1
  <2>5. ss = [k \in 1..n |-> ss[k]]
    OBVIOUS
  <2>6. PICK k \in 1..n : FoundEvents[k] = item
    BY <2>2 DEF ToSet
  <2> HIDE DEF ss, n, D
  <2>7. ToSet(FlattenSeq(ss)) = UNION {ToSet(ss[j]) : j \in 1..n}
    BY <2>2, <2>4, <2>5, FlattenParts
  <2> QED
    BY <2>3, <2>4, <2>6, <2>7
<1>2. ASSUME provider = "logs", NEW hit \in ToSet(FoundHits)
      PROVE  ToSet(MapSearchHit(hit)) \subseteq ToSet(Answer)
  <2> DEFINE n == Len(FoundHits)
             ss == [k \in 1..n |-> MapSearchHit(FoundHits[k])]
             D == UNION {ToSet(MapSearchHit(FoundHits[k])) : k \in 1..n}
  <2>1. FoundHits \in Seq(ToSet(held)) /\ \A h \in ToSet(held) : h.code \in Nat
    BY <1>2, FoundPages, InputFacts
  <2>2. n \in Nat /\ DOMAIN FoundHits = 1..n
    BY <2>1
  <2>3. Answer = FlattenSeq(ss)
    BY <1>2, <2>2 DEF Answer
  <2>4. \A k \in 1..n : ss[k] \in Seq(D) /\ ss[k] = MapSearchHit(FoundHits[k])
    <3> SUFFICES ASSUME NEW k \in 1..n PROVE ss[k] \in Seq(D)
      OBVIOUS
    <3>1. FoundHits[k].code \in Nat
      BY <2>1
    <3>2. ss[k] \in Seq(ToSet(ss[k])) /\ ToSet(ss[k]) \subseteq D
      BY <3>1, HitEvents
    <3> QED
      BY <3>2
  <2>5. ss = [k \in 1..n |-> ss[k]]
    OBVIOUS
  <2>6. PICK k \in 1..n : FoundHits[k] = hit
    BY <2>2 DEF ToSet
  <2> HIDE DEF ss, n, D
  <2>7. ToSet(FlattenSeq(ss)) = UNION {ToSet(ss[j]) : j \in 1..n}
    BY <2>2, <2>4, <2>5, FlattenParts
  <2> QED
    BY <2>3, <2>4, <2>6, <2>7
<1> QED
  BY <1>1, <1>2

\* An event in the window of the first service asked for is reported, if the
\* answer has it.
LEMMA AnsweredIsReported ==
    ASSUME CallOK, result.status = "ok", provider # "errors",
           NEW e \in ToSet(Answer), Inside(e.ts), OfFirstService(e.service)
    PROVE  Reported(e.service, e.summary)
<1>1. InputOK /\ query.services \in Seq(ToSet(query.services))
  BY InputFacts DEF CallOK
<1>2. result.signals = Signals /\ task["single"].step = "done"
  BY EndedWell DEF Ended
<1>3. task["single"].events = Answer
  <2>1. "single" \in TasksOf(provider)
    BY DEF TasksOf
  <2>2. SingleOK(task["single"])
    BY <2>1 DEF CallOK, TaskOK
  <2> QED
    BY <1>2, <2>2 DEF SingleOK
<1>4. MatchesService(query.services, e.service)
  <2>1. CASE query.services = <<>>
    BY <2>1 DEF MatchesService
  <2>2. CASE query.services # <<>>
    <3>1. e.service = query.services[1] /\ 1 \in DOMAIN query.services
      BY <1>1, <2>2 DEF OfFirstService
    <3> QED
      BY <3>1 DEF MatchesService
  <2> QED
    BY <2>1, <2>2
<1>5. Matches(query, e)
  BY <1>4 DEF Matches, InWindow, Inside
<1>6. \E n \in DOMAIN Signals :
          Signals[n].service = e.service /\ Signals[n].summary = e.summary
  BY <1>3, <1>5, SignalsAre
<1> QED
  BY <1>2, <1>6 DEF Reported

\* An alert event on whose page there is room.
LEMMA EventNotLost ==
    ASSUME CallOK, result.status = "ok", provider = "events", NEW k \in DOMAIN held,
           held[k].ts <= InSeconds(Now), MapEventItem(held[k], 0) # <<>>, Inside(held[k].ts),
           OfFirstService(MapEventItem(held[k], 0)[1].service),
           Cardinality({j \in DOMAIN held : j # k /\ held[j].ts <= held[k].ts
                                           /\ InSeconds(query.since) <= held[j].ts}) < Page
    PROVE  Reported(MapEventItem(held[k], 0)[1].service, MapEventItem(held[k], 0)[1].summary)
<1> DEFINE item == held[k]
           S == {x \in ToSet(held) : InSeconds(query.since) <= x.ts /\ x.ts <= InSeconds(Now)}
           a == Among(held, S)
           f == [x \in ToSet(held) |-> x.ts]
           keys == [i \in DOMAIN a |-> a[i].ts]
           Others == {j \in DOMAIN held : j # k /\ held[j].ts <= held[k].ts
                                          /\ InSeconds(query.since) <= held[j].ts}
           e == MapEventItem(item, 0)[1]
<1>1. /\ InputOK /\ held \in Seq(ToSet(held)) /\ query.since \in Nat
      /\ \A x \in ToSet(held) : x.ts \in Nat
  BY InputFacts DEF CallOK
<1>2. /\ k \in 1..Len(held) /\ Len(held) \in Nat /\ DOMAIN held = 1..Len(held)
      /\ \A j \in 1..Len(held) : held[j] \in ToSet(held) /\ held[j].ts \in Nat
  BY <1>1 DEF ToSet
<1>3. held[k] \in S
  <2>1. InSeconds(query.since) \in Int /\ InSeconds(query.since) <= query.since
    BY <1>1, FloorMonotone, TimeAssumption DEF InSeconds
  <2>2. query.since <= held[k].ts
    BY DEF Inside
  <2> QED
    BY <1>1, <1>2, <2>1, <2>2
<1>4. IsFiniteSet(Others)
  <2>1. Others \in SUBSET (1..Len(held)) /\ IsFiniteSet(1..Len(held))
    BY <1>2, FS_Interval
  <2> HIDE DEF Others
  <2> QED
    BY <2>1, FS_Subset
<1>5. \A j \in 1..Len(held) : f[held[j]] = held[j].ts /\ f[held[j]] \in Int
  BY <1>2
<1>6. \A j \in 1..Len(held) :
          j # k /\ held[j] \in S /\ f[held[j]] <= f[held[k]] => j \in Others
  BY <1>2, <1>5
<1>7. keys = [i \in DOMAIN a |-> f[a[i]]]
  <2>1. \A i \in DOMAIN a : a[i] \in ToSet(held)
    <3> HIDE DEF S
    <3>1. a \in Seq(ToSet(held))
      BY <1>1, AmongElements
    <3> HIDE DEF a
    <3> QED
      BY <3>1
  <2> QED
    BY <2>1
<1>8. FoundEvents = FirstPage(SortedBy(a, keys))
  BY DEF FoundEvents, FirstOldest
<1>9. held[k] \in ToSet(FoundEvents)
  <2>1. Cardinality(Others) < Page
    OBVIOUS
  <2> HIDE DEF f, keys, S, Others
  <2> QED
    BY <1>1, <1>2, <1>3, <1>4, <1>5, <1>6, <1>7, <1>8, <2>1, PageHas
<1>10. /\ MapEventItem(item, query.since) = MapEventItem(item, 0)
       /\ AtMostOne(MapEventItem(item, 0))
  BY <1>1, <1>2, ItemEventAnyStart DEF Inside
<1>11. e \in ToSet(MapEventItem(item, query.since)) /\ e.ts = item.ts
  BY <1>10, FirstOfOne, ItemEvents
<1>12. e \in ToSet(Answer)
  BY <1>1, <1>9, <1>11, AnswerHas
<1> HIDE DEF e
<1>13. Reported(e.service, e.summary)
  BY <1>11, <1>12, AnsweredIsReported DEF e
<1> QED
  BY <1>13 DEF e

\* A log on whose page there is room.
LEMMA HitNotLost ==
    ASSUME CallOK, result.status = "ok", provider = "logs", NEW k \in DOMAIN held,
           SeverityFilter(held[k]), MapSearchHit(held[k]) # <<>>, Inside(held[k].ts),
           OfFirstService(MapSearchHit(held[k])[1].service),
           Cardinality({j \in DOMAIN held : j # k /\ held[j].ts >= held[k].ts
                            /\ SeverityFilter(held[j]) /\ OfFirstService(held[j].service)}) < Page
    PROVE  Reported(MapSearchHit(held[k])[1].service, MapSearchHit(held[k])[1].summary)
<1> DEFINE service == FirstService(query.services, ConfiguredService)
           S == {hit \in ToSet(held) :
                    /\ RangeFilter(query, hit)
                    /\ query.services = <<>> \/ ServiceFilter(service, hit)
                    /\ SeverityFilter(hit)}
           a == Among(held, S)
           f == [x \in ToSet(held) |-> -x.ts]
           keys == [i \in DOMAIN a |-> -a[i].ts]
           Others == {j \in DOMAIN held : j # k /\ held[j].ts >= held[k].ts
                            /\ SeverityFilter(held[j]) /\ OfFirstService(held[j].service)}
           e == MapSearchHit(held[k])[1]
<1>1. /\ InputOK /\ held \in Seq(ToSet(held)) /\ query.since \in Nat /\ query.until \in Nat
      /\ \A x \in ToSet(held) : x.ts \in Nat /\ x.code \in Nat
  BY InputFacts DEF CallOK
<1>2. /\ k \in 1..Len(held) /\ Len(held) \in Nat /\ DOMAIN held = 1..Len(held)
      /\ \A j \in 1..Len(held) : held[j] \in ToSet(held) /\ held[j].ts \in Nat
  BY <1>1 DEF ToSet
<1>3. \A hit : query.services = <<>> \/ ServiceFilter(service, hit) <=> OfFirstService(hit.service)
  <2>1. CASE query.services = <<>>
    BY <2>1 DEF OfFirstService
  <2>2. CASE query.services # <<>>
    <3> DEFINE first == query.services[1]
    <3>1. query.services \in Seq(ToSet(query.services)) /\ query \in Queries
      BY <1>1, InputFacts DEF InputOK
    <3>2. first \in ToSet(query.services) /\ service = first
      BY <2>2, <3>1 DEF FirstService
    <3>3. ~IsBlank(first) /\ Trim(first) = first
      BY <3>1, <3>2, QueriesAssumption
    <3> HIDE DEF service, first
    <3>4. \A hit : ServiceFilter(service, hit) <=> hit.service = first
      BY <3>2, <3>3 DEF ServiceFilter
    <3> QED
      BY <2>2, <3>4 DEF OfFirstService, first
  <2> QED
    BY <2>1, <2>2
<1> HIDE DEF service
<1>4. AtMostOne(MapSearchHit(held[k])) /\ e.service = held[k].service
  BY HitEventOne
<1>5. held[k] \in S
  <2>1. query.since <= held[k].ts /\ held[k].ts <= query.until
    BY DEF Inside
  <2>2. /\ InSeconds(query.since) \in Int /\ InSeconds(query.since) <= query.since
        /\ InSeconds(held[k].ts) <= InSeconds(query.until)
    <3>1. /\ query.since \in Int /\ held[k].ts \in Int /\ query.until \in Int
          /\ Second \in Nat \ {0} /\ query.since <= query.since
      BY <1>1, <1>2, TimeAssumption
    <3>2. /\ query.since - (query.since % Second) \in Int
          /\ query.since - (query.since % Second) <= query.since
      BY <3>1, FloorMonotone
    <3>3. held[k].ts - (held[k].ts % Second) <= query.until - (query.until % Second)
      BY <2>1, <3>1, FloorMonotone
    <3> QED
      BY <3>2, <3>3 DEF InSeconds
  <2>3. RangeFilter(query, held[k])
    BY <1>1, <1>2, <2>1, <2>2 DEF RangeFilter
  <2>4. query.services = <<>> \/ ServiceFilter(service, held[k])
    BY <1>3, <1>4
  <2> QED
    BY <1>2, <2>3, <2>4
<1>6. IsFiniteSet(Others)
  <2>1. Others \in SUBSET (1..Len(held)) /\ IsFiniteSet(1..Len(held))
    BY <1>2, FS_Interval
  <2> HIDE DEF Others
  <2> QED
    BY <2>1, FS_Subset
<1>7. \A j \in 1..Len(held) : f[held[j]] = -held[j].ts /\ f[held[j]] \in Int
  BY <1>2
<1>8. \A j \in 1..Len(held) :
          j # k /\ held[j] \in S /\ f[held[j]] <= f[held[k]] => j \in Others
  <2> SUFFICES ASSUME NEW j \in 1..Len(held), j # k, held[j] \in S, f[held[j]] <= f[held[k]]
               PROVE  j \in Others
    OBVIOUS
  <2>1. held[j].ts >= held[k].ts
    BY <1>2, <1>7
  <2>2. SeverityFilter(held[j]) /\ OfFirstService(held[j].service)
    BY <1>3
  <2> QED
    BY <1>2, <2>1, <2>2
<1>9. keys = [i \in DOMAIN a |-> f[a[i]]]
  <2>1. \A i \in DOMAIN a : a[i] \in ToSet(held)
    <3> HIDE DEF S
    <3>1. a \in Seq(ToSet(held))
      BY <1>1, AmongElements
    <3> HIDE DEF a
    <3> QED
      BY <3>1
  <2> QED
    BY <2>1
<1>10. FoundHits = FirstPage(SortedBy(a, keys))
  BY DEF FoundHits, FirstNewest, service
<1>11. held[k] \in ToSet(FoundHits)
  <2>1. Cardinality(Others) < Page
    OBVIOUS
  <2> HIDE DEF f, keys, S, Others
  <2> QED
    BY <1>1, <1>2, <1>5, <1>6, <1>7, <1>8, <1>9, <1>10, <2>1, PageHas
<1>12. e \in ToSet(MapSearchHit(held[k])) /\ e.ts = held[k].ts
  BY <1>1, <1>2, <1>4, FirstOfOne, HitEvents
<1>13. e \in ToSet(Answer)
  BY <1>1, <1>11, <1>12, AnswerHas
<1> HIDE DEF e
<1>14. Reported(e.service, e.summary)
  BY <1>12, <1>13, AnsweredIsReported DEF e
<1> QED
  BY <1>14 DEF e

LEMMA PagesFollow == CallOK => OnlyAFullPageLosesEvents
<1> SUFFICES ASSUME CallOK, result.status = "ok", provider \in {"events", "logs"},
                    NEW k \in DOMAIN held
             PROVE
            LET item == held[k]
                Others == IF provider = "events"
                          THEN {j \in DOMAIN held : j # k /\ held[j].ts <= item.ts
                                   /\ InSeconds(query.since) <= held[j].ts}
                          ELSE {j \in DOMAIN held : j # k /\ held[j].ts >= item.ts
                                   /\ SeverityFilter(held[j]) /\ OfFirstService(held[j].service)}
                Wanted == IF provider = "events"
                          THEN IF item.ts <= InSeconds(Now) THEN MapEventItem(item, 0) ELSE <<>>
                          ELSE IF SeverityFilter(item) THEN MapSearchHit(item) ELSE <<>>
            IN  /\ Wanted # <<>> /\ Inside(item.ts) /\ OfFirstService(Wanted[1].service)
                /\ Cardinality(Others) < Page
                => Reported(Wanted[1].service, Wanted[1].summary)
  BY DEF OnlyAFullPageLosesEvents
<1>1. CASE provider = "events"
  BY <1>1, EventNotLost
<1>2. CASE provider = "logs"
  BY <1>2, HitNotLost
<1> QED
  BY <1>1, <1>2

\* OnlyAFullPageLosesEvents: for any page size and window, and any precision the
\* bounds are sent with, a log of the first service in the window is reported
\* unless a page of others comes before it, and so is an alert event that is not
\* of the second the call is made in.
THEOREM OnlyPagesLose == Spec => []OnlyAFullPageLosesEvents
  BY Invariance, PagesFollow, PTL

=============================================================================
