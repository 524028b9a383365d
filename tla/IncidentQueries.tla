-------------------------- MODULE IncidentQueries ---------------------------
(***************************************************************************)
(* The use cases that read the history: findsimilarincidents,              *)
(* getincidenthistory and detectincidenttrends, while analyses go on       *)
(* saving. The repository is the atomic one that MemoryIncidentRepository  *)
(* implements, with what these use cases see of an incident: the position  *)
(* in `incidents` is its ID, and `severities` are the highest severities   *)
(* of its groups: 1 (low), 2 (medium) or 3 (high). A use case keeps        *)
(* nothing between two requests, so a behaviour has one query and ends     *)
(* with its answer.                                                        *)
(***************************************************************************)
EXTENDS ServiceNames, Selections, SequencesExt, FiniteSetsExt

CONSTANTS
    Fingerprints,
    ServiceOf,      \* the service of the groups with a fingerprint
    SeveritiesOf,   \* the group severities an analysis with a fingerprint may have
    Limits,         \* the limits a client may send, 0 for none
    DefaultLimit,   \* defaultLimit of findsimilarincidents
    DefaultHistoryLimit,
    MaxSaves, MaxClock

ASSUME PatternsAssumption ==
    \A fp \in Fingerprints : ServiceOf[fp] \in Services /\ SeveritiesOf[fp] \subseteq Seq(1..3)
ASSUME NoneAssumption == None \notin Fingerprints
ASSUME LimitsAssumption ==
    Limits \subseteq Int /\ DefaultLimit \in Nat /\ DefaultHistoryLimit \in Nat

VARIABLES
    incidents,  \* the repository, in the order of the IDs
    now,        \* its clock
    saves,      \* Saves so far
    pc,         \* where the query is
    input,      \* its input
    exact,      \* FindSimilar's exact match, a set of at most one
    listed,     \* the incidents of the repository when they were listed
    answer      \* its result

vars == <<incidents, now, saves, pc, input, exact, listed, answer>>
repository == <<incidents, now, saves>>
query == <<pc, input, exact, listed, answer>>

NoInput == [kind |-> "none"]

Init ==
    /\ incidents = <<>> /\ now = 1 /\ saves = 0
    /\ pc = "idle" /\ input = NoInput /\ exact = {} /\ listed = <<>>
    /\ answer = <<>>

-----------------------------------------------------------------------------
(* The repository.                                                         *)

IndexOf(fp) == {i \in DOMAIN incidents : incidents[i].fingerprint = fp}

Save(fp, severities) ==
    /\ pc \notin {"answered", "refused"} /\ saves < MaxSaves
    /\ saves' = saves + 1
    /\ incidents' =
         IF IndexOf(fp) # {}
         THEN [i \in DOMAIN incidents |->
                  IF i \in IndexOf(fp)
                  THEN [incidents[i] EXCEPT !.recurrence = @ + 1]
                  ELSE incidents[i]]
         ELSE Append(incidents,
                  [id |-> Len(incidents) + 1, fingerprint |-> fp,
                   service |-> ServiceOf[fp], severities |-> severities,
                   createdAt |-> now, recurrence |-> 1])
    /\ UNCHANGED <<now, query>>

Tick ==
    /\ pc \notin {"answered", "refused"} /\ now < MaxClock
    /\ now' = now + 1
    /\ UNCHANGED <<incidents, saves, query>>

\* The orders in which a list may come: newest first, ties in any order.
NewestFirst(S) ==
    {s \in [1..Cardinality(S) -> S] :
        /\ \A x \in S : \E k \in DOMAIN s : s[k] = x
        /\ \A i, j \in DOMAIN s : i < j => s[i].createdAt >= s[j].createdAt}

OfService(all, service) == {inc \in ToSet(all) : inc.service = service}

-----------------------------------------------------------------------------
(* findsimilarincidents: two reads of the repository.                      *)

LimitOr(limit, default) == IF limit <= 0 THEN default ELSE limit

FirstFew(s, n) == SubSeq(s, 1, IF Len(s) < n THEN Len(s) ELSE n)

Ask(kind, fp, service, limit) ==
    /\ pc = "idle"
    /\ input' = [kind |-> kind, fingerprint |-> fp, service |-> service, limit |-> limit]
    /\ pc' = IF \/ kind = "similar" /\ fp = None /\ service = None
                \/ kind = "history" /\ service = None
             THEN "refused"
             ELSE kind
    /\ UNCHANGED <<repository, exact, listed, answer>>

Find ==
    /\ pc = "similar"
    /\ exact' = {incidents[i] : i \in IndexOf(input.fingerprint)}
    /\ pc' = "related"
    /\ UNCHANGED <<repository, input, listed, answer>>

\* Mutant: the exact match is not excluded.
RelatedWithExact(order) ==
    FirstFew(order, LimitOr(input.limit, DefaultLimit))

\* The incidents of the service but the exact match, up to the limit.
Related(order) ==
    FirstFew(Among(order, {inc \in ToSet(order) : \A e \in exact : inc.id # e.id}),
             LimitOr(input.limit, DefaultLimit))

List ==
    /\ pc = "related"
    /\ listed' = incidents
    /\ \E order \in NewestFirst(OfService(incidents, input.service)) :
           answer' = Related(order)
    /\ pc' = "answered"
    /\ UNCHANGED <<repository, input, exact>>

-----------------------------------------------------------------------------
(* getincidenthistory.                                                     *)

\* Mutant: the page is cut before it is counted.
HistoryOfPage(order) ==
    LET page == FirstFew(order, LimitOr(input.limit, DefaultHistoryLimit))
    IN  [incidents |-> page, total |-> Len(page)]

HistoryOf(order) ==
    [incidents |-> FirstFew(order, LimitOr(input.limit, DefaultHistoryLimit)),
     total |-> Len(order)]

History ==
    /\ pc = "history"
    /\ listed' = incidents
    /\ \E order \in NewestFirst(OfService(incidents, input.service)) :
           answer' = HistoryOf(order)
    /\ pc' = "answered"
    /\ UNCHANGED <<repository, input, exact>>

-----------------------------------------------------------------------------
(* detectincidenttrends.                                                   *)

Score(severity) == IF severity = 0 THEN 0 ELSE <<33, 66, 100>>[severity]

GroupSeverities(incs) == FlattenSeq([k \in DOMAIN incs |-> incs[k].severities])

\* avgSeverityScore as a fraction: total over count, 0 without groups.
Average(incs) ==
    LET sevs == GroupSeverities(incs)
    IN  IF sevs = <<>> THEN [total |-> 0, count |-> 1]
        ELSE [total |-> SumFunction([k \in DOMAIN sevs |-> Score(sevs[k])]), count |-> Len(sevs)]

\* Does average a exceed b by more than 0.15?
Exceeds(a, b) == a.total * b.count - b.total * a.count > 15 * a.count * b.count

\* Mutant: the incidents are taken to be oldest first.
SeverityTrendReversed(incs) ==
    LET mid == Len(incs) \div 2
        older == Average(SubSeq(incs, 1, mid))
        newer == Average(SubSeq(incs, mid + 1, Len(incs)))
    IN  IF Len(incs) < 2 THEN "stable"
        ELSE CASE Exceeds(newer, older) -> "worsening"
               [] Exceeds(older, newer) -> "improving"
               [] OTHER -> "stable"

\* severityTrend of incidents in newest-first order.
SeverityTrend(incs) ==
    LET mid == Len(incs) \div 2
        newer == Average(SubSeq(incs, 1, mid))
        older == Average(SubSeq(incs, mid + 1, Len(incs)))
    IN  IF Len(incs) < 2 THEN "stable"
        ELSE CASE Exceeds(newer, older) -> "worsening"
               [] Exceeds(older, newer) -> "improving"
               [] OTHER -> "stable"

CountOf(sev, sevs) == Cardinality({k \in DOMAIN sevs : sevs[k] = sev})

\* Mutant: a severity as frequent as the best replaces it.
MoreDominantOrEqual(sev, best, sevs) == CountOf(sev, sevs) >= CountOf(best, sevs)

\* Does sev replace the best severity so far? The score breaks ties.
MoreDominant(sev, best, sevs) ==
    \/ CountOf(sev, sevs) > CountOf(best, sevs)
    \/ CountOf(sev, sevs) = CountOf(best, sevs) /\ Score(sev) > Score(best)

\* The best severity after one more is visited, 0 if there is none.
Better(best, sev, sevs) ==
    IF CountOf(sev, sevs) > 0 /\ MoreDominant(sev, best, sevs) THEN sev ELSE best

\* dominantSeverity, visiting the counts in the order of a map iteration: low
\* when there is nothing to count.
Dominant(incs, visits) ==
    LET sevs == GroupSeverities(incs)
        best == Better(Better(Better(0, visits[1], sevs), visits[2], sevs), visits[3], sevs)
    IN  IF best = 0 THEN 1 ELSE best

\* The orders in which a map of the severities may be visited.
Visits == {v \in [1..3 -> 1..3] : \A sev \in 1..3 : \E k \in 1..3 : v[k] = sev}

\* The trend of one service from its incidents in newest-first order.
TrendOf(incs, visits) ==
    [count      |-> Len(incs),
     recurrence |-> SumFunction([k \in DOMAIN incs |-> incs[k].recurrence]),
     dominant   |-> Dominant(incs, visits),
     direction  |-> SeverityTrend(incs),
     incidents  |-> incs]

\* computeTrends: the trend of every service that has incidents, each bucket
\* sorted newest first and counted in one iteration order.
Trends ==
    /\ pc = "trends"
    /\ listed' = incidents
    /\ LET services == {s \in Services :
                /\ OfService(incidents, s) # {}
                /\ input.service \in {None, s}}
       IN  \E visits \in Visits :
           \E order \in [services ->
                       UNION {NewestFirst(OfService(incidents, s)) : s \in services}] :
               /\ \A s \in services : order[s] \in NewestFirst(OfService(incidents, s))
               /\ answer' = [s \in services |-> TrendOf(order[s], visits)]
    /\ pc' = "answered"
    /\ UNCHANGED <<repository, input, exact>>

-----------------------------------------------------------------------------

Next ==
    \/ \E fp \in Fingerprints : \E severities \in SeveritiesOf[fp] : Save(fp, severities)
    \/ Tick
    \/ \E fp \in Fingerprints \cup {None}, service \in Services \cup {None},
          limit \in Limits : Ask("similar", fp, service, limit)
    \/ \E service \in Services \cup {None}, limit \in Limits :
          Ask("history", None, service, limit)
    \/ \E service \in Services \cup {None} : Ask("trends", None, service, 0)
    \/ Find \/ List \/ History \/ Trends

Spec == Init /\ [][Next]_vars

-----------------------------------------------------------------------------
(* Properties.                                                             *)

Answered(kind) == pc = "answered" /\ input.kind = kind

\* Of a list that is cut to n, the incidents left out are not newer than those
\* kept, and none is left out while there is room.
NewestOf(page, all, n) ==
    /\ ToSet(page) \subseteq all
    /\ Cardinality(ToSet(page)) = Len(page)
    /\ Len(page) = (IF Cardinality(all) < n THEN Cardinality(all) ELSE n)
    /\ \A inc \in all \ ToSet(page) : \A k \in DOMAIN page :
           page[k].createdAt >= inc.createdAt

\* FindByFingerprint and ListByService are two calls (lines 45 and 55), and
\* Saves may come between them. Still the exact match is never listed again,
\* even when its recurrence has changed in between; the related incidents are
\* the newest others; and the exact match is not one the list should have had
\* and lost.
SimilarIsConsistent ==
    Answered("similar") =>
        /\ \A e \in exact :
               /\ e.fingerprint = input.fingerprint
               /\ e.recurrence <= listed[e.id].recurrence
        /\ NewestOf(answer,
                    {inc \in OfService(listed, input.service) :
                        \A e \in exact : e.fingerprint # inc.fingerprint},
                    LimitOr(input.limit, DefaultLimit))

\* Total counts the incidents of the service, however few of them the page
\* shows, and the page shows the newest (getincidenthistory 39-56).
HistoryIsNewest ==
    Answered("history") =>
        /\ answer.total = Cardinality(OfService(listed, input.service))
        /\ NewestOf(answer.incidents, OfService(listed, input.service),
                    LimitOr(input.limit, DefaultHistoryLimit))

\* severityTrend compares the halves of a list that it trusts to be newest
\* first (its comment; the order comes from the sort in computeTrends, line
\* 110). In terms of the history: a service is worsening only if one of its
\* incidents has a group more severe than one of another incident that was
\* created no later, or that has none; and improving only if it is the other
\* way round.
DirectionNeedsAMove ==
    Answered("trends") =>
        \A s \in DOMAIN answer :
            LET MoreSevere(i, j) ==
                    /\ i # j /\ i.severities # <<>>
                    /\ \/ j.severities = <<>>
                       \/ \E k \in DOMAIN i.severities, l \in DOMAIN j.severities :
                              i.severities[k] > j.severities[l]
                ofS == OfService(listed, s)
            IN  /\ answer[s].direction = "worsening" =>
                       \E i, j \in ofS : i.createdAt >= j.createdAt /\ MoreSevere(i, j)
                /\ answer[s].direction = "improving" =>
                       \E i, j \in ofS : i.createdAt <= j.createdAt /\ MoreSevere(i, j)

\* The dominant severity is the most frequent among the groups of the service
\* and the highest of those, whatever the order in which Go visits the counts.
DominantIsOrderFree ==
    Answered("trends") =>
        \A s \in DOMAIN answer :
            LET ofS == OfService(listed, s)
                Groups(sev) == SumFunction([inc \in ofS |-> CountOf(sev, inc.severities)])
                most == {sev \in 1..3 : /\ Groups(sev) > 0
                                        /\ \A other \in 1..3 : Groups(other) <= Groups(sev)}
            IN  answer[s].dominant = (IF most = {} THEN 1 ELSE Max(most))

=============================================================================
