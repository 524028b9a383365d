------------------------ MODULE ReadUseCases_proofs ------------------------
(***************************************************************************)
(* Proofs about the use cases that only read: the properties of            *)
(* IncidentQueries, for any history, limits and Saves between the two      *)
(* reads of a query; and, at the end, that the blast radius of             *)
(* ServiceDependencies is exact.                                           *)
(*                                                                         *)
(* The argument for the queries: a list is the incidents of a service,     *)
(* each once, newest first; what is left of it after a selection is such a *)
(* list of what was selected; and the first few of such a list are the     *)
(* newest. The exact match, read before the list, is still in the history  *)
(* under its ID. An average of scores lies between the least and the most  *)
(* of them, so that one half of a list exceeds the other only if a member  *)
(* outranks one of the other half. The groups of a list are counted member *)
(* by member, so the counts do not depend on its order; and a visit leaves *)
(* the better of two severities, which makes the last one left the best.   *)
(***************************************************************************)
EXTENDS IncidentQueries, ServiceDependencies, FoldTheorems

\* The incidents that Saves may have left.
Incidents == {[id |-> i, fingerprint |-> fp, service |-> s, severities |-> sevs,
               createdAt |-> t, recurrence |-> r] :
                  i \in Nat, fp \in Fingerprints, s \in Services,
                  sevs \in Seq(1..3), t \in Nat, r \in Nat}

\* s is the set S, each member once, newest first.
Lists(s, S) ==
    /\ S \subseteq Incidents /\ IsFiniteSet(S)
    /\ s \in Seq(Incidents) /\ ToSet(s) = S /\ Len(s) = Cardinality(S)
    /\ \A i, j \in 1..Len(s) : s[i] = s[j] => i = j
    /\ \A i, j \in 1..Len(s) : i < j => s[i].createdAt >= s[j].createdAt

-----------------------------------------------------------------------------
(* Lists.                                                                  *)

\* The fields of an incident.
LEMMA IncidentFields ==
    ASSUME NEW inc \in Incidents
    PROVE  /\ inc.id \in Nat /\ inc.fingerprint \in Fingerprints /\ inc.service \in Services
           /\ inc.severities \in Seq(1..3) /\ inc.createdAt \in Nat /\ inc.recurrence \in Nat
  BY DEF Incidents

\* The repository returns lists.
LEMMA NewestFirstLists ==
    ASSUME NEW S, S \subseteq Incidents, IsFiniteSet(S), NEW s \in NewestFirst(S)
    PROVE  Lists(s, S)
<1> DEFINE n == Cardinality(S)
<1>1. n \in Nat
  BY FS_CardinalityType
<1>2. /\ s \in [1..n -> S]
      /\ \A x \in S : \E k \in 1..n : s[k] = x
      /\ \A i, j \in 1..n : i < j => s[i].createdAt >= s[j].createdAt
  BY DEF NewestFirst
<1>3. IsFiniteSet(1..n) /\ Cardinality(1..n) = n
  <2> HIDE DEF n
  <2> QED
    BY <1>1, FS_Interval
<1>4. s \in Surjection(1..n, S)
  BY <1>2 DEF Surjection
<1>5. s \in Injection(1..n, S)
  <2> DEFINE I == 1..n
  <2>1. IsFiniteSet(I) /\ Cardinality(I) = Cardinality(S) /\ s \in Surjection(I, S)
    BY <1>3, <1>4
  <2> HIDE DEF I, n
  <2>2. s \in Injection(I, S)
    BY <2>1, FS_SurjSameCardinalityImpliesInj
  <2> QED
    BY <2>2 DEF I
<1> HIDE DEF n
<1>6. s \in Seq(Incidents) /\ Len(s) = n /\ DOMAIN s = 1..n
  BY <1>1, <1>2
<1>7. ToSet(s) = S
  BY <1>2, <1>6 DEF ToSet
<1>8. \A i, j \in 1..n : s[i] = s[j] => i = j
  BY <1>5 DEF Injection, IsInjective
<1> QED
  BY <1>2, <1>6, <1>7, <1>8 DEF Lists, n

\* What is selected from a list is a list of the selected.
LEMMA AmongLists ==
    ASSUME NEW S, NEW s, Lists(s, S), NEW T
    PROVE  Lists(Among(s, T), S \cap T)
<1> DEFINE a == Among(s, T)
<1>1. s \in Seq(Incidents) /\ ToSet(s) = S /\ S \subseteq Incidents /\ IsFiniteSet(S)
      /\ Len(s) \in Nat
  BY DEF Lists
<1>2. a \in Seq(Incidents) /\ ToSet(a) = S \cap T
  BY <1>1, AmongElements
<1>3. PICK g : Selects(g, s, T, Len(s), a)
  BY <1>1, AmongSelects
<1> HIDE DEF a
<1>4. /\ g \in [1..Len(a) -> 1..Len(s)] /\ Len(a) \in Nat
      /\ \A i \in 1..Len(a) : a[i] = s[g[i]]
      /\ \A i, j \in 1..Len(a) : i < j => g[i] < g[j]
  BY <1>2, <1>3 DEF Selects
<1>5. ASSUME NEW i \in 1..Len(a), NEW j \in 1..Len(a), a[i] = a[j] PROVE i = j
  <2>1. g[i] = g[j]
    BY <1>4, <1>5 DEF Lists
  <2>2. g[i] \in 1..Len(s)
    BY <1>4
  <2>3. ~(i < j) /\ ~(j < i)
    BY <1>1, <1>4, <2>1, <2>2
  <2> QED
    BY <2>3
<1>6. ASSUME NEW i \in 1..Len(a), NEW j \in 1..Len(a), i < j
      PROVE  a[i].createdAt >= a[j].createdAt
  <2>1. g[i] < g[j] /\ g[i] \in 1..Len(s) /\ g[j] \in 1..Len(s)
    BY <1>4, <1>6
  <2> QED
    BY <1>4, <2>1 DEF Lists
<1>7. IsFiniteSet(S \cap T) /\ S \cap T \subseteq Incidents
  BY <1>1, FS_Intersection
<1>8. Len(a) = Cardinality(S \cap T)
  <2>1. IsFiniteSet(1..Len(a)) /\ Cardinality(1..Len(a)) = Len(a)
    <3> DEFINE n == Len(a)
    <3>1. n \in Nat
      BY <1>4
    <3> HIDE DEF n
    <3>2. IsFiniteSet(1..n) /\ Cardinality(1..n) = n
      BY <3>1, FS_Interval
    <3> QED
      BY <3>2 DEF n
  <2>2. {a[i] : i \in 1..Len(a)} = S \cap T
    BY <1>2 DEF ToSet
  <2> DEFINE I == 1..Len(a)
  <2>3. Cardinality({a[i] : i \in I}) = Cardinality(I)
    <3>1. \A i \in I : \A j \in I : a[i] = a[j] => i = j
      BY <1>5
    <3> HIDE DEF I
    <3> QED
      BY <2>1, <3>1, InjectiveImage DEF I
  <2> QED
    BY <2>1, <2>2, <2>3
<1> QED
  BY <1>2, <1>5, <1>6, <1>7, <1>8 DEF Lists, a

\* The first few of a list are the newest.
LEMMA FirstFewNewest ==
    ASSUME NEW S, NEW s, Lists(s, S), NEW n \in Nat
    PROVE  NewestOf(FirstFew(s, n), S, n)
<1> DEFINE m == IF Len(s) < n THEN Len(s) ELSE n
           page == FirstFew(s, n)
<1>1. /\ s \in Seq(Incidents) /\ ToSet(s) = S /\ Len(s) = Cardinality(S) /\ Len(s) \in Nat
      /\ \A i, j \in 1..Len(s) : s[i] = s[j] => i = j
      /\ \A i, j \in 1..Len(s) : i < j => s[i].createdAt >= s[j].createdAt
  BY DEF Lists
<1>2. m \in 0..Len(s) /\ m <= n
  BY <1>1
<1> HIDE DEF m
<1>3. page \in Seq(Incidents) /\ Len(page) = m /\ \A k \in 1..m : page[k] = s[k]
  <2>1. page = SubSeq(s, 1, m)
    BY DEF FirstFew, m
  <2>2. SubSeq(s, 1, m) = [k \in 1..m |-> s[k]]
    BY <1>1, <1>2
  <2> HIDE DEF page
  <2>3. \A k \in 1..m : s[k] \in Incidents
    BY <1>1, <1>2
  <2>4. m \in Nat
    BY <1>2
  <2> QED
    BY <2>1, <2>2, <2>3, <2>4
<1> HIDE DEF page
<1>4. ToSet(page) = {s[k] : k \in 1..m}
  BY <1>3 DEF ToSet
<1>5. {s[k] : k \in 1..m} \subseteq S
  <2>1. \A k \in 1..Len(s) : s[k] \in S
    BY <1>1 DEF ToSet
  <2>2. \A k \in 1..m : k \in 1..Len(s)
    BY <1>1, <1>2
  <2> QED
    BY <2>1, <2>2
<1>6. Cardinality(ToSet(page)) = Len(page)
  <2> DEFINE I == 1..m
  <2>1. IsFiniteSet(I) /\ Cardinality(I) = m
    BY <1>2, FS_Interval
  <2>2. \A i \in I : \A j \in I : s[i] = s[j] => i = j
    BY <1>1, <1>2
  <2> HIDE DEF I
  <2>3. Cardinality({s[i] : i \in I}) = Cardinality(I)
    BY <2>1, <2>2, InjectiveImage
  <2> QED
    BY <1>3, <1>4, <2>1, <2>3 DEF I
<1>7. Len(page) = IF Cardinality(S) < n THEN Cardinality(S) ELSE n
  BY <1>1, <1>3 DEF m
<1>8. ASSUME NEW inc \in S \ ToSet(page), NEW k \in DOMAIN page
      PROVE  page[k].createdAt >= inc.createdAt
  <2>1. k \in 1..m
    BY <1>3
  <2>2. PICK i \in 1..Len(s) : inc = s[i]
    BY <1>1 DEF ToSet
  <2>3. ~(i \in 1..m)
    BY <1>4, <2>2
  <2>4. k < i
    BY <1>2, <2>1, <2>2, <2>3
  <2>5. page[k] = s[k] /\ k \in 1..Len(s)
    BY <1>2, <1>3, <2>1
  <2> QED
    BY <1>1, <2>2, <2>4, <2>5
<1> QED
  BY <1>4, <1>5, <1>6, <1>7, <1>8 DEF NewestOf, page

-----------------------------------------------------------------------------
(* The invariant.                                                          *)

\* The repository: the ID of an incident is its position, and no two have the
\* same fingerprint.
HistoryOK ==
    /\ incidents \in Seq(Incidents) /\ now \in Nat
    /\ \A i \in DOMAIN incidents : incidents[i].id = i
    /\ \A i, j \in DOMAIN incidents :
           incidents[i].fingerprint = incidents[j].fingerprint => i = j

\* The query: its input fits the step it is at.
InputOK ==
    /\ pc \in {"idle", "similar", "related", "history", "trends", "answered", "refused"}
    /\ pc \in {"similar", "related"} => input.kind = "similar"
    /\ pc = "history" => input.kind = "history"
    /\ pc = "trends" => input.kind = "trends"
    /\ pc \notin {"idle"} => input.limit \in Int

\* The exact match is in the history, with a recurrence that only grew.
ExactOK ==
    /\ pc \in {"idle", "similar", "history", "trends"} => exact = {}
    /\ pc = "related" =>
           \A e \in exact :
               /\ e.fingerprint = input.fingerprint
               /\ e.id \in DOMAIN incidents
               /\ incidents[e.id].fingerprint = e.fingerprint
               /\ e.recurrence \in Nat /\ e.recurrence <= incidents[e.id].recurrence

QueriesOK == HistoryOK /\ InputOK /\ ExactOK

LEMMA InitQueries == Init => QueriesOK
<1> SUFFICES ASSUME Init PROVE QueriesOK
  OBVIOUS
<1>1. incidents = <<>> /\ now = 1 /\ pc = "idle" /\ exact = {}
  BY DEF Init
<1>2. HistoryOK
  BY <1>1 DEF HistoryOK
<1>3. InputOK /\ ExactOK
  BY <1>1 DEF InputOK, ExactOK
<1> QED
  BY <1>2, <1>3 DEF QueriesOK

\* A Save of a pattern that is known changes its recurrence only.
LEMMA SaveAgain ==
    ASSUME QueriesOK, NEW fp \in Fingerprints, NEW sevs \in SeveritiesOf[fp], Save(fp, sevs),
           IndexOf(fp) # {}
    PROVE  QueriesOK'
<1>1. /\ incidents' = [i \in DOMAIN incidents |->
                         IF i \in IndexOf(fp)
                         THEN [incidents[i] EXCEPT !.recurrence = @ + 1]
                         ELSE incidents[i]]
      /\ now' = now /\ pc' = pc /\ input' = input /\ exact' = exact
  BY DEF Save, query
<1>2. incidents \in Seq(Incidents) /\ HistoryOK
  BY DEF QueriesOK, HistoryOK
<1>3. ASSUME NEW i \in DOMAIN incidents
      PROVE  /\ incidents'[i] \in Incidents
             /\ incidents'[i].id = incidents[i].id
             /\ incidents'[i].fingerprint = incidents[i].fingerprint
             /\ incidents[i].recurrence \in Nat
             /\ incidents[i].recurrence <= incidents'[i].recurrence
  <2>1. incidents[i] \in Incidents
    BY <1>2
  <2>2. incidents[i].recurrence \in Nat
    BY <2>1, IncidentFields
  <2>3. CASE i \in IndexOf(fp)
    <3>1. incidents'[i] = [incidents[i] EXCEPT !.recurrence = @ + 1]
      BY <1>1, <2>3
    <3>2. PICK k \in Nat, f \in Fingerprints, s \in Services,
               q \in Seq(1..3), t \in Nat, r \in Nat :
             incidents[i] = [id |-> k, fingerprint |-> f, service |-> s, severities |-> q,
                             createdAt |-> t, recurrence |-> r]
      BY <2>1 DEF Incidents
    <3>3. incidents'[i] = [id |-> k, fingerprint |-> f, service |-> s, severities |-> q,
                           createdAt |-> t, recurrence |-> r + 1]
      BY <3>1, <3>2
    <3>4. r + 1 \in Nat /\ r <= r + 1
      OBVIOUS
    <3>5. incidents'[i] \in Incidents
      BY <3>3, <3>4 DEF Incidents
    <3> QED
      BY <3>2, <3>3, <3>4, <3>5
  <2>4. CASE i \notin IndexOf(fp)
    <3>1. incidents'[i] = incidents[i]
      BY <1>1, <2>4
    <3> QED
      BY <2>1, <2>2, <3>1
  <2> QED
    BY <2>3, <2>4
<1>4. /\ Len(incidents) \in Nat /\ DOMAIN incidents = 1..Len(incidents)
      /\ DOMAIN incidents' = DOMAIN incidents
  BY <1>1, <1>2
<1>5. incidents' \in Seq(Incidents)
  <2> DEFINE s == incidents'
             n == Len(incidents)
  <2>1. s = [i \in 1..n |-> s[i]]
    BY <1>1, <1>4
  <2>2. n \in Nat /\ \A i \in 1..n : s[i] \in Incidents
    BY <1>3, <1>4
  <2> HIDE DEF s, n
  <2>3. s \in Seq(Incidents)
    BY <2>1, <2>2
  <2> QED
    BY <2>3 DEF s
<1>6. HistoryOK'
  BY <1>1, <1>2, <1>3, <1>4, <1>5 DEF HistoryOK
<1>7. InputOK'
  BY <1>1 DEF QueriesOK, InputOK
<1>8. ExactOK'
  <2>1. pc' = "related" =>
            \A e \in exact' :
               /\ e.fingerprint = input'.fingerprint
               /\ e.id \in DOMAIN incidents'
               /\ incidents'[e.id].fingerprint = e.fingerprint
               /\ e.recurrence \in Nat /\ e.recurrence <= incidents'[e.id].recurrence
    <3> SUFFICES ASSUME pc = "related", NEW e \in exact
                 PROVE  /\ e.fingerprint = input.fingerprint
                        /\ e.id \in DOMAIN incidents'
                        /\ incidents'[e.id].fingerprint = e.fingerprint
                        /\ e.recurrence \in Nat /\ e.recurrence <= incidents'[e.id].recurrence
      BY <1>1
    <3>1. /\ e.fingerprint = input.fingerprint /\ e.id \in DOMAIN incidents
          /\ incidents[e.id].fingerprint = e.fingerprint
          /\ e.recurrence \in Nat /\ e.recurrence <= incidents[e.id].recurrence
      BY DEF QueriesOK, ExactOK
    <3>2. /\ incidents'[e.id].fingerprint = incidents[e.id].fingerprint
          /\ incidents[e.id].recurrence \in Nat
          /\ incidents[e.id].recurrence <= incidents'[e.id].recurrence
          /\ incidents'[e.id].recurrence \in Nat
      BY <1>3, <3>1, IncidentFields
    <3> QED
      BY <1>4, <3>1, <3>2
  <2> QED
    BY <1>1, <2>1 DEF QueriesOK, ExactOK
<1> QED
  BY <1>6, <1>7, <1>8 DEF QueriesOK

\* A Save of a new pattern adds an incident after the others.
LEMMA SaveNew ==
    ASSUME QueriesOK, NEW fp \in Fingerprints, NEW sevs \in SeveritiesOf[fp], Save(fp, sevs),
           IndexOf(fp) = {}
    PROVE  QueriesOK'
<1> DEFINE n == Len(incidents)
           new == [id |-> n + 1, fingerprint |-> fp, service |-> ServiceOf[fp],
                   severities |-> sevs, createdAt |-> now, recurrence |-> 1]
<1>1. /\ incidents' = Append(incidents, new)
      /\ now' = now /\ pc' = pc /\ input' = input /\ exact' = exact
  BY DEF Save, query
<1>2. incidents \in Seq(Incidents) /\ now \in Nat /\ n \in Nat /\ DOMAIN incidents = 1..n
  BY DEF QueriesOK, HistoryOK
<1>3. new \in Incidents
  <2>1. ServiceOf[fp] \in Services /\ sevs \in Seq(1..3)
    BY PatternsAssumption
  <2>2. n + 1 \in Nat /\ 1 \in Nat
    BY <1>2
  <2> HIDE DEF n
  <2> QED
    BY <1>2, <2>1, <2>2 DEF Incidents
<1>4. new.id = n + 1 /\ new.fingerprint = fp
  OBVIOUS
<1> HIDE DEF new
<1>5. /\ incidents' \in Seq(Incidents) /\ DOMAIN incidents' = 1..(n + 1)
      /\ incidents'[n + 1] = new
      /\ \A i \in 1..n : incidents'[i] = incidents[i]
  BY <1>1, <1>2, <1>3
<1>6. \A i \in 1..n : incidents[i].fingerprint # fp
  BY <1>2 DEF IndexOf
<1>7. 1..(n + 1) = 1..n \cup {n + 1}
  BY <1>2
<1>8. HistoryOK'
  <2>1. \A i \in DOMAIN incidents' : incidents'[i].id = i
    BY <1>2, <1>4, <1>5, <1>7 DEF QueriesOK, HistoryOK
  <2>2. ASSUME NEW i \in DOMAIN incidents', NEW j \in DOMAIN incidents',
               incidents'[i].fingerprint = incidents'[j].fingerprint
        PROVE  i = j
    <3>1. CASE i \in 1..n /\ j \in 1..n
      BY <1>2, <1>5, <2>2, <3>1 DEF QueriesOK, HistoryOK
    <3>2. CASE i = n + 1 \/ j = n + 1
      BY <1>4, <1>5, <1>6, <1>7, <2>2, <3>2
    <3> QED
      BY <1>5, <1>7, <3>1, <3>2
  <2> QED
    BY <1>1, <1>2, <1>5, <2>1, <2>2 DEF HistoryOK
<1>9. InputOK'
  BY <1>1 DEF QueriesOK, InputOK
<1>10. ExactOK'
  <2>1. \A i \in DOMAIN incidents : i \in DOMAIN incidents' /\ incidents'[i] = incidents[i]
    BY <1>2, <1>5, <1>7
  <2> QED
    BY <1>1, <2>1 DEF QueriesOK, ExactOK
<1> QED
  BY <1>8, <1>9, <1>10 DEF QueriesOK

LEMMA NextQueries == QueriesOK /\ [Next]_vars => QueriesOK'
<1> SUFFICES ASSUME QueriesOK, [Next]_vars PROVE QueriesOK'
  OBVIOUS
<1> USE DEF QueriesOK
<1>1. ASSUME NEW fp \in Fingerprints, NEW sevs \in SeveritiesOf[fp], Save(fp, sevs)
      PROVE  QueriesOK'
  BY <1>1, SaveAgain, SaveNew
<1>2. ASSUME Tick PROVE QueriesOK'
  BY <1>2 DEF Tick, query, HistoryOK, InputOK, ExactOK
<1>3. ASSUME NEW kind \in {"similar", "history", "trends"}, NEW fp, NEW service,
             NEW limit \in Int, Ask(kind, fp, service, limit)
      PROVE  QueriesOK'
  <2>1. /\ incidents' = incidents /\ now' = now /\ exact' = exact /\ pc = "idle"
        /\ pc' \in {"refused", kind} /\ input'.kind = kind /\ input'.limit = limit
    BY <1>3 DEF Ask, repository
  <2>2. HistoryOK'
    BY <2>1 DEF HistoryOK
  <2>3. InputOK'
    BY <2>1 DEF InputOK
  <2>4. ExactOK'
    BY <2>1 DEF ExactOK
  <2> QED
    BY <2>2, <2>3, <2>4
<1>4. ASSUME Find PROVE QueriesOK'
  <2>1. /\ incidents' = incidents /\ now' = now /\ input' = input
        /\ pc = "similar" /\ pc' = "related"
        /\ exact' = {incidents[i] : i \in IndexOf(input.fingerprint)}
    BY <1>4 DEF Find, repository
  <2>2. HistoryOK' /\ InputOK'
    BY <2>1 DEF HistoryOK, InputOK
  <2>3. ASSUME NEW i \in IndexOf(input.fingerprint)
        PROVE  /\ incidents[i].fingerprint = input.fingerprint
               /\ incidents[i].id = i /\ i \in DOMAIN incidents
               /\ incidents[i].recurrence \in Nat
               /\ incidents[i].recurrence <= incidents[i].recurrence
    <3>1. i \in DOMAIN incidents /\ incidents[i].fingerprint = input.fingerprint
      BY DEF IndexOf
    <3>2. incidents[i].id = i /\ incidents[i] \in Incidents
      BY <3>1 DEF HistoryOK
    <3> QED
      BY <3>1, <3>2, IncidentFields
  <2>4. ExactOK'
    BY <2>1, <2>3 DEF ExactOK
  <2> QED
    BY <2>2, <2>4
<1>5. ASSUME List \/ History \/ Trends PROVE QueriesOK'
  <2>1. /\ incidents' = incidents /\ now' = now /\ input' = input
        /\ pc \in {"related", "history", "trends"} /\ pc' = "answered"
    BY <1>5 DEF List, History, Trends, repository
  <2> QED
    BY <2>1 DEF HistoryOK, InputOK, ExactOK
<1>6. ASSUME UNCHANGED vars PROVE QueriesOK'
  BY <1>6 DEF vars, HistoryOK, InputOK, ExactOK
<1>7. \A limit \in Limits : limit \in Int
  BY LimitsAssumption
<1>8. 0 \in Int
  OBVIOUS
<1> QED
  BY <1>1, <1>2, <1>3, <1>4, <1>5, <1>6, <1>7, <1>8 DEF Next

LEMMA QueriesAlwaysOK == Spec => []QueriesOK
  BY InitQueries, NextQueries, PTL DEF Spec

-----------------------------------------------------------------------------
(* The answers.                                                            *)

\* The incidents of a service come as a list.
LEMMA ServiceLists ==
    ASSUME QueriesOK, NEW service
    PROVE  /\ OfService(incidents, service) \subseteq Incidents
           /\ IsFiniteSet(OfService(incidents, service))
           /\ \A order \in NewestFirst(OfService(incidents, service)) :
                  Lists(order, OfService(incidents, service))
<1> DEFINE S == OfService(incidents, service)
<1>1. incidents \in Seq(Incidents) /\ Len(incidents) \in Nat
  BY DEF QueriesOK, HistoryOK
<1>2. ToSet(incidents) = {incidents[i] : i \in 1..Len(incidents)}
  BY <1>1 DEF ToSet
<1>3. S \in SUBSET ToSet(incidents) /\ ToSet(incidents) \subseteq Incidents
  BY <1>1, <1>2 DEF OfService
<1>4. IsFiniteSet(ToSet(incidents))
  <2>1. IsFiniteSet(1..Len(incidents))
    BY <1>1, FS_Interval
  <2> QED
    BY <1>2, <2>1, ImageCardinality
<1>5. IsFiniteSet(S) /\ S \subseteq Incidents
  <2> HIDE DEF S
  <2> QED
    BY <1>3, <1>4, FS_Subset
<1> HIDE DEF S
<1>6. \A order \in NewestFirst(S) : Lists(order, S)
  BY <1>5, NewestFirstLists
<1> QED
  BY <1>5, <1>6 DEF S

\* After the answer nothing happens.
LEMMA AnsweredStays == pc = "answered" /\ [Next]_vars => UNCHANGED vars
  BY DEF Next, Save, Tick, Ask, Find, List, History, Trends

\* What is answered, and by which step.
LEMMA AnsweringStep ==
    ASSUME QueriesOK, [Next]_vars, pc' = "answered"
    PROVE  \/ UNCHANGED vars
           \/ List /\ input'.kind = "similar"
           \/ History /\ input'.kind = "history"
           \/ Trends /\ input'.kind = "trends"
<1>1. CASE pc = "answered"
  BY <1>1, AnsweredStays
<1>2. CASE pc # "answered"
  <2>1. \A fp \in Fingerprints : \A sevs \in SeveritiesOf[fp] : ~Save(fp, sevs)
    BY <1>2 DEF Save, query
  <2>2. ~Tick /\ ~Find
    BY <1>2 DEF Tick, Find, query
  <2>3. \A fp, service, limit : /\ ~Ask("similar", fp, service, limit)
                                /\ ~Ask("history", fp, service, limit)
                                /\ ~Ask("trends", fp, service, limit)
    BY DEF Ask
  <2>4. List \/ History \/ Trends \/ UNCHANGED vars
    BY <2>1, <2>2, <2>3 DEF Next
  <2>5. /\ List => input'.kind = "similar"
        /\ History => input'.kind = "history"
        /\ Trends => input'.kind = "trends"
    BY DEF QueriesOK, InputOK, List, History, Trends
  <2> QED
    BY <2>4, <2>5
<1> QED
  BY <1>1, <1>2

\* The limit that is used is a natural number.
LEMMA LimitType ==
    ASSUME NEW limit \in Int, NEW default \in Nat
    PROVE  LimitOr(limit, default) \in Nat
  BY DEF LimitOr

\* The answer to a query for similar incidents.
LEMMA ListConsistent ==
    ASSUME QueriesOK, List
    PROVE  SimilarIsConsistent'
<1>1. /\ listed' = incidents /\ incidents' = incidents /\ input' = input /\ exact' = exact
      /\ pc = "related"
  BY DEF List, repository
<1> DEFINE S == OfService(incidents, input.service)
<1>2. PICK order \in NewestFirst(S) : answer' = Related(order)
  BY DEF List
<1>3. Lists(order, S)
  <2> HIDE DEF S
  <2> QED
    BY <1>2, ServiceLists DEF S
<1> DEFINE T == {inc \in ToSet(order) : \A e \in exact : inc.id # e.id}
           U == {inc \in S : \A e \in exact : e.fingerprint # inc.fingerprint}
           n == LimitOr(input.limit, DefaultLimit)
<1>4. \A e \in exact :
          /\ e.fingerprint = input.fingerprint /\ e.id \in DOMAIN incidents
          /\ incidents[e.id].fingerprint = e.fingerprint
          /\ e.recurrence <= incidents[e.id].recurrence
  BY <1>1 DEF QueriesOK, ExactOK
<1>5. S \cap T = U
  <2>1. ToSet(order) = S
    BY <1>3 DEF Lists
  <2>2. ASSUME NEW inc \in S, NEW e \in exact
        PROVE  inc.id = e.id <=> e.fingerprint = inc.fingerprint
    <3>1. PICK i \in DOMAIN incidents : inc = incidents[i]
      BY DEF OfService, ToSet
    <3>2. inc.id = i
      BY <3>1 DEF QueriesOK, HistoryOK
    <3>3. e.id \in DOMAIN incidents /\ incidents[e.id].fingerprint = e.fingerprint
      BY <1>4
    <3>4. incidents[i].fingerprint = incidents[e.id].fingerprint => i = e.id
      BY <3>1, <3>3 DEF QueriesOK, HistoryOK
    <3> QED
      BY <3>1, <3>2, <3>3, <3>4
  <2> QED
    BY <2>1, <2>2
<1>6. answer' = FirstFew(Among(order, T), n)
  BY <1>2 DEF Related
<1>7. n \in Nat
  BY <1>1, LimitType, LimitsAssumption DEF QueriesOK, InputOK
<1> HIDE DEF T, n, S
<1>8. Lists(Among(order, T), U)
  <2> HIDE DEF U
  <2> QED
    BY <1>3, <1>5, AmongLists
<1> HIDE DEF U
<1>9. NewestOf(answer', U, n)
  BY <1>6, <1>7, <1>8, FirstFewNewest
<1>10. /\ U = {inc \in OfService(listed', input'.service) :
                  \A e \in exact' : e.fingerprint # inc.fingerprint}
       /\ n = LimitOr(input'.limit, DefaultLimit)
  BY <1>1 DEF U, S, n
<1>11. NewestOf(answer', {inc \in OfService(listed', input'.service) :
                             \A e \in exact' : e.fingerprint # inc.fingerprint},
                LimitOr(input'.limit, DefaultLimit))
  BY <1>9, <1>10
<1>12. \A e \in exact' : /\ e.fingerprint = input'.fingerprint
                         /\ e.recurrence <= listed'[e.id].recurrence
  BY <1>1, <1>4
<1> QED
  BY <1>11, <1>12 DEF SimilarIsConsistent

\* findsimilarincidents: the exact match and the list agree although Saves may
\* come between the two reads (lines 45 and 55), for any history and limits.
THEOREM SimilarConsistent == Spec => []SimilarIsConsistent
<1>1. Init => SimilarIsConsistent
  BY DEF Init, SimilarIsConsistent, Answered
<1>2. SimilarIsConsistent /\ QueriesOK /\ [Next]_vars => SimilarIsConsistent'
  <2> SUFFICES ASSUME SimilarIsConsistent, QueriesOK, [Next]_vars, pc' = "answered"
               PROVE  SimilarIsConsistent'
    BY DEF SimilarIsConsistent, Answered
  <2>1. CASE UNCHANGED vars
    BY <2>1 DEF vars, SimilarIsConsistent, Answered
  <2>2. CASE List
    BY <2>2, ListConsistent
  <2>3. CASE input'.kind # "similar"
    BY <2>3 DEF SimilarIsConsistent, Answered
  <2> QED
    BY <2>1, <2>2, <2>3, AnsweringStep
<1> QED
  BY <1>1, <1>2, QueriesAlwaysOK, PTL DEF Spec

\* The answer to a query for the history.
LEMMA HistoryNewest ==
    ASSUME QueriesOK, History
    PROVE  HistoryIsNewest'
<1>1. listed' = incidents /\ incidents' = incidents /\ input' = input /\ pc = "history"
  BY DEF History, repository
<1> DEFINE S == OfService(incidents, input.service)
           n == LimitOr(input.limit, DefaultHistoryLimit)
<1>2. PICK order \in NewestFirst(S) : answer' = HistoryOf(order)
  BY DEF History
<1>3. Lists(order, S)
  <2> HIDE DEF S
  <2> QED
    BY <1>2, ServiceLists DEF S
<1>4. answer'.incidents = FirstFew(order, n) /\ answer'.total = Len(order)
  BY <1>2 DEF HistoryOf
<1>5. n \in Nat
  BY <1>1, LimitType, LimitsAssumption DEF QueriesOK, InputOK
<1>6. S = OfService(listed', input'.service) /\ n = LimitOr(input'.limit, DefaultHistoryLimit)
  BY <1>1
<1> HIDE DEF S, n
<1>7. NewestOf(answer'.incidents, S, n)
  BY <1>3, <1>4, <1>5, FirstFewNewest
<1>8. answer'.total = Cardinality(S)
  BY <1>3, <1>4 DEF Lists
<1> QED
  BY <1>6, <1>7, <1>8 DEF HistoryIsNewest

\* getincidenthistory: the total is that of the service and the page shows the
\* newest (39-56), for any history and limits.
THEOREM NewestHistory == Spec => []HistoryIsNewest
<1>1. Init => HistoryIsNewest
  BY DEF Init, HistoryIsNewest, Answered
<1>2. HistoryIsNewest /\ QueriesOK /\ [Next]_vars => HistoryIsNewest'
  <2> SUFFICES ASSUME HistoryIsNewest, QueriesOK, [Next]_vars, pc' = "answered"
               PROVE  HistoryIsNewest'
    BY DEF HistoryIsNewest, Answered
  <2>1. CASE UNCHANGED vars
    BY <2>1 DEF vars, HistoryIsNewest, Answered
  <2>2. CASE History
    BY <2>2, HistoryNewest
  <2>3. CASE input'.kind # "history"
    BY <2>3 DEF HistoryIsNewest, Answered
  <2> QED
    BY <2>1, <2>2, <2>3, AnsweringStep
<1> QED
  BY <1>1, <1>2, QueriesAlwaysOK, PTL DEF Spec

-----------------------------------------------------------------------------
(* The direction of a trend.                                               *)

\* A group of i is more severe than one of j, or j has none.
Outranks(i, j) ==
    /\ i # j /\ i.severities # <<>>
    /\ \/ j.severities = <<>>
       \/ \E k \in DOMAIN i.severities, l \in DOMAIN j.severities :
              i.severities[k] > j.severities[l]

\* The groups of a list of incidents are those of its members.
LEMMA SeveritiesOfGroups ==
    ASSUME NEW incs \in Seq(Incidents)
    PROVE  /\ GroupSeverities(incs) \in Seq(1..3)
           /\ ToSet(GroupSeverities(incs))
                  = UNION {ToSet(incs[i].severities) : i \in 1..Len(incs)}
<1> DEFINE ss == [k \in DOMAIN incs |-> incs[k].severities]
<1>1. /\ Len(incs) \in Nat /\ DOMAIN incs = 1..Len(incs)
      /\ \A i \in 1..Len(incs) : incs[i] \in Incidents
  OBVIOUS
<1>2. \A i \in 1..Len(incs) : incs[i].severities \in Seq(1..3)
  BY <1>1, IncidentFields
<1>3. /\ ss \in Seq(Seq(1..3)) /\ Len(ss) = Len(incs)
      /\ \A i \in 1..Len(incs) : ss[i] = incs[i].severities
  BY <1>1, <1>2
<1>4. GroupSeverities(incs) = FlattenSeq(ss)
  BY DEF GroupSeverities
<1>5. {ToSet(ss[i]) : i \in 1..Len(ss)} = {ToSet(incs[i].severities) : i \in 1..Len(incs)}
  BY <1>3
<1> DEFINE D == 1..3
<1>6. ss \in Seq(Seq(D))
  BY <1>3
<1> HIDE DEF ss, D
<1>7. /\ FlattenSeq(ss) \in Seq(D)
      /\ ToSet(FlattenSeq(ss)) = UNION {ToSet(ss[i]) : i \in 1..Len(ss)}
  BY <1>6, FlattenElements
<1> QED
  BY <1>4, <1>5, <1>7 DEF D

\* The scores keep the order of the severities.
LEMMA Scores ==
    /\ \A sev \in 1..3 : Score(sev) \in Nat
    /\ \A a, b \in 1..3 : a <= b <=> Score(a) <= Score(b)
<1>1. Score(1) = 33 /\ Score(2) = 66 /\ Score(3) = 100
  BY DEF Score
<1>2. \A sev \in 1..3 : sev = 1 \/ sev = 2 \/ sev = 3
  OBVIOUS
<1> QED
  BY <1>1, <1>2

\* The average without groups.
LEMMA NoAverage ==
    ASSUME NEW incs, GroupSeverities(incs) = <<>>
    PROVE  Average(incs).total = 0 /\ Average(incs).count = 1
  BY DEF Average

\* The average lies between the scores.
LEMMA AverageBounds ==
    ASSUME NEW incs \in Seq(Incidents), NEW n \in Int,
           GroupSeverities(incs) # <<>>
    PROVE  /\ Average(incs).total \in Int /\ Average(incs).count \in Nat \ {0}
           /\ (\A k \in DOMAIN GroupSeverities(incs) : Score(GroupSeverities(incs)[k]) <= n)
                  => Average(incs).total <= n * Average(incs).count
           /\ (\A k \in DOMAIN GroupSeverities(incs) : n <= Score(GroupSeverities(incs)[k]))
                  => n * Average(incs).count <= Average(incs).total
<1> DEFINE sevs == GroupSeverities(incs)
           f == [k \in DOMAIN sevs |-> Score(sevs[k])]
           g == [k \in DOMAIN sevs |-> n]
           I == DOMAIN sevs
<1>1. sevs \in Seq(1..3)
  BY SeveritiesOfGroups
<1>2. /\ Average(incs).total = SumFunctionOnSet(f, DOMAIN f)
      /\ Average(incs).count = Len(sevs)
  BY DEF Average, SumFunction
<1>3. DOMAIN f = I /\ I = 1..Len(sevs) /\ Len(sevs) \in Nat \ {0}
  <2> HIDE DEF sevs
  <2> QED
    BY <1>1 DEF sevs
<1>4. IsFiniteSet(I) /\ Cardinality(I) = Len(sevs)
  <2> DEFINE m == Len(sevs)
  <2>1. m \in Nat
    BY <1>3
  <2> HIDE DEF m
  <2>2. IsFiniteSet(1..m) /\ Cardinality(1..m) = m
    BY <2>1, FS_Interval
  <2> QED
    BY <1>3, <2>2 DEF m
<1>5. \A k \in I : f[k] = Score(sevs[k]) /\ f[k] \in Int /\ g[k] = n /\ g[k] \in Int
  <2>1. \A k \in I : sevs[k] \in 1..3
    BY <1>1
  <2>2. \A k \in I : Score(sevs[k]) \in Int
    BY <2>1, Scores
  <2> HIDE DEF sevs
  <2> QED
    BY <2>2
<1> HIDE DEF f, g, I, sevs
<1>6. SumFunctionOnSet(g, I) = n * Cardinality(I)
  BY <1>4, <1>5, SumConstant
<1>7. SumFunctionOnSet(f, I) \in Int
  BY <1>4, <1>5, SumType
<1>8. (\A k \in I : Score(sevs[k]) <= n) => SumFunctionOnSet(f, I) <= n * Cardinality(I)
  <2> SUFFICES ASSUME \A k \in I : f[k] <= g[k]
               PROVE  SumFunctionOnSet(f, I) <= n * Cardinality(I)
    BY <1>5
  <2>1. SumFunctionOnSet(f, I) <= SumFunctionOnSet(g, I)
    BY <1>4, <1>5, SumMonotone
  <2> QED
    BY <1>6, <2>1
<1>9. (\A k \in I : n <= Score(sevs[k])) => n * Cardinality(I) <= SumFunctionOnSet(f, I)
  <2> SUFFICES ASSUME \A k \in I : g[k] <= f[k]
               PROVE  n * Cardinality(I) <= SumFunctionOnSet(f, I)
    BY <1>5
  <2>1. SumFunctionOnSet(g, I) <= SumFunctionOnSet(f, I)
    BY <1>4, <1>5, SumMonotone
  <2> QED
    BY <1>6, <2>1
<1> QED
  BY <1>2, <1>3, <1>4, <1>7, <1>8, <1>9 DEF I, sevs

\* A fraction up to n does not exceed one from n on.
LEMMA NoExcess ==
    ASSUME NEW n \in Int, NEW t \in Int, NEW c \in Nat \ {0}, NEW u \in Int, NEW d \in Nat \ {0},
           t <= n * c, n * d <= u
    PROVE  ~(t * d - u * c > 15 * c * d)
<1> DEFINE x == n * c - t
           y == u - n * d
<1>1. x \in Nat /\ y \in Nat /\ t = n * c - x /\ u = n * d + y
  OBVIOUS
<1>2. t * d = (n * c) * d - x * d
  BY <1>1
<1>3. u * c = (n * d) * c + y * c
  BY <1>1
<1>4. (n * c) * d = (n * d) * c
  OBVIOUS
<1> HIDE DEF x, y
<1>5. x * d \in Nat /\ y * c \in Nat
  BY <1>1
<1>6. 15 * c * d \in Nat
  OBVIOUS
<1>7. t * d \in Int /\ u * c \in Int /\ (n * c) * d \in Int
  OBVIOUS
<1> QED
  BY <1>2, <1>3, <1>4, <1>5, <1>6, <1>7

\* An average exceeds another only if an incident of the one outranks one of
\* the other.
LEMMA ExcessOutranks ==
    ASSUME NEW a \in Seq(Incidents), NEW b \in Seq(Incidents), b # <<>>,
           \A i \in ToSet(a), j \in ToSet(b) : i # j,
           Exceeds(Average(a), Average(b))
    PROVE  \E i \in ToSet(a), j \in ToSet(b) : Outranks(i, j)
<1> DEFINE A == GroupSeverities(a)
           B == GroupSeverities(b)
<1>1. /\ A \in Seq(1..3) /\ ToSet(A) = UNION {ToSet(a[i].severities) : i \in 1..Len(a)}
      /\ B \in Seq(1..3) /\ ToSet(B) = UNION {ToSet(b[i].severities) : i \in 1..Len(b)}
  BY SeveritiesOfGroups
<1>2. ToSet(a) = {a[i] : i \in 1..Len(a)} /\ ToSet(b) = {b[i] : i \in 1..Len(b)}
  BY DEF ToSet
<1>3. /\ \A i \in ToSet(a) : i.severities \in Seq(1..3)
      /\ \A j \in ToSet(b) : j.severities \in Seq(1..3)
  <2>1. ToSet(a) \subseteq Incidents /\ ToSet(b) \subseteq Incidents
    BY <1>2
  <2> QED
    BY <2>1, IncidentFields
<1>4. /\ \A sev \in ToSet(A) : \E i \in ToSet(a) : sev \in ToSet(i.severities)
      /\ \A sev \in ToSet(B) : \E j \in ToSet(b) : sev \in ToSet(j.severities)
  BY <1>1, <1>2
<1>5. \A sev, s : s \in Seq(1..3) /\ sev \in ToSet(s) => \E k \in DOMAIN s : s[k] = sev
  BY DEF ToSet
<1> HIDE DEF A, B
<1>6. Average(a).total * Average(b).count - Average(b).total * Average(a).count
          > 15 * Average(a).count * Average(b).count
  BY DEF Exceeds
<1>7. CASE A = <<>>
  <2>1. Average(a).total = 0 /\ Average(a).count = 1
    BY <1>7, NoAverage DEF A
  <2>2. /\ Average(b).total \in Int /\ 0 <= Average(b).total
        /\ Average(b).count \in Nat
    <3>1. CASE B = <<>>
      BY <3>1, NoAverage DEF B
    <3>2. CASE B # <<>>
      <4>1. \A k \in DOMAIN B : B[k] \in 1..3
        BY <1>1
      <4>2. \A k \in DOMAIN B : 0 <= Score(B[k])
        BY <4>1, Scores
      <4>3. 0 * Average(b).count <= Average(b).total /\ Average(b).total \in Int
            /\ Average(b).count \in Nat \ {0}
        BY <3>2, <4>2, AverageBounds DEF B
      <4> QED
        BY <4>3
    <3> QED
      BY <3>1, <3>2
  <2> DEFINE t == Average(b).total
             c == Average(b).count
  <2>3. 0 * c - t * 1 > 15 * 1 * c /\ t \in Int /\ 0 <= t /\ c \in Nat
    BY <1>6, <2>1, <2>2
  <2> HIDE DEF t, c
  <2> QED
    BY <2>3
<1>8. CASE A # <<>> /\ B = <<>>
  <2>1. PICK i \in ToSet(a) : A[1] \in ToSet(i.severities)
    <3>1. A[1] \in ToSet(A)
      BY <1>1, <1>8 DEF ToSet
    <3> QED
      BY <1>4, <3>1
  <2>2. i.severities # <<>>
    BY <2>1 DEF ToSet
  <2>3. b[1] \in ToSet(b)
    BY <1>2
  <2>4. b[1].severities = <<>>
    <3> DEFINE s == b[1].severities
    <3>1. s \in Seq(1..3)
      BY <1>3, <2>3
    <3>2. ToSet(B) = {}
      BY <1>8 DEF ToSet
    <3>3. 1 \in 1..Len(b)
      OBVIOUS
    <3>4. ToSet(s) \subseteq ToSet(B)
      BY <1>1, <3>3
    <3> HIDE DEF s
    <3>5. s # <<>> => s[1] \in ToSet(s)
      BY <3>1 DEF ToSet
    <3>6. s = <<>>
      BY <3>2, <3>4, <3>5
    <3> QED
      BY <3>6 DEF s
  <2> QED
    BY <2>1, <2>2, <2>3, <2>4 DEF Outranks
<1>9. CASE A # <<>> /\ B # <<>>
  <2>1. PICK l \in DOMAIN B : \A k \in DOMAIN B : Score(B[l]) <= Score(B[k])
    <3> DEFINE f == [k \in DOMAIN B |-> Score(B[k])]
               I == DOMAIN B
    <3>1. I = 1..Len(B) /\ Len(B) \in Nat \ {0}
      BY <1>1, <1>9
    <3>2. IsFiniteSet(I) /\ I # {}
      <4> DEFINE m == Len(B)
      <4>1. m \in Nat \ {0} /\ I = 1..m /\ 1 \in 1..m
        BY <3>1
      <4> HIDE DEF m, I
      <4>2. IsFiniteSet(1..m)
        BY <4>1, FS_Interval
      <4> QED
        BY <4>1, <4>2
    <3>3. \A k \in I : f[k] = Score(B[k]) /\ f[k] \in Int
      <4>1. \A k \in I : B[k] \in 1..3
        BY <1>1
      <4> QED
        BY <4>1, Scores
    <3> HIDE DEF f, I
    <3>4. \E k \in I : \A m \in I : f[k] <= f[m]
      BY <3>2, <3>3, LeastValue
    <3> QED
      BY <3>3, <3>4 DEF I
  <2> DEFINE n == Score(B[l])
  <2>2. B[l] \in 1..3 /\ B[l] \in ToSet(B)
    BY <1>1, <2>1 DEF ToSet
  <2>3. n \in Int
    BY <2>2, Scores
  <2>4. PICK j \in ToSet(b) : B[l] \in ToSet(j.severities)
    BY <1>4, <2>2
  <2> SUFFICES ASSUME \A k \in DOMAIN A : A[k] <= B[l] PROVE FALSE
    <3> SUFFICES ASSUME NEW k \in DOMAIN A, ~(A[k] <= B[l])
                 PROVE  \E i \in ToSet(a) : Outranks(i, j)
      BY <2>4
    <3>1. A[k] \in 1..3 /\ A[k] \in ToSet(A)
      BY <1>1 DEF ToSet
    <3>2. PICK i \in ToSet(a) : A[k] \in ToSet(i.severities)
      BY <1>4, <3>1
    <3>3. PICK p \in DOMAIN i.severities : i.severities[p] = A[k]
      BY <1>3, <1>5, <3>2
    <3>4. PICK q \in DOMAIN j.severities : j.severities[q] = B[l]
      BY <1>3, <1>5, <2>4
    <3>5. i # j
      BY <2>4, <3>2
    <3>6. i.severities # <<>>
      BY <3>3
    <3>7. A[k] > B[l]
      BY <2>2, <3>1
    <3> QED
      BY <3>3, <3>4, <3>5, <3>6, <3>7 DEF Outranks
  <2>5. \A k \in DOMAIN A : Score(A[k]) <= n
    <3>1. \A k \in DOMAIN A : A[k] \in 1..3
      BY <1>1
    <3> QED
      BY <2>2, <3>1, Scores
  <2> HIDE DEF n
  <2>6. /\ Average(a).total \in Int /\ Average(a).count \in Nat \ {0}
        /\ Average(a).total <= n * Average(a).count
    BY <1>9, <2>3, <2>5, AverageBounds DEF A
  <2>7. \A k \in DOMAIN B : n <= Score(B[k])
    BY <2>1 DEF n
  <2>8. /\ Average(b).total \in Int /\ Average(b).count \in Nat \ {0}
        /\ n * Average(b).count <= Average(b).total
    BY <1>9, <2>3, <2>7, AverageBounds DEF B
  <2> DEFINE t == Average(a).total
             c == Average(a).count
             u == Average(b).total
             d == Average(b).count
  <2>9. t \in Int /\ u \in Int /\ c \in Nat \ {0} /\ d \in Nat \ {0}
        /\ t <= n * c /\ n * d <= u
    BY <2>6, <2>8
  <2>10. t * d - u * c > 15 * c * d
    BY <1>6
  <2> HIDE DEF t, c, u, d
  <2> QED
    BY <2>3, <2>9, <2>10, NoExcess
<1> QED
  BY <1>7, <1>8, <1>9

\* What the halves of a list are.
LEMMA Halves ==
    ASSUME NEW S, NEW s, Lists(s, S), NEW mid \in Nat, mid < Len(s)
    PROVE  /\ SubSeq(s, 1, mid) \in Seq(Incidents)
           /\ SubSeq(s, mid + 1, Len(s)) \in Seq(Incidents)
           /\ SubSeq(s, mid + 1, Len(s)) # <<>>
           /\ mid > 0 => SubSeq(s, 1, mid) # <<>>
           /\ \A i \in ToSet(SubSeq(s, 1, mid)), j \in ToSet(SubSeq(s, mid + 1, Len(s))) :
                  i \in S /\ j \in S /\ i # j /\ i.createdAt >= j.createdAt
<1> DEFINE a == SubSeq(s, 1, mid)
           b == SubSeq(s, mid + 1, Len(s))
           n == Len(s)
<1>1. /\ s \in Seq(Incidents) /\ n \in Nat /\ ToSet(s) = S
      /\ \A i, j \in 1..n : s[i] = s[j] => i = j
      /\ \A i, j \in 1..n : i < j => s[i].createdAt >= s[j].createdAt
      /\ \A i \in 1..n : s[i] \in Incidents
  BY DEF Lists
<1>2. a = [k \in 1..mid |-> s[k]]
  BY <1>1
<1>3. b = [k \in 1..(n - mid) |-> s[mid + k]]
  BY <1>1
<1>4. /\ \A k \in 1..mid : k \in 1..n
      /\ \A k \in 1..(n - mid) : mid + k \in 1..n /\ mid + k > mid
  BY <1>1
<1> HIDE DEF a, b
<1>5. a \in Seq(Incidents) /\ Len(a) = mid
  BY <1>1, <1>2, <1>4
<1>6. b \in Seq(Incidents) /\ Len(b) = n - mid
  <2> DEFINE m == n - mid
  <2>1. m \in Nat /\ b = [k \in 1..m |-> b[k]] /\ \A k \in 1..m : b[k] \in Incidents
    BY <1>1, <1>3, <1>4
  <2> HIDE DEF m
  <2>2. b \in Seq(Incidents) /\ Len(b) = m
    BY <2>1
  <2> QED
    BY <2>2 DEF m
<1>7. ASSUME NEW i \in ToSet(a), NEW j \in ToSet(b)
      PROVE  i \in S /\ j \in S /\ i # j /\ i.createdAt >= j.createdAt
  <2>1. PICK k \in 1..mid : i = s[k]
    BY <1>2 DEF ToSet
  <2>2. PICK l \in 1..(n - mid) : j = s[mid + l]
    BY <1>3 DEF ToSet
  <2>3. k \in 1..n /\ mid + l \in 1..n /\ k < mid + l
    BY <1>1, <1>4
  <2>4. i \in S /\ j \in S
    BY <1>1, <2>1, <2>2, <2>3 DEF ToSet
  <2> QED
    BY <1>1, <2>1, <2>2, <2>3, <2>4
<1>8. b # <<>> /\ (mid > 0 => a # <<>>)
  BY <1>1, <1>5, <1>6
<1> QED
  BY <1>5, <1>6, <1>7, <1>8 DEF a, b

\* A trend has a direction only if incidents outrank older, or newer, ones.
LEMMA DirectionOutranks ==
    ASSUME NEW S, NEW s, Lists(s, S)
    PROVE  /\ SeverityTrend(s) = "worsening" =>
                  \E i, j \in S : i.createdAt >= j.createdAt /\ Outranks(i, j)
           /\ SeverityTrend(s) = "improving" =>
                  \E i, j \in S : i.createdAt <= j.createdAt /\ Outranks(i, j)
<1> DEFINE mid == Len(s) \div 2
           a == SubSeq(s, 1, mid)
           b == SubSeq(s, mid + 1, Len(s))
<1>1. Len(s) \in Nat
  BY DEF Lists
<1>2. CASE Len(s) < 2
  <2>1. SeverityTrend(s) = "stable"
    BY <1>2 DEF SeverityTrend
  <2> QED
    BY <2>1
<1>3. CASE ~(Len(s) < 2)
  <2>1. mid \in Nat /\ mid > 0 /\ mid < Len(s)
    BY <1>1, <1>3
  <2>2. /\ a \in Seq(Incidents) /\ b \in Seq(Incidents) /\ a # <<>> /\ b # <<>>
        /\ \A i \in ToSet(a), j \in ToSet(b) :
               i \in S /\ j \in S /\ i # j /\ i.createdAt >= j.createdAt
    <3> HIDE DEF mid
    <3> QED
      BY <2>1, Halves
  <2>3. /\ SeverityTrend(s) = "worsening" => Exceeds(Average(a), Average(b))
        /\ SeverityTrend(s) = "improving" => Exceeds(Average(b), Average(a))
    BY <1>3 DEF SeverityTrend
  <2> HIDE DEF a, b, mid
  <2>4. ASSUME Exceeds(Average(a), Average(b))
        PROVE  \E i, j \in S : i.createdAt >= j.createdAt /\ Outranks(i, j)
    <3>1. \E i \in ToSet(a), j \in ToSet(b) : Outranks(i, j)
      BY <2>2, <2>4, ExcessOutranks
    <3> QED
      BY <2>2, <3>1
  <2>5. ASSUME Exceeds(Average(b), Average(a))
        PROVE  \E i, j \in S : i.createdAt <= j.createdAt /\ Outranks(i, j)
    <3>1. \A i \in ToSet(b), j \in ToSet(a) : i # j
      BY <2>2
    <3>2. PICK i \in ToSet(b), j \in ToSet(a) : Outranks(i, j)
      BY <2>2, <2>5, <3>1, ExcessOutranks
    <3>3. i \in S /\ j \in S /\ j.createdAt >= i.createdAt
      BY <2>2
    <3>4. i \in Incidents /\ j \in Incidents
      BY <3>3 DEF Lists
    <3>5. i.createdAt <= j.createdAt
      BY <3>3, <3>4, IncidentFields
    <3> QED
      BY <3>2, <3>3, <3>5
  <2> QED
    BY <2>3, <2>4, <2>5
<1> QED
  BY <1>2, <1>3

-----------------------------------------------------------------------------
(* The dominant severity.                                                  *)

\* Counts are numbers, and nothing has the severity 0.
LEMMA Counts ==
    ASSUME NEW sevs \in Seq(1..3)
    PROVE  /\ \A sev : CountOf(sev, sevs) \in Nat
           /\ CountOf(0, sevs) = 0
<1>1. ASSUME NEW sev PROVE CountOf(sev, sevs) = Occurrences(sev, sevs)
  BY DEF CountOf, Occurrences
<1>2. ASSUME NEW sev PROVE Occurrences(sev, sevs) \in Nat
  <2> DEFINE D == 1..3
  <2>1. sevs \in Seq(D)
    OBVIOUS
  <2> HIDE DEF D
  <2> QED
    BY <2>1, OccurrencesType
<1>3. CountOf(0, sevs) = 0
  <2> DEFINE K == {k \in DOMAIN sevs : sevs[k] = 0}
  <2>1. K = {}
    <3>1. \A k \in DOMAIN sevs : sevs[k] \in 1..3
      OBVIOUS
    <3> QED
      BY <3>1
  <2>2. CountOf(0, sevs) = Cardinality(K)
    BY DEF CountOf
  <2> HIDE DEF K
  <2>3. Cardinality(K) = 0
    BY <2>1, FS_EmptySet
  <2> QED
    BY <2>2, <2>3
<1> QED
  BY <1>1, <1>2, <1>3

\* Severity a is at least as good as b.
AsGood(a, b, sevs) ==
    \/ CountOf(b, sevs) < CountOf(a, sevs)
    \/ CountOf(b, sevs) = CountOf(a, sevs) /\ b <= a

\* One visit leaves the better of the two.
LEMMA BetterIsBest ==
    ASSUME NEW sevs \in Seq(1..3), NEW best \in 0..3, NEW sev \in 1..3,
           best = 0 \/ CountOf(best, sevs) > 0
    PROVE  LET next == Better(best, sev, sevs)
           IN  /\ next \in 0..3 /\ (next = 0 \/ CountOf(next, sevs) > 0)
               /\ AsGood(next, best, sevs)
               /\ CountOf(sev, sevs) > 0 => AsGood(next, sev, sevs)
<1>1. CountOf(best, sevs) \in Nat /\ CountOf(sev, sevs) \in Nat /\ CountOf(0, sevs) = 0
  BY Counts
<1>2. Score(sev) > Score(best) <=> sev > best
  <2>1. Score(0) = 0 /\ Score(1) = 33 /\ Score(2) = 66 /\ Score(3) = 100
    BY DEF Score
  <2>2. (best = 0 \/ best = 1 \/ best = 2 \/ best = 3) /\ (sev = 1 \/ sev = 2 \/ sev = 3)
    OBVIOUS
  <2> QED
    BY <2>1, <2>2
<1>3. MoreDominant(sev, best, sevs)
        <=> \/ CountOf(sev, sevs) > CountOf(best, sevs)
            \/ CountOf(sev, sevs) = CountOf(best, sevs) /\ sev > best
  BY <1>2 DEF MoreDominant
<1> DEFINE next == Better(best, sev, sevs)
<1>4. CASE CountOf(sev, sevs) > 0 /\ MoreDominant(sev, best, sevs)
  <2>1. next = sev
    BY <1>4 DEF Better
  <2> HIDE DEF next
  <2>2. AsGood(next, best, sevs) /\ AsGood(next, sev, sevs)
    BY <1>1, <1>3, <1>4, <2>1 DEF AsGood
  <2>3. next \in 0..3 /\ CountOf(next, sevs) > 0
    BY <1>4, <2>1
  <2> QED
    BY <2>2, <2>3 DEF next
<1>5. CASE ~(CountOf(sev, sevs) > 0 /\ MoreDominant(sev, best, sevs))
  <2>1. next = best
    BY <1>5 DEF Better
  <2> HIDE DEF next
  <2>2. AsGood(next, best, sevs)
    BY <1>1, <2>1 DEF AsGood
  <2>3. CountOf(sev, sevs) > 0 => AsGood(next, sev, sevs)
    BY <1>1, <1>3, <1>5, <2>1 DEF AsGood
  <2> QED
    BY <2>1, <2>2, <2>3 DEF next
<1> QED
  BY <1>4, <1>5

LEMMA AsGoodTransitive ==
    ASSUME NEW sevs \in Seq(1..3), NEW a \in 0..3, NEW b \in 0..3, NEW c \in 0..3,
           AsGood(a, b, sevs), AsGood(b, c, sevs)
    PROVE  AsGood(a, c, sevs)
<1>1. CountOf(a, sevs) \in Nat /\ CountOf(b, sevs) \in Nat /\ CountOf(c, sevs) \in Nat
  BY Counts
<1> QED
  BY <1>1 DEF AsGood

\* Whatever the order of the visits, the most frequent is left, the highest of
\* those.
LEMMA DominantIsMost ==
    ASSUME NEW incs \in Seq(Incidents), NEW visits \in Visits,
           NEW groups, \A sev \in 1..3 : groups[sev] = CountOf(sev, GroupSeverities(incs))
    PROVE  LET most == {sev \in 1..3 : /\ groups[sev] > 0
                                       /\ \A other \in 1..3 : groups[other] <= groups[sev]}
           IN  Dominant(incs, visits) = (IF most = {} THEN 1 ELSE Max(most))
<1> DEFINE sevs == GroupSeverities(incs)
           best1 == Better(0, visits[1], sevs)
           best2 == Better(best1, visits[2], sevs)
           best == Better(best2, visits[3], sevs)
           most == {sev \in 1..3 : /\ groups[sev] > 0
                                   /\ \A other \in 1..3 : groups[other] <= groups[sev]}
<1>1. /\ visits[1] \in 1..3 /\ visits[2] \in 1..3 /\ visits[3] \in 1..3
      /\ \A sev \in 1..3 : sev = visits[1] \/ sev = visits[2] \/ sev = visits[3]
  BY DEF Visits
<1>2. sevs \in Seq(1..3)
  BY SeveritiesOfGroups
<1>3. Dominant(incs, visits) = IF best = 0 THEN 1 ELSE best
  BY DEF Dominant
<1> HIDE DEF sevs
<1>4. /\ best1 \in 0..3 /\ (best1 = 0 \/ CountOf(best1, sevs) > 0)
      /\ CountOf(visits[1], sevs) > 0 => AsGood(best1, visits[1], sevs)
  BY <1>1, <1>2, BetterIsBest
<1> HIDE DEF best1
<1>5. /\ best2 \in 0..3 /\ (best2 = 0 \/ CountOf(best2, sevs) > 0)
      /\ AsGood(best2, best1, sevs)
      /\ CountOf(visits[2], sevs) > 0 => AsGood(best2, visits[2], sevs)
  BY <1>1, <1>2, <1>4, BetterIsBest
<1> HIDE DEF best2
<1>6. /\ best \in 0..3 /\ (best = 0 \/ CountOf(best, sevs) > 0)
      /\ AsGood(best, best2, sevs)
      /\ CountOf(visits[3], sevs) > 0 => AsGood(best, visits[3], sevs)
  BY <1>1, <1>2, <1>5, BetterIsBest
<1> HIDE DEF best
<1>7. ASSUME NEW sev \in 1..3, CountOf(sev, sevs) > 0
      PROVE  AsGood(best, sev, sevs)
  <2>0. sev \in 0..3
    OBVIOUS
  <2>1. CASE sev = visits[3]
    BY <1>6, <1>7, <2>1
  <2>2. CASE sev = visits[2]
    <3>1. AsGood(best2, sev, sevs)
      BY <1>5, <1>7, <2>2
    <3> QED
      BY <1>2, <1>5, <1>6, <2>0, <3>1, AsGoodTransitive
  <2>3. CASE sev = visits[1]
    <3>1. AsGood(best1, sev, sevs)
      BY <1>4, <1>7, <2>3
    <3>2. AsGood(best2, sev, sevs)
      BY <1>2, <1>4, <1>5, <2>0, <3>1, AsGoodTransitive
    <3> QED
      BY <1>2, <1>5, <1>6, <2>0, <3>2, AsGoodTransitive
  <2> QED
    BY <1>1, <2>1, <2>2, <2>3
<1>8. /\ \A sev : CountOf(sev, sevs) \in Nat
      /\ CountOf(0, sevs) = 0
  BY <1>2, Counts
<1>9. \A sev \in 1..3 : groups[sev] = CountOf(sev, sevs)
  BY DEF sevs
<1>10. CASE best = 0
  <2>1. ASSUME NEW sev \in 1..3 PROVE ~(groups[sev] > 0)
    BY <1>7, <1>8, <1>9, <1>10 DEF AsGood
  <2>2. most = {}
    BY <2>1
  <2> QED
    BY <1>3, <1>10, <2>2
<1>11. CASE best # 0
  <2>1. best \in 1..3 /\ CountOf(best, sevs) > 0
    BY <1>6, <1>11
  <2>2. ASSUME NEW other \in 1..3 PROVE groups[other] <= groups[best]
    <3>1. CASE CountOf(other, sevs) > 0
      <4>1. AsGood(best, other, sevs)
        BY <1>7, <3>1
      <4> QED
        BY <1>8, <1>9, <2>1, <4>1 DEF AsGood
    <3>2. CASE ~(CountOf(other, sevs) > 0)
      BY <1>8, <1>9, <2>1, <3>2
    <3> QED
      BY <3>1, <3>2
  <2>3. best \in most
    BY <1>9, <2>1, <2>2
  <2>4. ASSUME NEW sev \in most PROVE sev <= best
    <3>1. groups[sev] > 0 /\ groups[best] <= groups[sev] /\ sev \in 1..3
      BY <2>1
    <3>2. AsGood(best, sev, sevs)
      BY <1>7, <1>9, <3>1
    <3> QED
      BY <1>8, <1>9, <2>1, <3>1, <3>2 DEF AsGood
  <2>5. Max(most) = best
    <3>1. \A x \in most : x \in Int
      OBVIOUS
    <3> HIDE DEF most
    <3>2. Max(most) = CHOOSE x \in most : \A y \in most : x >= y
      BY DEF Max
    <3>3. best \in most /\ \A y \in most : best >= y
      BY <2>3, <2>4, <3>1
    <3>4. Max(most) \in most /\ \A y \in most : Max(most) >= y
      BY <3>2, <3>3
    <3> QED
      BY <3>1, <3>3, <3>4
  <2>6. most # {}
    BY <2>3
  <2> QED
    BY <1>3, <1>11, <2>5, <2>6
<1> QED
  BY <1>10, <1>11

\* The groups of a list are those of its members, whatever its order.
LEMMA GroupsOfList ==
    ASSUME NEW S, NEW s, Lists(s, S), NEW sev
    PROVE  CountOf(sev, GroupSeverities(s))
               = SumFunction([inc \in S |-> CountOf(sev, inc.severities)])
<1> DEFINE n == Len(s)
           I == 1..n
           ss == [k \in DOMAIN s |-> s[k].severities]
           f == [inc \in S |-> CountOf(sev, inc.severities)]
           h == [k \in I |-> CountOf(sev, s[k].severities)]
<1>1. /\ s \in Seq(Incidents) /\ n \in Nat /\ DOMAIN s = I /\ ToSet(s) = S
      /\ \A i, j \in I : s[i] = s[j] => i = j
      /\ \A k \in I : s[k] \in Incidents
  BY DEF Lists
<1>2. \A k \in I : s[k].severities \in Seq(1..3) /\ s[k] \in S
  BY <1>1, IncidentFields DEF ToSet
<1>3. /\ ss \in Seq(Seq(1..3)) /\ Len(ss) = n
      /\ \A k \in I : ss[k] = s[k].severities
  BY <1>1, <1>2
<1>4. GroupSeverities(s) = FlattenSeq(ss)
  BY DEF GroupSeverities
<1>5. \A t : CountOf(sev, t) = Occurrences(sev, t)
  BY DEF CountOf, Occurrences
<1>6. \A k \in I : h[k] = Occurrences(sev, ss[k]) /\ h[k] \in Int
  <2> SUFFICES ASSUME NEW k \in I
               PROVE  h[k] = Occurrences(sev, ss[k]) /\ h[k] \in Int
    OBVIOUS
  <2>1. h[k] = CountOf(sev, s[k].severities)
    OBVIOUS
  <2> HIDE DEF h, ss, f, I
  <2>2. ss[k] = s[k].severities
    BY <1>3
  <2>3. s[k].severities \in Seq(1..3)
    BY <1>2
  <2>4. CountOf(sev, s[k].severities) \in Nat
    BY <2>3, Counts
  <2>5. CountOf(sev, s[k].severities) = Occurrences(sev, s[k].severities)
    BY <1>5
  <2> QED
    BY <2>1, <2>2, <2>4, <2>5
<1>7. Occurrences(sev, FlattenSeq(ss)) = SumFunctionOnSet(h, 1..Len(ss))
  <2> DEFINE D == 1..3
  <2>1. ss \in Seq(Seq(D)) /\ \A k \in 1..Len(ss) : h[k] = Occurrences(sev, ss[k])
    BY <1>3, <1>6
  <2> HIDE DEF D, h, ss
  <2> QED
    BY <2>1, FlattenOccurrences
<1>8. \A k \in I : h[k] = f[s[k]] /\ f[s[k]] \in Int
  BY <1>2, <1>6
<1>9. IsFiniteSet(I)
  <2> HIDE DEF n
  <2> QED
    BY <1>1, FS_Interval
<1>10. S = {s[k] : k \in I}
  BY <1>1 DEF ToSet
<1>11. SumFunction(f) = SumFunctionOnSet(f, S)
  BY DEF SumFunction
<1> HIDE DEF f, h, I, ss
<1>12. SumFunctionOnSet(f, {s[k] : k \in I}) = SumFunctionOnSet(h, I)
  <2>1. \A x, y \in I : s[x] = s[y] => x = y
    BY <1>1
  <2>2. \A x \in I : f[s[x]] \in Int
    BY <1>8
  <2>3. \A x \in I : h[x] = f[s[x]]
    BY <1>8
  <2> HIDE DEF n
  <2> QED
    BY <1>9, <2>1, <2>2, <2>3, SumOfImage
<1>13. CountOf(sev, GroupSeverities(s)) = SumFunction(f)
  <2>1. CountOf(sev, GroupSeverities(s)) = Occurrences(sev, FlattenSeq(ss))
    BY <1>4, <1>5
  <2>2. I = 1..Len(ss)
    BY <1>3 DEF I
  <2> QED
    BY <1>7, <1>10, <1>11, <1>12, <2>1, <2>2
<1> QED
  BY <1>13 DEF f

-----------------------------------------------------------------------------
(* The trends.                                                             *)

\* The trend of a service is computed from a list of its incidents.
LEMMA TrendsAnswer ==
    ASSUME QueriesOK, Trends
    PROVE  /\ listed' = incidents /\ incidents' = incidents /\ input' = input
           /\ \A s \in DOMAIN answer' :
                  \E order : \E visits \in Visits :
                      /\ Lists(order, OfService(incidents, s))
                      /\ answer'[s] = TrendOf(order, visits)
<1>1. listed' = incidents /\ incidents' = incidents /\ input' = input
  BY DEF Trends, repository
<1> DEFINE services == {s \in Services : /\ OfService(incidents, s) # {}
                                         /\ input.service \in {None, s}}
<1>2. PICK visits \in Visits,
           order \in [services -> UNION {NewestFirst(OfService(incidents, s)) : s \in services}] :
               /\ \A s \in services : order[s] \in NewestFirst(OfService(incidents, s))
               /\ answer' = [s \in services |-> TrendOf(order[s], visits)]
  BY DEF Trends
<1> HIDE DEF services
<1>3. ASSUME NEW s \in DOMAIN answer'
      PROVE  \E o : \E v \in Visits : /\ Lists(o, OfService(incidents, s))
                                      /\ answer'[s] = TrendOf(o, v)
  <2>1. s \in services
    BY <1>2
  <2>2. order[s] \in NewestFirst(OfService(incidents, s)) /\ answer'[s] = TrendOf(order[s], visits)
    BY <1>2, <2>1
  <2>3. Lists(order[s], OfService(incidents, s))
    BY <2>2, ServiceLists
  <2> QED
    BY <2>2, <2>3
<1> QED
  BY <1>1, <1>3

LEMMA TrendsDirection ==
    ASSUME QueriesOK, Trends
    PROVE  DirectionNeedsAMove'
<1> SUFFICES ASSUME NEW s \in DOMAIN answer'
    PROVE  /\ answer'[s].direction = "worsening" =>
                  \E i, j \in OfService(incidents, s) :
                      i.createdAt >= j.createdAt /\ Outranks(i, j)
           /\ answer'[s].direction = "improving" =>
                  \E i, j \in OfService(incidents, s) :
                      i.createdAt <= j.createdAt /\ Outranks(i, j)
  BY TrendsAnswer DEF DirectionNeedsAMove, Outranks
<1> DEFINE S == OfService(incidents, s)
<1>1. PICK order : \E visits \in Visits : Lists(order, S) /\ answer'[s] = TrendOf(order, visits)
  BY TrendsAnswer
<1>2. Lists(order, S) /\ answer'[s].direction = SeverityTrend(order)
  BY <1>1 DEF TrendOf
<1> HIDE DEF S
<1> QED
  BY <1>2, DirectionOutranks DEF S

LEMMA TrendsDominant ==
    ASSUME QueriesOK, Trends
    PROVE  DominantIsOrderFree'
<1>1. listed' = incidents
  BY TrendsAnswer
<1> SUFFICES ASSUME NEW s \in DOMAIN answer'
    PROVE  LET ofS == OfService(incidents, s)
               Groups(sev) == SumFunction([inc \in ofS |-> CountOf(sev, inc.severities)])
               most == {sev \in 1..3 : /\ Groups(sev) > 0
                                       /\ \A other \in 1..3 : Groups(other) <= Groups(sev)}
           IN  answer'[s].dominant = (IF most = {} THEN 1 ELSE Max(most))
  BY <1>1 DEF DominantIsOrderFree
<1> DEFINE S == OfService(incidents, s)
           Groups(sev) == SumFunction([inc \in S |-> CountOf(sev, inc.severities)])
           groups == [sev \in 1..3 |-> Groups(sev)]
<1>2. PICK order : \E visits \in Visits : Lists(order, S) /\ answer'[s] = TrendOf(order, visits)
  BY TrendsAnswer
<1>3. PICK visits \in Visits : answer'[s] = TrendOf(order, visits)
  BY <1>2
<1>4. Lists(order, S) /\ answer'[s].dominant = Dominant(order, visits) /\ order \in Seq(Incidents)
  BY <1>2, <1>3 DEF TrendOf, Lists
<1>5. \A sev \in 1..3 : groups[sev] = CountOf(sev, GroupSeverities(order))
  <2>1. \A sev : Groups(sev) = CountOf(sev, GroupSeverities(order))
    <3> HIDE DEF S
    <3> QED
      BY <1>4, GroupsOfList
  <2> HIDE DEF Groups
  <2> QED
    BY <2>1
<1>6. \A sev \in 1..3 : groups[sev] = Groups(sev)
  OBVIOUS
<1> HIDE DEF groups, Groups
<1>7. LET most == {sev \in 1..3 : /\ groups[sev] > 0
                                  /\ \A other \in 1..3 : groups[other] <= groups[sev]}
      IN  Dominant(order, visits) = (IF most = {} THEN 1 ELSE Max(most))
  BY <1>4, <1>5, DominantIsMost
<1>8. {sev \in 1..3 : /\ groups[sev] > 0
                      /\ \A other \in 1..3 : groups[other] <= groups[sev]}
       = {sev \in 1..3 : /\ Groups(sev) > 0
                         /\ \A other \in 1..3 : Groups(other) <= Groups(sev)}
  BY <1>6
<1>9. LET most == {sev \in 1..3 : /\ Groups(sev) > 0
                                  /\ \A other \in 1..3 : Groups(other) <= Groups(sev)}
      IN  answer'[s].dominant = (IF most = {} THEN 1 ELSE Max(most))
  BY <1>4, <1>7, <1>8
<1> QED
  BY <1>9 DEF Groups, S

\* detectincidenttrends: a service is worsening, or improving, only if its
\* incidents say so (severityTrend, 118-136), for any history.
THEOREM DirectionIsEarned == Spec => []DirectionNeedsAMove
<1>1. Init => DirectionNeedsAMove
  BY DEF Init, DirectionNeedsAMove, Answered
<1>2. DirectionNeedsAMove /\ QueriesOK /\ [Next]_vars => DirectionNeedsAMove'
  <2> SUFFICES ASSUME DirectionNeedsAMove, QueriesOK, [Next]_vars, pc' = "answered"
               PROVE  DirectionNeedsAMove'
    BY DEF DirectionNeedsAMove, Answered
  <2>1. CASE UNCHANGED vars
    BY <2>1 DEF vars, DirectionNeedsAMove, Answered
  <2>2. CASE Trends
    BY <2>2, TrendsDirection
  <2>3. CASE input'.kind # "trends"
    BY <2>3 DEF DirectionNeedsAMove, Answered
  <2> QED
    BY <2>1, <2>2, <2>3, AnsweringStep
<1> QED
  BY <1>1, <1>2, QueriesAlwaysOK, PTL DEF Spec

\* The dominant severity is the most frequent, the highest of those, whatever
\* the order in which the counts are visited (dominantSeverity), for any history.
THEOREM DominantOrderFree == Spec => []DominantIsOrderFree
<1>1. Init => DominantIsOrderFree
  BY DEF Init, DominantIsOrderFree, Answered
<1>2. DominantIsOrderFree /\ QueriesOK /\ [Next]_vars => DominantIsOrderFree'
  <2> SUFFICES ASSUME DominantIsOrderFree, QueriesOK, [Next]_vars, pc' = "answered"
               PROVE  DominantIsOrderFree'
    BY DEF DominantIsOrderFree, Answered
  <2>1. CASE UNCHANGED vars
    BY <2>1 DEF vars, DominantIsOrderFree, Answered
  <2>2. CASE Trends
    BY <2>2, TrendsDominant
  <2>3. CASE input'.kind # "trends"
    BY <2>3 DEF DominantIsOrderFree, Answered
  <2> QED
    BY <2>1, <2>2, <2>3, AnsweringStep
<1> QED
  BY <1>1, <1>2, QueriesAlwaysOK, PTL DEF Spec

-----------------------------------------------------------------------------
(* The service dependencies. The blast radius is exact for every set of    *)
(* services, every number of providers and all the edges they may return.  *)
(* The inductive invariant says what has been found at any point of the    *)
(* search: nothing that a caller-closed set can be without, and every      *)
(* caller of what has left the queue.                                      *)

\* What has been found belongs to every caller-closed set.
FoundIsNeeded ==
    \A S \in SUBSET Services : CallerClosed(S) => visited \subseteq S

\* What is queued has been found, but for the focal service.
QueueIsFound == queue \subseteq visited \cup {focal}

\* The callers of all that has left the queue have been found.
LeftIsExplored ==
    \A e \in edges :
        e.target \in (visited \cup {focal}) \ queue => e.source \in visited

\* The invariant: what has been found at any point of the search.
SearchOK ==
    /\ TypeOK
    /\ stage \in {"start", "fetch"} => visited = {} /\ queue = {}
    /\ stage \in {"search", "done"} =>
          IF focal = None THEN visited = {} /\ queue = {}
          ELSE FoundIsNeeded /\ QueueIsFound /\ LeftIsExplored
    /\ stage = "done" => queue = {}

\* It holds initially.
LEMMA InitSearch == DependenciesInit => SearchOK
  BY ProvidersAssumption DEF DependenciesInit, SearchOK, TypeOK

\* A visit preserves it, the one step of the search that has anything to show.
LEMMA VisitSearch ==
    ASSUME SearchOK, NEW s \in Services, Visit(s)
    PROVE  SearchOK'
<1>1. /\ stage = "search" /\ stage' = "search" /\ s \in queue
      /\ UNCHANGED <<focal, asked, edges>>
      /\ visited' = visited \cup NewCallers(s)
      /\ queue' = (queue \ {s}) \cup NewCallers(s)
  BY DEF Visit
<1>2. TypeOK /\ focal # None /\ FoundIsNeeded /\ QueueIsFound /\ LeftIsExplored
  BY <1>1 DEF SearchOK
<1>3. NewCallers(s) \subseteq Services
  BY <1>2 DEF NewCallers, Callers, TypeOK, Edges
<1>4. TypeOK'
  BY <1>1, <1>2, <1>3 DEF TypeOK
<1>5. FoundIsNeeded'
  <2> SUFFICES ASSUME NEW S \in SUBSET Services, CallerClosed(S)'
               PROVE  visited' \subseteq S
    BY DEF FoundIsNeeded
  <2>1. CallerClosed(S)
    BY <1>1 DEF CallerClosed
  <2>2. visited \subseteq S
    BY <1>2, <2>1 DEF FoundIsNeeded
  <2>3. s \in S \cup {focal}
    BY <1>1, <1>2, <2>2 DEF QueueIsFound
  <2>4. NewCallers(s) \subseteq S
    BY <2>1, <2>3 DEF NewCallers, Callers, CallerClosed
  <2> QED
    BY <1>1, <2>2, <2>4
<1>6. QueueIsFound'
  BY <1>1, <1>2 DEF QueueIsFound
<1>7. LeftIsExplored'
  <2> SUFFICES ASSUME NEW e \in edges,
                      e.target \in (visited' \cup {focal}) \ queue'
               PROVE  e.source \in visited'
    BY <1>1 DEF LeftIsExplored
  <2>1. CASE e.target = s
    BY <1>1, <2>1 DEF NewCallers, Callers
  <2>2. CASE e.target # s
    <3>1. e.target \in (visited \cup {focal}) \ queue
      BY <1>1, <2>2
    <3> QED
      BY <1>1, <1>2, <3>1 DEF LeftIsExplored
  <2> QED
    BY <2>1, <2>2
<1> QED
  BY <1>1, <1>2, <1>4, <1>5, <1>6, <1>7 DEF SearchOK

\* So does every step.
LEMMA NextSearch == SearchOK /\ [DependenciesNext]_dependencies => SearchOK'
<1> SUFFICES ASSUME SearchOK, [DependenciesNext]_dependencies PROVE SearchOK'
  OBVIOUS
<1>1. ASSUME NEW s \in Services \cup {None}, Run(s) PROVE SearchOK'
  BY <1>1 DEF SearchOK, TypeOK, Run
<1>2. ASSUME NEW graph \in Graphs, FetchDependencies(graph) PROVE SearchOK'
  <2>1. graph \subseteq Edges
    BY ProvidersAssumption
  <2>2. asked' \in 0..NumProviders
    BY <1>2, ProvidersAssumption DEF FetchDependencies, SearchOK, TypeOK
  <2> QED
    BY <1>2, <2>1, <2>2 DEF FetchDependencies, SearchOK, TypeOK
<1>3. CASE FetchFails
  BY <1>3 DEF FetchFails, SearchOK, TypeOK
<1>4. CASE BuildGraph
  <2>1. TypeOK'
    BY <1>4 DEF BuildGraph, SearchOK, TypeOK
  <2>2. visited = {} /\ visited' = {} /\ stage' = "search" /\ focal' = focal
    BY <1>4 DEF BuildGraph, SearchOK
  <2>3. CASE focal = None
    BY <1>4, <2>1, <2>2, <2>3 DEF BuildGraph, SearchOK
  <2>4. CASE focal # None
    <3>1. queue' = {focal}
      BY <1>4, <2>4 DEF BuildGraph
    <3>2. FoundIsNeeded' /\ QueueIsFound' /\ LeftIsExplored'
      BY <2>2, <3>1 DEF FoundIsNeeded, QueueIsFound, LeftIsExplored
    <3> QED
      BY <2>1, <2>2, <2>4, <3>2 DEF SearchOK
  <2> QED
    BY <2>3, <2>4
<1>5. ASSUME NEW s \in Services, Visit(s) PROVE SearchOK'
  BY <1>5, VisitSearch
<1>6. CASE Return
  BY <1>6 DEF Return, SearchOK, TypeOK, FoundIsNeeded, CallerClosed,
              QueueIsFound, LeftIsExplored
<1>7. CASE UNCHANGED dependencies
  BY <1>7 DEF dependencies, SearchOK, TypeOK, FoundIsNeeded, CallerClosed,
              QueueIsFound, LeftIsExplored
<1> QED
  BY <1>1, <1>2, <1>3, <1>4, <1>5, <1>6, <1>7 DEF DependenciesNext, Search

\* What the invariant says of a search that is done.
LEMMA SearchIsExact == SearchOK => BlastRadiusIsExact
<1> SUFFICES ASSUME SearchOK, stage = "done", focal # None
             PROVE  /\ CallerClosed(visited)
                    /\ \A S \in SUBSET Services : CallerClosed(S) => visited \subseteq S
  BY DEF SearchOK, BlastRadiusIsExact
<1>1. FoundIsNeeded /\ LeftIsExplored /\ queue = {}
  BY DEF SearchOK
<1>2. CallerClosed(visited)
  BY <1>1 DEF LeftIsExplored, CallerClosed
<1> QED
  BY <1>1, <1>2 DEF FoundIsNeeded

\* The variables keep their types, the search's queue included.
THEOREM TypeCorrect == DependenciesSpec => []TypeOK
<1>1. SearchOK => TypeOK
  BY DEF SearchOK
<1> QED
  BY <1>1, InitSearch, NextSearch, PTL DEF DependenciesSpec

\* The blast radius that computeBlastRadius returns holds every service that
\* transitively depends on the focal one, and no other, for every graph.
THEOREM BlastRadiusExact == DependenciesSpec => []BlastRadiusIsExact
  BY InitSearch, NextSearch, SearchIsExact, PTL DEF DependenciesSpec

=============================================================================
