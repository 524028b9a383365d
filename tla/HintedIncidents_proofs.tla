----------------------- MODULE HintedIncidents_proofs -----------------------
(***************************************************************************)
(* The properties of HintedIncidents, for any signals and deployments, in  *)
(* any number and order.                                                   *)
(*                                                                         *)
(* The argument: the groups of the report are the windows of the accepted  *)
(* signals, each with the signals of its window, so that the first group   *)
(* of a kind is where the first signal of that kind is; and a signal of a  *)
(* later window leaves those groups, and the first of them, as they were.  *)
(***************************************************************************)
EXTENDS HintedIncidents, FoldTheorems

Groups == analysis.report.groups

Suspect == analysis.deployments.suspect

\* The inductive invariant: what is kept is the analysis of what was observed.
HintsOK ==
    /\ observed \in Seq(Signals) /\ deployed \in Seq(Deployments)
    /\ signals = Accepted(<<observed>>, Query)
    /\ analysis = Analysed(observed, deployed)
    /\ hints = Hints(analysis)

-----------------------------------------------------------------------------
(* The signals accepted.                                                   *)

\* The positions of the signals of s that are accepted.
Kept(s) ==
    {k \in 1..Len(s) :
        /\ Matches(Query, s[k])
        /\ ~ \E j \in 1..(k - 1) :
                /\ Matches(Query, s[j])
                /\ SignalFingerprint(s[j]) = SignalFingerprint(s[k])}

LEMMA AcceptedKept ==
    ASSUME NEW s \in Seq(Signals)
    PROVE  /\ Accepted(<<s>>, Query) = {s[k] : k \in Kept(s)}
           /\ Accepted(<<s>>, Query) \in SUBSET Signals
           /\ IsFiniteSet(Accepted(<<s>>, Query))
<1>1. FlattenSeq(<<s>>) = s /\ DOMAIN s = 1..Len(s) /\ Len(s) \in Nat
  BY FlattenOne
<1>2. Accepted(<<s>>, Query) = {s[k] : k \in Kept(s)}
  BY <1>1 DEF Accepted, Kept
<1>3. Kept(s) \in SUBSET (1..Len(s))
  BY DEF Kept
<1>4. IsFiniteSet(Kept(s))
  <2>1. IsFiniteSet(1..Len(s))
    BY <1>1, FS_Interval
  <2> QED
    BY <1>3, <2>1, FS_Subset
<1>5. {s[k] : k \in Kept(s)} \in SUBSET Signals
  BY <1>3
<1>6. IsFiniteSet({s[k] : k \in Kept(s)})
  BY <1>4, ImageCardinality
<1> QED
  BY <1>2, <1>5, <1>6

\* One signal more: it is accepted or not, and changes nothing else.
LEMMA AcceptedAppend ==
    ASSUME NEW s \in Seq(Signals), NEW sig \in Signals
    PROVE  Accepted(<<Append(s, sig)>>, Query)
               \in {Accepted(<<s>>, Query), Accepted(<<s>>, Query) \cup {sig}}
<1> DEFINE t == Append(s, sig)
           n == Len(s)
<1>1. t \in Seq(Signals) /\ n \in Nat /\ Len(t) = n + 1 /\ t[n + 1] = sig
  OBVIOUS
<1>2. \A k \in 1..n : t[k] = s[k]
  OBVIOUS
<1> HIDE DEF t, n
<1>3. ASSUME NEW k \in 1..n PROVE k \in Kept(t) <=> k \in Kept(s)
  <2>1. \A j \in 1..(k - 1) : j \in 1..n /\ t[j] = s[j]
    BY <1>1, <1>2, <1>3
  <2>2. k \in 1..(n + 1) /\ t[k] = s[k]
    BY <1>1, <1>2, <1>3
  <2> QED
    BY <1>1, <2>1, <2>2 DEF Kept, n
<1>4. Kept(t) \in {Kept(s), Kept(s) \cup {n + 1}}
  <2>1. Kept(t) \subseteq 1..(n + 1) /\ Kept(s) \subseteq 1..n
    BY <1>1 DEF Kept, n
  <2>2. 1..(n + 1) = 1..n \cup {n + 1} /\ n + 1 \notin 1..n
    BY <1>1
  <2> QED
    BY <1>3, <2>1, <2>2
<1>5. /\ Accepted(<<t>>, Query) = {t[k] : k \in Kept(t)}
      /\ Accepted(<<s>>, Query) = {s[k] : k \in Kept(s)}
  BY <1>1, AcceptedKept
<1>6. {t[k] : k \in Kept(s)} = {s[k] : k \in Kept(s)}
  BY <1>2 DEF Kept, n
<1>7. CASE Kept(t) = Kept(s)
  BY <1>5, <1>6, <1>7 DEF t
<1>8. CASE Kept(t) = Kept(s) \cup {n + 1}
  <2>1. {t[k] : k \in Kept(t)} = {t[k] : k \in Kept(s)} \cup {sig}
    BY <1>1, <1>8
  <2> QED
    BY <1>5, <1>6, <2>1 DEF t
<1> QED
  BY <1>4, <1>7, <1>8

-----------------------------------------------------------------------------
(* The groups.                                                             *)

Starts(A) == {WindowStart(sig.ts) : sig \in A}

Part(A, w) == {sig \in A : WindowStart(sig.ts) = w}

\* A signal is in the window that begins at its start.
LEMMA InItsWindow ==
    ASSUME NEW sig \in Signals
    PROVE  /\ sig.ts \in Nat /\ WindowStart(sig.ts) \in Int
           /\ WindowStart(sig.ts) <= sig.ts
           /\ sig.ts < WindowStart(sig.ts) + Window
<1>1. sig.ts \in Nat /\ Window \in Nat \ {0}
  BY SignalsAssumption, TimeAssumption DEF IsSignal
<1>2. sig.ts % Window \in 0..(Window - 1)
  BY <1>1
<1> QED
  BY <1>1, <1>2 DEF WindowStart

\* The groups are one for each window with a signal.
LEMMA GroupsAreWindows ==
    ASSUME NEW A \in SUBSET Signals, IsFiniteSet(A)
    PROVE  /\ BuildGroups(A) = {Group(w, Part(A, w)) : w \in Starts(A)}
           /\ {g.start : g \in BuildGroups(A)} = Starts(A)
           /\ \A g \in BuildGroups(A) :
                  /\ g = Group(g.start, Part(A, g.start))
                  /\ g.start \in Starts(A) /\ g.start \in Int
           /\ IsFiniteSet(BuildGroups(A))
           /\ BuildGroups(A) = {} <=> A = {}
<1>1. BuildGroups(A) = {Group(w, Part(A, w)) : w \in Starts(A)}
  BY DEF BuildGroups, Part, Starts
<1>2. \A w : Group(w, Part(A, w)).start = w
  BY DEF Group
<1>3. \A w \in Starts(A) : w \in Int
  BY InItsWindow DEF Starts
<1>4. {g.start : g \in BuildGroups(A)} = Starts(A)
  BY <1>1, <1>2
<1>5. ASSUME NEW g \in BuildGroups(A)
      PROVE  g = Group(g.start, Part(A, g.start)) /\ g.start \in Starts(A)
  BY <1>1, <1>2
<1>6. IsFiniteSet(BuildGroups(A))
  <2> DEFINE h == [w \in Starts(A) |-> Group(w, Part(A, w))]
             k == [sig \in A |-> WindowStart(sig.ts)]
  <2>1. BuildGroups(A) = {h[w] : w \in Starts(A)} /\ Starts(A) = {k[sig] : sig \in A}
    BY <1>1 DEF Starts
  <2> HIDE DEF h, k
  <2>2. IsFiniteSet(Starts(A))
    BY <2>1, ImageCardinality
  <2> QED
    BY <2>1, <2>2, ImageCardinality
<1>7. BuildGroups(A) = {} <=> A = {}
  BY <1>1 DEF Starts
<1> QED
  BY <1>1, <1>3, <1>4, <1>5, <1>6, <1>7

\* Groups that are not none have a first, and it is the only one there.
LEMMA EarliestIsFirst ==
    ASSUME NEW A \in SUBSET Signals, IsFiniteSet(A), NEW G \in SUBSET BuildGroups(A), G # {}
    PROVE  /\ Earliest(G) \in G
           /\ \A g \in G : Earliest(G).start <= g.start
           /\ \A g \in G : g.start <= Earliest(G).start => g = Earliest(G)
<1> DEFINE f == [g \in G |-> g.start]
<1>1. \A g \in BuildGroups(A) : g = Group(g.start, Part(A, g.start)) /\ g.start \in Int
  BY GroupsAreWindows
<1>2. IsFiniteSet(G) /\ \A g \in G : f[g] \in Int
  BY <1>1, GroupsAreWindows, FS_Subset
<1>3. \E g \in G : \A h \in G : f[g] <= f[h]
  <2> HIDE DEF f
  <2> QED
    BY <1>2, LeastValue
<1>4. \E g \in G : \A h \in G : g.start <= h.start
  BY <1>3
<1>5. Earliest(G) \in G /\ \A g \in G : Earliest(G).start <= g.start
  BY <1>4 DEF Earliest
<1>6. ASSUME NEW g \in G, g.start <= Earliest(G).start PROVE g = Earliest(G)
  <2>1. g.start = Earliest(G).start
    BY <1>1, <1>5, <1>6
  <2> QED
    BY <1>1, <1>5, <2>1
<1> QED
  BY <1>5, <1>6

\* The first group starts at the first start.
LEMMA FirstStart ==
    ASSUME NEW A \in SUBSET Signals, IsFiniteSet(A), A # {}
    PROVE  /\ Min({g.start : g \in BuildGroups(A)}) = Earliest(BuildGroups(A)).start
           /\ Min(Starts(A)) = Earliest(BuildGroups(A)).start
           /\ Earliest(BuildGroups(A)).start \in Int
           /\ \A sig \in A : Earliest(BuildGroups(A)).start <= sig.ts
           /\ \E sig \in A : sig.ts < Earliest(BuildGroups(A)).start + Window
<1> DEFINE first == Earliest(BuildGroups(A)).start
<1>1. /\ Earliest(BuildGroups(A)) \in BuildGroups(A)
      /\ \A g \in BuildGroups(A) : first <= g.start
  BY GroupsAreWindows, EarliestIsFirst
<1>2. /\ {g.start : g \in BuildGroups(A)} = Starts(A)
      /\ \A g \in BuildGroups(A) : g.start \in Starts(A) /\ g.start \in Int
  BY GroupsAreWindows
<1>3. first \in Starts(A) /\ first \in Int /\ \A w \in Starts(A) : first <= w /\ w \in Int
  BY <1>1, <1>2
<1> HIDE DEF first
<1>4. Min(Starts(A)) = first
  <2>1. \A w \in Starts(A) : (\A v \in Starts(A) : w <= v) => w = first
    BY <1>3
  <2> QED
    BY <1>3, <2>1 DEF Min
<1>5. ASSUME NEW sig \in A PROVE first <= sig.ts
  <2>1. first <= WindowStart(sig.ts)
    BY <1>3, <1>5 DEF Starts
  <2> QED
    BY <1>3, <2>1, InItsWindow
<1>6. \E sig \in A : sig.ts < first + Window
  <2>1. PICK sig \in A : first = WindowStart(sig.ts)
    BY <1>3 DEF Starts
  <2> QED
    BY <2>1, InItsWindow
<1> QED
  BY <1>2, <1>3, <1>4, <1>5, <1>6 DEF first

-----------------------------------------------------------------------------
(* The invariant, and what it says of the groups and the suspects.         *)

\* A report has the groups of the signals accepted.
LEMMA AnalysedParts ==
    ASSUME NEW obs, NEW deps
    PROVE  /\ Analysed(obs, deps).report.groups = BuildGroups(Accepted(<<obs>>, Query))
           /\ Analysed(obs, deps).deployments
                  = Correlate(BuildGroups(Accepted(<<obs>>, Query)), deps)
  BY DEF Analysed, Report

\* The suspects are the deployments that began within the suspect window
\* before the first group.
LEMMA SuspectsAre ==
    ASSUME NEW A \in SUBSET Signals, IsFiniteSet(A), NEW deps \in Seq(Deployments)
    PROVE  /\ Correlate(BuildGroups(A), deps).suspect \in Seq(Deployments)
           /\ ToSet(Correlate(BuildGroups(A), deps).suspect) =
                  {d \in ToSet(deps) :
                      /\ A # {}
                      /\ Earliest(BuildGroups(A)).start - d.startedAt \in 0..SuspectWindow}
<1> DEFINE groups == BuildGroups(A)
           first == Min({g.start : g \in groups})
           Close == {d \in ToSet(deps) : first - d.startedAt \in 0..SuspectWindow}
           suspect == Correlate(groups, deps).suspect
<1>1. groups = {} <=> A = {}
  BY GroupsAreWindows
<1>2. A # {} => first = Earliest(groups).start
  BY FirstStart
<1>3. CASE deps = <<>> \/ groups = {}
  <2>1. suspect = <<>>
    BY <1>3 DEF Correlate, NoContext, Suspects
  <2>2. ToSet(suspect) = {}
    BY <2>1 DEF ToSet
  <2>3. deps = <<>> => ToSet(deps) = {}
    BY DEF ToSet
  <2> QED
    BY <1>1, <1>3, <2>1, <2>2, <2>3
<1>4. CASE deps # <<>> /\ groups # {}
  <2>1. suspect = Among(deps, Close)
    BY <1>4 DEF Correlate, Suspects
  <2> HIDE DEF Close, suspect
  <2>2. suspect \in Seq(Deployments) /\ ToSet(suspect) = ToSet(deps) \cap Close
    BY <2>1, AmongElements
  <2>3. ToSet(suspect) = {d \in ToSet(deps) :
                             A # {} /\ Earliest(groups).start - d.startedAt \in 0..SuspectWindow}
    BY <1>1, <1>2, <1>4, <2>2 DEF Close
  <2> QED
    BY <2>2, <2>3 DEF suspect
<1> QED
  BY <1>3, <1>4

\* What the invariant says, unfolded.
LEMMA WhatIsKept ==
    ASSUME HintsOK
    PROVE  /\ signals \in SUBSET Signals /\ IsFiniteSet(signals)
           /\ Groups = BuildGroups(signals)
           /\ Suspect \in Seq(Deployments)
           /\ ToSet(Suspect) =
                  {d \in ToSet(deployed) :
                      /\ signals # {}
                      /\ Earliest(Groups).start - d.startedAt \in 0..SuspectWindow}
           /\ ToSet(deployed) \subseteq Deployments
<1>1. /\ observed \in Seq(Signals) /\ deployed \in Seq(Deployments)
      /\ signals = Accepted(<<observed>>, Query) /\ analysis = Analysed(observed, deployed)
  BY DEF HintsOK
<1>2. signals \in SUBSET Signals /\ IsFiniteSet(signals)
  BY <1>1, AcceptedKept
<1>3. /\ Groups = BuildGroups(signals)
      /\ Suspect = Correlate(BuildGroups(signals), deployed).suspect
  BY <1>1, AnalysedParts DEF Groups, Suspect
<1>4. ToSet(deployed) \subseteq Deployments
  BY <1>1 DEF ToSet
<1> QED
  BY <1>1, <1>2, <1>3, <1>4, SuspectsAre

\* It holds at the start and is kept.
LEMMA HintsInductive ==
    /\ Init => HintsOK
    /\ HintsOK /\ [Next]_vars => HintsOK'
<1>1. ASSUME Init PROVE HintsOK
  <2>1. observed = <<>> /\ deployed = <<>> /\ signals = {} /\ hints = {}
        /\ analysis = Analysed(<<>>, <<>>)
    BY <1>1 DEF Init
  <2>2. Accepted(<< <<>> >>, Query) = {}
    <3>1. Kept(<<>>) = {}
      BY DEF Kept
    <3>2. <<>> \in Seq(Signals)
      OBVIOUS
    <3> QED
      BY <3>1, <3>2, AcceptedKept
  <2>3. analysis.report.groups = {}
    BY <2>1, <2>2, AnalysedParts DEF BuildGroups
  <2>4. Hints(analysis) = {}
    BY <2>3 DEF Hints, DeploymentTriggered, DatabaseLatency, InfraDegradation, FirstPrecedes
  <2> QED
    BY <2>1, <2>2, <2>4 DEF HintsOK
<1>2. ASSUME HintsOK, [Next]_vars PROVE HintsOK'
  <2>0. observed \in Seq(Signals) /\ deployed \in Seq(Deployments)
    BY <1>2 DEF HintsOK
  <2>1. ASSUME NEW sig \in Signals, Observe(sig) PROVE HintsOK'
    <3>1. observed' = Append(observed, sig) /\ deployed' = deployed /\ Analyse
      BY <2>1 DEF Observe
    <3>2. observed' \in Seq(Signals) /\ deployed' \in Seq(Deployments)
      BY <2>0, <3>1
    <3> QED
      BY <3>1, <3>2 DEF HintsOK, Analyse
  <2>2. ASSUME NEW d \in Deployments, Deploy(d) PROVE HintsOK'
    <3>1. deployed' = Append(deployed, d) /\ observed' = observed /\ Analyse
      BY <2>2 DEF Deploy
    <3>2. observed' \in Seq(Signals) /\ deployed' \in Seq(Deployments)
      BY <2>0, <3>1
    <3> QED
      BY <3>1, <3>2 DEF HintsOK, Analyse
  <2>3. ASSUME UNCHANGED vars PROVE HintsOK'
    BY <1>2, <2>3 DEF HintsOK, vars
  <2> QED
    BY <1>2, <2>1, <2>2, <2>3 DEF Next
<1> QED
  BY <1>1, <1>2

LEMMA HintsAlwaysOK == Spec => []HintsOK
  BY HintsInductive, PTL DEF Spec

-----------------------------------------------------------------------------
(* The deployments.                                                        *)

LEMMA SuspectsPrecede == HintsOK => SuspectsPrecedeTheIncident
<1> SUFFICES ASSUME HintsOK, NEW d \in ToSet(Suspect)
             PROVE  /\ \A sig \in signals : d.startedAt <= sig.ts
                    /\ \E sig \in signals : sig.ts < d.startedAt + SuspectWindow + Window
  BY DEF SuspectsPrecedeTheIncident, Suspect
<1> DEFINE first == Earliest(Groups).start
<1>1. /\ signals \in SUBSET Signals /\ IsFiniteSet(signals) /\ Groups = BuildGroups(signals)
      /\ signals # {} /\ first - d.startedAt \in 0..SuspectWindow /\ d \in Deployments
  BY WhatIsKept
<1>2. /\ first \in Int /\ \A sig \in signals : first <= sig.ts
      /\ \E sig \in signals : sig.ts < first + Window
  BY <1>1, FirstStart
<1>3. d.startedAt \in Int /\ SuspectWindow \in Nat /\ Window \in Nat
      /\ \A sig \in signals : sig.ts \in Nat
  BY <1>1, DeploymentsAssumption, LookbackAssumption, TimeAssumption, InItsWindow
<1>4. d.startedAt <= first /\ first <= d.startedAt + SuspectWindow
  BY <1>1, <1>2, <1>3
<1> HIDE DEF first
<1>5. \A sig \in signals : d.startedAt <= sig.ts
  BY <1>2, <1>3, <1>4
<1>6. PICK sig \in signals : sig.ts < first + Window
  BY <1>2
<1>7. sig.ts < d.startedAt + SuspectWindow + Window
  BY <1>2, <1>3, <1>4, <1>6
<1> QED
  BY <1>5, <1>6, <1>7

\* A suspect never began after a signal of the incident, nor long before all
\* of them (analyzeincident/service.go 226-246), however many signals and
\* deployments there are.
THEOREM SuspectsBeforeSignals == Spec => []SuspectsPrecedeTheIncident
  BY HintsAlwaysOK, SuspectsPrecede, PTL

\* The suspects that began before the first group.
Guilty ==
    Among(Suspect, {d \in ToSet(Suspect) : d.startedAt < Earliest(Groups).start})

\* The deployment hint of an analysis.
LEMMA DeploymentHint ==
    ASSUME HintsOK
    PROVE  {h \in hints : h.rule = "deployment_triggered"} =
               IF Groups = {} \/ Guilty = <<>> THEN {}
               ELSE {[rule |-> "deployment_triggered", blames |-> Head(Guilty)]}
<1>1. hints = DeploymentTriggered(analysis) \cup DatabaseLatency(analysis)
                  \cup InfraDegradation(analysis)
  BY DEF HintsOK, Hints
<1>2. \A h \in DatabaseLatency(analysis) \cup InfraDegradation(analysis) :
          h.rule # "deployment_triggered"
  BY DEF DatabaseLatency, InfraDegradation
<1>3. DeploymentTriggered(analysis) =
          IF Groups = {} \/ Guilty = <<>> THEN {}
          ELSE {[rule |-> "deployment_triggered", blames |-> Head(Guilty)]}
  BY DEF DeploymentTriggered, Guilty, Groups, Suspect
<1>4. \A h \in DeploymentTriggered(analysis) : h.rule = "deployment_triggered"
  BY DEF DeploymentTriggered
<1> QED
  BY <1>1, <1>2, <1>3, <1>4

LEMMA HintJustified == HintsOK => DeploymentHintIsJustified
<1> SUFFICES ASSUME HintsOK PROVE DeploymentHintIsJustified
  OBVIOUS
<1> DEFINE start == Min({WindowStart(sig.ts) : sig \in signals})
           IsGuilty(d) == /\ signals # {}
                          /\ d.startedAt < start /\ start <= d.startedAt + SuspectWindow
           Sure == {d \in ToSet(Suspect) : d.startedAt < Earliest(Groups).start}
<1>1. /\ signals \in SUBSET Signals /\ IsFiniteSet(signals) /\ Groups = BuildGroups(signals)
      /\ Suspect \in Seq(Deployments) /\ ToSet(deployed) \subseteq Deployments
      /\ ToSet(Suspect) = {d \in ToSet(deployed) :
             signals # {} /\ Earliest(Groups).start - d.startedAt \in 0..SuspectWindow}
  BY WhatIsKept
<1>2. signals # {} => start = Earliest(Groups).start /\ start \in Int
  BY <1>1, FirstStart DEF Starts
<1>3. Groups = {} <=> signals = {}
  BY <1>1, GroupsAreWindows
<1> HIDE DEF start
<1>4. ASSUME NEW d \in ToSet(deployed) PROVE d \in Sure <=> IsGuilty(d)
  <2>1. d.startedAt \in Int /\ SuspectWindow \in Nat
    BY <1>1, <1>4, DeploymentsAssumption, LookbackAssumption
  <2>2. CASE signals = {}
    BY <1>1, <2>2
  <2>3. CASE signals # {}
    <3>1. d \in Sure <=> start - d.startedAt \in 0..SuspectWindow /\ d.startedAt < start
      BY <1>1, <1>2, <1>4, <2>3
    <3>2. start \in Int
      BY <1>2, <2>3
    <3>3. start - d.startedAt \in 0..SuspectWindow /\ d.startedAt < start
            <=> d.startedAt < start /\ start <= d.startedAt + SuspectWindow
      BY <2>1, <3>2
    <3> QED
      BY <2>3, <3>1, <3>3
  <2> QED
    BY <2>2, <2>3
<1>5. Sure \subseteq ToSet(deployed)
  BY <1>1
<1>6. Guilty \in Seq(Deployments) /\ ToSet(Guilty) = Sure
  <2> HIDE DEF Sure
  <2>1. Guilty = Among(Suspect, Sure)
    BY DEF Guilty, Sure
  <2>2. Guilty \in Seq(Deployments) /\ ToSet(Guilty) = ToSet(Suspect) \cap Sure
    BY <1>1, <2>1, AmongElements
  <2> QED
    BY <2>2 DEF Sure
<1> HIDE DEF Sure
<1>7. Guilty = <<>> <=> Sure = {}
  BY SMTT(30), <1>6 DEF ToSet
<1>8. Guilty # <<>> => Head(Guilty) \in Sure
  BY <1>6 DEF ToSet
<1>9. {h \in hints : h.rule = "deployment_triggered"} =
          IF Groups = {} \/ Guilty = <<>> THEN {}
          ELSE {[rule |-> "deployment_triggered", blames |-> Head(Guilty)]}
  BY DeploymentHint
<1>10. "deployment_triggered" \in Rules <=> \E d \in ToSet(deployed) : IsGuilty(d)
  <2>1. "deployment_triggered" \in Rules
          <=> {h \in hints : h.rule = "deployment_triggered"} # {}
    BY DEF Rules
  <2>2. {h \in hints : h.rule = "deployment_triggered"} # {}
          <=> Groups # {} /\ Sure # {}
    BY <1>7, <1>9
  <2>3. Sure # {} <=> \E d \in ToSet(deployed) : IsGuilty(d)
    BY <1>4, <1>5
  <2> QED
    BY <1>3, <2>1, <2>2, <2>3
<1>11. ASSUME NEW h \in hints, h.rule = "deployment_triggered" PROVE IsGuilty(h.blames)
  <2>1. h = [rule |-> "deployment_triggered", blames |-> Head(Guilty)] /\ Guilty # <<>>
    BY <1>9, <1>11
  <2> QED
    BY <1>4, <1>5, <1>8, <2>1
<1> QED
  BY <1>10, <1>11 DEF DeploymentHintIsJustified, start

\* The deployment hint is given exactly when a deployment began within the
\* suspect window before the first group, and blames such a one (causal hints
\* 44-63), for any number of signals and deployments.
THEOREM DeploymentHintExact == Spec => []DeploymentHintIsJustified
  BY HintsAlwaysOK, HintJustified, PTL

-----------------------------------------------------------------------------
(* The order of the windows.                                               *)

\* A type that a group has is that of one of its signals.
LEMMA TypeWitness ==
    ASSUME NEW A \in SUBSET Signals, IsFiniteSet(A), NEW g \in BuildGroups(A),
           NEW type, HasType(g, type)
    PROVE  \E sig \in A : sig.type = type /\ WindowStart(sig.ts) = g.start
<1>1. g = Group(g.start, Part(A, g.start))
  BY GroupsAreWindows
<1>2. g.entries = Deduplicate(Part(A, g.start))
  BY <1>1 DEF Group
<1>3. PICK e \in Deduplicate(Part(A, g.start)) : e.signal.type = type
  BY <1>2 DEF HasType
<1> DEFINE Entry(same) == [signal |-> CHOOSE t \in same : \A u \in same : t.ts <= u.ts,
                          count |-> Cardinality(same)]
<1>4. PICK s \in Part(A, g.start) :
          e = Entry({u \in Part(A, g.start) : DedupKey(u) = DedupKey(s)})
  BY <1>3 DEF Deduplicate
<1> DEFINE same == {u \in Part(A, g.start) : DedupKey(u) = DedupKey(s)}
           f == [u \in same |-> u.ts]
<1>5. same \in SUBSET A /\ same # {} /\ same \subseteq Part(A, g.start)
  BY DEF Part
<1>6. \A u \in same : f[u] \in Int
  BY <1>5, InItsWindow
<1>7. IsFiniteSet(same)
  BY <1>5, FS_Subset
<1>8. \E t \in same : \A u \in same : f[t] <= f[u]
  <2> HIDE DEF f, same
  <2> QED
    BY <1>5, <1>6, <1>7, LeastValue
<1>9. \E t \in same : \A u \in same : t.ts <= u.ts
  BY <1>8
<1>10. e.signal \in same
  BY <1>4, <1>9
<1> QED
  BY <1>3, <1>5, <1>10 DEF Part

\* A service of a group is that of one of its signals, but for the spelling.
LEMMA ServiceWitness ==
    ASSUME NEW A \in SUBSET Signals, IsFiniteSet(A), NEW g \in BuildGroups(A),
           NEW name \in g.services
    PROVE  \E sig \in A : sig.service.text = name.text /\ WindowStart(sig.ts) = g.start
<1>1. g = Group(g.start, Part(A, g.start))
  BY GroupsAreWindows
<1>2. g.services = ServicesLabel(Part(A, g.start))
  BY <1>1 DEF Group
<1>3. PICK s \in Part(A, g.start) :
          LET same == {u \in Part(A, g.start) : Canonical(u.service) = Canonical(s.service)}
          IN  name = Trim((CHOOSE t \in same : \A u \in same :
                              \/ t.ts < u.ts
                              \/ t.ts = u.ts /\ Spelling(t.service) <= Spelling(u.service)).service)
  BY <1>2 DEF ServicesLabel
<1> DEFINE same == {u \in Part(A, g.start) : Canonical(u.service) = Canonical(s.service)}
           f == [u \in same |-> 4 * u.ts + Spelling(u.service)]
           Leads(t, u) == \/ t.ts < u.ts
                          \/ t.ts = u.ts /\ Spelling(t.service) <= Spelling(u.service)
<1>4. same \in SUBSET A /\ same # {} /\ same \subseteq Part(A, g.start)
  BY DEF Part
<1>5. \A u \in same : u.ts \in Nat /\ Spelling(u.service) \in 0..3
  BY <1>4, InItsWindow DEF Spelling
<1>6. \A u \in same : f[u] \in Int
  BY <1>5
<1>7. IsFiniteSet(same)
  BY <1>4, FS_Subset
<1>8. PICK t \in same : \A u \in same : f[t] <= f[u]
  <2> HIDE DEF f, same
  <2> QED
    BY <1>4, <1>6, <1>7, LeastValue
<1>9. ASSUME NEW u \in same PROVE Leads(t, u)
  <2>1. 4 * t.ts + Spelling(t.service) <= 4 * u.ts + Spelling(u.service)
    BY <1>8
  <2> QED
    BY <1>5, <2>1
<1> DEFINE first == CHOOSE v \in same : \A u \in same : Leads(v, u)
<1>10. first \in same
  BY <1>9
<1>11. name = Trim(first.service)
  BY <1>3
<1> HIDE DEF first
<1>12. first \in A /\ first.service.text = name.text
  <2>1. IsName(first.service)
    BY <1>4, <1>10, SignalsAssumption DEF IsSignal
  <2> QED
    BY <1>4, <1>10, <1>11, <2>1 DEF IsName, Trim
<1> QED
  BY <1>4, <1>10, <1>12 DEF Part

\* If causes come first, a signal of the first cause is in an earlier window
\* than a signal of the first effect.
LEMMA FirstWitnesses ==
    ASSUME NEW A \in SUBSET Signals, IsFiniteSet(A),
           NEW C \in SUBSET BuildGroups(A), NEW E \in SUBSET BuildGroups(A),
           FirstPrecedes(C, E)
    PROVE  /\ Earliest(C) \in C /\ Earliest(E) \in E
           /\ Earliest(C).start < Earliest(E).start
<1>1. C # {} /\ E # {} /\ Earliest(C).start < Earliest(E).start
  BY DEF FirstPrecedes
<1> QED
  BY <1>1, EarliestIsFirst

LEMMA HintsWitnessed == HintsOK => HintsHaveWitnesses
<1> SUFFICES ASSUME HintsOK PROVE HintsHaveWitnesses
  OBVIOUS
<1>1. signals \in SUBSET Signals /\ IsFiniteSet(signals) /\ Groups = BuildGroups(signals)
  BY WhatIsKept
<1>2. hints = DeploymentTriggered(analysis) \cup DatabaseLatency(analysis)
                  \cup InfraDegradation(analysis)
  BY DEF HintsOK, Hints
<1>3. ASSUME "infra_degradation_before_service_instability" \in Rules
      PROVE  \E m, l \in signals : m.type = "metric" /\ l.type = "log" /\ Before(m, l)
  <2> DEFINE C == {g \in Groups : HasType(g, "metric")}
             E == {g \in Groups : HasType(g, "log")}
  <2>1. PICK h \in hints : h.rule = "infra_degradation_before_service_instability"
    BY <1>3 DEF Rules
  <2>2. h \in InfraDegradation(analysis)
    BY <1>2, <2>1 DEF DeploymentTriggered, DatabaseLatency
  <2>3. FirstPrecedes(C, E)
    BY <2>2 DEF InfraDegradation, Groups
  <2>4. C \in SUBSET BuildGroups(signals) /\ E \in SUBSET BuildGroups(signals)
    BY <1>1
  <2>5. Earliest(C) \in C /\ Earliest(E) \in E /\ Earliest(C).start < Earliest(E).start
    <3> HIDE DEF C, E
    <3> QED
      BY <1>1, <2>3, <2>4, FirstWitnesses
  <2>6. PICK m \in signals : m.type = "metric" /\ WindowStart(m.ts) = Earliest(C).start
    <3>1. Earliest(C) \in BuildGroups(signals) /\ HasType(Earliest(C), "metric")
      BY <2>4, <2>5
    <3> HIDE DEF C
    <3>2. \E sig \in signals : sig.type = "metric" /\ WindowStart(sig.ts) = Earliest(C).start
      BY <1>1, <3>1, TypeWitness
    <3> QED
      BY <3>2
  <2>7. PICK l \in signals : l.type = "log" /\ WindowStart(l.ts) = Earliest(E).start
    <3>1. Earliest(E) \in BuildGroups(signals) /\ HasType(Earliest(E), "log")
      BY <2>4, <2>5
    <3> HIDE DEF E
    <3>2. \E sig \in signals : sig.type = "log" /\ WindowStart(sig.ts) = Earliest(E).start
      BY <1>1, <3>1, TypeWitness
    <3> QED
      BY <3>2
  <2> QED
    BY <2>5, <2>6, <2>7 DEF Before
<1>4. ASSUME "database_latency_before_api_failure" \in Rules
      PROVE  \E d, s \in signals :
                 /\ d.service.text \in DatabaseTexts /\ s.service.text \in APITexts
                 /\ Before(d, s)
  <2> DEFINE C == {g \in Groups : IsDatabase(g)}
             E == {g \in Groups : IsAPI(g)}
  <2>1. PICK h \in hints : h.rule = "database_latency_before_api_failure"
    BY <1>4 DEF Rules
  <2>2. h \in DatabaseLatency(analysis)
    BY <1>2, <2>1 DEF DeploymentTriggered, InfraDegradation
  <2>3. FirstPrecedes(C, E)
    BY <2>2 DEF DatabaseLatency, Groups
  <2>4. C \in SUBSET BuildGroups(signals) /\ E \in SUBSET BuildGroups(signals)
    BY <1>1
  <2>5. Earliest(C) \in C /\ Earliest(E) \in E /\ Earliest(C).start < Earliest(E).start
    <3> HIDE DEF C, E
    <3> QED
      BY <1>1, <2>3, <2>4, FirstWitnesses
  <2>6. PICK d \in signals :
            d.service.text \in DatabaseTexts /\ WindowStart(d.ts) = Earliest(C).start
    <3>1. PICK name \in Earliest(C).services : name.text \in DatabaseTexts
      BY <2>5 DEF IsDatabase
    <3>2. Earliest(C) \in BuildGroups(signals)
      BY <2>4, <2>5
    <3> QED
      BY <1>1, <3>1, <3>2, ServiceWitness
  <2>7. PICK s \in signals :
            s.service.text \in APITexts /\ WindowStart(s.ts) = Earliest(E).start
    <3>1. PICK name \in Earliest(E).services : name.text \in APITexts
      BY <2>5 DEF IsAPI
    <3>2. Earliest(E) \in BuildGroups(signals)
      BY <2>4, <2>5
    <3> QED
      BY <1>1, <3>1, <3>2, ServiceWitness
  <2> QED
    BY <2>5, <2>6, <2>7 DEF Before
<1> QED
  BY <1>3, <1>4 DEF HintsHaveWitnesses

\* A hint that one thing came before another can show a signal of each, in
\* windows of that order (causal hints 67-140), whatever was observed.
THEOREM OrderHintsWitnessed == Spec => []HintsHaveWitnesses
  BY HintsAlwaysOK, HintsWitnessed, PTL

-----------------------------------------------------------------------------
(* Later evidence.                                                         *)

\* A signal in a window after all others adds a group after all others, and
\* changes none of those.
LEMMA LaterGroup ==
    ASSUME NEW A \in SUBSET Signals, IsFiniteSet(A), NEW sig \in Signals,
           \A a \in A : WindowStart(a.ts) < WindowStart(sig.ts)
    PROVE  \E last : /\ BuildGroups(A \cup {sig}) = BuildGroups(A) \cup {last}
                     /\ last.start \in Int
                     /\ \A g \in BuildGroups(A) : g.start < last.start
<1> DEFINE B == A \cup {sig}
           w == WindowStart(sig.ts)
<1>1. B \in SUBSET Signals /\ IsFiniteSet(B)
  BY FS_AddElement
<1>2. /\ BuildGroups(A) = {Group(v, Part(A, v)) : v \in Starts(A)}
      /\ BuildGroups(B) = {Group(v, Part(B, v)) : v \in Starts(B)}
      /\ \A g \in BuildGroups(A) : g.start \in Starts(A)
  <2> HIDE DEF B
  <2> QED
    BY <1>1, GroupsAreWindows
<1>3. Starts(B) = Starts(A) \cup {w} /\ \A v \in Starts(A) : v < w
  BY DEF Starts
<1>4. ASSUME NEW v \in Starts(A) PROVE Part(B, v) = Part(A, v)
  <2>1. w \in Int /\ v \in Int /\ v # w
    BY <1>3, InItsWindow DEF Starts
  <2> QED
    BY <2>1 DEF Part
<1> DEFINE last == Group(w, Part(B, w))
<1>5. last.start = w /\ w \in Int
  BY InItsWindow DEF Group
<1> HIDE DEF B
<1>6. BuildGroups(B) = BuildGroups(A) \cup {last}
  BY <1>2, <1>3, <1>4
<1> QED
  BY <1>2, <1>3, <1>5, <1>6 DEF B

\* A group after all others is not the first of any kind that had a first.
LEMMA StaysFirst ==
    ASSUME NEW A \in SUBSET Signals, IsFiniteSet(A),
           NEW G \in SUBSET BuildGroups(A), G # {},
           NEW last, last.start \in Int, \A g \in BuildGroups(A) : g.start < last.start,
           NEW H, H \in {G, G \cup {last}}
    PROVE  Earliest(H) = Earliest(G)
<1> DEFINE e == Earliest(G)
<1>1. /\ e \in G /\ \A g \in G : e.start <= g.start
      /\ \A g \in G : g.start <= e.start => g = e
  BY EarliestIsFirst
<1>2. e.start < last.start /\ e.start \in Int /\ last.start \in Int
  BY <1>1, GroupsAreWindows
<1> HIDE DEF e
<1>3. CASE H = G
  BY <1>3 DEF e
<1>4. CASE H = G \cup {last}
  <2>0. \A g \in H : e.start <= g.start
    <3>1. e.start <= last.start
      BY <1>2
    <3> QED
      BY <1>1, <1>4, <3>1
  <2>1. \A g \in H : (\A h \in H : g.start <= h.start) => g = e
    <3> SUFFICES ASSUME NEW g \in H, \A h \in H : g.start <= h.start PROVE g = e
      OBVIOUS
    <3>1. g.start <= e.start
      BY <1>1, <1>4
    <3>2. g \in G
      <4>1. CASE g = last
        BY <1>2, <3>1, <4>1
      <4> QED
        BY <1>4, <4>1
    <3> QED
      BY <1>1, <3>1, <3>2
  <2>2. e \in H
    BY <1>1, <1>4
  <2> QED
    BY <2>0, <2>1, <2>2 DEF Earliest, e
<1> QED
  BY <1>3, <1>4

\* A signal of a later window retracts no hint.
LEMMA LaterSignal ==
    ASSUME HintsOK, HintsOK', NEW sig \in Signals, signals # {},
           observed' = Append(observed, sig), deployed' = deployed,
           \A a \in signals : WindowStart(a.ts) < WindowStart(sig.ts)
    PROVE  hints \subseteq hints'
<1>1. /\ signals \in SUBSET Signals /\ IsFiniteSet(signals) /\ Groups = BuildGroups(signals)
      /\ Groups' = BuildGroups(signals')
  <2>1. Groups' = BuildGroups(signals')
    <3>1. signals' = Accepted(<<observed'>>, Query) /\ analysis' = Analysed(observed', deployed')
      BY DEF HintsOK
    <3> QED
      BY <3>1, AnalysedParts DEF Groups
  <2> QED
    BY <2>1, WhatIsKept
<1>2. signals' \in {signals, signals \cup {sig}}
  <2>1. observed \in Seq(Signals) /\ signals = Accepted(<<observed>>, Query)
        /\ signals' = Accepted(<<Append(observed, sig)>>, Query)
    BY DEF HintsOK
  <2> QED
    BY <2>1, AcceptedAppend
<1>3. PICK last : /\ BuildGroups(signals \cup {sig}) = Groups \cup {last}
                  /\ last.start \in Int
                  /\ \A g \in Groups : g.start < last.start
  BY <1>1, LaterGroup
<1>4. Groups' \in {Groups, Groups \cup {last}}
  BY <1>1, <1>2, <1>3
<1>5. Groups # {} /\ Groups' # {} /\ Groups \in SUBSET BuildGroups(signals)
  <2>1. Groups # {}
    BY <1>1, GroupsAreWindows
  <2> QED
    BY <1>1, <1>4, <2>1
<1>6. Earliest(Groups') = Earliest(Groups)
  BY <1>1, <1>3, <1>4, <1>5, StaysFirst
<1>7. Suspect' = Suspect
  <2>1. /\ Suspect = Correlate(Groups, deployed).suspect
        /\ Suspect' = Correlate(Groups', deployed).suspect
    <3>1. /\ signals = Accepted(<<observed>>, Query) /\ analysis = Analysed(observed, deployed)
          /\ signals' = Accepted(<<observed'>>, Query)
          /\ analysis' = Analysed(observed', deployed')
      BY DEF HintsOK
    <3>2. Suspect = Correlate(Groups, deployed).suspect
      BY <3>1, AnalysedParts DEF Groups, Suspect
    <3>3. Suspect' = Correlate(Groups', deployed').suspect
      BY <3>1, AnalysedParts DEF Groups, Suspect
    <3> QED
      BY <3>2, <3>3
  <2>2. Min({g.start : g \in Groups}) = Earliest(Groups).start
    BY <1>1, FirstStart
  <2>3. Min({g.start : g \in Groups'}) = Earliest(Groups').start
    <3> DEFINE B == signals'
    <3>1. B \in SUBSET Signals /\ IsFiniteSet(B) /\ B # {} /\ Groups' = BuildGroups(B)
      BY <1>1, <1>2, FS_AddElement
    <3> HIDE DEF B
    <3> QED
      BY <3>1, FirstStart
  <2>4. Min({g.start : g \in Groups'}) = Min({g.start : g \in Groups})
    BY <1>6, <2>2, <2>3
  <2> QED
    BY <1>5, <2>1, <2>4 DEF Correlate, Suspects
<1>8. DeploymentTriggered(analysis) = DeploymentTriggered(analysis')
  BY <1>5, <1>6, <1>7 DEF DeploymentTriggered, Groups, Suspect
<1>9. DatabaseLatency(analysis) \subseteq DatabaseLatency(analysis')
  <2> DEFINE C == {g \in Groups : IsDatabase(g)}
             E == {g \in Groups : IsAPI(g)}
             D == {g \in Groups' : IsDatabase(g)}
             F == {g \in Groups' : IsAPI(g)}
  <2>1. /\ C \in SUBSET BuildGroups(signals) /\ E \in SUBSET BuildGroups(signals)
        /\ D \in {C, C \cup {last}} /\ F \in {E, E \cup {last}}
    BY <1>4, <1>5
  <2>2. /\ DatabaseLatency(analysis) =
              IF FirstPrecedes(C, E)
              THEN {[rule |-> "database_latency_before_api_failure",
                     blames |-> Earliest(C).services]}
              ELSE {}
        /\ DatabaseLatency(analysis') =
              IF FirstPrecedes(D, F)
              THEN {[rule |-> "database_latency_before_api_failure",
                     blames |-> Earliest(D).services]}
              ELSE {}
    BY DEF DatabaseLatency, Groups
  <2> HIDE DEF C, E, D, F
  <2>3. ASSUME FirstPrecedes(C, E)
        PROVE  FirstPrecedes(D, F) /\ Earliest(D) = Earliest(C)
    <3>1. /\ signals \in SUBSET Signals /\ IsFiniteSet(signals) /\ last.start \in Int
          /\ \A g \in BuildGroups(signals) : g.start < last.start
      BY <1>1, <1>3
    <3>2. C # {} /\ E # {} /\ Earliest(C).start < Earliest(E).start
      BY <2>3 DEF FirstPrecedes
    <3>3. Earliest(D) = Earliest(C)
      BY <2>1, <3>1, <3>2, StaysFirst
    <3>4. Earliest(F) = Earliest(E)
      BY <2>1, <3>1, <3>2, StaysFirst
    <3>5. D # {} /\ F # {}
      BY <2>1, <3>2
    <3> QED
      BY <3>2, <3>3, <3>4, <3>5 DEF FirstPrecedes
  <2> QED
    BY <2>2, <2>3
<1>10. InfraDegradation(analysis) \subseteq InfraDegradation(analysis')
  <2> DEFINE C == {g \in Groups : HasType(g, "metric")}
             E == {g \in Groups : HasType(g, "log")}
             D == {g \in Groups' : HasType(g, "metric")}
             F == {g \in Groups' : HasType(g, "log")}
  <2>1. /\ C \in SUBSET BuildGroups(signals) /\ E \in SUBSET BuildGroups(signals)
        /\ D \in {C, C \cup {last}} /\ F \in {E, E \cup {last}}
    BY <1>4, <1>5
  <2>2. /\ InfraDegradation(analysis) =
              IF FirstPrecedes(C, E) /\ Earliest(C).services # Earliest(E).services
              THEN {[rule |-> "infra_degradation_before_service_instability",
                     blames |-> Earliest(C).services]}
              ELSE {}
        /\ InfraDegradation(analysis') =
              IF FirstPrecedes(D, F) /\ Earliest(D).services # Earliest(F).services
              THEN {[rule |-> "infra_degradation_before_service_instability",
                     blames |-> Earliest(D).services]}
              ELSE {}
    BY DEF InfraDegradation, Groups
  <2> HIDE DEF C, E, D, F
  <2>3. ASSUME FirstPrecedes(C, E)
        PROVE  FirstPrecedes(D, F) /\ Earliest(D) = Earliest(C) /\ Earliest(F) = Earliest(E)
    <3>1. /\ signals \in SUBSET Signals /\ IsFiniteSet(signals) /\ last.start \in Int
          /\ \A g \in BuildGroups(signals) : g.start < last.start
      BY <1>1, <1>3
    <3>2. C # {} /\ E # {} /\ Earliest(C).start < Earliest(E).start
      BY <2>3 DEF FirstPrecedes
    <3>3. Earliest(D) = Earliest(C)
      BY <2>1, <3>1, <3>2, StaysFirst
    <3>4. Earliest(F) = Earliest(E)
      BY <2>1, <3>1, <3>2, StaysFirst
    <3>5. D # {} /\ F # {}
      BY <2>1, <3>2
    <3> QED
      BY <3>2, <3>3, <3>4, <3>5 DEF FirstPrecedes
  <2> QED
    BY <2>2, <2>3
<1>11. hints = Hints(analysis) /\ hints' = Hints(analysis')
  BY DEF HintsOK
<1> QED
  BY <1>8, <1>9, <1>10, <1>11 DEF Hints

\* What LaterEvidenceRetractsNothing says of a step.
Retracts ==
    /\ signals # {}
    /\ observed' # observed
    /\ \A sig \in signals : Before(sig, observed'[Len(observed')])
    /\ ~(hints \subseteq hints')

LEMMA StepRetractsNothing == HintsOK /\ HintsOK' /\ [Next]_vars => ~Retracts
<1> SUFFICES ASSUME HintsOK, HintsOK', [Next]_vars, Retracts PROVE FALSE
  OBVIOUS
<1>1. observed \in Seq(Signals)
  BY DEF HintsOK
<1>2. ASSUME NEW sig \in Signals, Observe(sig) PROVE FALSE
  <2>1. observed' = Append(observed, sig) /\ deployed' = deployed
    BY <1>2 DEF Observe
  <2>2. observed'[Len(observed')] = sig
    BY <1>1, <2>1
  <2>3. \A a \in signals : WindowStart(a.ts) < WindowStart(sig.ts)
    BY <2>2 DEF Retracts, Before
  <2> QED
    BY <2>1, <2>3, LaterSignal DEF Retracts
<1>3. ASSUME NEW d \in Deployments, Deploy(d) PROVE FALSE
  BY <1>3 DEF Deploy, Retracts
<1>4. ASSUME UNCHANGED vars PROVE FALSE
  BY <1>4 DEF vars, Retracts
<1> QED
  BY <1>2, <1>3, <1>4 DEF Next

\* Evidence from a window after all the others retracts no hint, for any
\* number of signals and deployments (causal hints 44-140).
THEOREM LaterEvidenceKeepsHints == Spec => LaterEvidenceRetractsNothing
<1>1. HintsOK /\ HintsOK' /\ [Next]_vars =>
          [(/\ signals # {}
            /\ observed' # observed
            /\ \A sig \in signals : Before(sig, observed'[Len(observed')]))
             => hints \subseteq hints']_vars
  BY StepRetractsNothing DEF Retracts
<1> QED
  BY <1>1, HintsAlwaysOK, PTL DEF Spec, LaterEvidenceRetractsNothing

=============================================================================
